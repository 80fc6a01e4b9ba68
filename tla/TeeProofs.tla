----------------------------- MODULE TeeProofs -----------------------------
(***************************************************************************)
(* Proofs about Tee.                                                       *)
(*                                                                         *)
(* What ReadableStreamProofs says of a stream is used twice: of the stream *)
(* that is read, and, as BP, of the branches.  TeeInvariant relates the    *)
(* two: where the controller of a branch can no longer be used, the branch *)
(* was canceled, both were ended by the tee, or nothing but failures will  *)
(* come from the stream.  It is followed through the middle of an action:  *)
(* the operations of Tee work on a record of both variables and of whether *)
(* an exception is passing through them.                                   *)
(***************************************************************************)
EXTENDS Tee, ReadableStreamProofs, FiniteSetTheorems

(* What is proved about streams, of the branches: the operations that B and   *)
(* BP name are the same.                                                      *)
BP == INSTANCE ReadableStreamProofs WITH HighWaterMark <- 1, MaxReads <- BranchReads

\* A branch is a stream with a high water mark of 1.
LEMMA BranchAssumption == BP!ReadableStreamAssumption
BY ReadableStreamAssumption, TeeAssumption DEF BP!ReadableStreamAssumption

\* The definitions of the two instances agree.
LEMMA SameTypes ==
    /\ B!Slots = BP!Slots /\ B!Assertions = BP!Assertions /\ B!Reads = BP!Reads
    /\ Assertions = BP!Assertions
BY DEF B!Slots, BP!Slots, B!Assertions, BP!Assertions, B!Reads, BP!Reads, Assertions

\* A branch is asked to pull as a stream is.
LEMMA SamePull ==
    ASSUME NEW s
    PROVE  B!CallPullIfNeeded(s) = BP!CallPullIfNeeded(s)
<1>1. B!QueueTotalSize(s) = BP!QueueTotalSize(s)
      BY DEF B!QueueTotalSize, BP!QueueTotalSize, B!FoldLeft, BP!FoldLeft,
             B!MapThenFoldSet, BP!MapThenFoldSet, B!Max, BP!Max
<1> QED BY <1>1 DEF B!CallPullIfNeeded, BP!CallPullIfNeeded, B!ShouldCallPull, BP!ShouldCallPull,
        B!HasRoom, BP!HasRoom, B!CanCloseOrEnqueue, BP!CanCloseOrEnqueue, B!Asserted, BP!Asserted

\* It ends as a stream does.
LEMMA SameEnds ==
    ASSUME NEW s
    PROVE  /\ B!CloseStream(s) = BP!CloseStream(s)
           /\ B!ControllerError(s) = BP!ControllerError(s)
           /\ B!ControllerClose(s) = BP!ControllerClose(s)
           /\ B!Cancel(s) = BP!Cancel(s)
<1>1. B!CloseStream(s) = BP!CloseStream(s)
      BY DEF B!CloseStream, BP!CloseStream, B!ClosedPromiseResolve, BP!ClosedPromiseResolve,
             B!Asserted, BP!Asserted, B!Reads, BP!Reads, B!Contains, BP!Contains
<1>2. ASSUME NEW t
      PROVE  B!ErrorStream(t) = BP!ErrorStream(t)
      BY DEF B!ErrorStream, BP!ErrorStream, B!ClosedPromiseReject, BP!ClosedPromiseReject,
             B!Asserted, BP!Asserted, B!Reads, BP!Reads, B!Contains, BP!Contains
<1>3. B!ControllerError(s) = BP!ControllerError(s)
      BY <1>2 DEF B!ControllerError, BP!ControllerError
<1>4. ASSUME NEW t
      PROVE  B!CloseStream(t) = BP!CloseStream(t)
      BY DEF B!CloseStream, BP!CloseStream, B!ClosedPromiseResolve, BP!ClosedPromiseResolve,
             B!Asserted, BP!Asserted, B!Reads, BP!Reads, B!Contains, BP!Contains
<1>5. B!ControllerClose(s) = BP!ControllerClose(s)
      BY <1>4 DEF B!ControllerClose, BP!ControllerClose
<1> QED BY <1>1, <1>3, <1>5 DEF B!Cancel, BP!Cancel

\* It is read as a stream is.
LEMMA SameReader ==
    ASSUME NEW s
    PROVE  /\ B!AcquireReader(s) = BP!AcquireReader(s)
           /\ B!CanRead(s) <=> BP!CanRead(s)
           /\ B!NextRead(s) = BP!NextRead(s)
           /\ B!Read(s) = BP!Read(s)
<1>1. B!NextRead(s) = BP!NextRead(s)
      BY DEF B!NextRead, BP!NextRead, B!Reads, BP!Reads
<1>2. B!AcquireReader(s) = BP!AcquireReader(s)
      BY DEF B!AcquireReader, BP!AcquireReader, B!InitialClosedPromise, BP!InitialClosedPromise
<1>3. B!CanRead(s) <=> BP!CanRead(s)
      BY DEF B!CanRead, BP!CanRead, B!Reads, BP!Reads
<1>4. ASSUME NEW i
      PROVE  B!PullSteps(s, i) = BP!PullSteps(s, i)
      BY SamePull, SameEnds DEF B!PullSteps, BP!PullSteps
<1>5. B!Read(s) = BP!Read(s)
      BY <1>1, <1>4 DEF B!Read, BP!Read
<1> QED BY <1>1, <1>2, <1>3, <1>5

\* What its source does is what the source of a stream does.
LEMMA SameSource ==
    ASSUME NEW s
    PROVE  /\ \A chunk, size : B!Enqueue(s, chunk, size) = BP!Enqueue(s, chunk, size)
           /\ B!FinishStart(s) = BP!FinishStart(s) /\ B!FinishPull(s) = BP!FinishPull(s)
           /\ B!FailPull(s) = BP!FailPull(s)
           /\ B!Settled(s, "pull") = BP!Settled(s, "pull")
<1>1. ASSUME NEW chunk, NEW size
      PROVE  B!Enqueue(s, chunk, size) = BP!Enqueue(s, chunk, size)
      BY SamePull DEF B!Enqueue, BP!Enqueue, B!EnqueueSized, BP!EnqueueSized,
         B!EnqueueToRequest, BP!EnqueueToRequest, B!FulfillReadRequest, BP!FulfillReadRequest,
         B!EnqueueThrows, BP!EnqueueThrows
<1>2. B!FinishStart(s) = BP!FinishStart(s)
      BY SamePull DEF B!FinishStart, BP!FinishStart, B!Settled, BP!Settled, B!Asserted, BP!Asserted
<1>3. B!FinishPull(s) = BP!FinishPull(s)
      BY SamePull DEF B!FinishPull, BP!FinishPull, B!Settled, BP!Settled
<1>4. B!FailPull(s) = BP!FailPull(s)
      BY SameEnds DEF B!FailPull, BP!FailPull, B!Settled, BP!Settled
<1> QED BY <1>1, <1>2, <1>3, <1>4 DEF B!Settled, BP!Settled

\* An operation on a branch gives a branch.
LEMMA BranchTypes ==
    ASSUME NEW b \in B!Slots
    PROVE  /\ B!AcquireReader(b) \in B!Slots /\ B!Cancel(b) \in B!Slots
           /\ B!ControllerError(b) \in B!Slots
           /\ b.state = "readable" => B!ControllerClose(b) \in B!Slots
           /\ \A chunk \in Chunks : B!Enqueue(b, chunk, 1) \in B!Slots
           /\ B!CanRead(b) => B!Read(b) \in B!Slots
           /\ B!FinishStart(b) \in B!Slots /\ B!FinishPull(b) \in B!Slots
           /\ B!FailPull(b) \in B!Slots /\ B!Settled(b, "pull") \in B!Slots
           /\ \A name \in Assertions : Asserted(b, name, FALSE) \in B!Slots
           /\ [b EXCEPT !.owing = FALSE, !.idle = FALSE] \in B!Slots
           /\ b.closeRequested \in BOOLEAN /\ b.state \in {"readable", "closed", "errored"}
           /\ b.keysMatch \in BOOLEAN
<1> USE BranchAssumption
<1>1. b \in BP!Slots
      BY SameTypes
<1>2. /\ BP!AcquireReader(b) \in BP!Slots /\ BP!Cancel(b) \in BP!Slots
      /\ BP!ControllerError(b) \in BP!Slots
      /\ b.state = "readable" => BP!ControllerClose(b) \in BP!Slots
      /\ \A chunk \in Chunks, size \in Nat : BP!Enqueue(b, chunk, size) \in BP!Slots
      /\ BP!NextRead(b) \in BP!Reads => BP!Read(b) \in BP!Slots
      /\ BP!FinishStart(b) \in BP!Slots /\ BP!FinishPull(b) \in BP!Slots
      /\ BP!FailPull(b) \in BP!Slots /\ BP!Settled(b, "pull") \in BP!Slots
      BY <1>1, BP!OperationTypes
<1>3. BP!CanRead(b) => BP!NextRead(b) \in BP!Reads
      BY BP!NextReadMade
<1>4. ASSUME NEW name \in Assertions
      PROVE  Asserted(b, name, FALSE) \in B!Slots
  <2> DEFINE failed == b.failed \cup {name}
  <2>1. Asserted(b, name, FALSE) = [b EXCEPT !.failed = failed]
        BY DEF Asserted
  <2>2. failed \in SUBSET BP!Assertions
    <3>1. b.failed \in SUBSET B!Assertions
          BY DEF B!Slots
    <3> QED BY <3>1, SameTypes
  <2> HIDE DEF failed
  <2>3. [b EXCEPT !.failed = failed] \in BP!Slots
        BY <1>1, <2>2, BP!HiddenFields
  <2> QED BY <2>1, <2>3, SameTypes
<1>5. [b EXCEPT !.owing = FALSE, !.idle = FALSE] \in B!Slots
      BY DEF B!Slots
<1>6. /\ b.closeRequested \in BOOLEAN /\ b.state \in {"readable", "closed", "errored"}
      /\ b.keysMatch \in BOOLEAN
      BY DEF B!Slots
<1> QED BY <1>2, <1>3, <1>4, <1>5, <1>6, SameTypes, SameEnds, SameReader, SameSource

\* What an operation makes of a branch that is sound.
LEMMA BranchSoundness ==
    ASSUME NEW b, BP!Sound(b)
    PROVE  /\ BP!Becomes(b, B!Cancel(b))
           /\ BP!Becomes(b, B!ControllerError(b))
           /\ b.state = "readable" => BP!Becomes(b, B!ControllerClose(b))
           /\ b.state = "readable" =>
                  \A chunk \in Chunks : BP!GoesOn(b, B!Enqueue(b, chunk, 1))
           /\ B!CanRead(b) => /\ BP!Becomes(b, B!Read(b))
                              /\ ~b.closeRequested => BP!GoesOn(b, B!Read(b))
           /\ "start" \in b.sourceCalls => BP!GoesOn(b, B!FinishStart(b))
           /\ BP!GoesOn(b, B!FinishPull(b)) /\ BP!Becomes(b, B!FailPull(b))
           /\ BP!GoesOn(b, B!Settled(b, "pull"))
           /\ BP!GoesOn(b, [b EXCEPT !.owing = FALSE, !.idle = FALSE])
<1> USE BranchAssumption
<1>1. BP!Becomes(b, B!Cancel(b)) /\ BP!Becomes(b, B!ControllerError(b))
      BY BP!CancelSound, BP!ControllerErrorSound, SameEnds
<1>2. b.state = "readable" => BP!Becomes(b, B!ControllerClose(b))
      BY BP!ControllerCloseSound, SameEnds
<1>3. b.state = "readable" =>
          \A chunk \in Chunks : BP!GoesOn(b, B!Enqueue(b, chunk, 1))
  <2> SUFFICES ASSUME b.state = "readable", NEW chunk \in Chunks
               PROVE  BP!GoesOn(b, B!Enqueue(b, chunk, 1))
      OBVIOUS
  <2>1. 1 \in Nat
        OBVIOUS
  <2>2. BP!GoesOn(b, BP!Enqueue(b, chunk, 1))
        BY <2>1, BP!EnqueueSound
  <2>3. B!Enqueue(b, chunk, 1) = BP!Enqueue(b, chunk, 1)
        BY SameSource
  <2> QED BY <2>2, <2>3
<1>4. B!CanRead(b) => /\ BP!Becomes(b, B!Read(b))
                      /\ ~b.closeRequested => BP!GoesOn(b, B!Read(b))
  <2>1. BP!CanRead(b) => BP!NextRead(b) \in BP!Reads
        BY BP!NextReadMade
  <2> QED BY <2>1, BP!ReadSound, SameReader
<1>5. "start" \in b.sourceCalls => BP!GoesOn(b, B!FinishStart(b))
      BY BP!FinishStartSound, SameSource
<1>6. BP!GoesOn(b, B!FinishPull(b)) /\ BP!Becomes(b, B!FailPull(b))
      BY BP!FinishPullSound, BP!FailedCallSound, SameSource
<1>7. BP!GoesOn(b, B!Settled(b, "pull"))
      BY BP!SettledSound, SameSource
<1>8. BP!GoesOn(b, [b EXCEPT !.owing = FALSE, !.idle = FALSE])
  <2> DEFINE t == [b EXCEPT !.owing = FALSE, !.idle = FALSE]
  <2>1. b \in B!Slots
        BY SameTypes DEF BP!Sound
  <2>2. t \in BP!Slots
        BY <2>1, BranchTypes, SameTypes
  <2>3. /\ t.failed = b.failed /\ t.pullAgain = b.pullAgain /\ t.pulling = b.pulling
        /\ t.started = b.started /\ t.sourceCalls = b.sourceCalls /\ t.reader = b.reader
        /\ t.closed = b.closed /\ t.state = b.state /\ t.keysMatch = b.keysMatch
        /\ t.closeRequested = b.closeRequested /\ t.readRequests = b.readRequests
        BY <2>1 DEF B!Slots
  <2> HIDE DEF t
  <2>4. BP!GoesOn(b, t)
        BY <2>2, <2>3, BP!OtherFields
  <2> QED BY <2>4 DEF t
<1> QED BY <1>1, <1>2, <1>3, <1>4, <1>5, <1>6, <1>7, <1>8

\* A branch as tee() makes it.
LEMMA NewBranch ==
    ASSUME NEW keysMatch \in BOOLEAN
    PROVE  /\ B!NewStream(keysMatch) \in B!Slots
           /\ BP!Sound(B!NewStream(keysMatch))
           /\ B!NewStream(keysMatch).keysMatch = keysMatch
           /\ CanCloseOrEnqueue(B!NewStream(keysMatch))
<1>1. B!NewStream(keysMatch) = BP!NewStream(keysMatch)
      BY DEF B!NewStream, BP!NewStream, B!Reads, BP!Reads
<1>2. BP!Sound(B!NewStream(keysMatch))
      BY <1>1, BranchAssumption, BP!NewStreamSound
<1> QED BY <1>2, SameTypes DEF BP!Sound, B!NewStream, CanCloseOrEnqueue

\* A branch whose reader has been acquired.
LEMMA AcquiredBranch ==
    ASSUME NEW b, BP!Sound(b)
    PROVE  /\ BP!Sound(B!AcquireReader(b))
           /\ B!AcquireReader(b).keysMatch = b.keysMatch
           /\ B!AcquireReader(b).state = b.state
           /\ B!AcquireReader(b).closeRequested = b.closeRequested
BY BranchAssumption, BP!AcquireSound, SameReader

-----------------------------------------------------------------------------
(* The invariant, of the states in the middle of an action too.               *)

TeeStates == [stream : Slots, tee : BranchSlots, threw : BOOLEAN]

\* Nothing more comes from the stream: it has failed, and so have the reads that are
\* waited for.
Dead(t) ==
    /\ t.stream.state = "errored"
    /\ \A k \in Branches :
           t.tee.reads[k] # 0 => t.stream.answers[t.tee.reads[k]] = "rejected"

\* The tee holds the reader, and no read of it began to wait in size().
Locked(s) == s.reader /\ ~s.readInSize

\* The stream is locked, what is waited for was read, and where the keys agree no
\* assertion of a branch has failed, and pullAlgorithm only failed with the stream.
TeeSound(t) ==
    /\ t \in TeeStates
    /\ ReadableInvariant(t.stream)
    /\ t.tee.on => Locked(t.stream)
    /\ \A k \in Branches :
           t.tee.reads[k] # 0 => t.stream.answers[t.tee.reads[k]] # "none"
    /\ t.stream.keysMatch =>
           \A k \in Branches : /\ BP!Sound(t.tee.branch[k])
                               /\ t.tee.branch[k].keysMatch
                               /\ t.tee.pulled[k] = "rejected" => Dead(t)

\* Where a branch can not be used nothing will use it.
Usable(t, k) ==
    \/ CanCloseOrEnqueue(t.tee.branch[k])
    \/ t.tee.canceled[k]
    \/ t.tee.closedOrErrored
    \/ Dead(t)

TeeInvariant(t) ==
    TeeSound(t) /\ (t.stream.keysMatch => \A k \in Branches : Usable(t, k))

\* What the controllers of the branches leave as it is, and operations on a branch.
KeepsTee(t, u) ==
    /\ u.stream.keysMatch = t.stream.keysMatch
    /\ u.tee.on = t.tee.on /\ u.tee.canceled = t.tee.canceled
    /\ u.tee.pulled = t.tee.pulled
    /\ Dead(t) => Dead(u)

LeavesTee(t, u) == KeepsTee(t, u) /\ u.tee.closedOrErrored = t.tee.closedOrErrored

\* The stream can be read, and be read twice.
OneLeft(t) ==
    /\ t.tee.on /\ t.stream.sizing = None
    /\ \E i \in Reads : t.stream.answers[i] = "none"

TwoLeft(t) ==
    /\ t.tee.on /\ t.stream.sizing = None
    /\ \E i, j \in Reads : i # j /\ t.stream.answers[i] = "none" /\ t.stream.answers[j] = "none"

\* What each of two operations leaves, both leave.
LEMMA LeavesTeeTrans ==
    ASSUME NEW t, NEW u, NEW v, LeavesTee(t, u), LeavesTee(u, v)
    PROVE  LeavesTee(t, v)
BY DEF LeavesTee, KeepsTee

\* The fields of a state.
LEMMA StateFacts ==
    ASSUME NEW t \in TeeStates
    PROVE  /\ t.stream \in Slots /\ t.tee \in BranchSlots /\ t.threw \in BOOLEAN
           /\ t.tee.branch \in [Branches -> B!Slots]
           /\ t.tee.canceled \in [Branches -> BOOLEAN]
           /\ t.tee.on \in BOOLEAN /\ t.tee.closedOrErrored \in BOOLEAN
           /\ t.tee.reads \in [Branches -> Reads \cup {0}]
           /\ t.tee.pulled \in [Branches -> {"no", "fulfilled", "rejected"}]
BY DEF TeeStates, BranchSlots

\* A branch is replaced, and pullAlgorithm reads for a branch.
Replaced(t, k, b) == [t EXCEPT !.tee.branch[k] = b]

ReadFor(t, k) == [t EXCEPT !.stream = Read(@), !.tee.reads[k] = NextRead(t.stream)]

\* What replacing a branch changes.
OneReplaced(t, k, b, u) ==
    /\ u \in TeeStates
    /\ u.stream = t.stream /\ u.threw = t.threw
    /\ u.tee.branch[k] = b
    /\ \A j \in Branches \ {k} : u.tee.branch[j] = t.tee.branch[j]
    /\ u.tee.on = t.tee.on /\ u.tee.canceled = t.tee.canceled
    /\ u.tee.closedOrErrored = t.tee.closedOrErrored /\ u.tee.late = t.tee.late
    /\ u.tee.reads = t.tee.reads /\ u.tee.pulled = t.tee.pulled

LEMMA ReplacedFacts ==
    ASSUME NEW t \in TeeStates, NEW k \in Branches, NEW b \in B!Slots,
           NEW u, u = Replaced(t, k, b)
    PROVE  OneReplaced(t, k, b, u)
<1> DEFINE branch == [t.tee.branch EXCEPT ![k] = b]
           tee1 == [t.tee EXCEPT !.branch = branch]
<1>1. t.tee \in BranchSlots /\ t.stream \in Slots /\ t.threw \in BOOLEAN
      BY StateFacts
<1>2. t.tee.branch \in [Branches -> B!Slots]
      BY StateFacts
<1>3. branch \in [Branches -> B!Slots] /\ branch[k] = b
      /\ \A j \in Branches \ {k} : branch[j] = t.tee.branch[j]
      BY <1>2
<1>4. u = [t EXCEPT !.tee = tee1]
      BY <1>1 DEF TeeStates, BranchSlots, Replaced
<1> HIDE DEF branch
<1>5. /\ tee1 \in BranchSlots /\ tee1.branch = branch
      /\ tee1.on = t.tee.on /\ tee1.canceled = t.tee.canceled
      /\ tee1.closedOrErrored = t.tee.closedOrErrored /\ tee1.late = t.tee.late
      /\ tee1.reads = t.tee.reads /\ tee1.pulled = t.tee.pulled
      BY <1>1, <1>3 DEF BranchSlots
<1> HIDE DEF tee1
<1>6. u \in TeeStates /\ u.tee = tee1 /\ u.stream = t.stream /\ u.threw = t.threw
      BY <1>1, <1>4, <1>5 DEF TeeStates
<1> QED BY <1>3, <1>5, <1>6 DEF OneReplaced

\* What reading for a branch changes.
LEMMA ReadForFacts ==
    ASSUME NEW t \in TeeStates, NEW k \in Branches, NextRead(t.stream) \in Reads,
           Read(t.stream) \in Slots,
           NEW u, u = ReadFor(t, k)
    PROVE  /\ u \in TeeStates
           /\ u.stream = Read(t.stream) /\ u.threw = t.threw
           /\ u.tee.reads[k] = NextRead(t.stream)
           /\ \A j \in Branches \ {k} : u.tee.reads[j] = t.tee.reads[j]
           /\ u.tee.on = t.tee.on /\ u.tee.canceled = t.tee.canceled
           /\ u.tee.closedOrErrored = t.tee.closedOrErrored /\ u.tee.late = t.tee.late
           /\ u.tee.branch = t.tee.branch /\ u.tee.pulled = t.tee.pulled
<1> DEFINE reads == [t.tee.reads EXCEPT ![k] = NextRead(t.stream)]
           tee1 == [t.tee EXCEPT !.reads = reads]
           stream1 == Read(t.stream)
<1>1. t.tee \in BranchSlots /\ t.stream \in Slots /\ t.threw \in BOOLEAN
      BY StateFacts
<1>2. t.tee.reads \in [Branches -> Reads \cup {0}]
      BY StateFacts
<1>3. reads \in [Branches -> Reads \cup {0}] /\ reads[k] = NextRead(t.stream)
      /\ \A j \in Branches \ {k} : reads[j] = t.tee.reads[j]
      BY <1>2
<1>4. u = [t EXCEPT !.stream = stream1, !.tee = tee1]
      BY <1>1 DEF TeeStates, BranchSlots, ReadFor
<1> HIDE DEF reads
<1>5. /\ tee1 \in BranchSlots /\ tee1.reads = reads
      /\ tee1.on = t.tee.on /\ tee1.canceled = t.tee.canceled
      /\ tee1.closedOrErrored = t.tee.closedOrErrored /\ tee1.late = t.tee.late
      /\ tee1.branch = t.tee.branch /\ tee1.pulled = t.tee.pulled
      BY <1>1, <1>3 DEF BranchSlots
<1>7. stream1 \in Slots
      OBVIOUS
<1> HIDE DEF tee1, stream1
<1>6. u \in TeeStates /\ u.tee = tee1 /\ u.stream = stream1 /\ u.threw = t.threw
      BY <1>1, <1>4, <1>5, <1>7 DEF TeeStates
<1> QED BY <1>3, <1>5, <1>6 DEF stream1

\* A branch may be replaced by one that is sound.
LEMMA ReplacedSound ==
    ASSUME NEW t, TeeSound(t), NEW k \in Branches, NEW b \in B!Slots,
           t.stream.keysMatch => BP!Sound(b) /\ b.keysMatch,
           NEW u, u = Replaced(t, k, b)
    PROVE  /\ TeeSound(u) /\ LeavesTee(t, u)
           /\ OneLeft(t) => OneLeft(u)
           /\ TwoLeft(t) => TwoLeft(u)
<1>1. t \in TeeStates
      BY DEF TeeSound
<1>2. /\ u \in TeeStates
      /\ u.stream = t.stream
      /\ u.tee.branch[k] = b
      /\ \A j \in Branches \ {k} : u.tee.branch[j] = t.tee.branch[j]
      /\ u.tee.on = t.tee.on /\ u.tee.canceled = t.tee.canceled
      /\ u.tee.closedOrErrored = t.tee.closedOrErrored
      /\ u.tee.reads = t.tee.reads /\ u.tee.pulled = t.tee.pulled
      BY <1>1, ReplacedFacts DEF OneReplaced
<1>3. Dead(u) <=> Dead(t)
      BY <1>2 DEF Dead
<1>4. ReadableInvariant(u.stream) /\ (u.tee.on => Locked(u.stream))
      BY <1>2 DEF TeeSound
<1>5. \A j \in Branches : u.tee.reads[j] # 0 => u.stream.answers[u.tee.reads[j]] # "none"
      BY <1>2 DEF TeeSound
<1>6. ASSUME u.stream.keysMatch, NEW j \in Branches
      PROVE  /\ BP!Sound(u.tee.branch[j]) /\ u.tee.branch[j].keysMatch
             /\ u.tee.pulled[j] = "rejected" => Dead(u)
  <2>1. CASE j = k
        BY <1>2, <1>3, <1>6, <2>1 DEF TeeSound
  <2>2. CASE j # k
        BY <1>2, <1>3, <1>6, <2>2 DEF TeeSound
  <2> QED BY <2>1, <2>2
<1>7. TeeSound(u)
      BY <1>2, <1>4, <1>5, <1>6 DEF TeeSound
<1>8. /\ LeavesTee(t, u)
      /\ OneLeft(t) => OneLeft(u)
      /\ TwoLeft(t) => TwoLeft(u)
      BY <1>2, <1>3 DEF LeavesTee, KeepsTee, TwoLeft, OneLeft
<1> QED BY <1>7, <1>8

\* So may it when pullAlgorithm reads for it.
LEMMA WithBranchSound ==
    ASSUME NEW t, TeeSound(t), OneLeft(t), NEW k \in Branches, NEW b \in B!Slots,
           t.stream.keysMatch => BP!Sound(b) /\ b.keysMatch,
           NEW u, u = WithBranch(t, k, b)
    PROVE  /\ TeeSound(u) /\ LeavesTee(t, u) /\ u.threw = t.threw
           /\ u.tee.branch[k].state = b.state
           /\ u.tee.branch[k].closeRequested = b.closeRequested
           /\ \A j \in Branches \ {k} : u.tee.branch[j] = t.tee.branch[j]
           /\ TwoLeft(t) => OneLeft(u)
<1> DEFINE c == [b EXCEPT !.owing = FALSE, !.idle = FALSE]
           v == Replaced(t, k, c)
           i == NextRead(t.stream)
<1>1. t \in TeeStates /\ ReadableInvariant(t.stream)
      BY DEF TeeSound
<1>2. /\ c.state = b.state /\ c.closeRequested = b.closeRequested
      /\ c.keysMatch = b.keysMatch
      BY DEF B!Slots
<1>3. c \in B!Slots
      BY Zenon, BranchTypes
<1>4. BP!Sound(b) => BP!Sound(c)
      BY BranchSoundness DEF BP!GoesOn, BP!Becomes
<1> HIDE DEF c
<1>5. /\ v \in TeeStates
      /\ v.stream = t.stream /\ v.threw = t.threw
      /\ v.tee.branch[k] = c
      /\ \A j \in Branches \ {k} : v.tee.branch[j] = t.tee.branch[j]
      /\ v.tee.on = t.tee.on /\ v.tee.canceled = t.tee.canceled
      /\ v.tee.closedOrErrored = t.tee.closedOrErrored
      /\ v.tee.reads = t.tee.reads /\ v.tee.pulled = t.tee.pulled
  <2>1. v = Replaced(t, k, c) /\ t \in TeeStates /\ c \in B!Slots
        BY <1>1, <1>3
  <2> HIDE DEF v
  <2>2. OneReplaced(t, k, c, v)
        BY <2>1, ReplacedFacts
  <2> QED BY <2>2 DEF OneReplaced
<1>6. u = v \/ u = ReadFor(v, k)
  <2>1. [v EXCEPT !.stream = Read(@), !.tee.reads[k] = NextRead(t.stream)] = ReadFor(v, k)
        BY <1>5 DEF ReadFor
  <2> QED BY <2>1 DEF WithBranch, Replaced, c
<1> HIDE DEF v
<1>7. Dead(v) <=> Dead(t)
      BY <1>5 DEF Dead
<1>8. TeeSound(v) /\ LeavesTee(t, v)
  <2>1. v = Replaced(t, k, c)
        BY DEF v
  <2>2. t.stream.keysMatch => BP!Sound(c) /\ c.keysMatch
        BY <1>2, <1>4
  <2> QED BY <1>3, <2>1, <2>2, ReplacedSound
<1>9. TwoLeft(t) => OneLeft(v)
      BY <1>5 DEF TwoLeft, OneLeft
<1>10. CASE u = v
      BY <1>2, <1>5, <1>8, <1>9, <1>10
<1>11. CASE u = ReadFor(v, k)
  <2>1. t.stream.sizing = None /\ ~t.stream.readInSize /\ CanRead(t.stream)
        BY DEF OneLeft, TeeSound, Locked, CanRead
  <2>2. /\ ReadableInvariant(Read(t.stream)) /\ Onward(t.stream, Read(t.stream))
        /\ Read(t.stream).reader = t.stream.reader /\ Read(t.stream).sizing = None
        /\ ~Read(t.stream).readInSize
        /\ i \in Reads /\ Read(t.stream).answers[i] # "none"
        /\ \A j \in Reads \ {i} : Read(t.stream).answers[j] = t.stream.answers[j]
        /\ t.stream.state = "errored" => Read(t.stream).answers[i] = "rejected"
        BY <1>1, <2>1, ReadKeeps
  <2>3. Read(t.stream) \in Slots
        BY <2>2, InvariantFacts DEF ReadableInvariant
  <2>4. /\ u \in TeeStates
        /\ u.stream = Read(t.stream) /\ u.threw = t.threw
        /\ u.tee.reads[k] = i
        /\ \A j \in Branches \ {k} : u.tee.reads[j] = t.tee.reads[j]
        /\ u.tee.on = t.tee.on /\ u.tee.canceled = t.tee.canceled
        /\ u.tee.closedOrErrored = t.tee.closedOrErrored
        /\ u.tee.branch = v.tee.branch /\ u.tee.pulled = t.tee.pulled
        BY <1>5, <1>11, <2>2, <2>3, ReadForFacts
  <2> HIDE DEF i
  <2>5. ASSUME NEW j \in Branches, u.tee.reads[j] # 0
        PROVE  /\ u.stream.answers[u.tee.reads[j]] # "none"
               /\ Dead(t) => u.stream.answers[u.tee.reads[j]] = "rejected"
    <3>1. CASE j = k
          BY <2>2, <2>4, <3>1 DEF Dead
    <3>2. CASE j # k
      <4>1. t.tee.reads[j] # 0 /\ u.tee.reads[j] = t.tee.reads[j] /\ t.tee.reads[j] \in Reads
            BY <1>1, <2>4, <2>5, <3>2, StateFacts
      <4>2. t.stream.answers[t.tee.reads[j]] # "none"
            BY <4>1 DEF TeeSound
      <4> QED BY <2>2, <2>4, <4>1, <4>2 DEF Onward, Dead
    <3> QED BY <3>1, <3>2
  <2>6. Dead(t) => Dead(u)
        BY <2>2, <2>4, <2>5 DEF Onward, Dead
  <2>7. u.stream.keysMatch = t.stream.keysMatch
        BY <2>2, <2>4 DEF Onward
  <2>8. TeeSound(u)
    <3>1. u.tee.on => Locked(u.stream)
          BY <2>2, <2>4 DEF TeeSound, Locked
    <3>2. ASSUME u.stream.keysMatch, NEW j \in Branches
          PROVE  /\ BP!Sound(u.tee.branch[j]) /\ u.tee.branch[j].keysMatch
                 /\ u.tee.pulled[j] = "rejected" => Dead(u)
      <4>1. v.stream.keysMatch
            BY <1>5, <2>7, <3>2
      <4>2. /\ BP!Sound(v.tee.branch[j]) /\ v.tee.branch[j].keysMatch
            /\ v.tee.pulled[j] = "rejected" => Dead(v)
            BY <1>8, <4>1 DEF TeeSound
      <4> QED BY <1>5, <1>7, <2>4, <2>6, <4>2
    <3> QED BY <2>2, <2>4, <2>5, <3>1, <3>2 DEF TeeSound
  <2>9. LeavesTee(t, u)
        BY <2>4, <2>6, <2>7 DEF LeavesTee, KeepsTee
  <2>10. TwoLeft(t) => OneLeft(u)
    <3> SUFFICES ASSUME TwoLeft(t)
                 PROVE  OneLeft(u)
        OBVIOUS
    <3>1. PICK j \in Reads : j # i /\ t.stream.answers[j] = "none"
          BY DEF TwoLeft
    <3>2. u.stream.answers[j] = "none"
          BY <2>2, <2>4, <3>1
    <3> QED BY <2>2, <2>4, <3>2 DEF OneLeft
  <2> QED BY <1>2, <1>5, <2>4, <2>8, <2>9, <2>10
<1> QED BY <1>6, <1>10, <1>11

-----------------------------------------------------------------------------
(* The controllers of the branches.                                           *)

\* An exception is passing through, or not.
LEMMA ThrewSound ==
    ASSUME NEW t, TeeSound(t), NEW x \in BOOLEAN, NEW u, u = [t EXCEPT !.threw = x]
    PROVE  TeeSound(u) /\ u.threw = x /\ u.stream = t.stream /\ u.tee = t.tee
<1>1. t \in TeeStates
      BY DEF TeeSound
<1>2. u \in TeeStates /\ u.threw = x /\ u.stream = t.stream /\ u.tee = t.tee
      BY <1>1 DEF TeeStates
<1>3. Dead(u) <=> Dead(t)
      BY <1>2 DEF Dead
<1> QED BY <1>2, <1>3 DEF TeeSound

\* What has the stream and the tee of another state.
LEMMA SameTee ==
    ASSUME NEW t, NEW u, u.stream = t.stream, u.tee = t.tee
    PROVE  /\ LeavesTee(t, u)
           /\ OneLeft(t) => OneLeft(u)
           /\ TwoLeft(t) => TwoLeft(u)
           /\ \A k \in Branches : Usable(t, k) => Usable(u, k)
BY DEF LeavesTee, KeepsTee, Dead, OneLeft, TwoLeft, Usable

\* Who can read twice can read.
LEMMA TwoLeftOneLeft ==
    ASSUME NEW t, TwoLeft(t)
    PROVE  OneLeft(t)
BY DEF TwoLeft, OneLeft

\* The controller of a branch, where its operation would make it b.
OpenBranch(t, k, b, throws) == WithOpenBranch(t, k, LAMBDA x : b, throws)

\* A controller is used where it can be, and is left alone where its branch was canceled.
LEMMA OpenBranchSound ==
    ASSUME NEW t, TeeSound(t), OneLeft(t), NEW k \in Branches,
           t.stream.keysMatch =>
               ~t.threw /\ (CanCloseOrEnqueue(t.tee.branch[k]) \/ t.tee.canceled[k]),
           NEW b,
           CanCloseOrEnqueue(t.tee.branch[k]) =>
               b \in B!Slots /\ (t.stream.keysMatch => BP!Becomes(t.tee.branch[k], b)),
           NEW throws \in BOOLEAN, t.stream.keysMatch => ~throws,
           NEW u, u = OpenBranch(t, k, b, throws)
    PROVE  /\ TeeSound(u) /\ LeavesTee(t, u)
           /\ t.stream.keysMatch => ~u.threw
           /\ TwoLeft(t) => OneLeft(u)
           /\ \A j \in Branches \ {k} : u.tee.branch[j] = t.tee.branch[j]
           /\ t.stream.keysMatch /\ ~t.tee.canceled[k] =>
                  /\ u.tee.branch[k].state = b.state
                  /\ u.tee.branch[k].closeRequested = b.closeRequested
<1> DEFINE open == t.tee.branch[k]
           noted == Asserted(open, "can close or enqueue", FALSE)
           refused == Replaced(t, k, noted)
           used == WithBranch(t, k, b)
<1>1. /\ t \in TeeStates /\ open \in B!Slots /\ t.threw \in BOOLEAN
      /\ t.tee.canceled[k] \in BOOLEAN
      BY StateFacts DEF TeeSound
<1>2. CASE t.threw \/ t.tee.canceled[k]
  <2>1. u = t
        BY <1>2 DEF OpenBranch, WithOpenBranch
  <2>2. LeavesTee(t, t)
        BY SameTee
  <2> QED BY <1>2, <2>1, <2>2, TwoLeftOneLeft
<1>3. CASE ~t.threw /\ ~t.tee.canceled[k] /\ ~CanCloseOrEnqueue(open)
  <2>1. u = [refused EXCEPT !.threw = TRUE]
        BY <1>3 DEF OpenBranch, WithOpenBranch, Replaced
  <2>2. noted \in B!Slots
    <3>1. "can close or enqueue" \in Assertions
          BY DEF Assertions
    <3> QED BY <1>1, <3>1, BranchTypes
  <2>3. ~t.stream.keysMatch
        BY <1>3
  <2>4. refused = Replaced(t, k, noted)
        OBVIOUS
  <2> HIDE DEF open, noted, refused
  <2>5. TeeSound(refused) /\ LeavesTee(t, refused) /\ (TwoLeft(t) => TwoLeft(refused))
        BY <2>2, <2>3, <2>4, ReplacedSound
  <2>6. \A j \in Branches \ {k} : refused.tee.branch[j] = t.tee.branch[j]
        BY <1>1, <2>2, <2>4, ReplacedFacts DEF OneReplaced
  <2>7. TeeSound(u) /\ u.stream = refused.stream /\ u.tee = refused.tee
        BY <2>1, <2>5, ThrewSound
  <2>8. LeavesTee(refused, u) /\ (TwoLeft(refused) => TwoLeft(u))
        BY <2>7, SameTee
  <2> QED BY <2>3, <2>5, <2>6, <2>7, <2>8, LeavesTeeTrans, TwoLeftOneLeft
<1>4. CASE ~t.threw /\ ~t.tee.canceled[k] /\ CanCloseOrEnqueue(open)
  <2>1. u = [used EXCEPT !.threw = throws]
        BY <1>4 DEF OpenBranch, WithOpenBranch
  <2>2. b \in B!Slots /\ (t.stream.keysMatch => BP!Sound(b) /\ b.keysMatch)
        BY <1>4 DEF TeeSound, BP!Becomes
  <2>3. /\ TeeSound(used) /\ LeavesTee(t, used)
        /\ used.tee.branch[k].state = b.state
        /\ used.tee.branch[k].closeRequested = b.closeRequested
        /\ \A j \in Branches \ {k} : used.tee.branch[j] = t.tee.branch[j]
        /\ TwoLeft(t) => OneLeft(used)
        BY <2>2, WithBranchSound
  <2> HIDE DEF used
  <2>4. TeeSound(u) /\ u.threw = throws /\ u.stream = used.stream /\ u.tee = used.tee
        BY <2>1, <2>3, ThrewSound
  <2>5. LeavesTee(used, u) /\ (OneLeft(used) => OneLeft(u))
        BY <2>4, SameTee
  <2> QED BY <2>3, <2>4, <2>5, LeavesTeeTrans
<1> QED BY <1>1, <1>2, <1>3, <1>4

\* A chunk is given to one branch.
LEMMA EnqueueToSound ==
    ASSUME NEW t, TeeSound(t), OneLeft(t), NEW k \in Branches, NEW chunk \in Chunks,
           t.stream.keysMatch =>
               ~t.threw /\ (CanCloseOrEnqueue(t.tee.branch[k]) \/ t.tee.canceled[k]),
           NEW u, u = EnqueueTo(t, k, chunk)
    PROVE  /\ TeeSound(u) /\ LeavesTee(t, u)
           /\ t.stream.keysMatch => ~u.threw
           /\ TwoLeft(t) => OneLeft(u)
           /\ \A j \in Branches \ {k} : u.tee.branch[j] = t.tee.branch[j]
           /\ t.stream.keysMatch => CanCloseOrEnqueue(u.tee.branch[k]) \/ u.tee.canceled[k]
<1> DEFINE open == t.tee.branch[k]
           b == B!Enqueue(open, chunk, 1)
           throws == EnqueueThrows(open)
<1>1. u = OpenBranch(t, k, b, throws)
      BY DEF EnqueueTo, OpenBranch, WithOpenBranch
<1>2. open \in B!Slots
      BY StateFacts DEF TeeSound
<1>3. CanCloseOrEnqueue(open) =>
          /\ b \in B!Slots
          /\ t.stream.keysMatch => BP!GoesOn(open, b)
      BY <1>2, BranchTypes, BranchSoundness DEF CanCloseOrEnqueue, TeeSound
<1>4. throws \in BOOLEAN /\ (t.stream.keysMatch => ~throws)
      BY DEF EnqueueThrows, TeeSound
<1> HIDE DEF b, throws
<1>5. /\ TeeSound(u) /\ LeavesTee(t, u)
      /\ t.stream.keysMatch => ~u.threw
      /\ TwoLeft(t) => OneLeft(u)
      /\ \A j \in Branches \ {k} : u.tee.branch[j] = t.tee.branch[j]
      /\ t.stream.keysMatch /\ ~t.tee.canceled[k] =>
             /\ u.tee.branch[k].state = b.state
             /\ u.tee.branch[k].closeRequested = b.closeRequested
  <2>1. CanCloseOrEnqueue(t.tee.branch[k]) =>
            b \in B!Slots /\ (t.stream.keysMatch => BP!Becomes(t.tee.branch[k], b))
        BY <1>3 DEF BP!GoesOn
  <2> HIDE DEF open
  <2> QED BY <1>1, <1>4, <2>1, OpenBranchSound
<1>6. t.stream.keysMatch /\ ~t.tee.canceled[k] => CanCloseOrEnqueue(u.tee.branch[k])
      BY <1>3, <1>5 DEF BP!GoesOn, CanCloseOrEnqueue
<1>7. u.tee.canceled = t.tee.canceled
      BY <1>5 DEF LeavesTee, KeepsTee
<1> QED BY <1>5, <1>6, <1>7

\* A branch is closed.
LEMMA CloseToSound ==
    ASSUME NEW t, TeeSound(t), OneLeft(t), NEW k \in Branches,
           t.stream.keysMatch =>
               ~t.threw /\ (CanCloseOrEnqueue(t.tee.branch[k]) \/ t.tee.canceled[k]),
           NEW u, u = CloseTo(t, k)
    PROVE  /\ TeeSound(u) /\ LeavesTee(t, u)
           /\ t.stream.keysMatch => ~u.threw
           /\ TwoLeft(t) => OneLeft(u)
           /\ \A j \in Branches \ {k} : u.tee.branch[j] = t.tee.branch[j]
<1> DEFINE open == t.tee.branch[k]
           b == B!ControllerClose(open)
           throws == FALSE
<1>1. u = OpenBranch(t, k, b, throws)
      BY DEF CloseTo, OpenBranch, WithOpenBranch
<1>2. open \in B!Slots
      BY StateFacts DEF TeeSound
<1>3. CanCloseOrEnqueue(open) =>
          /\ b \in B!Slots
          /\ t.stream.keysMatch => BP!Becomes(open, b)
      BY <1>2, BranchTypes, BranchSoundness DEF CanCloseOrEnqueue, TeeSound
<1>4. throws \in BOOLEAN /\ ~throws
      OBVIOUS
<1> HIDE DEF b, throws
<1>5. /\ TeeSound(u) /\ LeavesTee(t, u)
      /\ t.stream.keysMatch => ~u.threw
      /\ TwoLeft(t) => OneLeft(u)
      /\ \A j \in Branches \ {k} : u.tee.branch[j] = t.tee.branch[j]
      /\ t.stream.keysMatch /\ ~t.tee.canceled[k] =>
             /\ u.tee.branch[k].state = b.state
             /\ u.tee.branch[k].closeRequested = b.closeRequested
      BY <1>1, <1>3, <1>4, OpenBranchSound
<1> QED BY <1>5

\* A branch is errored.
LEMMA ErrorToSound ==
    ASSUME NEW t, TeeSound(t), OneLeft(t), NEW k \in Branches,
           t.stream.keysMatch => ~t.threw,
           NEW u, u = ErrorTo(t, k)
    PROVE  /\ TeeSound(u) /\ LeavesTee(t, u)
           /\ t.stream.keysMatch => ~u.threw
           /\ TwoLeft(t) => OneLeft(u)
           /\ \A j \in Branches \ {k} : u.tee.branch[j] = t.tee.branch[j]
<1> DEFINE open == t.tee.branch[k]
           b == B!ControllerError(open)
           throws == open.state = "readable" /\ EnqueueThrows(open)
           used == WithBranch(t, k, b)
<1>1. CASE t.threw
  <2>1. u = t
        BY <1>1 DEF ErrorTo
  <2>2. LeavesTee(t, t)
        BY SameTee
  <2> QED BY <1>1, <2>1, <2>2, TwoLeftOneLeft
<1>2. CASE ~t.threw
  <2>1. u = [used EXCEPT !.threw = throws]
        BY <1>2 DEF ErrorTo
  <2>2. open \in B!Slots
        BY StateFacts DEF TeeSound
  <2>3. b \in B!Slots /\ (t.stream.keysMatch => BP!Sound(b) /\ b.keysMatch)
    <3>1. b \in B!Slots
          BY <2>2, BranchTypes
    <3>2. BP!Sound(open) => BP!Becomes(open, b)
          BY BranchSoundness
    <3>3. t.stream.keysMatch => BP!Sound(open) /\ open.keysMatch
          BY DEF TeeSound
    <3> HIDE DEF open, b
    <3> QED BY <3>1, <3>2, <3>3 DEF BP!Becomes
  <2>4. throws \in BOOLEAN /\ (t.stream.keysMatch => ~throws)
        BY DEF EnqueueThrows, TeeSound
  <2> HIDE DEF b, throws
  <2>5. /\ TeeSound(used) /\ LeavesTee(t, used) /\ (TwoLeft(t) => OneLeft(used))
        /\ \A j \in Branches \ {k} : used.tee.branch[j] = t.tee.branch[j]
        BY <2>3, WithBranchSound
  <2> HIDE DEF used
  <2>6. TeeSound(u) /\ u.threw = throws /\ u.stream = used.stream /\ u.tee = used.tee
        BY <2>1, <2>4, <2>5, ThrewSound
  <2>7. LeavesTee(used, u) /\ (OneLeft(used) => OneLeft(u))
        BY <2>6, SameTee
  <2> QED BY <2>4, <2>5, <2>6, <2>7, LeavesTeeTrans
<1> QED BY <1>1, <1>2

\* closedOrErrored is set.
LEMMA EndedSound ==
    ASSUME NEW t, TeeSound(t), NEW x \in BOOLEAN,
           NEW u, u = [t EXCEPT !.tee.closedOrErrored = x]
    PROVE  /\ TeeSound(u) /\ KeepsTee(t, u)
           /\ u.tee.closedOrErrored = x /\ u.threw = t.threw
<1> DEFINE tee1 == [t.tee EXCEPT !.closedOrErrored = x]
<1>1. t \in TeeStates /\ t.tee \in BranchSlots
      BY StateFacts DEF TeeSound
<1>2. /\ tee1 \in BranchSlots /\ tee1.closedOrErrored = x
      /\ tee1.on = t.tee.on /\ tee1.canceled = t.tee.canceled
      /\ tee1.branch = t.tee.branch
      /\ tee1.reads = t.tee.reads /\ tee1.pulled = t.tee.pulled
      BY <1>1 DEF BranchSlots
<1>3. u = [t EXCEPT !.tee = tee1]
      BY <1>1 DEF TeeStates
<1> HIDE DEF tee1
<1>4. u \in TeeStates /\ u.tee = tee1 /\ u.stream = t.stream /\ u.threw = t.threw
      BY <1>1, <1>2, <1>3 DEF TeeStates
<1>5. Dead(u) <=> Dead(t)
      BY <1>2, <1>4 DEF Dead
<1>6. TeeSound(u)
      BY <1>2, <1>4, <1>5 DEF TeeSound
<1>7. KeepsTee(t, u)
      BY <1>2, <1>4, <1>5 DEF KeepsTee
<1> QED BY <1>2, <1>4, <1>6, <1>7

\* The answer of a read of a stream that has not failed is given to both branches.
LEMMA GiveSound ==
    ASSUME NEW t, TeeInvariant(t), TwoLeft(t), NEW k \in Branches, ~t.threw, ~Dead(t),
           NEW answer \in Chunks \cup {"done"},
           NEW u, u = Give(t, k, answer)
    PROVE  /\ TeeInvariant(u) /\ KeepsTee(t, u)
           /\ t.stream.keysMatch => ~u.threw
<1>1. /\ TeeSound(t) /\ OneLeft(t)
      /\ 1 \in Branches /\ 2 \in Branches
      BY TwoLeftOneLeft DEF TeeInvariant, Branches
<1>2. CASE t.tee.closedOrErrored
  <2>1. u = t
        BY <1>2 DEF Give
  <2> QED BY <2>1, SameTee DEF LeavesTee
<1>3. t.stream.keysMatch /\ ~t.tee.closedOrErrored =>
          \A j \in Branches : CanCloseOrEnqueue(t.tee.branch[j]) \/ t.tee.canceled[j]
      BY DEF TeeInvariant, Usable
<1>4. CASE ~t.tee.closedOrErrored /\ answer = "done"
  <2> DEFINE v == CloseTo(t, 1)
             w == CloseTo(v, 2)
  <2>1. u = [w EXCEPT !.tee.closedOrErrored = ~w.threw]
        BY <1>4 DEF Give
  <2>2. /\ TeeSound(v) /\ LeavesTee(t, v) /\ OneLeft(v)
        /\ t.stream.keysMatch => ~v.threw
        /\ v.tee.branch[2] = t.tee.branch[2]
        BY <1>1, <1>3, <1>4, CloseToSound
  <2>3. /\ v.stream.keysMatch = t.stream.keysMatch /\ v.tee.canceled = t.tee.canceled
        BY <2>2 DEF LeavesTee, KeepsTee
  <2> HIDE DEF v
  <2>4. /\ TeeSound(w) /\ LeavesTee(v, w)
        /\ t.stream.keysMatch => ~w.threw
        BY <1>1, <1>3, <1>4, <2>2, <2>3, CloseToSound
  <2>5. LeavesTee(t, w)
        BY <2>2, <2>4, LeavesTeeTrans
  <2> HIDE DEF w
  <2>6. (~w.threw) \in BOOLEAN
        OBVIOUS
  <2>7. /\ TeeSound(u) /\ KeepsTee(w, u)
        /\ u.tee.closedOrErrored = ~w.threw /\ u.threw = w.threw
        BY <2>1, <2>4, <2>6, EndedSound
  <2>8. KeepsTee(t, u)
        BY <2>5, <2>7 DEF LeavesTee, KeepsTee
  <2>9. u.stream.keysMatch => u.tee.closedOrErrored
        BY <2>4, <2>7, <2>8 DEF KeepsTee
  <2> QED BY <2>4, <2>7, <2>8, <2>9 DEF TeeInvariant, Usable
<1>5. CASE ~t.tee.closedOrErrored /\ answer # "done"
  <2> DEFINE v == EnqueueTo(t, 1, answer)
  <2>1. u = EnqueueTo(v, 2, answer)
        BY <1>5 DEF Give
  <2>2. answer \in Chunks
        BY <1>5
  <2>3. /\ TeeSound(v) /\ LeavesTee(t, v) /\ OneLeft(v)
        /\ t.stream.keysMatch => ~v.threw
        /\ v.tee.branch[2] = t.tee.branch[2]
        /\ t.stream.keysMatch => CanCloseOrEnqueue(v.tee.branch[1]) \/ v.tee.canceled[1]
        BY <1>1, <1>3, <1>5, <2>2, EnqueueToSound
  <2>4. /\ v.stream.keysMatch = t.stream.keysMatch /\ v.tee.canceled = t.tee.canceled
        BY <2>3 DEF LeavesTee, KeepsTee
  <2> HIDE DEF v
  <2>5. /\ TeeSound(u) /\ LeavesTee(v, u)
        /\ t.stream.keysMatch => ~u.threw
        /\ u.tee.branch[1] = v.tee.branch[1]
        /\ t.stream.keysMatch => CanCloseOrEnqueue(u.tee.branch[2]) \/ u.tee.canceled[2]
        BY <1>1, <1>3, <1>5, <2>1, <2>2, <2>3, <2>4, EnqueueToSound
  <2>6. LeavesTee(t, u) /\ u.tee.canceled = v.tee.canceled
        BY <2>3, <2>5, LeavesTeeTrans DEF LeavesTee, KeepsTee
  <2>7. u.stream.keysMatch => \A j \in Branches : Usable(u, j)
        BY <2>3, <2>5, <2>6 DEF Usable, Branches, LeavesTee, KeepsTee
  <2> QED BY <2>5, <2>6, <2>7 DEF TeeInvariant, LeavesTee
<1>6. t.tee.closedOrErrored \in BOOLEAN
      BY <1>1, StateFacts DEF TeeSound
<1> QED BY <1>2, <1>4, <1>5, <1>6

-----------------------------------------------------------------------------
(* The actions.  Each is followed up to the state that it leaves.             *)

\* The fields of the state.
LEMMA NowFacts ==
    /\ Now.stream = stream /\ Now.tee = tee /\ Now.threw = FALSE
    /\ Now'.stream = stream' /\ Now'.tee = tee' /\ Now'.threw = FALSE
BY DEF Now

\* The keys are what they were, and tee() is not undone.
SameKind(t, u) ==
    u.stream.keysMatch = t.stream.keysMatch /\ (t.tee.on => u.tee.on)

LEMMA SameKindTrans ==
    ASSUME NEW t, NEW u, NEW v, SameKind(t, u), SameKind(u, v)
    PROVE  SameKind(t, v)
BY DEF SameKind

LEMMA KeepsKind ==
    ASSUME NEW t, NEW u, KeepsTee(t, u) \/ LeavesTee(t, u)
    PROVE  SameKind(t, u)
BY DEF KeepsTee, LeavesTee, SameKind

\* The state that an action leaves.
LEMMA BecomeKeeps ==
    ASSUME NEW t, TeeInvariant(t), SameKind(Now, t), stream' = t.stream, tee' = t.tee
    PROVE  TeeInvariant(Now') /\ SameKind(Now, Now')
<1>1. TeeSound(t) /\ t \in TeeStates
      BY DEF TeeInvariant, TeeSound
<1>2. Now'.stream = t.stream /\ Now'.tee = t.tee
      BY NowFacts
<1>3. Now' \in TeeStates
  <2>1. t.stream \in Slots /\ t.tee \in BranchSlots
        BY <1>1, StateFacts
  <2> QED BY <2>1 DEF Now, TeeStates
<1>4. TeeSound(Now')
      BY <1>1, <1>2, <1>3 DEF TeeSound, Dead
<1>5. \A k \in Branches : Usable(t, k) => Usable(Now', k)
      BY <1>2, SameTee
<1>6. SameKind(Now, Now')
      BY <1>2 DEF SameKind
<1> QED BY <1>2, <1>4, <1>5, <1>6 DEF TeeInvariant

\* The tee changes, and the stream does not.
LEMMA TeeChanged ==
    ASSUME NEW t, TeeSound(t), NEW u \in TeeStates, u.stream = t.stream,
           u.tee.on => Locked(u.stream),
           \A k \in Branches : u.tee.reads[k] \in {0, t.tee.reads[k]},
           t.stream.keysMatch =>
               \A k \in Branches :
                   /\ BP!Sound(u.tee.branch[k]) /\ u.tee.branch[k].keysMatch
                   /\ u.tee.pulled[k] = "rejected" => t.tee.pulled[k] = "rejected" \/ Dead(u)
    PROVE  TeeSound(u) /\ (Dead(t) => Dead(u))
<1>1. Dead(t) => Dead(u)
      BY DEF Dead
<1>2. \A k \in Branches : u.tee.reads[k] # 0 => u.stream.answers[u.tee.reads[k]] # "none"
      BY DEF TeeSound
<1>3. u.stream.keysMatch =>
          \A k \in Branches : /\ BP!Sound(u.tee.branch[k]) /\ u.tee.branch[k].keysMatch
                              /\ u.tee.pulled[k] = "rejected" => Dead(u)
      BY <1>1 DEF TeeSound
<1>4. ReadableInvariant(u.stream)
      BY DEF TeeSound
<1> QED BY <1>1, <1>2, <1>3, <1>4 DEF TeeSound

\* Where the branches are used the stream has two reads left.
LEMMA QuietTwoLeft ==
    ASSUME Quiet, TeeInvariant(Now)
    PROVE  TwoLeft(Now) /\ OneLeft(Now) /\ tee.on
<1> DEFINE S == {i \in Reads : stream.answers[i] = "none"}
<1>1. tee.on /\ stream.sizing = None /\ Cardinality(S) >= 2
      BY DEF Quiet, ReadsLeft
<1>2. S # {}
      BY <1>1, FS_EmptySet
<1>3. PICK i \in S : TRUE
      BY <1>2
<1> HIDE DEF S
<1>4. S # {i}
  <2>1. Cardinality({i}) = 1
        BY FS_Singleton
  <2> QED BY <1>1, <2>1
<1>5. PICK j \in S : j # i
      BY <1>3, <1>4
<1>6. TwoLeft(Now)
      BY <1>1, <1>3, <1>5, NowFacts DEF TwoLeft, S
<1> QED BY <1>1, <1>6, TwoLeftOneLeft

\* The stream makes a step.
After == [stream |-> stream', tee |-> tee, threw |-> FALSE]

\* Its fields.
LEMMA AfterFacts ==
    After.stream = stream' /\ After.tee = tee /\ After.threw = FALSE
BY DEF After

\* The stream makes a step of its own.
LEMMA StreamMoves ==
    ASSUME TeeInvariant(Now), [Next]_stream, tee.on => Locked(stream')
    PROVE  TeeInvariant(After) /\ LeavesTee(Now, After)
<1>1. /\ TeeSound(Now) /\ Now \in TeeStates /\ ReadableInvariant(stream)
      /\ tee \in BranchSlots
      BY NowFacts, StateFacts DEF TeeInvariant, TeeSound
<1>2. ReadableInvariant(stream') /\ Onward(stream, stream')
      BY <1>1, ReadableStep
<1>3. /\ \A k \in Branches : tee.reads[k] \in Reads \cup {0}
      /\ \A k \in Branches : tee.reads[k] # 0 => stream.answers[tee.reads[k]] # "none"
  <2>1. Now.tee.reads \in [Branches -> Reads \cup {0}]
        BY <1>1, StateFacts
  <2> QED BY <1>1, <2>1, NowFacts DEF TeeSound
<1>4. \A k \in Branches : tee.reads[k] # 0 => stream'.answers[tee.reads[k]] # "none"
      BY <1>2, <1>3 DEF Onward
<1>5. Dead(Now) => Dead(After)
      BY <1>2, <1>3, NowFacts, AfterFacts DEF Dead, Onward
<1>6. stream'.keysMatch = stream.keysMatch
      BY <1>2 DEF Onward
<1>7. After \in TeeStates
  <2>1. stream' \in Slots
        BY <1>2, InvariantFacts DEF ReadableInvariant
  <2> QED BY <1>1, <2>1 DEF After, TeeStates
<1>8. After.stream.keysMatch =>
          \A k \in Branches : /\ BP!Sound(After.tee.branch[k])
                              /\ After.tee.branch[k].keysMatch
                              /\ After.tee.pulled[k] = "rejected" => Dead(After)
      BY <1>1, <1>5, <1>6, NowFacts, AfterFacts DEF TeeSound
<1>9. TeeSound(After)
      BY <1>2, <1>4, <1>7, <1>8, AfterFacts DEF TeeSound
<1>10. After.stream.keysMatch => \A k \in Branches : Usable(After, k)
      BY <1>5, <1>6, NowFacts, AfterFacts DEF TeeInvariant, Usable
<1> QED BY <1>5, <1>6, <1>9, <1>10, NowFacts, AfterFacts DEF TeeInvariant, LeavesTee, KeepsTee

\* It makes one, and the tee does not change.
LEMMA StreamStep ==
    ASSUME TeeInvariant(Now), [Next]_stream, UNCHANGED tee, tee.on => Locked(stream')
    PROVE  TeeInvariant(Now') /\ SameKind(Now, Now')
<1>1. TeeInvariant(After) /\ LeavesTee(Now, After) /\ After = Now'
      BY StreamMoves DEF After, Now
<1> QED BY <1>1, KeepsKind

\* tee() locks the stream, and the branches get readers.
LEMMA CallTeeKeeps ==
    ASSUME TeeInvariant(Now), CallTee
    PROVE  TeeInvariant(Now') /\ SameKind(Now, Now')
<1> DEFINE branch == [k \in Branches |-> B!AcquireReader(tee.branch[k])]
           tee1 == [tee EXCEPT !.on = TRUE, !.late = stream.cancelled, !.watching = TRUE,
                               !.branch = branch]
<1>1. /\ ~stream.reader /\ stream' = AcquireReader(stream)
      /\ tee' = tee1
      BY DEF CallTee
<1>2. /\ TeeSound(Now) /\ Now \in TeeStates /\ tee \in BranchSlots /\ ReadableInvariant(stream)
      /\ tee.branch \in [Branches -> B!Slots]
      BY NowFacts, StateFacts DEF TeeInvariant, TeeSound
<1>3. Locked(stream')
  <2>1. stream'.reader
        BY <1>1, <1>2, AcquireSound DEF ReadableInvariant
  <2>2. ~stream.readInSize
        BY <1>2 DEF CallTee, ReadableInvariant, ChannelInvariant
  <2>3. stream'.readInSize = stream.readInSize
        BY <1>1, <1>2, InvariantFacts, AcquireKeeps DEF ReadableInvariant, SameChannel
  <2> QED BY <2>1, <2>2, <2>3 DEF Locked
<1>4. [Next]_stream
      BY <1>1 DEF Next, ReaderCalls, GetReader
<1>5. TeeInvariant(After) /\ LeavesTee(Now, After)
      BY <1>3, <1>4, StreamMoves
<1>6. stream.cancelled \in BOOLEAN
      BY <1>2, InvariantFacts DEF ReadableInvariant
<1>7. branch \in [Branches -> B!Slots]
      BY <1>2, BranchTypes
<1>8. \A k \in Branches : branch[k] = B!AcquireReader(tee.branch[k])
      OBVIOUS
<1> HIDE DEF branch
<1>9. /\ tee1 \in BranchSlots /\ tee1.on /\ tee1.branch = branch
      /\ tee1.canceled = tee.canceled /\ tee1.closedOrErrored = tee.closedOrErrored
      /\ tee1.reads = tee.reads /\ tee1.pulled = tee.pulled
      BY <1>2, <1>6, <1>7 DEF BranchSlots
<1> HIDE DEF tee1
<1>10. Now' \in TeeStates
  <2>1. After \in TeeStates
        BY <1>5 DEF TeeInvariant, TeeSound
  <2>2. stream' \in Slots
        BY <2>1, AfterFacts, StateFacts
  <2> QED BY <1>1, <1>9, <2>2 DEF Now, TeeStates
<1>11. ASSUME After.stream.keysMatch, NEW k \in Branches
       PROVE  /\ BP!Sound(Now'.tee.branch[k]) /\ Now'.tee.branch[k].keysMatch
              /\ CanCloseOrEnqueue(After.tee.branch[k]) => CanCloseOrEnqueue(Now'.tee.branch[k])
  <2>1. BP!Sound(tee.branch[k]) /\ tee.branch[k].keysMatch
        BY <1>5, <1>11, AfterFacts DEF TeeInvariant, TeeSound
  <2>2. Now'.tee.branch[k] = B!AcquireReader(tee.branch[k])
        BY <1>1, <1>8, <1>9, NowFacts
  <2>3. After.tee.branch[k] = tee.branch[k]
        BY AfterFacts
  <2> QED BY <2>1, <2>2, <2>3, AcquiredBranch DEF CanCloseOrEnqueue
<1>12. TeeSound(Now') /\ (Dead(After) => Dead(Now'))
  <2>1. /\ TeeSound(After) /\ Now'.stream = After.stream /\ Locked(Now'.stream)
        /\ Now'.tee.reads = After.tee.reads /\ Now'.tee.pulled = After.tee.pulled
        BY <1>1, <1>3, <1>5, <1>9, NowFacts, AfterFacts DEF TeeInvariant
  <2> QED BY <1>10, <1>11, <2>1, TeeChanged
<1>13. Now'.stream.keysMatch => \A k \in Branches : Usable(Now', k)
       BY <1>1, <1>5, <1>9, <1>11, <1>12, NowFacts, AfterFacts DEF TeeInvariant, Usable
<1>14. SameKind(Now, Now')
  <2>1. SameKind(Now, After)
        BY <1>5, KeepsKind
  <2> QED BY <1>1, <1>9, <2>1, NowFacts, AfterFacts DEF SameKind
<1> QED BY <1>12, <1>13, <1>14 DEF TeeInvariant

\* A branch is canceled, and the stream with it if the other one was.
LEMMA BranchCancelKeeps ==
    ASSUME TeeInvariant(Now), NEW k \in Branches, BranchCancel(k)
    PROVE  TeeInvariant(Now') /\ SameKind(Now, Now')
<1> DEFINE b == B!Cancel(tee.branch[k])
           branch == [tee.branch EXCEPT ![k] = b]
           canceled == [tee.canceled EXCEPT ![k] = TRUE]
           tee1 == [tee EXCEPT !.branch = branch, !.canceled = canceled]
<1>1. /\ TeeSound(Now) /\ Now \in TeeStates /\ tee \in BranchSlots /\ ReadableInvariant(stream)
      /\ tee.branch \in [Branches -> B!Slots] /\ tee.canceled \in [Branches -> BOOLEAN]
      BY NowFacts, StateFacts DEF TeeInvariant, TeeSound
<1>2. /\ tee.on
      /\ stream' = IF tee.canceled[3 - k] THEN Cancel(stream) ELSE stream
      /\ tee' = tee1
  <2>1. /\ stream' = CancelBranch(Now, k).stream /\ tee' = CancelBranch(Now, k).tee
        BY DEF BranchCancel, Become
  <2>2. /\ CancelBranch(Now, k).stream = IF tee.canceled[3 - k] THEN Cancel(stream) ELSE stream
        /\ CancelBranch(Now, k).tee = tee1
        BY <1>1 DEF CancelBranch, Now, BranchSlots
  <2> QED BY <2>1, <2>2 DEF BranchCancel, Quiet
<1>3. /\ [Next]_stream /\ stream'.reader = stream.reader
      /\ stream'.readInSize = stream.readInSize
  <2>1. CASE tee.canceled[3 - k] /\ stream.state = "readable"
    <3>1. stream'.reader = stream.reader
          BY <1>2, <1>1, <2>1, CancelSound DEF ReadableInvariant, Becomes
    <3>2. stream'.readInSize = stream.readInSize
          BY <1>2, <1>1, <2>1, InvariantFacts, CancelEffect DEF ReadableInvariant, Cancelled
    <3> QED BY <1>2, <2>1, <3>1, <3>2 DEF Next, ReaderCalls, StreamCancel
  <2>2. CASE ~(tee.canceled[3 - k] /\ stream.state = "readable")
        BY <1>2, <2>2 DEF Cancel
  <2> QED BY <2>1, <2>2
<1>4. Locked(stream')
      BY <1>2, <1>1, <1>3, NowFacts DEF TeeSound, Locked
<1>5. TeeInvariant(After) /\ LeavesTee(Now, After)
      BY <1>3, <1>4, StreamMoves
<1>6. b \in B!Slots /\ tee.branch[k] \in B!Slots
      BY <1>1, BranchTypes
<1>7. /\ branch \in [Branches -> B!Slots] /\ branch[k] = b
      /\ \A j \in Branches \ {k} : branch[j] = tee.branch[j]
      /\ canceled \in [Branches -> BOOLEAN] /\ canceled[k]
      /\ \A j \in Branches \ {k} : canceled[j] = tee.canceled[j]
      BY <1>1, <1>6
<1> HIDE DEF branch, canceled
<1>8. /\ tee1 \in BranchSlots /\ tee1.on = tee.on /\ tee1.branch = branch
      /\ tee1.canceled = canceled /\ tee1.closedOrErrored = tee.closedOrErrored
      /\ tee1.reads = tee.reads /\ tee1.pulled = tee.pulled
      BY <1>1, <1>7 DEF BranchSlots
<1> HIDE DEF tee1
<1>9. Now' \in TeeStates
  <2>1. After \in TeeStates
        BY <1>5 DEF TeeInvariant, TeeSound
  <2>2. stream' \in Slots
        BY <2>1, AfterFacts, StateFacts
  <2> QED BY <1>2, <1>8, <2>2 DEF Now, TeeStates
<1>10. ASSUME After.stream.keysMatch, NEW j \in Branches
       PROVE  BP!Sound(Now'.tee.branch[j]) /\ Now'.tee.branch[j].keysMatch
  <2>1. BP!Sound(tee.branch[j]) /\ tee.branch[j].keysMatch
        BY <1>5, <1>10, AfterFacts DEF TeeInvariant, TeeSound
  <2>2. Now'.tee.branch = branch
        BY <1>2, <1>8, NowFacts
  <2>3. CASE j = k
    <3>1. BP!Becomes(tee.branch[k], b)
          BY <2>1, <2>3, BranchSoundness
    <3> HIDE DEF b
    <3> QED BY <1>7, <2>1, <2>2, <2>3, <3>1 DEF BP!Becomes
  <2>4. CASE j # k
        BY <1>7, <2>1, <2>2, <2>4
  <2> QED BY <2>3, <2>4
<1>11. TeeSound(Now') /\ (Dead(After) => Dead(Now'))
  <2>1. /\ TeeSound(After) /\ Now'.stream = After.stream /\ Locked(Now'.stream)
        /\ Now'.tee.reads = After.tee.reads /\ Now'.tee.pulled = After.tee.pulled
        BY <1>2, <1>4, <1>5, <1>8, NowFacts, AfterFacts DEF TeeInvariant
  <2> QED BY <1>9, <1>10, <2>1, TeeChanged
<1>12. ASSUME Now'.stream.keysMatch, NEW j \in Branches
       PROVE  Usable(Now', j)
  <2>1. Usable(After, j)
        BY <1>5, <1>12, NowFacts, AfterFacts DEF TeeInvariant
  <2>2. /\ Now'.tee.branch = branch /\ Now'.tee.canceled = canceled
        /\ Now'.tee.closedOrErrored = After.tee.closedOrErrored
        /\ After.tee.branch = tee.branch /\ After.tee.canceled = tee.canceled
        BY <1>2, <1>8, NowFacts, AfterFacts
  <2>3. CASE j = k
        BY <1>7, <2>2, <2>3 DEF Usable
  <2>4. CASE j # k
        BY <1>7, <1>11, <2>1, <2>2, <2>4 DEF Usable
  <2> QED BY <2>3, <2>4
<1>13. SameKind(Now, Now')
  <2>1. SameKind(Now, After)
        BY <1>5, KeepsKind
  <2> QED BY <1>2, <1>8, <2>1, NowFacts, AfterFacts DEF SameKind
<1> QED BY <1>11, <1>12, <1>13 DEF TeeInvariant

\* The stream is used before tee(), and by its source.
LEMMA OtherStreamSteps ==
    ASSUME TeeInvariant(Now), UseStream \/ UseSource \/ StreamSettles
    PROVE  TeeInvariant(Now') /\ SameKind(Now, Now')
<1>1. [Next]_stream /\ UNCHANGED tee
      BY DEF UseStream, UseSource, StreamSettles, Next, ReaderCalls
<1>2. TeeSound(Now) /\ ReadableInvariant(stream)
      BY NowFacts DEF TeeInvariant, TeeSound
<1>3. tee.on => Locked(stream')
  <2>1. CASE UseStream
        BY <2>1 DEF UseStream
  <2>2. CASE UseSource \/ StreamSettles
    <3>1. stream'.reader = stream.reader /\ stream'.readInSize = stream.readInSize
          BY <1>1, <1>2, <2>2, ReadableStep DEF UseSource, StreamSettles
    <3> QED BY <1>2, <3>1, NowFacts DEF TeeSound, Locked
  <2> QED BY <2>1, <2>2
<1> QED BY <1>1, <1>3, StreamStep

\* A step that an operation on one branch makes.
LEMMA BranchMoves ==
    ASSUME NEW t, TeeSound(t), OneLeft(t), NEW k \in Branches, NEW b \in B!Slots,
           t.stream.keysMatch =>
               /\ BP!Becomes(t.tee.branch[k], b)
               /\ \A j \in Branches : Usable(t, j)
               /\ \/ BP!GoesOn(t.tee.branch[k], b)
                  \/ ~CanCloseOrEnqueue(t.tee.branch[k])
                  \/ Dead(t),
           NEW u, u = WithBranch(t, k, b)
    PROVE  TeeInvariant(u) /\ SameKind(t, u)
<1>1. t.stream.keysMatch => BP!Sound(b) /\ b.keysMatch
      BY DEF TeeSound, BP!Becomes
<1>2. /\ TeeSound(u) /\ LeavesTee(t, u)
      /\ u.tee.branch[k].state = b.state
      /\ u.tee.branch[k].closeRequested = b.closeRequested
      /\ \A j \in Branches \ {k} : u.tee.branch[j] = t.tee.branch[j]
      BY <1>1, WithBranchSound
<1>3. ASSUME u.stream.keysMatch, NEW j \in Branches
      PROVE  Usable(u, j)
  <2>1. /\ t.stream.keysMatch /\ Usable(t, j) /\ (Dead(t) => Dead(u))
        /\ u.tee.canceled = t.tee.canceled
        /\ u.tee.closedOrErrored = t.tee.closedOrErrored
        BY <1>2, <1>3 DEF LeavesTee, KeepsTee
  <2>2. CanCloseOrEnqueue(t.tee.branch[j]) => CanCloseOrEnqueue(u.tee.branch[j]) \/ Dead(t)
    <3>1. CASE j = k
          BY <1>2, <2>1, <3>1 DEF BP!GoesOn, CanCloseOrEnqueue
    <3>2. CASE j # k
          BY <1>2, <3>2
    <3> QED BY <3>1, <3>2
  <2> QED BY <2>1, <2>2 DEF Usable
<1>4. SameKind(t, u)
      BY <1>2, KeepsKind
<1> QED BY <1>2, <1>3, <1>4 DEF TeeInvariant

\* A branch is sound and can be used by the reactions that will use it.
LEMMA BranchFacts ==
    ASSUME TeeInvariant(Now), NEW k \in Branches
    PROVE  /\ TeeSound(Now) /\ tee.branch[k] \in B!Slots
           /\ stream.keysMatch =>
                  BP!Sound(tee.branch[k]) /\ \A j \in Branches : Usable(Now, j)
<1>1. TeeSound(Now) /\ Now \in TeeStates
      BY DEF TeeInvariant, TeeSound
<1>2. tee.branch \in [Branches -> B!Slots]
      BY <1>1, NowFacts, StateFacts
<1> QED BY <1>1, <1>2, NowFacts DEF TeeInvariant, TeeSound

\* A branch is read.
LEMMA BranchReadKeeps ==
    ASSUME TeeInvariant(Now), NEW k \in Branches, BranchRead(k)
    PROVE  TeeInvariant(Now') /\ SameKind(Now, Now')
<1> DEFINE b == B!Read(tee.branch[k])
           t == WithBranch(Now, k, b)
<1>1. Quiet /\ B!CanRead(tee.branch[k]) /\ stream' = t.stream /\ tee' = t.tee
      BY DEF BranchRead, Become
<1>2. OneLeft(Now) /\ Now.tee.branch[k] = tee.branch[k] /\ Now.stream = stream
      BY <1>1, QuietTwoLeft, NowFacts
<1>3. TeeSound(Now) /\ b \in B!Slots
      BY <1>1, BranchFacts, BranchTypes
<1>4. stream.keysMatch =>
          /\ BP!Becomes(tee.branch[k], b)
          /\ \A j \in Branches : Usable(Now, j)
          /\ BP!GoesOn(tee.branch[k], b) \/ ~CanCloseOrEnqueue(tee.branch[k])
  <2>1. stream.keysMatch => BP!Sound(tee.branch[k]) /\ \A j \in Branches : Usable(Now, j)
        BY BranchFacts
  <2>2. BP!Sound(tee.branch[k]) =>
            /\ BP!Becomes(tee.branch[k], b)
            /\ ~tee.branch[k].closeRequested => BP!GoesOn(tee.branch[k], b)
        BY <1>1, BranchSoundness
  <2> HIDE DEF b
  <2> QED BY <2>1, <2>2 DEF CanCloseOrEnqueue
<1> HIDE DEF b
<1>5. TeeInvariant(t) /\ SameKind(Now, t)
      BY <1>2, <1>3, <1>4, BranchMoves
<1> QED BY <1>1, <1>5, BecomeKeeps

\* A branch starts.
LEMMA BranchStartsKeeps ==
    ASSUME TeeInvariant(Now), NEW k \in Branches, BranchStarts(k)
    PROVE  TeeInvariant(Now') /\ SameKind(Now, Now')
<1> DEFINE b == B!FinishStart(tee.branch[k])
           t == WithBranch(Now, k, b)
<1>1. /\ Quiet /\ "start" \in tee.branch[k].sourceCalls
      /\ stream' = t.stream /\ tee' = t.tee
      BY DEF BranchStarts, Become
<1>2. OneLeft(Now) /\ Now.tee.branch[k] = tee.branch[k] /\ Now.stream = stream
      BY <1>1, QuietTwoLeft, NowFacts
<1>3. TeeSound(Now) /\ b \in B!Slots
      BY BranchFacts, BranchTypes
<1>4. stream.keysMatch =>
          /\ BP!GoesOn(tee.branch[k], b)
          /\ \A j \in Branches : Usable(Now, j)
  <2>1. stream.keysMatch => BP!Sound(tee.branch[k]) /\ \A j \in Branches : Usable(Now, j)
        BY BranchFacts
  <2>2. BP!Sound(tee.branch[k]) => BP!GoesOn(tee.branch[k], b)
        BY <1>1, BranchSoundness
  <2> QED BY <2>1, <2>2
<1> HIDE DEF b
<1>5. stream.keysMatch => BP!Becomes(tee.branch[k], b)
      BY <1>4 DEF BP!GoesOn
<1>6. TeeInvariant(t) /\ SameKind(Now, t)
      BY <1>2, <1>3, <1>4, <1>5, BranchMoves
<1> QED BY <1>1, <1>6, BecomeKeeps

\* What a reaction notes of the read that it waited for.
Noted(t, k, read, result) == [t EXCEPT !.tee.reads[k] = read, !.tee.pulled[k] = result]

\* It may be noted that a read is over, and how, if it only failed with the stream.
LEMMA NotedKeeps ==
    ASSUME NEW t, TeeInvariant(t), NEW k \in Branches,
           NEW read \in {0, t.tee.reads[k]},
           NEW result \in {"no", "fulfilled", "rejected"},
           t.stream.keysMatch /\ result = "rejected" => Dead(t),
           NEW u, u = Noted(t, k, read, result)
    PROVE  /\ TeeInvariant(u)
           /\ u.stream = t.stream /\ u.tee.branch = t.tee.branch /\ u.tee.on = t.tee.on
           /\ Dead(t) => Dead(u)
<1> DEFINE reads == [t.tee.reads EXCEPT ![k] = read]
           pulled == [t.tee.pulled EXCEPT ![k] = result]
           tee1 == [t.tee EXCEPT !.reads = reads, !.pulled = pulled]
<1>1. /\ TeeSound(t) /\ t \in TeeStates
      /\ t.tee \in BranchSlots /\ t.stream \in Slots /\ t.threw \in BOOLEAN
      /\ t.tee.reads \in [Branches -> Reads \cup {0}]
      /\ t.tee.pulled \in [Branches -> {"no", "fulfilled", "rejected"}]
      BY StateFacts DEF TeeInvariant, TeeSound
<1>2. /\ reads \in [Branches -> Reads \cup {0}]
      /\ pulled \in [Branches -> {"no", "fulfilled", "rejected"}]
      /\ \A j \in Branches : reads[j] \in {0, t.tee.reads[j]}
      /\ pulled[k] = result /\ \A j \in Branches \ {k} : pulled[j] = t.tee.pulled[j]
      BY <1>1
<1>3. u = [t EXCEPT !.tee = tee1]
      BY <1>1 DEF TeeStates, BranchSlots, Noted
<1> HIDE DEF reads, pulled
<1>4. /\ tee1 \in BranchSlots /\ tee1.reads = reads /\ tee1.pulled = pulled
      /\ tee1.on = t.tee.on /\ tee1.canceled = t.tee.canceled
      /\ tee1.closedOrErrored = t.tee.closedOrErrored
      /\ tee1.branch = t.tee.branch
      BY <1>1, <1>2 DEF BranchSlots
<1> HIDE DEF tee1
<1>5. u \in TeeStates /\ u.tee = tee1 /\ u.stream = t.stream
      BY <1>1, <1>3, <1>4 DEF TeeStates
<1>6. Dead(t) => Dead(u)
      BY <1>2, <1>4, <1>5 DEF Dead
<1>7. u.tee.on => Locked(u.stream)
      BY <1>1, <1>4, <1>5 DEF TeeSound
<1>8. ASSUME t.stream.keysMatch, NEW j \in Branches
      PROVE  /\ BP!Sound(u.tee.branch[j]) /\ u.tee.branch[j].keysMatch
             /\ u.tee.pulled[j] = "rejected" => t.tee.pulled[j] = "rejected" \/ Dead(u)
  <2>1. BP!Sound(u.tee.branch[j]) /\ u.tee.branch[j].keysMatch
        BY <1>1, <1>4, <1>5, <1>8 DEF TeeSound
  <2>2. u.tee.pulled[j] = "rejected" => t.tee.pulled[j] = "rejected" \/ Dead(u)
        BY <1>2, <1>4, <1>5, <1>6, <1>8
  <2> QED BY <2>1, <2>2
<1>9. \A j \in Branches : u.tee.reads[j] \in {0, t.tee.reads[j]}
      BY <1>2, <1>4, <1>5
<1>10. TeeSound(u)
       BY <1>1, <1>5, <1>7, <1>8, <1>9, TeeChanged
<1>11. u.stream.keysMatch => \A j \in Branches : Usable(u, j)
       BY <1>4, <1>5, <1>6 DEF TeeInvariant, Usable
<1> QED BY <1>4, <1>5, <1>6, <1>10, <1>11 DEF TeeInvariant

\* A read that is waited for has failed only with the stream, and those that are
\* waited for then fail with it.
LEMMA RejectedIsDead ==
    ASSUME TeeInvariant(Now), tee.on, stream.keysMatch, NEW k \in Branches, tee.reads[k] # 0,
           stream.answers[tee.reads[k]] = "rejected",
           Answered(tee.reads[3 - k]) => tee.reads[k] < tee.reads[3 - k]
    PROVE  Dead(Now)
<1>1. /\ TeeSound(Now) /\ Now \in TeeStates /\ ReadableInvariant(stream)
      /\ tee.reads \in [Branches -> Reads \cup {0}]
      BY NowFacts, StateFacts DEF TeeInvariant, TeeSound
<1>2. InTurn(stream) /\ ChannelInvariant(stream) /\ ~stream.readInSize
      BY <1>1, NowFacts DEF ReadableInvariant, TeeSound, Locked
<1>3. tee.reads[k] \in Reads
      BY <1>1
<1>4. stream.state = "errored" /\ stream.readRequests = <<>>
      BY <1>2, <1>3 DEF InTurn
<1>5. ASSUME NEW j \in Branches, tee.reads[j] # 0
      PROVE  stream.answers[tee.reads[j]] = "rejected"
  <2>1. CASE j = k
        BY <2>1
  <2>2. CASE j # k
    <3>1. j = 3 - k /\ tee.reads[j] \in Reads
          BY <1>1, <1>5, <2>2 DEF Branches
    <3>2. stream.answers[tee.reads[j]] # "none"
          BY <1>1, <1>5, NowFacts DEF TeeSound
    <3>3. stream.answers[tee.reads[j]] # "pending"
      <4>1. DOMAIN stream.readRequests = {}
            BY <1>4
      <4> QED BY <1>2, <3>1, <4>1 DEF InTurn
    <3>4. tee.reads[k] < tee.reads[j]
          BY <1>5, <3>1, <3>3 DEF Answered
    <3>5. ~Served(stream.answers[tee.reads[k]])
          BY <1>2, InvariantFacts DEF Served
    <3>6. ~Served(stream.answers[tee.reads[j]])
          BY <1>2, <1>3, <3>1, <3>4, <3>5 DEF InTurn
    <3>7. stream.answers[tee.reads[j]] \in AnswerSet
          BY <1>2, <3>1, InvariantFacts
    <3> QED BY <3>2, <3>3, <3>6, <3>7 DEF Served, AnswerSet
  <2> QED BY <2>1, <2>2
<1> QED BY <1>4, <1>5, NowFacts DEF Dead

\* The reaction to an answer that was waited for.
LEMMA ReadAnsweredKeeps ==
    ASSUME TeeInvariant(Now), NEW k \in Branches, ReadAnswered(k)
    PROVE  TeeInvariant(Now') /\ SameKind(Now, Now')
<1> DEFINE answer == stream.answers[tee.reads[k]]
           given == IF answer = "rejected" THEN [Now EXCEPT !.threw = TRUE]
                    ELSE Give(Now, k, answer)
           result == IF given.threw THEN "rejected" ELSE "fulfilled"
           t == Noted(given, k, 0, result)
<1>1. /\ Quiet /\ Answered(tee.reads[k])
      /\ Answered(tee.reads[3 - k]) => tee.reads[k] < tee.reads[3 - k]
      /\ stream' = t.stream /\ tee' = t.tee
      BY DEF ReadAnswered, Become, Noted
<1>2. tee.reads[k] # 0 /\ answer # "pending"
      BY <1>1 DEF Answered
<1>3. /\ TeeSound(Now) /\ Now \in TeeStates /\ ReadableInvariant(stream)
      /\ tee.reads \in [Branches -> Reads \cup {0}]
      BY NowFacts, StateFacts DEF TeeInvariant, TeeSound
<1>4. answer \in Chunks \cup {"done", "rejected"}
  <2>1. answer \in AnswerSet
        BY <1>2, <1>3, InvariantFacts DEF ReadableInvariant
  <2>2. answer # "none"
        BY <1>2, <1>3, NowFacts DEF TeeSound
  <2> QED BY <1>2, <2>1, <2>2 DEF AnswerSet
<1>5. /\ TeeInvariant(given) /\ given.stream.keysMatch = stream.keysMatch
      /\ stream.keysMatch /\ given.threw => Dead(given)
      /\ SameKind(Now, given)
  <2>1. CASE answer = "rejected"
    <3>1. TeeSound(given) /\ given.stream = Now.stream /\ given.tee = Now.tee
      <4>1. given = [Now EXCEPT !.threw = TRUE] /\ TRUE \in BOOLEAN
            BY <2>1
      <4> HIDE DEF given
      <4> QED BY <1>3, <4>1, ThrewSound
    <3>2. \A j \in Branches : Usable(Now, j) => Usable(given, j)
          BY <3>1, SameTee
    <3>3. stream.keysMatch => Dead(given)
      <4>1. stream.keysMatch => Dead(Now)
            BY <1>1, <1>2, <2>1, RejectedIsDead DEF Quiet
      <4> QED BY <3>1, <4>1 DEF Dead
    <3> HIDE DEF given
    <3>4. SameKind(Now, given)
          BY <3>1 DEF SameKind
    <3> QED BY <3>1, <3>2, <3>3, <3>4, NowFacts DEF TeeInvariant
  <2>2. CASE answer # "rejected"
    <3>1. given = Give(Now, k, answer)
          BY <2>2
    <3>2. ~Dead(Now) /\ ~Now.threw
          BY <1>2, <2>2, NowFacts DEF Dead
    <3>3. answer \in Chunks \cup {"done"}
          BY <1>4, <2>2
    <3> HIDE DEF given, answer
    <3>4. TeeInvariant(given) /\ KeepsTee(Now, given) /\ (stream.keysMatch => ~given.threw)
          BY <1>1, <3>1, <3>2, <3>3, QuietTwoLeft, GiveSound, NowFacts
    <3>5. SameKind(Now, given)
          BY <3>4, KeepsKind
    <3> QED BY <3>4, <3>5, NowFacts DEF KeepsTee
  <2> QED BY <2>1, <2>2
<1> HIDE DEF given
<1>6. /\ result \in {"no", "fulfilled", "rejected"}
      /\ given.stream.keysMatch /\ result = "rejected" => Dead(given)
      BY <1>5
<1> HIDE DEF result
<1>7. TeeInvariant(t)
      BY <1>5, <1>6, NotedKeeps
<1>8. t.stream = given.stream /\ t.tee.on = given.tee.on
  <2>1. given \in TeeStates /\ given.tee \in BranchSlots
        BY <1>5, StateFacts DEF TeeInvariant, TeeSound
  <2> HIDE DEF t
  <2>2. t = [given EXCEPT !.tee.reads[k] = 0, !.tee.pulled[k] = result]
        BY DEF t, Noted
  <2> QED BY <2>1, <2>2 DEF TeeStates, BranchSlots
<1>9. SameKind(Now, t)
      BY <1>5, <1>8 DEF SameKind
<1> QED BY <1>1, <1>7, <1>9, BecomeKeeps

\* The result of a pull is taken.
LEMMA NotedNothing ==
    ASSUME NEW t, TeeInvariant(t), NEW k \in Branches,
           NEW u, u = Noted(t, k, t.tee.reads[k], "no")
    PROVE  /\ TeeInvariant(u)
           /\ u.stream = t.stream /\ u.tee.branch = t.tee.branch /\ u.tee.on = t.tee.on
           /\ Dead(t) => Dead(u)
<1> DEFINE read == t.tee.reads[k]
           result == "no"
<1>1. /\ u = Noted(t, k, read, result)
      /\ read \in {0, t.tee.reads[k]}
      /\ result \in {"no", "fulfilled", "rejected"}
      /\ t.stream.keysMatch /\ result = "rejected" => Dead(t)
      OBVIOUS
<1> HIDE DEF read, result
<1> QED BY <1>1, NotedKeeps

\* The state in which a pull has settled, put together from operations.
LEMMA PulledState ==
    ASSUME NEW t \in TeeStates, NEW k \in Branches
    PROVE  Replaced(Noted(t, k, t.tee.reads[k], "no"), k, B!Settled(t.tee.branch[k], "pull"))
           = [t EXCEPT !.tee.pulled[k] = "no", !.tee.branch[k] = B!Settled(@, "pull")]
<1> DEFINE s == B!Settled(t.tee.branch[k], "pull")
           noted == Noted(t, k, t.tee.reads[k], "no")
           pulled == [t.tee.pulled EXCEPT ![k] = "no"]
           branch == [t.tee.branch EXCEPT ![k] = s]
           tee1 == [t.tee EXCEPT !.pulled = pulled]
           tee2 == [tee1 EXCEPT !.branch = branch]
<1>1. t.tee \in BranchSlots /\ t.tee.reads \in [Branches -> Reads \cup {0}]
      BY StateFacts
<1>2. noted = [t EXCEPT !.tee = tee1]
  <2>1. [t.tee.reads EXCEPT ![k] = t.tee.reads[k]] = t.tee.reads
        BY <1>1
  <2>2. [t.tee EXCEPT !.reads = t.tee.reads, !.pulled = pulled] = tee1
        BY <1>1 DEF BranchSlots
  <2>3. noted = [t EXCEPT !.tee = [t.tee EXCEPT
                     !.reads = [t.tee.reads EXCEPT ![k] = t.tee.reads[k]], !.pulled = pulled]]
        BY <1>1 DEF Noted, TeeStates, BranchSlots
  <2> HIDE DEF tee1, pulled, noted
  <2> QED BY <2>1, <2>2, <2>3
<1>3. tee1.branch = t.tee.branch
      BY <1>1 DEF BranchSlots
<1>4. [t EXCEPT !.tee.pulled[k] = "no", !.tee.branch[k] = B!Settled(@, "pull")]
      = [t EXCEPT !.tee = tee2]
  <2>1. [t EXCEPT !.tee.pulled[k] = "no", !.tee.branch[k] = B!Settled(@, "pull")]
        = [[t EXCEPT !.tee = tee1] EXCEPT !.tee.branch[k] = B!Settled(@, "pull")]
        OBVIOUS
  <2>2. [t EXCEPT !.tee = tee1].tee = tee1
        BY DEF TeeStates
  <2> HIDE DEF tee1
  <2>3. [[t EXCEPT !.tee = tee1] EXCEPT !.tee.branch[k] = B!Settled(@, "pull")]
        = [[t EXCEPT !.tee = tee1] EXCEPT !.tee = tee2]
        BY <1>3, <2>2
  <2> QED BY <2>1, <2>3 DEF TeeStates
<1> HIDE DEF noted, s, branch, tee1
<1>5. noted.tee = tee1
      BY <1>2 DEF TeeStates
<1>6. Replaced(noted, k, s) = [noted EXCEPT !.tee = tee2]
      BY <1>3, <1>5 DEF Replaced, branch
<1>7. [noted EXCEPT !.tee = tee2] = [t EXCEPT !.tee = tee2]
      BY <1>2 DEF TeeStates
<1> QED BY <1>4, <1>6, <1>7 DEF noted, s

\* A pull settles.
LEMMA BranchPulledKeeps ==
    ASSUME TeeInvariant(Now), NEW k \in Branches, BranchPulled(k)
    PROVE  TeeInvariant(Now') /\ SameKind(Now, Now')
<1> DEFINE s == B!Settled(tee.branch[k], "pull")
           b == IF tee.pulled[k] = "fulfilled" THEN B!FinishPull(tee.branch[k])
                ELSE B!FailPull(tee.branch[k])
           noted == Noted(Now, k, tee.reads[k], "no")
           settled == Replaced(noted, k, s)
           t == WithBranch(settled, k, b)
<1>1. /\ TeeSound(Now) /\ Now \in TeeStates /\ tee \in BranchSlots
      /\ tee.reads \in [Branches -> Reads \cup {0}]
      /\ tee.pulled \in [Branches -> {"no", "fulfilled", "rejected"}]
      BY NowFacts, StateFacts DEF TeeInvariant, TeeSound
<1>2. settled = [Now EXCEPT !.tee.pulled[k] = "no",
                            !.tee.branch[k] = B!Settled(@, "pull")]
  <2>1. Now.tee = tee
        BY NowFacts
  <2> QED BY <1>1, <2>1, PulledState
<1>3. Quiet /\ tee.pulled[k] # "no" /\ stream' = t.stream /\ tee' = t.tee
      BY <1>2 DEF BranchPulled, Become
<1>4. s \in B!Slots /\ b \in B!Slots
      BY BranchFacts, BranchTypes
<1>5. /\ TeeInvariant(noted) /\ noted.stream = stream
      /\ noted.tee.branch = tee.branch /\ noted.tee.on = tee.on
      /\ Dead(Now) => Dead(noted)
  <2>1. /\ TeeInvariant(noted) /\ noted.stream = Now.stream
        /\ noted.tee.branch = Now.tee.branch /\ noted.tee.on = Now.tee.on
        /\ Dead(Now) => Dead(noted)
        BY NotedNothing, NowFacts
  <2> QED BY <2>1, NowFacts
<1>6. /\ OneLeft(noted) /\ TeeSound(noted) /\ noted \in TeeStates
  <2>1. OneLeft(Now)
        BY <1>3, QuietTwoLeft
  <2> HIDE DEF noted
  <2> QED BY <1>5, <2>1, NowFacts DEF OneLeft, TeeInvariant, TeeSound
<1>7. stream.keysMatch =>
          /\ BP!Sound(tee.branch[k]) /\ BP!GoesOn(tee.branch[k], s)
          /\ BP!Becomes(tee.branch[k], b)
          /\ BP!GoesOn(tee.branch[k], b) \/ Dead(Now)
  <2>1. stream.keysMatch => BP!Sound(tee.branch[k])
        BY BranchFacts
  <2>2. BP!Sound(tee.branch[k]) =>
            /\ BP!GoesOn(tee.branch[k], s)
            /\ BP!GoesOn(tee.branch[k], B!FinishPull(tee.branch[k]))
            /\ BP!Becomes(tee.branch[k], B!FailPull(tee.branch[k]))
        BY BranchSoundness
  <2>3. CASE tee.pulled[k] = "fulfilled"
        BY <2>1, <2>2, <2>3 DEF BP!GoesOn
  <2>4. CASE tee.pulled[k] = "rejected"
        BY <1>1, <2>1, <2>2, <2>4, NowFacts DEF TeeSound
  <2> QED BY <1>1, <1>3, <2>3, <2>4
<1> HIDE DEF noted, s, b
<1>8. /\ TeeSound(settled) /\ LeavesTee(noted, settled) /\ OneLeft(settled)
      /\ settled.stream = stream /\ settled.tee.branch[k] = s
      /\ \A j \in Branches \ {k} : settled.tee.branch[j] = tee.branch[j]
  <2>1. stream.keysMatch => BP!Sound(s) /\ s.keysMatch
    <3>1. stream.keysMatch => tee.branch[k].keysMatch
          BY <1>1, NowFacts DEF TeeSound
    <3> QED BY <1>7, <3>1 DEF BP!GoesOn, BP!Becomes
  <2>2. /\ TeeSound(settled) /\ LeavesTee(noted, settled)
        /\ OneLeft(noted) => OneLeft(settled)
        BY <1>4, <1>5, <1>6, <2>1, ReplacedSound
  <2>3. /\ settled.stream = noted.stream /\ settled.tee.branch[k] = s
        /\ \A j \in Branches \ {k} : settled.tee.branch[j] = noted.tee.branch[j]
        BY <1>4, <1>6, ReplacedFacts DEF OneReplaced
  <2> QED BY <1>5, <1>6, <2>2, <2>3
<1> HIDE DEF settled
<1>9. ASSUME stream.keysMatch
      PROVE  /\ BP!Becomes(settled.tee.branch[k], b)
             /\ BP!GoesOn(settled.tee.branch[k], b) \/ Dead(settled)
             /\ \A j \in Branches : Usable(settled, j)
  <2>1. /\ BP!Becomes(settled.tee.branch[k], b)
        /\ BP!GoesOn(tee.branch[k], b) => BP!GoesOn(settled.tee.branch[k], b)
        BY <1>7, <1>8, <1>9 DEF BP!GoesOn, BP!Becomes
  <2>2. Dead(Now) => Dead(settled)
        BY <1>5, <1>8 DEF LeavesTee, KeepsTee
  <2>3. ASSUME NEW j \in Branches
        PROVE  Usable(settled, j)
    <3>1. /\ Usable(noted, j) /\ (Dead(noted) => Dead(settled))
          /\ settled.tee.canceled = noted.tee.canceled
          /\ settled.tee.closedOrErrored = noted.tee.closedOrErrored
          BY <1>5, <1>8, <1>9 DEF LeavesTee, KeepsTee, TeeInvariant
    <3>2. CanCloseOrEnqueue(noted.tee.branch[j]) => CanCloseOrEnqueue(settled.tee.branch[j])
      <4>1. CASE j = k
            BY <1>5, <1>7, <1>8, <1>9, <4>1 DEF BP!GoesOn, CanCloseOrEnqueue
      <4>2. CASE j # k
            BY <1>5, <1>8, <4>2
      <4> QED BY <4>1, <4>2
    <3> QED BY <3>1, <3>2 DEF Usable
  <2> QED BY <1>7, <1>9, <2>1, <2>2, <2>3
<1>10. TeeInvariant(t) /\ SameKind(settled, t)
       BY <1>4, <1>8, <1>9, BranchMoves
<1>11. SameKind(Now, settled)
       BY <1>5, <1>8, NowFacts DEF SameKind, LeavesTee, KeepsTee
<1>12. SameKind(Now, t)
       BY <1>10, <1>11, SameKindTrans
<1> QED BY <1>3, <1>10, <1>12, BecomeKeeps

\* The stream fails, and the branches with it.
LEMMA StreamRejectedKeeps ==
    ASSUME TeeInvariant(Now), StreamRejected
    PROVE  TeeInvariant(Now') /\ SameKind(Now, Now')
<1> DEFINE seen == [Now EXCEPT !.tee.watching = FALSE]
           first == ErrorTo(seen, 1)
           second == ErrorTo(first, 2)
           ended == [second EXCEPT !.tee.closedOrErrored = ~second.threw]
           t == IF tee.closedOrErrored THEN seen ELSE ended
<1>1. Quiet /\ stream' = t.stream /\ tee' = t.tee
      BY DEF StreamRejected, Become
<1>2. /\ TeeSound(Now) /\ Now \in TeeStates /\ OneLeft(Now) /\ TwoLeft(Now)
      /\ tee \in BranchSlots
      BY <1>1, QuietTwoLeft, NowFacts, StateFacts DEF TeeInvariant, TeeSound
<1>3. /\ seen \in TeeStates /\ seen.stream = Now.stream /\ ~seen.threw
      /\ seen.tee.on = tee.on /\ seen.tee.canceled = tee.canceled
      /\ seen.tee.closedOrErrored = tee.closedOrErrored
      /\ seen.tee.branch = tee.branch
      /\ seen.tee.reads = tee.reads /\ seen.tee.pulled = tee.pulled
  <2> DEFINE tee1 == [tee EXCEPT !.watching = FALSE]
  <2>1. /\ tee1 \in BranchSlots
        /\ tee1.on = tee.on /\ tee1.canceled = tee.canceled
        /\ tee1.closedOrErrored = tee.closedOrErrored
        /\ tee1.branch = tee.branch
        /\ tee1.reads = tee.reads /\ tee1.pulled = tee.pulled
        BY <1>2 DEF BranchSlots
  <2>2. seen = [Now EXCEPT !.tee = tee1]
        BY NowFacts
  <2> HIDE DEF tee1, seen
  <2>3. seen \in TeeStates /\ seen.tee = tee1 /\ seen.stream = Now.stream /\ seen.threw = Now.threw
        BY <1>2, <2>1, <2>2 DEF TeeStates
  <2> QED BY <2>1, <2>3, NowFacts
<1> HIDE DEF seen
<1>4. /\ TeeInvariant(seen) /\ OneLeft(seen) /\ TwoLeft(seen)
  <2>1. \A k \in Branches : seen.tee.reads[k] \in {0, Now.tee.reads[k]}
        BY <1>3, NowFacts
  <2>2. seen.tee.on => Locked(seen.stream)
        BY <1>2, <1>3, NowFacts DEF TeeSound
  <2>3. Now.stream.keysMatch =>
            \A k \in Branches :
                /\ BP!Sound(seen.tee.branch[k]) /\ seen.tee.branch[k].keysMatch
                /\ seen.tee.pulled[k] = "rejected" => Now.tee.pulled[k] = "rejected"
        BY <1>2, <1>3, NowFacts DEF TeeSound
  <2>4. TeeSound(seen) /\ (Dead(Now) => Dead(seen))
        BY <1>2, <1>3, <2>1, <2>2, <2>3, TeeChanged
  <2>5. OneLeft(seen) /\ TwoLeft(seen)
        BY <1>2, <1>3, NowFacts DEF OneLeft, TwoLeft
  <2>6. seen.stream.keysMatch => \A k \in Branches : Usable(seen, k)
        BY <1>3, <2>4, NowFacts DEF TeeInvariant, Usable
  <2> QED BY <2>4, <2>5, <2>6 DEF TeeInvariant
<1>5. TeeSound(seen) /\ 1 \in Branches /\ 2 \in Branches
      BY <1>4 DEF TeeInvariant, Branches
<1>6. /\ TeeSound(first) /\ OneLeft(first)
      /\ first.stream.keysMatch => ~first.threw
      /\ SameKind(seen, first)
  <2>1. /\ TeeSound(first) /\ LeavesTee(seen, first)
        /\ seen.stream.keysMatch => ~first.threw
        /\ TwoLeft(seen) => OneLeft(first)
        BY <1>3, <1>4, <1>5, ErrorToSound
  <2>2. SameKind(seen, first)
        BY <2>1, KeepsKind
  <2> QED BY <1>4, <2>1, <2>2 DEF LeavesTee, KeepsTee
<1> HIDE DEF first
<1>7. /\ TeeSound(second) /\ (second.stream.keysMatch => ~second.threw)
      /\ SameKind(first, second)
  <2>1. /\ TeeSound(second) /\ LeavesTee(first, second)
        /\ first.stream.keysMatch => ~second.threw
        BY <1>5, <1>6, ErrorToSound
  <2>2. SameKind(first, second)
        BY <2>1, KeepsKind
  <2> QED BY <2>1, <2>2 DEF LeavesTee, KeepsTee
<1> HIDE DEF second
<1>8. TeeInvariant(ended) /\ SameKind(second, ended)
  <2> DEFINE x == ~second.threw
  <2>1. x \in BOOLEAN /\ ended = [second EXCEPT !.tee.closedOrErrored = x]
        OBVIOUS
  <2> HIDE DEF ended, x
  <2>2. TeeSound(ended) /\ KeepsTee(second, ended) /\ ended.tee.closedOrErrored = x
        BY <1>7, <2>1, EndedSound
  <2>3. ended.stream.keysMatch => ended.tee.closedOrErrored
        BY <1>7, <2>2 DEF KeepsTee, x
  <2>4. SameKind(second, ended)
        BY <2>2, KeepsKind
  <2> QED BY <2>2, <2>3, <2>4 DEF TeeInvariant, Usable
<1> HIDE DEF ended
<1>9. SameKind(Now, seen)
      BY <1>3, NowFacts DEF SameKind
<1>10. SameKind(Now, ended)
       BY <1>6, <1>7, <1>8, <1>9, SameKindTrans
<1>11. TeeInvariant(t) /\ SameKind(Now, t)
       BY <1>4, <1>8, <1>9, <1>10
<1> QED BY <1>1, <1>11, BecomeKeeps

\* Before tee().
LEMMA TeeStart ==
    ASSUME TeeInit
    PROVE  TeeInvariant(Now)
<1>1. /\ Init /\ ReadableInvariant(stream)
      /\ stream \in Slots /\ stream.keysMatch \in BOOLEAN
      BY ReadableStart, InvariantFacts DEF TeeInit, ReadableInvariant
<1> DEFINE b == B!NewStream(stream.keysMatch)
<1>2. /\ b \in B!Slots /\ BP!Sound(b) /\ b.keysMatch = stream.keysMatch
      /\ CanCloseOrEnqueue(b)
      BY <1>1, NewBranch
<1>3. tee = [on |-> FALSE, branch |-> [k \in Branches |-> b],
             canceled |-> [k \in Branches |-> FALSE],
             closedOrErrored |-> FALSE, late |-> FALSE, watching |-> FALSE,
             reads |-> [k \in Branches |-> 0], pulled |-> [k \in Branches |-> "no"]]
      BY DEF TeeInit
<1> HIDE DEF b
<1>4. /\ tee \in BranchSlots /\ ~tee.on
      /\ \A k \in Branches : /\ tee.branch[k] = b
                             /\ tee.reads[k] = 0 /\ tee.pulled[k] = "no"
      BY <1>2, <1>3 DEF BranchSlots
<1>5. Now \in TeeStates
      BY <1>1, <1>4 DEF Now, TeeStates
<1>6. TeeSound(Now)
      BY <1>1, <1>2, <1>4, <1>5, NowFacts DEF TeeSound
<1>7. \A k \in Branches : Usable(Now, k)
      BY <1>2, <1>4, NowFacts DEF Usable
<1> QED BY <1>6, <1>7 DEF TeeInvariant

\* Every step.
LEMMA TeeStep ==
    ASSUME TeeInvariant(Now), [TeeNext]_teeVars
    PROVE  TeeInvariant(Now') /\ SameKind(Now, Now')
<1>1. CASE CallTee
      BY <1>1, CallTeeKeeps
<1>2. CASE UseStream \/ UseSource \/ StreamSettles
      BY <1>2, OtherStreamSteps
<1>3. ASSUME NEW k \in Branches, BranchRead(k)
      PROVE  TeeInvariant(Now') /\ SameKind(Now, Now')
      BY <1>3, BranchReadKeeps
<1>4. ASSUME NEW k \in Branches, BranchCancel(k)
      PROVE  TeeInvariant(Now') /\ SameKind(Now, Now')
      BY <1>4, BranchCancelKeeps
<1>5. ASSUME NEW k \in Branches, BranchStarts(k)
      PROVE  TeeInvariant(Now') /\ SameKind(Now, Now')
      BY <1>5, BranchStartsKeeps
<1>6. ASSUME NEW k \in Branches, ReadAnswered(k)
      PROVE  TeeInvariant(Now') /\ SameKind(Now, Now')
      BY <1>6, ReadAnsweredKeeps
<1>7. ASSUME NEW k \in Branches, BranchPulled(k)
      PROVE  TeeInvariant(Now') /\ SameKind(Now, Now')
      BY <1>7, BranchPulledKeeps
<1>8. CASE StreamRejected
      BY <1>8, StreamRejectedKeeps
<1>9. CASE UNCHANGED teeVars
  <2>1. Now' = Now
        BY <1>9 DEF teeVars, Now
  <2> QED BY <2>1 DEF SameKind
<1> QED BY <1>1, <1>2, <1>3, <1>4, <1>5, <1>6, <1>7, <1>8, <1>9 DEF TeeNext, TeeReacts

\* Whatever is done with the stream and its branches, and however pulls, cancels, errors
\* and the answers of reads cross, a stream that was teed stays locked, and where the keys
\* agree no reaction of tee() uses the controller of a branch once it can not be used.
THEOREM TeeInvariantHolds == TeeSpec => []TeeInvariant(Now)
<1>1. TeeInit => TeeInvariant(Now)
      BY TeeStart
<1>2. TeeInvariant(Now) /\ [TeeNext]_teeVars => TeeInvariant(Now)'
  <2>1. ASSUME TeeInvariant(Now), [TeeNext]_teeVars
        PROVE  TeeInvariant(Now') /\ SameKind(Now, Now')
        BY <2>1, TeeStep
  <2>2. TeeInvariant(Now') <=> TeeInvariant(Now)'
        BY DEF TeeInvariant, TeeSound, Usable, Dead, TeeStates
  <2> QED BY <2>1, <2>2
<1> QED BY <1>1, <1>2, PTL DEF TeeSpec

\* Where the keys agree no assertion fails in the stream or in a branch.
THEOREM BranchAssertionsHoldCorrect == TeeSpec => []BranchAssertionsHold
<1>1. TeeInvariant(Now) => BranchAssertionsHold
      BY NowFacts DEF TeeInvariant, TeeSound, ReadableInvariant, Sound, BP!Sound,
         BranchAssertionsHold
<1> QED BY <1>1, TeeInvariantHolds, PTL

-----------------------------------------------------------------------------
(* What a branch holds, against what was passed on.                           *)

\* The queries of the instances agree too.
LEMMA SameContents ==
    /\ \A answers : Chosen(answers, Chunks) = BP!Chosen(answers, Chunks)
    /\ \A queue : Values(queue) = BP!Values(queue)
    /\ \A b : CanCloseOrEnqueue(b) <=> BP!CanCloseOrEnqueue(b)
<1>1. ASSUME NEW answers
      PROVE  Chosen(answers, Chunks) = BP!Chosen(answers, Chunks)
      BY DEF Chosen, BP!Chosen, FoldLeft, BP!FoldLeft, MapThenFoldSet, BP!MapThenFoldSet,
             Max, BP!Max
<1> QED BY <1>1 DEF Values, BP!Values, CanCloseOrEnqueue, BP!CanCloseOrEnqueue

\* What was delivered begins what was passed on.
Begins(d, p) == \E r \in Seq(Chunks) : p = d \o r

\* A branch b that has to show all of p, unless it was canceled or failed, and may only be
\* at its end when `ended' is.
Holds(b, p, canceled, ended) ==
    /\ BP!InOrder(b) /\ b.sizing = None
    /\ Begins(BP!Delivered(b), p)
    /\ canceled => b.state # "readable"
    /\ ~canceled /\ b.state # "errored" =>
           /\ BP!Content(b) = p
           /\ b.state = "closed" => b.queue = <<>>
           /\ CanCloseOrEnqueue(b) \/ ended

\* A branch goes on being what it was: nothing reopens it, and it forgets no pull().
Proceeds(b, c) ==
    /\ CanCloseOrEnqueue(c) => CanCloseOrEnqueue(b)
    /\ "pull" \in b.sourceCalls => "pull" \in c.sourceCalls

\* What is held, and what was delivered of it.
LEMMA HeldFacts ==
    ASSUME NEW b, BP!InOrder(b)
    PROVE  /\ b \in B!Slots /\ b \in BP!Slots /\ b.keysMatch /\ BP!Waits(b)
           /\ b.state \in {"readable", "closed", "errored"}
           /\ BP!Delivered(b) \in Seq(Chunks) /\ BP!Content(b) \in Seq(Chunks)
           /\ Begins(BP!Delivered(b), BP!Content(b))
<1> USE BranchAssumption
<1>1. b \in BP!Slots /\ b.keysMatch /\ BP!Waits(b)
      BY DEF BP!InOrder
<1>2. b \in B!Slots
      BY <1>1, SameTypes
<1>3. b.state \in {"readable", "closed", "errored"}
      BY <1>2, BranchTypes
<1>4. /\ BP!Delivered(b) \in Seq(Chunks) /\ BP!Values(b.queue) \in Seq(Chunks)
      /\ BP!Content(b) = BP!Delivered(b) \o BP!Values(b.queue)
      /\ BP!Content(b) \in Seq(Chunks)
      BY BP!ContentFacts
<1>5. Begins(BP!Delivered(b), BP!Content(b))
      BY <1>4 DEF Begins
<1> QED BY <1>1, <1>2, <1>3, <1>4, <1>5

\* One more chunk is passed on.
LEMMA BeginsMore ==
    ASSUME NEW d \in Seq(Chunks), NEW p, Begins(d, p), NEW chunk \in Chunks
    PROVE  Begins(d, Append(p, chunk))
<1>1. PICK r \in Seq(Chunks) : p = d \o r
      BY DEF Begins
<1>2. d \o Append(r, chunk) = Append(d \o r, chunk)
      BY BranchAssumption, BP!ConcatAppend
<1>3. Append(r, chunk) \in Seq(Chunks)
      OBVIOUS
<1> QED BY <1>1, <1>2, <1>3 DEF Begins

\* A branch whose content stays as it was.
LEMMA HoldsSame ==
    ASSUME NEW b, NEW p, NEW canceled, NEW ended, Holds(b, p, canceled, ended),
           NEW c \in B!Slots, BP!SameContent(b, c), c.closeRequested = b.closeRequested,
           c.sizing = b.sizing
    PROVE  Holds(c, p, canceled, ended)
<1>1. BP!InOrder(b) /\ c \in BP!Slots
      BY SameTypes DEF Holds
<1>2. /\ BP!InOrder(c) /\ BP!Content(c) = BP!Content(b)
      /\ BP!Delivered(c) = BP!Delivered(b)
      BY <1>1, BranchAssumption, BP!SameContentOrder
<1>3. c.state = b.state /\ c.queue = b.queue /\ (CanCloseOrEnqueue(c) <=> CanCloseOrEnqueue(b))
      BY DEF BP!SameContent, CanCloseOrEnqueue
<1> QED BY <1>2, <1>3 DEF Holds

\* What must be shown may be weakened.
LEMMA HoldsStill ==
    ASSUME NEW b, NEW p, NEW canceled, NEW ended, Holds(b, p, canceled, ended),
           NEW later, canceled \/ (ended => later)
    PROVE  Holds(b, p, canceled, later)
BY DEF Holds

\* Nothing more goes to a branch that was canceled or that failed.
LEMMA HoldsMore ==
    ASSUME NEW b, NEW p, NEW canceled, NEW ended, Holds(b, p, canceled, ended),
           canceled \/ b.state = "errored", NEW chunk \in Chunks, NEW later
    PROVE  Holds(b, Append(p, chunk), canceled, later)
<1>1. BP!InOrder(b) /\ Begins(BP!Delivered(b), p)
      BY DEF Holds
<1>2. BP!Delivered(b) \in Seq(Chunks)
      BY <1>1, HeldFacts
<1>3. Begins(BP!Delivered(b), Append(p, chunk))
      BY <1>1, <1>2, BeginsMore
<1> QED BY <1>1, <1>3 DEF Holds

\* A branch is read.
LEMMA HoldsRead ==
    ASSUME NEW b, BP!Sound(b), B!CanRead(b),
           NEW p, NEW canceled, NEW ended, Holds(b, p, canceled, ended)
    PROVE  Holds(B!Read(b), p, canceled, ended) /\ Proceeds(b, B!Read(b))
<1> DEFINE c == B!Read(b)
<1>1. /\ BP!InOrder(b) /\ BP!CanRead(b) /\ c = BP!Read(b) /\ b.sizing = None
      /\ b \in BP!Slots /\ BP!Waits(b) /\ b.state \in {"readable", "closed", "errored"}
      BY HeldFacts, SameReader DEF Holds
<1>0. c.sizing = None
      BY <1>1, BranchAssumption, BP!UnsizedStays
<1>2. /\ BP!InOrder(c)
      /\ b.state # "readable" =>
             BP!Delivered(c) = BP!Delivered(b) /\ c.state = b.state /\ c.queue = b.queue
      /\ b.state = "readable" =>
             /\ BP!Content(c) = BP!Content(b)
             /\ c.state = "readable" \/ (c.state = "closed" /\ c.queue = <<>>)
      BY <1>1, BranchAssumption, BP!ReadOrder
<1>3. Proceeds(b, c)
  <2>1. /\ BP!Beside(b, c)
        /\ ~BP!CanCloseOrEnqueue(b) => BP!Silent(b, c)
        /\ BP!CanCloseOrEnqueue(b) => BP!Asks(b, c)
        BY <1>1, BranchAssumption, BP!ReadAsks
  <2> HIDE DEF c
  <2> QED BY <2>1, SameContents DEF BP!Beside, BP!Silent, BP!Asks, Proceeds
<1>4. CanCloseOrEnqueue(b) => CanCloseOrEnqueue(c)
      BY BranchSoundness DEF BP!GoesOn, CanCloseOrEnqueue
<1>5. BP!Content(c) = BP!Delivered(c) \o BP!Values(c.queue)
      /\ BP!Content(b) = BP!Delivered(b) \o BP!Values(b.queue)
      BY DEF BP!Content, BP!Delivered
<1>6. Begins(BP!Delivered(c), BP!Content(c))
      BY <1>2, HeldFacts
<1> HIDE DEF c
<1>7. ASSUME b.state # "readable"
      PROVE  Holds(c, p, canceled, ended)
      BY <1>0, <1>2, <1>4, <1>5, <1>7 DEF Holds
<1>8. ASSUME b.state = "readable"
      PROVE  Holds(c, p, canceled, ended)
      BY <1>0, <1>2, <1>4, <1>6, <1>8 DEF Holds
<1>9. Holds(c, p, canceled, ended)
      BY <1>7, <1>8
<1> QED BY <1>3, <1>9 DEF c

\* A chunk is given to it.
LEMMA HoldsEnqueue ==
    ASSUME NEW b, BP!Sound(b), CanCloseOrEnqueue(b), NEW chunk \in Chunks,
           NEW p, NEW ended, Holds(b, p, FALSE, ended)
    PROVE  /\ Holds(B!Enqueue(b, chunk, 1), Append(p, chunk), FALSE, ended)
           /\ Proceeds(b, B!Enqueue(b, chunk, 1))
           /\ CanCloseOrEnqueue(B!Enqueue(b, chunk, 1))
<1> DEFINE c == B!Enqueue(b, chunk, 1)
           one == 1
<1>1. /\ BP!InOrder(b) /\ b.state = "readable" /\ b.keysMatch /\ b.sizing = None
      /\ b \in BP!Slots /\ BP!Waits(b) /\ BP!Content(b) = p
      BY HeldFacts DEF Holds, CanCloseOrEnqueue
<1>2. one \in Nat /\ c = BP!Enqueue(b, chunk, one)
      BY SameSource
<1> HIDE DEF one
<1>3. BP!InOrder(c) /\ BP!Content(c) = Append(p, chunk) /\ c.sizing = None
      BY <1>1, <1>2, BranchAssumption, BP!EnqueueOrder, BP!UnsizedStays
<1>4. CanCloseOrEnqueue(c) /\ c.state = "readable"
      BY <1>1, BranchSoundness DEF BP!GoesOn, CanCloseOrEnqueue
<1>5. Proceeds(b, c)
  <2>1. /\ BP!EnqueueThrows(b) => c.sourceCalls = b.sourceCalls
        /\ ~BP!EnqueueThrows(b) => BP!Asks(b, c)
        BY <1>1, <1>2, BranchAssumption, BP!EnqueueAsks
  <2> HIDE DEF c
  <2> QED BY <2>1 DEF BP!Asks, Proceeds
<1>6. Begins(BP!Delivered(c), BP!Content(c))
      BY <1>3, HeldFacts
<1> HIDE DEF c
<1>7. Holds(c, Append(p, chunk), FALSE, ended)
      BY <1>3, <1>4, <1>6 DEF Holds
<1> QED BY <1>4, <1>5, <1>7 DEF c

\* It is told that there is no more.
LEMMA HoldsClose ==
    ASSUME NEW b, BP!Sound(b), b.state = "readable", NEW p, NEW ended, Holds(b, p, FALSE, ended)
    PROVE  /\ Holds(B!ControllerClose(b), p, FALSE, TRUE)
           /\ Proceeds(b, B!ControllerClose(b))
           /\ ~CanCloseOrEnqueue(B!ControllerClose(b))
<1> DEFINE c == B!ControllerClose(b)
<1>1. BP!InOrder(b) /\ b \in BP!Slots /\ BP!Content(b) = p /\ b.sizing = None
      BY HeldFacts DEF Holds
<1>2. c = BP!ControllerClose(b)
      BY SameEnds
<1>3. /\ BP!InOrder(c) /\ BP!Content(c) = p /\ ~BP!CanCloseOrEnqueue(c)
      /\ c.state # "errored" /\ (c.state = "closed" => c.queue = <<>>)
      /\ c.sizing = None
      BY <1>1, <1>2, BranchAssumption, BP!EndingOrder, BP!UnsizedStays
<1>4. c.sourceCalls = b.sourceCalls
      BY <1>2, BranchAssumption, BP!ControllerCloseSound
<1>5. Begins(BP!Delivered(c), BP!Content(c))
      BY <1>3, HeldFacts
<1>6. ~CanCloseOrEnqueue(c)
      BY <1>3, SameContents
<1> HIDE DEF c
<1>7. Holds(c, p, FALSE, TRUE)
      BY <1>3, <1>5 DEF Holds
<1> QED BY <1>4, <1>6, <1>7 DEF c, Proceeds

\* It is told that there was an error.
LEMMA HoldsError ==
    ASSUME NEW b, NEW p, NEW canceled, NEW ended, Holds(b, p, canceled, ended)
    PROVE  /\ Holds(B!ControllerError(b), p, canceled, ended)
           /\ Proceeds(b, B!ControllerError(b))
           /\ ~CanCloseOrEnqueue(B!ControllerError(b))
<1> DEFINE c == B!ControllerError(b)
<1>1. BP!InOrder(b) /\ b \in BP!Slots /\ BP!Waits(b) /\ b.sizing = None
      BY HeldFacts DEF Holds
<1>2. c = BP!ControllerError(b)
      BY SameEnds
<1>3. /\ BP!Silent(b, c) /\ ~BP!CanCloseOrEnqueue(c)
      /\ b.state # "readable" => c = b
      BY <1>1, <1>2, BranchAssumption, BP!ErrorSilent
<1>4. ~CanCloseOrEnqueue(c) /\ Proceeds(b, c)
      BY <1>3, SameContents DEF BP!Silent, Proceeds
<1>5. CASE b.state # "readable"
      BY <1>3, <1>4, <1>5
<1>6. CASE b.state = "readable"
  <2>1. /\ BP!InOrder(c) /\ BP!Delivered(c) = BP!Delivered(b) /\ c.state = "errored"
        /\ c.sizing = None
        BY <1>1, <1>2, <1>6, BranchAssumption, BP!EndingOrder, BP!UnsizedStays
  <2> HIDE DEF c
  <2>2. Holds(c, p, canceled, ended)
        BY <2>1 DEF Holds
  <2> QED BY <1>4, <2>2 DEF c
<1> QED BY <1>5, <1>6

\* Its reader has enough.
LEMMA HoldsCancel ==
    ASSUME NEW b, NEW p, NEW canceled, NEW ended, Holds(b, p, canceled, ended),
           b.state = "readable", NEW later
    PROVE  /\ Holds(B!Cancel(b), p, TRUE, later)
           /\ Proceeds(b, B!Cancel(b))
<1> DEFINE c == B!Cancel(b)
<1>1. BP!InOrder(b) /\ b \in BP!Slots /\ b.sizing = None
      BY HeldFacts DEF Holds
<1>2. c = BP!Cancel(b)
      BY SameEnds
<1>3. BP!Silent(b, c) /\ ~BP!CanCloseOrEnqueue(c)
      BY <1>1, <1>2, BranchAssumption, BP!CancelSilent
<1>4. /\ BP!InOrder(c) /\ BP!Delivered(c) = BP!Delivered(b) /\ c.state = "closed"
      /\ c.sizing = None
      BY <1>1, <1>2, BranchAssumption, BP!EndingOrder, BP!UnsizedStays
<1>5. Proceeds(b, c)
      BY <1>3, SameContents DEF BP!Silent, Proceeds
<1> HIDE DEF c
<1>6. Holds(c, p, TRUE, later)
      BY <1>4 DEF Holds
<1> QED BY <1>5, <1>6 DEF c

-----------------------------------------------------------------------------
(* What was read of the stream, against what the branches hold.               *)

\* What pullAlgorithm waits for, and what it has passed on.
Unread(t) == {t.tee.reads[k] : k \in Branches}

Noticed(t) ==
    [i \in Reads |-> IF i \in Reads \ Unread(t) THEN t.stream.answers[i] ELSE "none"]

PassedBy(t) == Chosen(Noticed(t), Chunks)

\* The stream is closed and nothing is on its way to the branches.
Drained(t) ==
    /\ t.stream.state = "closed"
    /\ \A k \in Branches : t.tee.reads[k] # 0 =>
           t.stream.answers[t.tee.reads[k]] \notin Chunks \cup {"pending"}

\* What was passed on came before what is waited for; closedOrErrored says that both branches
\* are at their end; and only the two branches together cancel the stream.
StreamOrder(t) ==
    /\ InOrder(t.stream)
    /\ \A i \in Reads \ Unread(t) : t.stream.answers[i] # "none" =>
           /\ t.stream.answers[i] # "pending"
           /\ \A k \in Branches : t.tee.reads[k] # 0 => i < t.tee.reads[k]
    /\ t.tee.closedOrErrored =>
           \A k \in Branches : t.tee.canceled[k] \/ ~CanCloseOrEnqueue(t.tee.branch[k])
    /\ (\E k \in Branches : ~t.tee.canceled[k]) => t.stream.cancelled = t.tee.late

\* pullAlgorithm waits for a read of branch k, or its promise has yet to be seen to settle,
\* only while that branch is being pulled.
Asked(t, k) ==
    /\ t.tee.reads[k] # 0 => t.tee.pulled[k] = "no"
    /\ t.tee.reads[k] # 0 \/ t.tee.pulled[k] # "no" => "pull" \in t.tee.branch[k].sourceCalls

BranchOrder(t, k, p) ==
    Holds(t.tee.branch[k], p, t.tee.canceled[k], Drained(t)) /\ Asked(t, k)

\* The answer of branch k's read is the next one to be passed on.
Due(t, k, answer) ==
    /\ t.tee.reads[k] # 0
    /\ t.stream.answers[t.tee.reads[k]] = answer /\ answer \notin {"none", "pending"}
    /\ \A j \in Branches \ {k} : t.tee.reads[j] # 0 => t.tee.reads[k] < t.tee.reads[j]

\* Nothing is passed on by what goes from t to u, and what branches other than k hold is
\* what they have to hold.
OrderLeft(t, u, k) ==
    /\ StreamOrder(u)
    /\ PassedBy(u) = PassedBy(t)
    /\ Drained(t) => Drained(u)
    /\ \A j \in Branches : \A answer : Due(t, j, answer) => Due(u, j, answer)
    /\ \A j \in Branches \ {k} : \A p : BranchOrder(t, j, p) => BranchOrder(u, j, p)

LEMMA OrderLeftTrans ==
    ASSUME NEW t, NEW u, NEW v, NEW k, OrderLeft(t, u, k), OrderLeft(u, v, k)
    PROVE  OrderLeft(t, v, k)
BY DEF OrderLeft

\* All of this is about the stream and the tee.
LEMMA SameOrder ==
    ASSUME NEW t, NEW u, u.stream = t.stream, u.tee = t.tee
    PROVE  /\ StreamOrder(t) => StreamOrder(u)
           /\ PassedBy(u) = PassedBy(t) /\ (Drained(u) <=> Drained(t))
           /\ \A k, answer : Due(t, k, answer) <=> Due(u, k, answer)
           /\ \A k, p : BranchOrder(t, k, p) => BranchOrder(u, k, p)
           /\ \A k : StreamOrder(t) => OrderLeft(t, u, k)
<1>1. PassedBy(u) = PassedBy(t)
      BY DEF PassedBy, Noticed, Unread
<1>2. Drained(u) <=> Drained(t)
      BY DEF Drained
<1>3. StreamOrder(t) => StreamOrder(u)
      BY DEF StreamOrder, Unread
<1>4. \A k, answer : Due(t, k, answer) <=> Due(u, k, answer)
      BY DEF Due
<1>5. Drained(u) = Drained(t)
      BY <1>2 DEF Drained
<1>6. \A k, p : BranchOrder(t, k, p) => BranchOrder(u, k, p)
      BY <1>5 DEF BranchOrder, Asked
<1> QED BY <1>1, <1>2, <1>3, <1>4, <1>6 DEF OrderLeft

\* A branch is replaced by one that can do no more.
LEMMA ReplacedOrder ==
    ASSUME NEW t \in TeeStates, StreamOrder(t), NEW k \in Branches, NEW b \in B!Slots,
           CanCloseOrEnqueue(b) => CanCloseOrEnqueue(t.tee.branch[k]),
           NEW u, u = Replaced(t, k, b)
    PROVE  OneReplaced(t, k, b, u) /\ OrderLeft(t, u, k) /\ (Drained(u) <=> Drained(t))
<1>1. OneReplaced(t, k, b, u)
      BY ReplacedFacts
<1>2. /\ u.stream = t.stream /\ u.tee.branch[k] = b
      /\ \A j \in Branches \ {k} : u.tee.branch[j] = t.tee.branch[j]
      /\ u.tee.canceled = t.tee.canceled
      /\ u.tee.closedOrErrored = t.tee.closedOrErrored /\ u.tee.late = t.tee.late
      /\ u.tee.reads = t.tee.reads /\ u.tee.pulled = t.tee.pulled
      BY <1>1 DEF OneReplaced
<1>3. Unread(u) = Unread(t)
      BY <1>2 DEF Unread
<1>4. PassedBy(u) = PassedBy(t)
      BY <1>2, <1>3 DEF PassedBy, Noticed
<1>5. Drained(u) = Drained(t)
      BY <1>2 DEF Drained
<1>6. \A j \in Branches : t.tee.canceled[j] \/ ~CanCloseOrEnqueue(t.tee.branch[j]) =>
                          u.tee.canceled[j] \/ ~CanCloseOrEnqueue(u.tee.branch[j])
      BY <1>2
<1>7. StreamOrder(u)
      BY <1>2, <1>3, <1>6 DEF StreamOrder
<1>8. \A j \in Branches : \A answer : Due(t, j, answer) => Due(u, j, answer)
      BY <1>2 DEF Due
<1>9. \A j \in Branches \ {k} : \A p : BranchOrder(t, j, p) => BranchOrder(u, j, p)
      BY <1>2, <1>5 DEF BranchOrder, Asked
<1> QED BY <1>1, <1>4, <1>5, <1>7, <1>8, <1>9 DEF OrderLeft

\* The stream is read for a branch that waits for no read.
LEMMA ReadForOrder ==
    ASSUME NEW t, TeeSound(t), OneLeft(t), StreamOrder(t), NEW k \in Branches,
           t.tee.reads[k] = 0,
           NEW u, u = ReadFor(t, k)
    PROVE  /\ OrderLeft(t, u, k)
           /\ u.tee.branch = t.tee.branch /\ u.tee.canceled = t.tee.canceled
           /\ u.tee.pulled = t.tee.pulled /\ u.tee.closedOrErrored = t.tee.closedOrErrored
<1> DEFINE s == t.stream
           i == NextRead(s)
           r == Read(s)
<1>1. /\ t \in TeeStates /\ ReadableInvariant(s) /\ InOrder(s) /\ s \in Slots
      BY DEF TeeSound, StreamOrder, InOrder
<1>2. s.sizing = None /\ ~s.readInSize /\ CanRead(s)
      BY DEF OneLeft, TeeSound, Locked, CanRead
<1>3. /\ ReadableInvariant(r) /\ i \in Reads /\ r.answers[i] # "none"
      /\ \A j \in Reads \ {i} : r.answers[j] = s.answers[j]
      BY <1>1, <1>2, ReadKeeps
<1>4. r \in Slots
      BY <1>3, InvariantFacts DEF ReadableInvariant
<1>5. /\ u.stream = r /\ u.tee.reads[k] = i
      /\ \A j \in Branches \ {k} : u.tee.reads[j] = t.tee.reads[j]
      /\ u.tee.canceled = t.tee.canceled /\ u.tee.late = t.tee.late
      /\ u.tee.closedOrErrored = t.tee.closedOrErrored
      /\ u.tee.branch = t.tee.branch /\ u.tee.pulled = t.tee.pulled
      BY <1>1, <1>3, <1>4, ReadForFacts
<1>6. InOrder(r) /\ (s.state # "readable" => r.state = s.state)
      BY <1>1, <1>2, ReadOrder
<1>7. r.cancelled = s.cancelled
      BY <1>1, <1>2, ReadAsks DEF InOrder, Beside
<1>8. s.state = "closed" => r.answers[i] = "done"
  <2>1. s.state = "closed" => Answers(s, r, i, "done")
        BY <1>1, <1>3, ReadEndedEffect
  <2>2. s.answers \in [Reads -> AnswerSet]
        BY <1>1, SlotsFacts
  <2> QED BY <1>3, <2>1, <2>2 DEF Answers
<1>9. \A j \in Reads : s.answers[j] = "none" <=> j > i - 1
      BY <1>1, <1>2, NextReadPlace
<1>10. /\ \A j \in Branches : t.tee.reads[j] # 0 =>
              t.tee.reads[j] \in Reads /\ s.answers[t.tee.reads[j]] # "none"
       BY <1>1, StateFacts DEF TeeSound
<1>11. Reads \subseteq Nat /\ 0 \notin Reads /\ "done" \notin Chunks
       BY ReadableStreamAssumption DEF Reads
<1> HIDE DEF s, i, r
<1>12. \A j \in Reads : s.answers[j] # "none" => j < i
       BY <1>3, <1>9, <1>11
<1>13. \A j \in Reads \ {i} : j \in Unread(u) <=> j \in Unread(t)
       BY <1>5, <1>11 DEF Unread
<1>14. i \in Unread(u) /\ s.answers[i] = "none"
  <2>1. i \in Unread(u)
        BY <1>5 DEF Unread
  <2>2. i > i - 1
        BY <1>3, <1>11
  <2> QED BY <1>3, <1>9, <2>1, <2>2
<1>15. PassedBy(u) = PassedBy(t)
  <2>1. ASSUME NEW j \in Reads
        PROVE  (IF j \in Reads \ Unread(u) THEN r.answers[j] ELSE "none") =
               (IF j \in Reads \ Unread(t) THEN s.answers[j] ELSE "none")
    <3>1. CASE j = i
          BY <1>14, <3>1
    <3>2. CASE j # i
          BY <1>3, <1>13, <3>2
    <3> QED BY <3>1, <3>2
  <2>2. Noticed(u) = Noticed(t)
        BY <1>5, <2>1 DEF Noticed, s
  <2> QED BY <2>2 DEF PassedBy
<1>16. ASSUME NEW j \in Reads \ Unread(u), r.answers[j] # "none"
       PROVE  /\ r.answers[j] # "pending"
              /\ \A l \in Branches : u.tee.reads[l] # 0 => j < u.tee.reads[l]
  <2>1. j # i
        BY <1>14, <1>16
  <2>2. j \in Reads \ Unread(t) /\ r.answers[j] = s.answers[j]
        BY <1>3, <1>13, <1>16, <2>1
  <2>3. /\ s.answers[j] # "pending"
        /\ \A l \in Branches : t.tee.reads[l] # 0 => j < t.tee.reads[l]
        BY <1>16, <2>2 DEF StreamOrder, s
  <2>4. j < i
        BY <1>12, <1>16, <2>2
  <2> QED BY <1>5, <2>2, <2>3, <2>4
<1>17. StreamOrder(u)
       BY <1>5, <1>6, <1>7, <1>16 DEF StreamOrder, s
<1>18. Drained(t) => Drained(u)
  <2> SUFFICES ASSUME Drained(t)
               PROVE  Drained(u)
      OBVIOUS
  <2>1. s.state = "closed" /\ r.state = "closed" /\ r.answers[i] = "done"
        BY <1>6, <1>8 DEF Drained, s
  <2>2. ASSUME NEW j \in Branches, u.tee.reads[j] # 0
        PROVE  r.answers[u.tee.reads[j]] \notin Chunks \cup {"pending"}
    <3>1. CASE j = k
          BY <1>5, <1>11, <2>1, <3>1
    <3>2. CASE j # k
      <4>1. u.tee.reads[j] = t.tee.reads[j] /\ t.tee.reads[j] \in Reads \ {i}
            BY <1>5, <1>10, <1>14, <2>2, <3>2
      <4> QED BY <1>3, <2>2, <4>1 DEF Drained, s
    <3> QED BY <3>1, <3>2
  <2> QED BY <1>5, <2>1, <2>2 DEF Drained
<1>19. ASSUME NEW j \in Branches, NEW answer, Due(t, j, answer)
       PROVE  Due(u, j, answer)
  <2>1. j # k /\ t.tee.reads[j] # 0
        BY <1>19 DEF Due
  <2>2. t.tee.reads[j] \in Reads /\ s.answers[t.tee.reads[j]] # "none"
        BY <1>10, <2>1
  <2>3. t.tee.reads[j] # i /\ t.tee.reads[j] < i
        BY <1>12, <1>14, <2>2
  <2>4. u.tee.reads[j] = t.tee.reads[j] /\ r.answers[t.tee.reads[j]] = s.answers[t.tee.reads[j]]
        BY <1>3, <1>5, <2>1, <2>2, <2>3
  <2>5. \A l \in Branches \ {j} : l = k
        BY <2>1 DEF Branches
  <2> QED BY <1>5, <1>19, <2>3, <2>4, <2>5 DEF Due, s
<1>20. ASSUME NEW j \in Branches \ {k}, NEW p, BranchOrder(t, j, p)
       PROVE  BranchOrder(u, j, p)
  <2>1. Holds(t.tee.branch[j], p, t.tee.canceled[j], Drained(t)) /\ Asked(t, j)
        BY <1>20 DEF BranchOrder
  <2>2. Holds(u.tee.branch[j], p, u.tee.canceled[j], Drained(u))
        BY <1>5, <1>18, <2>1, HoldsStill
  <2>3. Asked(u, j)
        BY <1>5, <1>20, <2>1 DEF Asked
  <2> QED BY <2>2, <2>3 DEF BranchOrder
<1> QED BY <1>5, <1>15, <1>17, <1>18, <1>19, <1>20 DEF OrderLeft

\* A branch becomes b, and pullAlgorithm may read for it.
LEMMA WithBranchOrder ==
    ASSUME NEW t, TeeSound(t), OneLeft(t), StreamOrder(t), NEW k \in Branches, Asked(t, k),
           NEW b \in B!Slots, t.stream.keysMatch => BP!Sound(b) /\ b.keysMatch,
           NEW p, Holds(b, p, t.tee.canceled[k], Drained(t)), Proceeds(t.tee.branch[k], b),
           NEW u, u = WithBranch(t, k, b)
    PROVE  /\ OrderLeft(t, u, k) /\ BranchOrder(u, k, p)
           /\ CanCloseOrEnqueue(u.tee.branch[k]) <=> CanCloseOrEnqueue(b)
           /\ u.tee.canceled = t.tee.canceled
<1> DEFINE c == [b EXCEPT !.owing = FALSE, !.idle = FALSE]
           v == Replaced(t, k, c)
           pulls == "pull" \in b.sourceCalls \ t.tee.branch[k].sourceCalls
<1>1. t \in TeeStates
      BY DEF TeeSound
<1>2. /\ c.closeRequested = b.closeRequested /\ c.sourceCalls = b.sourceCalls
      /\ c.keysMatch = b.keysMatch /\ BP!SameContent(b, c) /\ c.sizing = b.sizing
      BY DEF B!Slots, BP!SameContent
<1>3. c \in B!Slots
      BY Zenon, BranchTypes
<1>4. BP!Sound(b) => BP!Sound(c)
      BY BranchSoundness DEF BP!GoesOn, BP!Becomes
<1>5. u = IF pulls THEN [v EXCEPT !.stream = Read(@), !.tee.reads[k] = NextRead(t.stream)] ELSE v
      BY DEF WithBranch, Replaced
<1> HIDE DEF c
<1>6. CanCloseOrEnqueue(c) <=> CanCloseOrEnqueue(b)
      BY <1>2 DEF BP!SameContent, CanCloseOrEnqueue
<1>7. OneReplaced(t, k, c, v) /\ OrderLeft(t, v, k) /\ (Drained(v) <=> Drained(t))
  <2>1. CanCloseOrEnqueue(c) => CanCloseOrEnqueue(t.tee.branch[k])
        BY <1>6 DEF Proceeds
  <2>2. v = Replaced(t, k, c)
        OBVIOUS
  <2> HIDE DEF v
  <2> QED BY <1>1, <1>3, <2>1, <2>2, ReplacedOrder
<1>8. TeeSound(v) /\ (OneLeft(t) => OneLeft(v))
  <2>1. v = Replaced(t, k, c)
        OBVIOUS
  <2>2. t.stream.keysMatch => BP!Sound(c) /\ c.keysMatch
        BY <1>2, <1>4
  <2> HIDE DEF v
  <2> QED BY <1>3, <2>1, <2>2, ReplacedSound
<1> HIDE DEF v
<1>9. /\ v.stream = t.stream /\ v.tee.branch[k] = c
      /\ v.tee.canceled = t.tee.canceled
      /\ v.tee.reads = t.tee.reads /\ v.tee.pulled = t.tee.pulled
      BY <1>7 DEF OneReplaced
<1>10. Holds(c, p, t.tee.canceled[k], Drained(t))
       BY <1>2, <1>3, HoldsSame
<1>11. StreamOrder(v)
       BY <1>7 DEF OrderLeft
<1>12. "pull" \in t.tee.branch[k].sourceCalls => "pull" \in c.sourceCalls
       BY <1>2 DEF Proceeds
<1>13. CASE ~pulls
  <2>1. u = v
        BY <1>5, <1>13
  <2>2. Holds(v.tee.branch[k], p, v.tee.canceled[k], Drained(v))
        BY <1>7, <1>9, <1>10, HoldsStill
  <2>3. Asked(v, k)
        BY <1>9, <1>12 DEF Asked
  <2> QED BY <1>6, <1>7, <1>9, <2>1, <2>2, <2>3 DEF BranchOrder
<1>14. CASE pulls
  <2>1. u = ReadFor(v, k)
        BY <1>5, <1>9, <1>14 DEF ReadFor
  <2>2. v.tee.reads[k] = 0 /\ v.tee.pulled[k] = "no" /\ "pull" \in c.sourceCalls
        BY <1>2, <1>9, <1>14 DEF Asked
  <2>3. /\ OrderLeft(v, u, k)
        /\ u.tee.branch = v.tee.branch /\ u.tee.canceled = v.tee.canceled
        /\ u.tee.pulled = v.tee.pulled
        BY <1>8, <1>11, <2>1, <2>2, ReadForOrder
  <2>4. Drained(t) => Drained(u)
        BY <1>7, <2>3 DEF OrderLeft
  <2>5. Holds(u.tee.branch[k], p, u.tee.canceled[k], Drained(u))
        BY <1>9, <1>10, <2>3, <2>4, HoldsStill
  <2>6. Asked(u, k)
        BY <1>9, <2>2, <2>3 DEF Asked
  <2> QED BY <1>6, <1>7, <1>9, <2>3, <2>5, <2>6, OrderLeftTrans DEF BranchOrder
<1> QED BY <1>13, <1>14

\* The controller of a branch is used where the branch was not canceled: p grows to q.
LEMMA OpenBranchOrder ==
    ASSUME NEW t, TeeSound(t), OneLeft(t), t.stream.keysMatch, StreamOrder(t),
           NEW k \in Branches, ~t.threw,
           CanCloseOrEnqueue(t.tee.branch[k]) \/ t.tee.canceled[k], Asked(t, k),
           NEW q, NEW b,
           ~t.tee.canceled[k] =>
               /\ b \in B!Slots /\ BP!Becomes(t.tee.branch[k], b)
               /\ Holds(b, q, FALSE, Drained(t)) /\ Proceeds(t.tee.branch[k], b),
           t.tee.canceled[k] => Holds(t.tee.branch[k], q, TRUE, Drained(t)),
           NEW throws, NEW u, u = OpenBranch(t, k, b, throws)
    PROVE  /\ OrderLeft(t, u, k) /\ BranchOrder(u, k, q)
           /\ u.tee.canceled = t.tee.canceled
           /\ ~t.tee.canceled[k] =>
                  (CanCloseOrEnqueue(u.tee.branch[k]) <=> CanCloseOrEnqueue(b))
<1>1. t.tee.canceled[k] \in BOOLEAN
      BY StateFacts DEF TeeSound
<1>2. CASE t.tee.canceled[k]
  <2>1. u = t
        BY <1>2 DEF OpenBranch, WithOpenBranch
  <2>2. BranchOrder(t, k, q)
        BY <1>1, <1>2 DEF BranchOrder
  <2>3. OrderLeft(t, t, k)
        BY SameOrder
  <2> QED BY <1>2, <2>1, <2>2, <2>3
<1>3. CASE ~t.tee.canceled[k]
  <2> DEFINE used == WithBranch(t, k, b)
  <2>1. u = [used EXCEPT !.threw = throws]
        BY <1>3 DEF OpenBranch, WithOpenBranch
  <2>2. b \in B!Slots /\ BP!Sound(b) /\ b.keysMatch
        BY <1>3 DEF TeeSound, BP!Becomes
  <2>3. Holds(b, q, t.tee.canceled[k], Drained(t)) /\ Proceeds(t.tee.branch[k], b)
        BY <1>1, <1>3
  <2>4. /\ OrderLeft(t, used, k) /\ BranchOrder(used, k, q)
        /\ CanCloseOrEnqueue(used.tee.branch[k]) <=> CanCloseOrEnqueue(b)
        /\ used.tee.canceled = t.tee.canceled
        BY <2>2, <2>3, WithBranchOrder
  <2>5. used \in TeeStates
        BY <2>2, WithBranchSound DEF TeeSound
  <2> HIDE DEF used
  <2>6. u.stream = used.stream /\ u.tee = used.tee
        BY <2>1, <2>5 DEF TeeStates
  <2>7. OrderLeft(used, u, k) /\ BranchOrder(u, k, q)
        BY <2>4, <2>6, SameOrder DEF OrderLeft
  <2> QED BY <2>4, <2>6, <2>7, OrderLeftTrans
<1> QED BY <1>1, <1>2, <1>3

\* A chunk is given to a branch.
LEMMA EnqueueToOrder ==
    ASSUME NEW t, TeeSound(t), OneLeft(t), t.stream.keysMatch, StreamOrder(t),
           NEW k \in Branches, ~t.threw,
           CanCloseOrEnqueue(t.tee.branch[k]) \/ t.tee.canceled[k],
           NEW p, BranchOrder(t, k, p), NEW chunk \in Chunks,
           NEW u, u = EnqueueTo(t, k, chunk)
    PROVE  OrderLeft(t, u, k) /\ BranchOrder(u, k, Append(p, chunk))
<1> DEFINE open == t.tee.branch[k]
           b == B!Enqueue(open, chunk, 1)
           throws == EnqueueThrows(open)
           q == Append(p, chunk)
<1>1. u = OpenBranch(t, k, b, throws)
      BY DEF EnqueueTo, OpenBranch, WithOpenBranch
<1>2. open \in B!Slots /\ BP!Sound(open)
      BY StateFacts DEF TeeSound
<1>3. Asked(t, k) /\ Holds(open, p, t.tee.canceled[k], Drained(t))
      /\ t.tee.canceled[k] \in BOOLEAN
      BY StateFacts DEF BranchOrder, TeeSound
<1>4. ASSUME ~t.tee.canceled[k]
      PROVE  /\ b \in B!Slots /\ BP!Becomes(open, b)
             /\ Holds(b, q, FALSE, Drained(t)) /\ Proceeds(open, b)
  <2>1. CanCloseOrEnqueue(open) /\ open.state = "readable"
        BY <1>4 DEF CanCloseOrEnqueue
  <2>2. Holds(open, p, FALSE, Drained(t))
        BY <1>3, <1>4
  <2> HIDE DEF open
  <2>3. Holds(b, q, FALSE, Drained(t)) /\ Proceeds(open, b)
        BY <1>2, <2>1, <2>2, HoldsEnqueue
  <2>4. b \in B!Slots /\ BP!Becomes(open, b)
        BY <1>2, <2>1, BranchTypes, BranchSoundness DEF BP!GoesOn
  <2> QED BY <2>3, <2>4
<1>5. t.tee.canceled[k] => Holds(open, q, TRUE, Drained(t))
  <2> HIDE DEF open
  <2> QED BY <1>3, HoldsMore
<1> HIDE DEF b, throws, q
<1>6. OrderLeft(t, u, k) /\ BranchOrder(u, k, q)
      BY <1>1, <1>3, <1>4, <1>5, OpenBranchOrder
<1> QED BY <1>6 DEF q

\* A branch is closed when there is nothing left for it.
LEMMA CloseToOrder ==
    ASSUME NEW t, TeeSound(t), OneLeft(t), t.stream.keysMatch, StreamOrder(t), Drained(t),
           NEW k \in Branches, ~t.threw,
           CanCloseOrEnqueue(t.tee.branch[k]) \/ t.tee.canceled[k],
           NEW p, BranchOrder(t, k, p),
           NEW u, u = CloseTo(t, k)
    PROVE  /\ OrderLeft(t, u, k) /\ BranchOrder(u, k, p)
           /\ u.tee.canceled[k] \/ ~CanCloseOrEnqueue(u.tee.branch[k])
<1> DEFINE open == t.tee.branch[k]
           b == B!ControllerClose(open)
           throws == FALSE
<1>1. u = OpenBranch(t, k, b, throws)
      BY DEF CloseTo, OpenBranch, WithOpenBranch
<1>2. open \in B!Slots /\ BP!Sound(open)
      BY StateFacts DEF TeeSound
<1>3. Asked(t, k) /\ Holds(open, p, t.tee.canceled[k], Drained(t))
      /\ t.tee.canceled[k] \in BOOLEAN
      BY StateFacts DEF BranchOrder, TeeSound
<1>4. ASSUME ~t.tee.canceled[k]
      PROVE  /\ b \in B!Slots /\ BP!Becomes(open, b)
             /\ Holds(b, p, FALSE, Drained(t)) /\ Proceeds(open, b)
             /\ ~CanCloseOrEnqueue(b)
  <2>1. open.state = "readable"
        BY <1>4 DEF CanCloseOrEnqueue
  <2>2. Holds(open, p, FALSE, Drained(t))
        BY <1>3, <1>4
  <2> HIDE DEF open
  <2>3. Holds(b, p, FALSE, TRUE) /\ Proceeds(open, b) /\ ~CanCloseOrEnqueue(b)
        BY <1>2, <2>1, <2>2, HoldsClose
  <2>4. b \in B!Slots /\ BP!Becomes(open, b)
        BY <1>2, <2>1, BranchTypes, BranchSoundness
  <2> HIDE DEF b
  <2> QED BY <2>3, <2>4, HoldsStill
<1>5. t.tee.canceled[k] => Holds(open, p, TRUE, Drained(t))
      BY <1>3
<1> HIDE DEF b, throws
<1>6. /\ OrderLeft(t, u, k) /\ BranchOrder(u, k, p)
      /\ u.tee.canceled = t.tee.canceled
      /\ ~t.tee.canceled[k] => (CanCloseOrEnqueue(u.tee.branch[k]) <=> CanCloseOrEnqueue(b))
  <2>1. ~t.tee.canceled[k] =>
            /\ b \in B!Slots /\ BP!Becomes(t.tee.branch[k], b)
            /\ Holds(b, p, FALSE, Drained(t)) /\ Proceeds(t.tee.branch[k], b)
        BY <1>4
  <2>2. t.tee.canceled[k] => Holds(t.tee.branch[k], p, TRUE, Drained(t))
        BY <1>5
  <2>3. Asked(t, k)
        BY <1>3
  <2> HIDE DEF open
  <2> QED BY <1>1, <2>1, <2>2, <2>3, OpenBranchOrder
<1> QED BY <1>3, <1>4, <1>6

\* A branch is errored.
LEMMA ErrorToOrder ==
    ASSUME NEW t, TeeSound(t), OneLeft(t), t.stream.keysMatch, StreamOrder(t),
           NEW k \in Branches, ~t.threw, NEW p, BranchOrder(t, k, p),
           NEW u, u = ErrorTo(t, k)
    PROVE  /\ OrderLeft(t, u, k) /\ BranchOrder(u, k, p)
           /\ ~CanCloseOrEnqueue(u.tee.branch[k])
<1> DEFINE open == t.tee.branch[k]
           b == B!ControllerError(open)
           throws == open.state = "readable" /\ EnqueueThrows(open)
           used == WithBranch(t, k, b)
<1>1. u = [used EXCEPT !.threw = throws]
      BY DEF ErrorTo
<1>2. open \in B!Slots /\ BP!Sound(open) /\ open.keysMatch
      BY StateFacts DEF TeeSound
<1>3. Asked(t, k) /\ Holds(open, p, t.tee.canceled[k], Drained(t))
      BY DEF BranchOrder
<1>4. /\ Holds(b, p, t.tee.canceled[k], Drained(t)) /\ Proceeds(open, b)
      /\ ~CanCloseOrEnqueue(b)
      BY <1>3, HoldsError
<1>5. b \in B!Slots /\ BP!Sound(b) /\ b.keysMatch
  <2> HIDE DEF open
  <2>1. b \in B!Slots
        BY <1>2, BranchTypes
  <2>2. BP!Becomes(open, b)
        BY <1>2, BranchSoundness
  <2> HIDE DEF b
  <2> QED BY <1>2, <2>1, <2>2 DEF BP!Becomes
<1> HIDE DEF b, throws
<1>6. /\ OrderLeft(t, used, k) /\ BranchOrder(used, k, p)
      /\ CanCloseOrEnqueue(used.tee.branch[k]) <=> CanCloseOrEnqueue(b)
      BY <1>3, <1>4, <1>5, WithBranchOrder
<1>7. used \in TeeStates
      BY <1>5, WithBranchSound DEF TeeSound
<1> HIDE DEF used
<1>8. u.stream = used.stream /\ u.tee = used.tee
      BY <1>1, <1>7 DEF TeeStates
<1>9. OrderLeft(used, u, k) /\ BranchOrder(u, k, p)
      BY <1>6, <1>8, SameOrder DEF OrderLeft
<1> QED BY <1>4, <1>6, <1>8, <1>9, OrderLeftTrans

\* closedOrErrored is set once both branches are at their end.
LEMMA EndedOrder ==
    ASSUME NEW t \in TeeStates, StreamOrder(t), NEW x \in BOOLEAN,
           x => \A k \in Branches : t.tee.canceled[k] \/ ~CanCloseOrEnqueue(t.tee.branch[k]),
           NEW u, u = [t EXCEPT !.tee.closedOrErrored = x]
    PROVE  /\ StreamOrder(u) /\ PassedBy(u) = PassedBy(t)
           /\ \A k, answer : Due(t, k, answer) => Due(u, k, answer)
           /\ \A k, p : BranchOrder(t, k, p) => BranchOrder(u, k, p)
<1>1. t.tee \in BranchSlots
      BY StateFacts
<1>2. /\ u.stream = t.stream /\ u.tee.closedOrErrored = x
      /\ u.tee.canceled = t.tee.canceled /\ u.tee.late = t.tee.late
      /\ u.tee.branch = t.tee.branch
      /\ u.tee.reads = t.tee.reads /\ u.tee.pulled = t.tee.pulled
      BY <1>1 DEF TeeStates, BranchSlots
<1>3. Unread(u) = Unread(t)
      BY <1>2 DEF Unread
<1>4. PassedBy(u) = PassedBy(t)
      BY <1>2, <1>3 DEF PassedBy, Noticed
<1>5. Drained(u) = Drained(t)
      BY <1>2 DEF Drained
<1>6. StreamOrder(u)
      BY <1>2, <1>3 DEF StreamOrder
<1>7. \A k, answer : Due(t, k, answer) => Due(u, k, answer)
      BY <1>2 DEF Due
<1>8. \A k, p : BranchOrder(t, k, p) => BranchOrder(u, k, p)
      BY <1>2, <1>5 DEF BranchOrder, Asked
<1> QED BY <1>4, <1>6, <1>7, <1>8

\* A stream whose reads are answered "done" has nothing more for the branches.
LEMMA DoneIsDrained ==
    ASSUME NEW t, TeeSound(t), t.stream.keysMatch, StreamOrder(t),
           NEW k \in Branches, Due(t, k, "done")
    PROVE  Drained(t)
<1> DEFINE s == t.stream
           i == t.tee.reads[k]
<1>1. /\ t \in TeeStates /\ InOrder(s) /\ s \in Slots /\ InTurn(s) /\ s.keysMatch
      BY DEF TeeSound, StreamOrder, InOrder
<1>2. i \in Reads /\ s.answers[i] = "done"
      BY <1>1, StateFacts DEF Due
<1>3. s.state = "closed"
      BY <1>1, <1>2 DEF InOrder
<1>4. s.readRequests = <<>>
      BY <1>1, <1>3 DEF InTurn
<1>5. \A j \in Reads : s.answers[j] # "pending"
  <2>1. DOMAIN s.readRequests = {}
        BY <1>4
  <2> QED BY <1>1, <2>1 DEF InTurn
<1>6. ASSUME NEW j \in Branches, t.tee.reads[j] # 0
      PROVE  s.answers[t.tee.reads[j]] \notin Chunks \cup {"pending"}
  <2>1. t.tee.reads[j] \in Reads
        BY <1>1, <1>6, StateFacts
  <2>2. CASE j = k
        BY <1>2, <1>5, <2>1, <2>2, ReadableStreamAssumption
  <2>3. CASE j # k
    <3>1. i < t.tee.reads[j]
          BY <1>6, <2>3 DEF Due
    <3>2. s.answers[t.tee.reads[j]] \in Chunks => s.answers[i] \in Chunks
          BY <1>1, <1>2, <2>1, <3>1 DEF InOrder
    <3> QED BY <1>2, <1>5, <2>1, <3>2, ReadableStreamAssumption
  <2> QED BY <2>2, <2>3
<1> QED BY <1>3, <1>6 DEF Drained

\* The answer that is due is given to both branches.
LEMMA GiveOrder ==
    ASSUME NEW t, TeeInvariant(t), TwoLeft(t), t.stream.keysMatch, StreamOrder(t),
           NEW k \in Branches, ~t.threw, ~Dead(t),
           NEW p, \A j \in Branches : BranchOrder(t, j, p),
           NEW answer \in Chunks \cup {"done"}, Due(t, k, answer),
           NEW u, u = Give(t, k, answer)
    PROVE  /\ StreamOrder(u) /\ PassedBy(u) = PassedBy(t) /\ Due(u, k, answer)
           /\ \A j \in Branches :
                  BranchOrder(u, j, IF answer = "done" THEN p ELSE Append(p, answer))
<1>1. /\ TeeSound(t) /\ OneLeft(t) /\ t \in TeeStates
      /\ 1 \in Branches /\ 2 \in Branches /\ \A j \in Branches : j = 1 \/ j = 2
      BY TwoLeftOneLeft DEF TeeInvariant, Branches, TeeSound
<1>2. t.tee.closedOrErrored \in BOOLEAN /\ "done" \notin Chunks
      BY <1>1, StateFacts, ReadableStreamAssumption
<1>3. ~t.tee.closedOrErrored =>
          \A j \in Branches : CanCloseOrEnqueue(t.tee.branch[j]) \/ t.tee.canceled[j]
      BY DEF TeeInvariant, Usable
<1>4. CASE t.tee.closedOrErrored
  <2>1. u = t
        BY <1>4 DEF Give
  <2>2. CASE answer = "done"
        BY <2>1, <2>2
  <2>3. CASE answer # "done"
    <3>1. ~Drained(t)
          BY <2>3 DEF Due, Drained
    <3>2. ASSUME NEW j \in Branches
          PROVE  BranchOrder(t, j, Append(p, answer))
      <4>1. Holds(t.tee.branch[j], p, t.tee.canceled[j], Drained(t)) /\ Asked(t, j)
            BY DEF BranchOrder
      <4>2. t.tee.canceled[j] \/ ~CanCloseOrEnqueue(t.tee.branch[j])
            BY <1>4 DEF StreamOrder
      <4>3. t.tee.canceled[j] \/ t.tee.branch[j].state = "errored"
            BY <3>1, <4>1, <4>2 DEF Holds
      <4>4. Holds(t.tee.branch[j], Append(p, answer), t.tee.canceled[j], Drained(t))
            BY <2>3, <4>1, <4>3, HoldsMore
      <4> QED BY <4>1, <4>4 DEF BranchOrder
    <3> QED BY <2>1, <2>3, <3>2
  <2> QED BY <2>2, <2>3
<1>5. CASE ~t.tee.closedOrErrored /\ answer = "done"
  <2> DEFINE v == CloseTo(t, 1)
             w == CloseTo(v, 2)
  <2>1. u = [w EXCEPT !.tee.closedOrErrored = ~w.threw]
        BY <1>5 DEF Give
  <2>2. Drained(t)
        BY <1>1, <1>5, DoneIsDrained
  <2>3. /\ TeeSound(v) /\ LeavesTee(t, v) /\ OneLeft(v)
        /\ t.stream.keysMatch => ~v.threw
        /\ v.tee.branch[2] = t.tee.branch[2]
        BY <1>1, <1>3, <1>5, CloseToSound
  <2>4. /\ OrderLeft(t, v, 1) /\ BranchOrder(v, 1, p)
        /\ v.tee.canceled[1] \/ ~CanCloseOrEnqueue(v.tee.branch[1])
        BY <1>1, <1>3, <1>5, <2>2, CloseToOrder
  <2>5. /\ v.stream.keysMatch /\ ~v.threw /\ v.tee.canceled = t.tee.canceled
        /\ CanCloseOrEnqueue(v.tee.branch[2]) \/ v.tee.canceled[2]
        BY <1>1, <1>3, <1>5, <2>3 DEF LeavesTee, KeepsTee
  <2> HIDE DEF v
  <2>6. /\ StreamOrder(v) /\ PassedBy(v) = PassedBy(t) /\ Drained(v)
        /\ Due(v, k, answer) /\ BranchOrder(v, 2, p)
        BY <1>1, <2>2, <2>4 DEF OrderLeft
  <2>7. /\ TeeSound(w) /\ LeavesTee(v, w)
        /\ v.stream.keysMatch => ~w.threw
        /\ w.tee.branch[1] = v.tee.branch[1]
        BY <1>1, <2>3, <2>5, CloseToSound
  <2>8. /\ OrderLeft(v, w, 2) /\ BranchOrder(w, 2, p)
        /\ w.tee.canceled[2] \/ ~CanCloseOrEnqueue(w.tee.branch[2])
        BY <1>1, <2>3, <2>5, <2>6, CloseToOrder
  <2> HIDE DEF w
  <2>9. /\ StreamOrder(w) /\ PassedBy(w) = PassedBy(t)
        /\ Due(w, k, answer) /\ BranchOrder(w, 1, p)
        BY <1>1, <2>4, <2>6, <2>8 DEF OrderLeft
  <2>10. \A j \in Branches : w.tee.canceled[j] \/ ~CanCloseOrEnqueue(w.tee.branch[j])
        BY <1>1, <2>4, <2>7, <2>8 DEF LeavesTee, KeepsTee
  <2>11. w \in TeeStates /\ (~w.threw) \in BOOLEAN
        BY <2>7 DEF TeeSound
  <2>12. /\ StreamOrder(u) /\ PassedBy(u) = PassedBy(w) /\ Due(u, k, answer)
         /\ BranchOrder(u, 1, p) /\ BranchOrder(u, 2, p)
        BY <2>1, <2>8, <2>9, <2>10, <2>11, EndedOrder
  <2> QED BY <1>1, <1>5, <2>9, <2>12
<1>6. CASE ~t.tee.closedOrErrored /\ answer # "done"
  <2> DEFINE v == EnqueueTo(t, 1, answer)
             q == Append(p, answer)
  <2>1. u = EnqueueTo(v, 2, answer) /\ answer \in Chunks
        BY <1>6 DEF Give
  <2>2. /\ TeeSound(v) /\ LeavesTee(t, v) /\ OneLeft(v)
        /\ t.stream.keysMatch => ~v.threw
        /\ v.tee.branch[2] = t.tee.branch[2]
        BY <1>1, <1>3, <1>6, <2>1, EnqueueToSound
  <2>3. OrderLeft(t, v, 1) /\ BranchOrder(v, 1, q)
        BY <1>1, <1>3, <1>6, <2>1, EnqueueToOrder
  <2>4. /\ v.stream.keysMatch /\ ~v.threw /\ v.tee.canceled = t.tee.canceled
        /\ CanCloseOrEnqueue(v.tee.branch[2]) \/ v.tee.canceled[2]
        BY <1>1, <1>3, <1>6, <2>2 DEF LeavesTee, KeepsTee
  <2> HIDE DEF v
  <2>5. /\ StreamOrder(v) /\ PassedBy(v) = PassedBy(t)
        /\ Due(v, k, answer) /\ BranchOrder(v, 2, p)
        BY <1>1, <2>3 DEF OrderLeft
  <2>6. OrderLeft(v, u, 2) /\ BranchOrder(u, 2, q)
        BY <1>1, <2>1, <2>2, <2>4, <2>5, EnqueueToOrder
  <2> HIDE DEF q
  <2>7. /\ StreamOrder(u) /\ PassedBy(u) = PassedBy(t)
        /\ Due(u, k, answer) /\ BranchOrder(u, 1, q)
        BY <1>1, <2>3, <2>5, <2>6 DEF OrderLeft
  <2> QED BY <1>1, <1>6, <2>6, <2>7 DEF q
<1> QED BY <1>2, <1>4, <1>5, <1>6

\* What noting the end of a pullAlgorithm changes.
LEMMA NotedFacts ==
    ASSUME NEW t \in TeeStates, NEW k \in Branches, NEW read \in Reads \cup {0},
           NEW result \in {"no", "fulfilled", "rejected"},
           NEW u, u = Noted(t, k, read, result)
    PROVE  /\ u.stream = t.stream /\ u.tee.reads[k] = read /\ u.tee.pulled[k] = result
           /\ \A j \in Branches \ {k} : /\ u.tee.reads[j] = t.tee.reads[j]
                                        /\ u.tee.pulled[j] = t.tee.pulled[j]
           /\ u.tee.on = t.tee.on /\ u.tee.canceled = t.tee.canceled
           /\ u.tee.closedOrErrored = t.tee.closedOrErrored /\ u.tee.late = t.tee.late
           /\ u.tee.branch = t.tee.branch
<1>1. t.tee \in BranchSlots
      BY StateFacts
<1>2. /\ t.tee.reads \in [Branches -> Reads \cup {0}]
      /\ t.tee.pulled \in [Branches -> {"no", "fulfilled", "rejected"}]
      BY StateFacts
<1> QED BY <1>1, <1>2 DEF TeeStates, BranchSlots, Noted

\* The answer that was due has been passed on.
LEMMA NotedOrder ==
    ASSUME NEW t \in TeeStates, StreamOrder(t), NEW k \in Branches,
           NEW answer, Due(t, k, answer),
           NEW p, \A j \in Branches : BranchOrder(t, j, p),
           NEW result \in {"no", "fulfilled", "rejected"},
           NEW u, u = Noted(t, k, 0, result)
    PROVE  /\ StreamOrder(u) /\ \A j \in Branches : BranchOrder(u, j, p)
           /\ answer \in Chunks => PassedBy(u) = Append(PassedBy(t), answer)
           /\ answer \notin Chunks => PassedBy(u) = PassedBy(t)
<1> DEFINE s == t.stream
           i == t.tee.reads[k]
           none == 0
<1>1. /\ u.stream = s /\ u.tee.reads[k] = 0 /\ u.tee.pulled[k] = result
      /\ \A j \in Branches \ {k} : /\ u.tee.reads[j] = t.tee.reads[j]
                                   /\ u.tee.pulled[j] = t.tee.pulled[j]
      /\ u.tee.canceled = t.tee.canceled
      /\ u.tee.closedOrErrored = t.tee.closedOrErrored /\ u.tee.late = t.tee.late
      /\ u.tee.branch = t.tee.branch
  <2>1. none \in Reads \cup {0} /\ u = Noted(t, k, none, result)
        OBVIOUS
  <2> HIDE DEF none
  <2>2. none = 0
        BY DEF none
  <2> QED BY <2>1, <2>2, NotedFacts
<1>2. /\ i \in Reads /\ s.answers[i] = answer /\ answer \notin {"none", "pending"}
      /\ \A j \in Branches \ {k} : t.tee.reads[j] # 0 => i < t.tee.reads[j]
      BY StateFacts DEF Due
<1>3. Reads \subseteq Nat /\ 0 \notin Reads /\ "none" \notin Chunks /\ MaxReads \in Nat
      BY ReadableStreamAssumption DEF Reads
<1> HIDE DEF s, i
<1>4. t.tee.reads[k] = i
      BY DEF i
<1>5. ASSUME NEW j \in Branches \ {k}
      PROVE  t.tee.reads[j] # i /\ (t.tee.reads[j] # 0 => i < t.tee.reads[j])
      BY <1>2, <1>3, StateFacts
<1>6. /\ i \in Unread(t) /\ i \notin Unread(u)
      /\ \A j \in Reads \ {i} : j \in Unread(u) <=> j \in Unread(t)
      BY <1>1, <1>2, <1>3, <1>4, <1>5 DEF Unread
<1>7. \A j \in Reads \ Unread(t) : s.answers[j] # "none" =>
          /\ s.answers[j] # "pending"
          /\ \A l \in Branches : t.tee.reads[l] # 0 => j < t.tee.reads[l]
      BY DEF StreamOrder, s
<1>8. ASSUME NEW j \in Reads \ Unread(u), s.answers[j] # "none"
      PROVE  /\ s.answers[j] # "pending"
             /\ \A l \in Branches : u.tee.reads[l] # 0 => j < u.tee.reads[l]
  <2>1. CASE j = i
        BY <1>1, <1>2, <1>5, <2>1
  <2>2. CASE j # i
        BY <1>1, <1>6, <1>7, <1>8, <2>2
  <2> QED BY <2>1, <2>2
<1>9. StreamOrder(u)
      BY <1>1, <1>8 DEF StreamOrder, s
<1>10. Drained(t) => Drained(u)
       BY <1>1 DEF Drained, s
<1>11. ASSUME NEW j \in Branches
       PROVE  BranchOrder(u, j, p)
  <2>1. Holds(t.tee.branch[j], p, t.tee.canceled[j], Drained(t)) /\ Asked(t, j)
        BY DEF BranchOrder
  <2>2. Holds(u.tee.branch[j], p, u.tee.canceled[j], Drained(u))
        BY <1>1, <1>10, <2>1, HoldsStill
  <2>3. Asked(u, j)
    <3>1. CASE j = k
          BY <1>1, <1>2, <1>3, <1>4, <2>1, <3>1 DEF Asked
    <3>2. CASE j # k
          BY <1>1, <2>1, <3>2 DEF Asked
    <3> QED BY <3>1, <3>2
  <2> QED BY <2>2, <2>3 DEF BranchOrder
<1> DEFINE f == Noticed(t)
           g == Noticed(u)
<1>12. /\ DOMAIN f = 1..MaxReads /\ DOMAIN g = 1..MaxReads
       /\ f[i] = "none" /\ g[i] = answer
       /\ \A j \in Reads \ {i} : g[j] = f[j]
       BY <1>1, <1>2, <1>6 DEF Noticed, Reads, s
<1>13. \A j \in Reads : j > i => f[j] \notin Chunks
  <2> SUFFICES ASSUME NEW j \in Reads, j > i, f[j] \in Chunks
               PROVE  FALSE
      OBVIOUS
  <2>1. f[j] = IF j \in Reads \ Unread(t) THEN s.answers[j] ELSE "none"
        BY DEF Noticed, s
  <2>2. j \in Reads \ Unread(t) /\ s.answers[j] # "none"
        BY <1>3, <2>1
  <2>3. j < i
        BY <1>2, <1>3, <1>4, <1>7, <2>2
  <2> QED BY <1>2, <1>3, <2>3
<1> HIDE DEF f, g
<1>14. ASSUME answer \in Chunks
       PROVE  PassedBy(u) = Append(PassedBy(t), answer)
  <2>1. OneMore(f, g, Chunks, MaxReads, MaxReads, i)
    <3>1. i \in 1..MaxReads /\ i <= MaxReads + 1
          BY <1>2, <1>3 DEF Reads
    <3>2. AgreeTo(f, g, Chunks, i - 1)
      <4> SUFFICES ASSUME NEW l \in 1..(i - 1)
                   PROVE  f[l] = g[l]
          BY DEF AgreeTo
      <4>1. l \in Reads \ {i}
            BY <1>3, <3>1 DEF Reads
      <4> QED BY <1>12, <4>1
    <3>3. NoneAfter(f, Chunks, i - 1, MaxReads)
      <4> SUFFICES ASSUME NEW l \in (i - 1 + 1)..MaxReads
                   PROVE  f[l] \notin Chunks
          BY DEF NoneAfter
      <4>1. l \in Reads /\ (l = i \/ l > i)
            BY <1>3, <3>1 DEF Reads
      <4> QED BY <1>3, <1>12, <1>13, <4>1
    <3>4. NoneAfter(g, Chunks, i, MaxReads)
      <4> SUFFICES ASSUME NEW l \in (i + 1)..MaxReads
                   PROVE  g[l] \notin Chunks
          BY DEF NoneAfter
      <4>1. l \in Reads \ {i} /\ l > i
            BY <1>3, <3>1 DEF Reads
      <4> QED BY <1>12, <1>13, <4>1
    <3> QED BY <1>12, <1>14, <3>1, <3>2, <3>3, <3>4 DEF OneMore
  <2>2. Chosen(g, Chunks) = Append(Chosen(f, Chunks), g[i])
        BY <1>3, <1>12, <2>1, ChosenOneMore
  <2> QED BY <1>12, <2>2 DEF PassedBy, f, g
<1>15. ASSUME answer \notin Chunks
       PROVE  PassedBy(u) = PassedBy(t)
  <2>1. AgreeTo(f, g, Chunks, MaxReads)
    <3> SUFFICES ASSUME NEW l \in 1..MaxReads
                 PROVE  f[l] = g[l] \/ (f[l] \notin Chunks /\ g[l] \notin Chunks)
        BY DEF AgreeTo
    <3> QED BY <1>3, <1>12, <1>15 DEF Reads
  <2>2. NoneAfter(f, Chunks, MaxReads, MaxReads) /\ NoneAfter(g, Chunks, MaxReads, MaxReads)
        BY <1>3 DEF NoneAfter
  <2>3. MaxReads \in 0..MaxReads /\ MaxReads <= MaxReads
        BY <1>3
  <2>4. Chosen(g, Chunks) = Chosen(f, Chunks)
        BY <1>3, <1>12, <2>1, <2>2, <2>3, ChosenSame
  <2> QED BY <2>4 DEF PassedBy, f, g
<1> QED BY <1>9, <1>11, <1>14, <1>15

-----------------------------------------------------------------------------
(* The actions.                                                               *)

\* What holds once tee() was called, where the keys agree.
Ordered(t) ==
    StreamOrder(t) /\ \A k \in Branches : BranchOrder(t, k, PassedBy(t))

LEMMA OrderedAgain ==
    ASSUME NEW t, Ordered(t), NEW k \in Branches, NEW u, OrderLeft(t, u, k),
           BranchOrder(u, k, PassedBy(t))
    PROVE  Ordered(u)
<1>1. StreamOrder(u) /\ PassedBy(u) = PassedBy(t)
      BY DEF OrderLeft
<1>2. ASSUME NEW j \in Branches
      PROVE  BranchOrder(u, j, PassedBy(u))
  <2>1. CASE j = k
        BY <1>1, <2>1
  <2>2. CASE j # k
        BY <1>1, <2>2 DEF Ordered, OrderLeft
  <2> QED BY <2>1, <2>2
<1> QED BY <1>1, <1>2 DEF Ordered

LEMMA BecomeOrdered ==
    ASSUME NEW t, Ordered(t), stream' = t.stream, tee' = t.tee
    PROVE  Ordered(Now')
<1> DEFINE u == Now'
<1>1. u.stream = t.stream /\ u.tee = t.tee
      BY NowFacts
<1> HIDE DEF u
<1>2. Ordered(u)
      BY <1>1, SameOrder DEF Ordered
<1> QED BY <1>2 DEF u

\* A branch is read.
LEMMA BranchReadOrdered ==
    ASSUME TeeInvariant(Now), stream.keysMatch, Ordered(Now),
           NEW k \in Branches, BranchRead(k)
    PROVE  Ordered(Now')
<1> DEFINE open == tee.branch[k]
           b == B!Read(open)
           t == WithBranch(Now, k, b)
           p == PassedBy(Now)
<1>1. Quiet /\ B!CanRead(open) /\ stream' = t.stream /\ tee' = t.tee
      BY DEF BranchRead, Become
<1>2. /\ OneLeft(Now) /\ Now.tee.branch[k] = open /\ Now.stream = stream
      /\ Now.tee.canceled = tee.canceled
      BY <1>1, QuietTwoLeft, NowFacts
<1>3. TeeSound(Now) /\ BP!Sound(open) /\ b \in B!Slots
      BY <1>1, BranchFacts, BranchTypes
<1>4. StreamOrder(Now) /\ Asked(Now, k) /\ Holds(open, p, Now.tee.canceled[k], Drained(Now))
      BY <1>2 DEF Ordered, BranchOrder
<1>5. BP!Becomes(open, b)
      BY <1>1, <1>3, BranchSoundness
<1>6. open.keysMatch
      BY <1>2, <1>3 DEF TeeSound
<1> HIDE DEF open, p
<1>7. Holds(b, p, Now.tee.canceled[k], Drained(Now)) /\ Proceeds(open, b)
      BY <1>1, <1>3, <1>4, HoldsRead
<1> HIDE DEF b
<1>8. BP!Sound(b) /\ b.keysMatch
      BY <1>5, <1>6 DEF BP!Becomes
<1>9. OrderLeft(Now, t, k) /\ BranchOrder(t, k, p)
      BY <1>2, <1>3, <1>4, <1>7, <1>8, WithBranchOrder
<1> HIDE DEF t
<1>10. Ordered(t)
       BY <1>9, OrderedAgain DEF p
<1> QED BY <1>1, <1>10, BecomeOrdered

\* A branch starts.
LEMMA BranchStartsOrdered ==
    ASSUME TeeInvariant(Now), stream.keysMatch, Ordered(Now),
           NEW k \in Branches, BranchStarts(k)
    PROVE  Ordered(Now')
<1> DEFINE open == tee.branch[k]
           b == B!FinishStart(open)
           t == WithBranch(Now, k, b)
           p == PassedBy(Now)
<1>1. Quiet /\ "start" \in open.sourceCalls /\ stream' = t.stream /\ tee' = t.tee
      BY DEF BranchStarts, Become
<1>2. /\ OneLeft(Now) /\ Now.tee.branch[k] = open /\ Now.stream = stream
      /\ Now.tee.canceled = tee.canceled
      BY <1>1, QuietTwoLeft, NowFacts
<1>3. TeeSound(Now) /\ BP!Sound(open) /\ b \in B!Slots
      BY <1>1, BranchFacts, BranchTypes
<1>4. StreamOrder(Now) /\ Asked(Now, k) /\ Holds(open, p, Now.tee.canceled[k], Drained(Now))
      BY <1>2 DEF Ordered, BranchOrder
<1>5. BP!GoesOn(open, b)
      BY <1>1, <1>3, BranchSoundness
<1>6. /\ open.keysMatch /\ open \in BP!Slots /\ BP!Waits(open)
  <2>1. BP!InOrder(open)
        BY <1>4 DEF Holds
  <2> QED BY <2>1, HeldFacts
<1> HIDE DEF open, p
<1>7. Holds(b, p, Now.tee.canceled[k], Drained(Now)) /\ Proceeds(open, b)
  <2>1. b = BP!FinishStart(open)
        BY SameSource
  <2>2. BP!SameContent(open, b) /\ b.sizing = open.sizing
        BY <1>6, <2>1, BranchAssumption, BP!FinishStartKeeps
        DEF BP!SameChannel, BP!SameContent
  <2>3. BP!Asks(BP!Settled(open, "start"), b) /\ BP!Beside(open, b)
        BY <1>1, <1>3, <1>6, <2>1, BranchAssumption, BP!FinishStartAsks
  <2>4. "pull" \in open.sourceCalls => "pull" \in BP!Settled(open, "start").sourceCalls
    <3>1. BP!Settled(open, "start").sourceCalls = open.sourceCalls \ {"start"}
          BY <1>6, BranchAssumption, BP!SettledFields
    <3> QED BY <3>1
  <2> HIDE DEF b
  <2>5. b.closeRequested = open.closeRequested
        BY <1>5 DEF BP!GoesOn
  <2>6. Proceeds(open, b)
        BY <2>3, <2>4, SameContents DEF BP!Asks, BP!Beside, Proceeds
  <2> QED BY <1>3, <1>4, <2>2, <2>5, <2>6, HoldsSame
<1> HIDE DEF b
<1>8. BP!Sound(b) /\ b.keysMatch
      BY <1>5, <1>6 DEF BP!GoesOn, BP!Becomes
<1>9. OrderLeft(Now, t, k) /\ BranchOrder(t, k, p)
      BY <1>2, <1>3, <1>4, <1>7, <1>8, WithBranchOrder
<1> HIDE DEF t
<1>10. Ordered(t)
       BY <1>9, OrderedAgain DEF p
<1> QED BY <1>1, <1>10, BecomeOrdered

\* What says nothing of the stream or of what is waited for.
LEMMA ChangedOrder ==
    ASSUME NEW t, StreamOrder(t), NEW u, u.stream = t.stream, u.tee.reads = t.tee.reads,
           u.tee.canceled = t.tee.canceled, u.tee.late = t.tee.late,
           u.tee.closedOrErrored = t.tee.closedOrErrored,
           \A k \in Branches : CanCloseOrEnqueue(u.tee.branch[k]) =>
                                   CanCloseOrEnqueue(t.tee.branch[k])
    PROVE  /\ StreamOrder(u) /\ PassedBy(u) = PassedBy(t) /\ (Drained(u) <=> Drained(t))
           /\ \A k \in Branches : \A p :
                  /\ u.tee.branch[k] = t.tee.branch[k] /\ u.tee.pulled[k] = t.tee.pulled[k]
                  /\ BranchOrder(t, k, p)
                  => BranchOrder(u, k, p)
<1>1. Unread(u) = Unread(t)
      BY DEF Unread
<1>2. PassedBy(u) = PassedBy(t)
      BY <1>1 DEF PassedBy, Noticed
<1>3. Drained(u) = Drained(t)
      BY DEF Drained
<1>4. StreamOrder(u)
      BY <1>1 DEF StreamOrder
<1>5. ASSUME NEW k \in Branches, NEW p,
             u.tee.branch[k] = t.tee.branch[k], u.tee.pulled[k] = t.tee.pulled[k],
             BranchOrder(t, k, p)
      PROVE  BranchOrder(u, k, p)
      BY <1>3, <1>5 DEF BranchOrder, Asked
<1> QED BY <1>2, <1>3, <1>4, <1>5

\* A pull settles.
LEMMA BranchPulledOrdered ==
    ASSUME TeeInvariant(Now), stream.keysMatch, Ordered(Now),
           NEW k \in Branches, BranchPulled(k)
    PROVE  Ordered(Now')
<1> DEFINE open == tee.branch[k]
           s == B!Settled(open, "pull")
           b == IF tee.pulled[k] = "fulfilled" THEN B!FinishPull(open) ELSE B!FailPull(open)
           noted == Noted(Now, k, tee.reads[k], "no")
           settled == Replaced(noted, k, s)
           t == WithBranch(settled, k, b)
           p == PassedBy(Now)
           read == tee.reads[k]
           no == "no"
<1>1. /\ TeeSound(Now) /\ Now \in TeeStates
      /\ tee.reads \in [Branches -> Reads \cup {0}]
      /\ tee.pulled \in [Branches -> {"no", "fulfilled", "rejected"}]
      /\ tee.canceled \in [Branches -> BOOLEAN]
      BY NowFacts, StateFacts DEF TeeInvariant, TeeSound
<1>2. settled = [Now EXCEPT !.tee.pulled[k] = "no",
                            !.tee.branch[k] = B!Settled(@, "pull")]
  <2>1. Now.tee = tee
        BY NowFacts
  <2> QED BY <1>1, <2>1, PulledState
<1>3. Quiet /\ tee.pulled[k] # "no" /\ stream' = t.stream /\ tee' = t.tee
      BY <1>2 DEF BranchPulled, Become
<1>4. open \in B!Slots /\ s \in B!Slots /\ b \in B!Slots /\ BP!Sound(open)
      BY BranchFacts, BranchTypes
<1>5. /\ BP!GoesOn(open, s) /\ BP!GoesOn(open, B!FinishPull(open))
      /\ BP!Becomes(open, B!FailPull(open))
      BY <1>4, BranchSoundness
<1>6. StreamOrder(Now) /\ Asked(Now, k) /\ Holds(open, p, tee.canceled[k], Drained(Now))
      BY NowFacts DEF Ordered, BranchOrder
<1>7. open.keysMatch /\ open \in BP!Slots /\ tee.reads[k] = 0
  <2>1. BP!InOrder(open)
        BY <1>6 DEF Holds
  <2> QED BY <1>3, <1>6, <2>1, HeldFacts, NowFacts DEF Asked
<1>8. TeeInvariant(noted) /\ noted \in TeeStates /\ OneLeft(noted)
  <2>1. /\ TeeInvariant(noted) /\ noted.stream = Now.stream /\ noted.tee.on = Now.tee.on
        BY NotedNothing, NowFacts
  <2>2. OneLeft(Now)
        BY <1>3, QuietTwoLeft
  <2> HIDE DEF noted
  <2> QED BY <2>1, <2>2, NowFacts DEF OneLeft, TeeInvariant, TeeSound
<1>9. /\ noted.stream = stream /\ noted.tee.reads = tee.reads /\ noted.tee.pulled[k] = "no"
      /\ \A j \in Branches \ {k} : noted.tee.pulled[j] = tee.pulled[j]
      /\ noted.tee.canceled = tee.canceled
      /\ noted.tee.closedOrErrored = tee.closedOrErrored /\ noted.tee.late = tee.late
      /\ noted.tee.branch = tee.branch
  <2>1. /\ read \in Reads \cup {0} /\ no \in {"no", "fulfilled", "rejected"}
        /\ noted = Noted(Now, k, read, no)
        BY <1>1
  <2>2. noted.tee.reads \in [Branches -> Reads \cup {0}]
        BY <1>8, StateFacts
  <2> HIDE DEF read, no, noted
  <2>3. /\ noted.stream = Now.stream /\ noted.tee.reads[k] = read
        /\ noted.tee.pulled[k] = no
        /\ \A j \in Branches \ {k} : /\ noted.tee.reads[j] = Now.tee.reads[j]
                                     /\ noted.tee.pulled[j] = Now.tee.pulled[j]
        /\ noted.tee.canceled = Now.tee.canceled
        /\ noted.tee.closedOrErrored = Now.tee.closedOrErrored
        /\ noted.tee.late = Now.tee.late
        /\ noted.tee.branch = Now.tee.branch
        BY <1>1, <2>1, NotedFacts
  <2>4. noted.tee.reads = tee.reads
        BY <1>1, <2>2, <2>3, NowFacts DEF read
  <2> QED BY <2>3, <2>4, NowFacts DEF no
<1>10. /\ BP!SameContent(open, s) /\ s.sizing = open.sizing
       /\ s.closeRequested = open.closeRequested
       /\ s.sourceCalls = open.sourceCalls \ {"pull"}
       /\ BP!Sound(s) /\ s.keysMatch
  <2> DEFINE pull == "pull"
  <2>1. s = BP!Settled(open, pull) /\ open \in BP!Slots
        BY <1>7, SameSource
  <2> HIDE DEF s, open, pull
  <2>4. BP!SameChannel(open, BP!Settled(open, pull))
        BY ONLY <2>1, BranchAssumption, BP!SettledKeeps
  <2>5. BP!SameChannel(open, s)
        BY <2>1, <2>4
  <2>2. BP!SameContent(open, s) /\ s.sizing = open.sizing
        BY <2>5 DEF BP!SameChannel, BP!SameContent
  <2>6. BP!Settled(open, pull).sourceCalls = open.sourceCalls \ {pull}
        BY ONLY <2>1, BranchAssumption, BP!SettledFields
  <2>3. s.sourceCalls = open.sourceCalls \ {"pull"}
        BY <2>1, <2>6 DEF pull
  <2> QED BY <1>5, <1>7, <2>2, <2>3 DEF BP!GoesOn, BP!Becomes
<1>11. BP!Sound(b) /\ b.keysMatch
  <2>1. tee.pulled[k] = "fulfilled" => b = B!FinishPull(open)
        OBVIOUS
  <2>2. tee.pulled[k] # "fulfilled" => b = B!FailPull(open)
        OBVIOUS
  <2> HIDE DEF b, open
  <2> QED BY <1>5, <1>7, <2>1, <2>2 DEF BP!GoesOn, BP!Becomes
<1>12. Holds(b, p, tee.canceled[k], Drained(Now)) /\ (CanCloseOrEnqueue(b) => CanCloseOrEnqueue(s))
  <2>1. ASSUME tee.pulled[k] = "fulfilled"
        PROVE  /\ Holds(b, p, tee.canceled[k], Drained(Now))
               /\ CanCloseOrEnqueue(b) => CanCloseOrEnqueue(s)
    <3>1. b = B!FinishPull(open) /\ b = BP!FinishPull(open)
          BY <2>1, SameSource
    <3>2. BP!SameContent(open, b) /\ b.sizing = open.sizing
          BY <1>7, <3>1, BranchAssumption, BP!FinishPullKeeps
          DEF BP!SameChannel, BP!SameContent
    <3>3. b.closeRequested = open.closeRequested
          BY <1>5, <3>1 DEF BP!GoesOn
    <3> HIDE DEF b, s, open, p
    <3>4. Holds(b, p, tee.canceled[k], Drained(Now))
          BY <1>4, <1>6, <3>2, <3>3, HoldsSame
    <3> QED BY <1>10, <3>2, <3>3, <3>4 DEF BP!SameContent, CanCloseOrEnqueue
  <2>2. ASSUME tee.pulled[k] # "fulfilled"
        PROVE  /\ Holds(b, p, tee.canceled[k], Drained(Now))
               /\ CanCloseOrEnqueue(b) => CanCloseOrEnqueue(s)
    <3>1. b = B!ControllerError(s)
          BY <2>2 DEF B!FailPull
    <3> HIDE DEF b, s, open, p
    <3>2. Holds(s, p, tee.canceled[k], Drained(Now))
          BY <1>4, <1>6, <1>10, HoldsSame
    <3> QED BY <3>1, <3>2, HoldsError
  <2> QED BY <2>1, <2>2
<1> HIDE DEF noted, s, b, open, p
<1>13. /\ OneReplaced(noted, k, s, settled)
       /\ TeeSound(settled) /\ OneLeft(settled)
  <2>1. OneReplaced(noted, k, s, settled)
        BY <1>4, <1>8, ReplacedFacts
  <2>2. TeeSound(settled) /\ (OneLeft(noted) => OneLeft(settled))
        BY <1>4, <1>8, <1>10, ReplacedSound DEF TeeInvariant
  <2> QED BY <1>8, <2>1, <2>2
<1> HIDE DEF settled
<1>14. /\ settled.stream = stream /\ settled.tee.reads = tee.reads
       /\ settled.tee.canceled = tee.canceled /\ settled.tee.late = tee.late
       /\ settled.tee.closedOrErrored = tee.closedOrErrored
       /\ settled.tee.branch[k] = s /\ settled.tee.pulled[k] = "no"
       /\ \A j \in Branches \ {k} : /\ settled.tee.branch[j] = tee.branch[j]
                                    /\ settled.tee.pulled[j] = tee.pulled[j]
       BY <1>9, <1>13 DEF OneReplaced
<1>15. /\ StreamOrder(settled) /\ PassedBy(settled) = p /\ (Drained(settled) <=> Drained(Now))
       /\ \A j \in Branches \ {k} : BranchOrder(settled, j, p)
  <2>1. \A j \in Branches : CanCloseOrEnqueue(settled.tee.branch[j]) =>
                                CanCloseOrEnqueue(Now.tee.branch[j])
        BY <1>10, <1>14, NowFacts DEF BP!SameContent, CanCloseOrEnqueue, open
  <2>2. /\ StreamOrder(settled) /\ PassedBy(settled) = PassedBy(Now)
        /\ Drained(settled) <=> Drained(Now)
        /\ \A j \in Branches : \A q :
               /\ settled.tee.branch[j] = Now.tee.branch[j]
               /\ settled.tee.pulled[j] = Now.tee.pulled[j] /\ BranchOrder(Now, j, q)
               => BranchOrder(settled, j, q)
        BY <1>6, <1>14, <2>1, NowFacts, ChangedOrder
  <2> QED BY <1>14, <2>2, NowFacts DEF Ordered, p
<1>16. Asked(settled, k)
       BY <1>7, <1>14 DEF Asked
<1>17. Holds(b, p, settled.tee.canceled[k], Drained(settled)) /\ Proceeds(settled.tee.branch[k], b)
  <2>1. Proceeds(s, b)
        BY <1>10, <1>12 DEF Proceeds
  <2> QED BY <1>12, <1>14, <1>15, <2>1, HoldsStill
<1>18. OrderLeft(settled, t, k) /\ BranchOrder(t, k, p)
       BY <1>4, <1>11, <1>13, <1>15, <1>16, <1>17, WithBranchOrder
<1> HIDE DEF t
<1>19. Ordered(t)
  <2>1. StreamOrder(t) /\ PassedBy(t) = p /\ \A j \in Branches \ {k} : BranchOrder(t, j, p)
        BY <1>15, <1>18 DEF OrderLeft
  <2> QED BY <1>18, <2>1 DEF Ordered
<1> QED BY <1>3, <1>19, BecomeOrdered


\* The stream moves on by itself, or as a branch is canceled: nothing is passed on.
LEMMA StreamMovedOrder ==
    ASSUME NEW t \in TeeStates, StreamOrder(t),
           NEW u, InOrder(u.stream), u.tee.reads = t.tee.reads,
           t.stream.state = "closed" => u.stream.state = "closed",
           \A i \in Reads : t.stream.answers[i] # "pending" =>
               u.stream.answers[i] = t.stream.answers[i],
           u.tee.closedOrErrored =>
               \A k \in Branches : u.tee.canceled[k] \/ ~CanCloseOrEnqueue(u.tee.branch[k]),
           (\E k \in Branches : ~u.tee.canceled[k]) => u.stream.cancelled = u.tee.late
    PROVE  StreamOrder(u) /\ PassedBy(u) = PassedBy(t) /\ (Drained(t) => Drained(u))
<1>1. Unread(u) = Unread(t) /\ t.tee.reads \in [Branches -> Reads \cup {0}]
      BY StateFacts DEF Unread
<1>2. \A i \in Reads \ Unread(t) : u.stream.answers[i] = t.stream.answers[i]
  <2> SUFFICES ASSUME NEW i \in Reads \ Unread(t)
               PROVE  u.stream.answers[i] = t.stream.answers[i]
      OBVIOUS
  <2>1. t.stream.answers[i] # "pending"
        BY DEF StreamOrder
  <2> QED BY <2>1
<1>3. StreamOrder(u)
      BY <1>1, <1>2 DEF StreamOrder
<1>4. Noticed(u) = Noticed(t)
      BY <1>1, <1>2 DEF Noticed
<1>5. ASSUME Drained(t)
      PROVE  Drained(u)
  <2> SUFFICES ASSUME NEW k \in Branches, t.tee.reads[k] # 0
               PROVE  u.stream.answers[t.tee.reads[k]] \notin Chunks \cup {"pending"}
      BY <1>5 DEF Drained
  <2>1. t.tee.reads[k] \in Reads
        BY <1>1
  <2>2. t.stream.answers[t.tee.reads[k]] \notin Chunks \cup {"pending"}
        BY <1>5 DEF Drained
  <2> QED BY <2>1, <2>2
<1> QED BY <1>3, <1>4, <1>5 DEF PassedBy

\* The source uses the stream, or one of its promises settles.
LEMMA SourceOrdered ==
    ASSUME TeeInvariant(Now), stream.keysMatch, Ordered(Now), UseSource \/ StreamSettles
    PROVE  Ordered(Now')
<1> DEFINE u == Now'
           p == PassedBy(Now)
<1>1. (SourceCallsController \/ SourceSettles) /\ UNCHANGED tee
      BY DEF UseSource, StreamSettles
<1>2. Now \in TeeStates /\ ReadableInvariant(stream)
      BY NowFacts DEF TeeInvariant, TeeSound
<1>3. StreamOrder(Now) /\ InOrder(stream)
      BY NowFacts DEF Ordered, StreamOrder
<1>4. OrderKept(stream, stream')
      BY <1>1, <1>2, <1>3, SourceOrder
<1>5. u.stream = stream' /\ u.tee = tee /\ Now.stream = stream /\ Now.tee = tee
      BY <1>1, NowFacts
<1> HIDE DEF u
<1>6. /\ u.tee.closedOrErrored =>
             \A k \in Branches : u.tee.canceled[k] \/ ~CanCloseOrEnqueue(u.tee.branch[k])
      /\ (\E k \in Branches : ~u.tee.canceled[k]) => u.stream.cancelled = u.tee.late
      BY <1>3, <1>4, <1>5 DEF StreamOrder, OrderKept
<1>7. /\ InOrder(u.stream) /\ u.tee.reads = Now.tee.reads
      /\ Now.stream.state = "closed" => u.stream.state = "closed"
      /\ \A i \in Reads : Now.stream.answers[i] # "pending" =>
             u.stream.answers[i] = Now.stream.answers[i]
      BY <1>4, <1>5 DEF OrderKept
<1>8. StreamOrder(u) /\ PassedBy(u) = PassedBy(Now) /\ (Drained(Now) => Drained(u))
      BY ONLY <1>2, <1>3, <1>6, <1>7, StreamMovedOrder
<1>9. ASSUME NEW k \in Branches
      PROVE  BranchOrder(u, k, p)
  <2>1. Holds(tee.branch[k], p, tee.canceled[k], Drained(Now)) /\ Asked(Now, k)
        BY <1>5 DEF Ordered, BranchOrder
  <2>2. Holds(tee.branch[k], p, tee.canceled[k], Drained(u))
        BY <1>8, <2>1, HoldsStill
  <2> QED BY <1>5, <2>1, <2>2 DEF BranchOrder, Asked
<1>10. Ordered(u)
       BY <1>8, <1>9 DEF Ordered
<1> QED BY <1>10 DEF u

\* A branch is canceled, and the stream with it if the other one was.
LEMMA BranchCancelOrdered ==
    ASSUME TeeInvariant(Now), stream.keysMatch, Ordered(Now),
           NEW k \in Branches, BranchCancel(k)
    PROVE  Ordered(Now')
<1> DEFINE open == tee.branch[k]
           b == B!Cancel(open)
           branch == [tee.branch EXCEPT ![k] = b]
           canceled == [tee.canceled EXCEPT ![k] = TRUE]
           tee1 == [tee EXCEPT !.branch = branch, !.canceled = canceled]
           u == Now'
           p == PassedBy(Now)
<1>1. /\ TeeSound(Now) /\ Now \in TeeStates /\ tee \in BranchSlots
      /\ tee.branch \in [Branches -> B!Slots] /\ tee.canceled \in [Branches -> BOOLEAN]
      BY NowFacts, StateFacts DEF TeeInvariant, TeeSound
<1>2. /\ open.state = "readable"
      /\ stream' = IF tee.canceled[3 - k] THEN Cancel(stream) ELSE stream
      /\ tee' = tee1
  <2>1. /\ stream' = CancelBranch(Now, k).stream /\ tee' = CancelBranch(Now, k).tee
        BY DEF BranchCancel, Become
  <2>2. /\ CancelBranch(Now, k).stream = IF tee.canceled[3 - k] THEN Cancel(stream) ELSE stream
        /\ CancelBranch(Now, k).tee = tee1
        BY <1>1 DEF CancelBranch, Now, BranchSlots
  <2> QED BY <2>1, <2>2 DEF BranchCancel
<1>3. /\ branch[k] = b /\ canceled[k]
      /\ \A j \in Branches \ {k} : branch[j] = tee.branch[j] /\ canceled[j] = tee.canceled[j]
      BY <1>1
<1>4. /\ tee1.branch = branch /\ tee1.canceled = canceled
      /\ tee1.closedOrErrored = tee.closedOrErrored /\ tee1.late = tee.late
      /\ tee1.reads = tee.reads /\ tee1.pulled = tee.pulled
      BY <1>1 DEF BranchSlots
<1>5. /\ u.stream = stream' /\ u.tee.branch[k] = b /\ u.tee.canceled[k]
      /\ \A j \in Branches \ {k} : /\ u.tee.branch[j] = tee.branch[j]
                                   /\ u.tee.canceled[j] = tee.canceled[j]
      /\ u.tee.closedOrErrored = tee.closedOrErrored /\ u.tee.late = tee.late
      /\ u.tee.reads = tee.reads /\ u.tee.pulled = tee.pulled
  <2> HIDE DEF branch, canceled, tee1
  <2> QED BY <1>2, <1>3, <1>4, NowFacts
<1> HIDE DEF b, branch, canceled, tee1, u
<1>6. Now.stream = stream /\ Now.tee = tee
      BY NowFacts
<1>7. /\ StreamOrder(Now) /\ InOrder(stream) /\ Asked(Now, k)
      /\ Holds(open, p, tee.canceled[k], Drained(Now))
      BY <1>6 DEF Ordered, StreamOrder, BranchOrder
<1>8. Holds(b, p, TRUE, Drained(u)) /\ Proceeds(open, b)
  <2> HIDE DEF open, p
  <2> QED BY <1>2, <1>7, HoldsCancel DEF b
<1>9. /\ InOrder(u.stream)
      /\ Now.stream.state = "closed" => u.stream.state = "closed"
      /\ \A i \in Reads : Now.stream.answers[i] # "pending" =>
             u.stream.answers[i] = Now.stream.answers[i]
  <2>1. CASE stream' = stream
        BY <1>5, <1>6, <1>7, <2>1
  <2>2. CASE stream' = Cancel(stream) /\ stream.state = "readable"
    <3>1. InOrder(stream')
          BY <1>7, <2>2, EndingOrder
    <3>2. stream \in Slots /\ Cancelled(stream, stream')
          BY <1>7, <2>2, CancelEffect DEF InOrder
    <3>3. stream' \in Slots /\ stream'.answers = WaitingAnswered(stream, "done")
          BY <3>2 DEF Cancelled
    <3>4. \A i \in Reads : stream.answers[i] # "pending" => stream'.answers[i] = stream.answers[i]
      <4> DEFINE done == "done"
                 s == stream'
      <4>1. done \in {"done", "rejected"} /\ s \in Slots
            /\ s.answers = WaitingAnswered(stream, done)
            BY <3>3
      <4> HIDE DEF done, s
      <4>2. /\ \A i \in Reads : s.answers[i] = IF Contains(stream.readRequests, i) THEN done
                                               ELSE stream.answers[i]
            /\ \A i \in Reads : Contains(stream.readRequests, i) => stream.answers[i] = "pending"
            BY ONLY <1>7, <4>1, WaitingOrder
      <4> QED BY <4>2 DEF s
    <3> QED BY <1>5, <1>6, <2>2, <3>1, <3>4
  <2>3. CASE ~(stream' = Cancel(stream) /\ stream.state = "readable")
        BY <1>2, <2>1, <2>3 DEF Cancel
  <2> QED BY <2>2, <2>3
<1>10. u.tee.closedOrErrored =>
           \A j \in Branches : u.tee.canceled[j] \/ ~CanCloseOrEnqueue(u.tee.branch[j])
  <2> SUFFICES ASSUME u.tee.closedOrErrored, NEW j \in Branches
               PROVE  u.tee.canceled[j] \/ ~CanCloseOrEnqueue(u.tee.branch[j])
      OBVIOUS
  <2>1. CASE j = k
        BY <1>5, <2>1
  <2>2. CASE j # k
        BY <1>5, <1>6, <1>7, <2>2 DEF StreamOrder
  <2> QED BY <2>1, <2>2
<1>11. (\E j \in Branches : ~u.tee.canceled[j]) => u.stream.cancelled = u.tee.late
  <2> SUFFICES ASSUME NEW j \in Branches, ~u.tee.canceled[j]
               PROVE  u.stream.cancelled = u.tee.late
      OBVIOUS
  <2>1. j # k /\ j = 3 - k /\ ~tee.canceled[j]
        BY <1>5 DEF Branches
  <2>2. u.stream = stream
        BY <1>2, <1>5, <2>1
  <2> QED BY <1>5, <1>6, <1>7, <2>1, <2>2 DEF StreamOrder
<1>12. StreamOrder(u) /\ PassedBy(u) = PassedBy(Now) /\ (Drained(Now) => Drained(u))
  <2>1. u.tee.reads = Now.tee.reads
        BY <1>5, <1>6
  <2> QED BY ONLY <1>1, <1>7, <1>9, <1>10, <1>11, <2>1, StreamMovedOrder
<1>13. ASSUME NEW j \in Branches
       PROVE  BranchOrder(u, j, p)
  <2>1. CASE j = k
    <3>1. Asked(u, k)
          BY <1>5, <1>6, <1>7, <1>8 DEF Asked, Proceeds
    <3> QED BY <1>5, <1>8, <2>1, <3>1 DEF BranchOrder
  <2>2. CASE j # k
    <3>1. Holds(tee.branch[j], p, tee.canceled[j], Drained(Now)) /\ Asked(Now, j)
          BY <1>6 DEF Ordered, BranchOrder
    <3>2. Holds(tee.branch[j], p, tee.canceled[j], Drained(u))
      <4> DEFINE other == tee.branch[j]
      <4> HIDE DEF p, other
      <4> QED BY <1>12, <3>1, HoldsStill DEF other
    <3> QED BY <1>5, <1>6, <2>2, <3>1, <3>2 DEF BranchOrder, Asked
  <2> QED BY <2>1, <2>2
<1>14. Ordered(u)
       BY <1>12, <1>13 DEF Ordered
<1> QED BY <1>14 DEF u

\* The read whose reaction runs is the next one to be passed on.
LEMMA AnsweredIsDue ==
    ASSUME TeeInvariant(Now), tee.on, stream.keysMatch, NEW k \in Branches, tee.reads[k] # 0,
           stream.answers[tee.reads[k]] # "pending",
           Answered(tee.reads[3 - k]) => tee.reads[k] < tee.reads[3 - k]
    PROVE  Due(Now, k, stream.answers[tee.reads[k]])
<1> DEFINE i == tee.reads[k]
<1>1. /\ TeeSound(Now) /\ Now \in TeeStates /\ ReadableInvariant(stream)
      /\ tee.reads \in [Branches -> Reads \cup {0}]
      BY NowFacts, StateFacts DEF TeeInvariant, TeeSound
<1>2. InTurn(stream) /\ ChannelInvariant(stream) /\ stream \in Slots /\ ~stream.readInSize
      BY <1>1, InvariantFacts, NowFacts DEF ReadableInvariant, TeeSound, Locked
<1>3. i \in Reads /\ stream.answers[i] # "none" /\ stream.answers[i] \in AnswerSet
      BY <1>1, <1>2, InvariantFacts, NowFacts DEF TeeSound
<1>4. ASSUME NEW j \in Branches \ {k}, tee.reads[j] # 0
      PROVE  i < tee.reads[j]
  <2>1. j = 3 - k /\ tee.reads[j] \in Reads
        BY <1>1, <1>4 DEF Branches
  <2>2. CASE stream.answers[tee.reads[j]] # "pending"
        BY <1>4, <2>1, <2>2 DEF Answered
  <2>3. CASE stream.answers[tee.reads[j]] = "pending"
    <3>1. stream.answers[i] # "rejected"
      <4>1. PICK l \in DOMAIN stream.readRequests : stream.readRequests[l] = tee.reads[j]
            BY <1>2, <2>1, <2>3 DEF InTurn
      <4>2. stream.readRequests # <<>>
            BY <4>1
      <4>3. stream.state = "readable"
            BY <1>2, <4>2 DEF InTurn
      <4> QED BY <1>2, <1>3, <4>3 DEF InTurn
    <3>2. ~Served(stream.answers[tee.reads[j]]) /\ Served(stream.answers[i])
          BY <1>3, <2>3, <3>1, ReadableStreamAssumption DEF Served, AnswerSet
    <3>3. ~(tee.reads[j] < i)
          BY <1>2, <1>3, <2>1, <3>2 DEF InTurn
    <3>4. tee.reads[j] # i
          BY <2>3
    <3>5. tee.reads[j] \in Nat /\ i \in Nat
          BY <1>3, <2>1, ReadableStreamAssumption DEF Reads
    <3> QED BY <3>3, <3>4, <3>5
  <2> QED BY <2>2, <2>3
<1> QED BY <1>3, <1>4, NowFacts DEF Due

\* The answer of a read is passed on.
LEMMA ReadAnsweredOrdered ==
    ASSUME TeeInvariant(Now), stream.keysMatch, Ordered(Now),
           NEW k \in Branches, ReadAnswered(k)
    PROVE  Ordered(Now')
<1> DEFINE answer == stream.answers[tee.reads[k]]
           given == IF answer = "rejected" THEN [Now EXCEPT !.threw = TRUE]
                    ELSE Give(Now, k, answer)
           result == IF given.threw THEN "rejected" ELSE "fulfilled"
           t == Noted(given, k, 0, result)
           p == PassedBy(Now)
           q == IF answer \in Chunks THEN Append(p, answer) ELSE p
<1>1. /\ Quiet /\ Answered(tee.reads[k])
      /\ Answered(tee.reads[3 - k]) => tee.reads[k] < tee.reads[3 - k]
      /\ stream' = t.stream /\ tee' = t.tee
      BY DEF ReadAnswered, Become, Noted
<1>2. tee.reads[k] # 0 /\ answer # "pending"
      BY <1>1 DEF Answered
<1>3. /\ TeeSound(Now) /\ Now \in TeeStates /\ ReadableInvariant(stream)
      /\ Now.stream = stream /\ Now.tee = tee /\ ~Now.threw
      /\ tee.reads \in [Branches -> Reads \cup {0}]
      BY NowFacts, StateFacts DEF TeeInvariant, TeeSound
<1>4. Due(Now, k, answer)
      BY <1>1, <1>2, AnsweredIsDue DEF Quiet
<1>5. answer \in Chunks \cup {"done", "rejected"}
  <2>1. answer \in AnswerSet
        BY <1>2, <1>3, InvariantFacts DEF ReadableInvariant
  <2>2. answer # "none"
        BY <1>2, <1>3 DEF TeeSound
  <2> QED BY <1>2, <2>1, <2>2 DEF AnswerSet
<1>6. "done" \notin Chunks /\ "rejected" \notin Chunks
      BY ReadableStreamAssumption
<1>7. StreamOrder(Now) /\ \A j \in Branches : BranchOrder(Now, j, p)
      BY DEF Ordered
<1>8. /\ given \in TeeStates /\ StreamOrder(given) /\ PassedBy(given) = p
      /\ Due(given, k, answer)
      /\ \A j \in Branches : BranchOrder(given, j, q)
  <2>1. CASE answer = "rejected"
    <3>1. given \in TeeStates /\ given.stream = Now.stream /\ given.tee = Now.tee
      <4>1. given = [Now EXCEPT !.threw = TRUE] /\ TRUE \in BOOLEAN
            BY <2>1
      <4> HIDE DEF given
      <4>2. TeeSound(given) /\ given.stream = Now.stream /\ given.tee = Now.tee
            BY <1>3, <4>1, ThrewSound
      <4> QED BY <4>2 DEF TeeSound
    <3>2. q = p
          BY <1>6, <2>1
    <3> HIDE DEF given, q, answer, p
    <3>3. /\ StreamOrder(given) /\ Due(given, k, answer)
          /\ \A j \in Branches : BranchOrder(given, j, p)
          /\ PassedBy(given) = PassedBy(Now)
          BY <1>4, <1>7, <3>1, SameOrder
    <3> QED BY <3>1, <3>2, <3>3 DEF p
  <2>2. CASE answer # "rejected"
    <3>1. given = Give(Now, k, answer)
          BY <2>2
    <3>2. ~Dead(Now) /\ TwoLeft(Now) /\ Now.stream.keysMatch
          BY <1>1, <1>2, <1>3, <2>2, QuietTwoLeft DEF Dead
    <3>3. answer \in Chunks \cup {"done"}
          BY <1>5, <2>2
    <3>4. q = IF answer = "done" THEN p ELSE Append(p, answer)
          BY <1>6, <3>3
    <3> HIDE DEF given, answer, p, q
    <3>5. TeeInvariant(given)
          BY <1>3, <3>1, <3>2, <3>3, GiveSound
    <3>6. /\ StreamOrder(given) /\ PassedBy(given) = PassedBy(Now) /\ Due(given, k, answer)
          /\ \A j \in Branches :
                 BranchOrder(given, j, IF answer = "done" THEN p ELSE Append(p, answer))
          BY <1>3, <1>4, <1>7, <3>1, <3>2, <3>3, GiveOrder
    <3> QED BY <3>4, <3>5, <3>6 DEF p, TeeInvariant, TeeSound
  <2> QED BY <2>1, <2>2
<1>9. result \in {"no", "fulfilled", "rejected"}
      OBVIOUS
<1> HIDE DEF given, result, answer
<1>10. /\ StreamOrder(t) /\ \A j \in Branches : BranchOrder(t, j, q)
       /\ answer \in Chunks => PassedBy(t) = Append(PassedBy(given), answer)
       /\ answer \notin Chunks => PassedBy(t) = PassedBy(given)
  <2> HIDE DEF q, p
  <2> QED BY <1>8, <1>9, NotedOrder
<1>11. PassedBy(t) = q
       BY <1>8, <1>10
<1> HIDE DEF t, q, p
<1>12. Ordered(t)
       BY <1>10, <1>11 DEF Ordered
<1> QED BY <1>1, <1>12, BecomeOrdered

\* The stream fails, and the branches with it.
LEMMA StreamRejectedOrdered ==
    ASSUME TeeInvariant(Now), stream.keysMatch, Ordered(Now), StreamRejected
    PROVE  Ordered(Now')
<1> DEFINE seen == [Now EXCEPT !.tee.watching = FALSE]
           first == ErrorTo(seen, 1)
           second == ErrorTo(first, 2)
           ended == [second EXCEPT !.tee.closedOrErrored = ~second.threw]
           t == IF tee.closedOrErrored THEN seen ELSE ended
           p == PassedBy(Now)
<1>1. Quiet /\ stream' = t.stream /\ tee' = t.tee
      BY DEF StreamRejected, Become
<1>2. /\ TeeSound(Now) /\ Now \in TeeStates /\ OneLeft(Now) /\ TwoLeft(Now)
      /\ tee \in BranchSlots
      BY <1>1, QuietTwoLeft, NowFacts, StateFacts DEF TeeInvariant, TeeSound
<1>3. /\ seen \in TeeStates /\ seen.stream = stream /\ ~seen.threw
      /\ seen.tee.on = tee.on /\ seen.tee.canceled = tee.canceled
      /\ seen.tee.closedOrErrored = tee.closedOrErrored /\ seen.tee.late = tee.late
      /\ seen.tee.branch = tee.branch
      /\ seen.tee.reads = tee.reads /\ seen.tee.pulled = tee.pulled
  <2> DEFINE tee1 == [tee EXCEPT !.watching = FALSE]
  <2>1. /\ tee1 \in BranchSlots
        /\ tee1.on = tee.on /\ tee1.canceled = tee.canceled
        /\ tee1.closedOrErrored = tee.closedOrErrored /\ tee1.late = tee.late
        /\ tee1.branch = tee.branch
        /\ tee1.reads = tee.reads /\ tee1.pulled = tee.pulled
        BY <1>2 DEF BranchSlots
  <2>2. seen = [Now EXCEPT !.tee = tee1]
        BY NowFacts
  <2> HIDE DEF tee1, seen
  <2>3. seen \in TeeStates /\ seen.tee = tee1 /\ seen.stream = Now.stream /\ seen.threw = Now.threw
        BY <1>2, <2>1, <2>2 DEF TeeStates
  <2> QED BY <2>1, <2>3, NowFacts
<1> HIDE DEF seen
<1>4. /\ TeeSound(seen) /\ OneLeft(seen) /\ TwoLeft(seen)
  <2>1. \A k \in Branches : seen.tee.reads[k] \in {0, Now.tee.reads[k]}
        BY <1>3, NowFacts
  <2>2. seen.tee.on => Locked(seen.stream)
        BY <1>2, <1>3, NowFacts DEF TeeSound
  <2>3. Now.stream.keysMatch =>
            \A k \in Branches :
                /\ BP!Sound(seen.tee.branch[k]) /\ seen.tee.branch[k].keysMatch
                /\ seen.tee.pulled[k] = "rejected" => Now.tee.pulled[k] = "rejected"
        BY <1>2, <1>3, NowFacts DEF TeeSound
  <2>4. TeeSound(seen)
        BY <1>2, <1>3, <2>1, <2>2, <2>3, NowFacts, TeeChanged
  <2>5. OneLeft(seen) /\ TwoLeft(seen)
        BY <1>2, <1>3, NowFacts DEF OneLeft, TwoLeft
  <2> QED BY <2>4, <2>5
<1>5. 1 \in Branches /\ 2 \in Branches /\ \A k \in Branches : k = 1 \/ k = 2
      BY DEF Branches
<1>6. /\ StreamOrder(seen) /\ PassedBy(seen) = p
      /\ BranchOrder(seen, 1, p) /\ BranchOrder(seen, 2, p)
  <2> DEFINE now == Now
  <2>1. /\ StreamOrder(now) /\ BranchOrder(now, 1, p) /\ BranchOrder(now, 2, p)
        /\ p = PassedBy(now)
        BY <1>5 DEF Ordered
  <2>2. /\ seen.stream = now.stream /\ seen.tee.reads = now.tee.reads
        /\ seen.tee.canceled = now.tee.canceled /\ seen.tee.late = now.tee.late
        /\ seen.tee.closedOrErrored = now.tee.closedOrErrored
        /\ seen.tee.branch = now.tee.branch /\ seen.tee.pulled = now.tee.pulled
        BY <1>3, NowFacts
  <2> HIDE DEF now, p
  <2>3. /\ StreamOrder(seen) /\ PassedBy(seen) = PassedBy(now)
        /\ \A k \in Branches : \A o :
               /\ seen.tee.branch[k] = now.tee.branch[k]
               /\ seen.tee.pulled[k] = now.tee.pulled[k]
               /\ BranchOrder(now, k, o)
               => BranchOrder(seen, k, o)
        BY <2>1, <2>2, ChangedOrder
  <2> QED BY <1>5, <2>1, <2>2, <2>3
<1>7. /\ TeeSound(first) /\ OneLeft(first) /\ ~first.threw /\ first.stream.keysMatch
      /\ OrderLeft(seen, first, 1) /\ BranchOrder(first, 1, p)
      /\ ~CanCloseOrEnqueue(first.tee.branch[1])
  <2> HIDE DEF p
  <2>1. /\ TeeSound(first) /\ LeavesTee(seen, first)
        /\ seen.stream.keysMatch => ~first.threw
        /\ TwoLeft(seen) => OneLeft(first)
        BY <1>3, <1>4, <1>5, ErrorToSound
  <2>2. /\ OrderLeft(seen, first, 1) /\ BranchOrder(first, 1, p)
        /\ ~CanCloseOrEnqueue(first.tee.branch[1])
        BY <1>3, <1>4, <1>5, <1>6, ErrorToOrder
  <2> HIDE DEF first
  <2> QED BY <1>3, <1>4, <2>1, <2>2 DEF LeavesTee, KeepsTee
<1> HIDE DEF first, p
<1>8. StreamOrder(first) /\ PassedBy(first) = p /\ BranchOrder(first, 2, p)
      BY <1>5, <1>6, <1>7 DEF OrderLeft
<1>9. /\ TeeSound(second) /\ OrderLeft(first, second, 2) /\ BranchOrder(second, 2, p)
      /\ second.tee.branch[1] = first.tee.branch[1]
      /\ ~CanCloseOrEnqueue(second.tee.branch[2])
  <2>1. /\ TeeSound(second)
        /\ \A k \in Branches \ {2} : second.tee.branch[k] = first.tee.branch[k]
        BY <1>5, <1>7, ErrorToSound
  <2>2. /\ OrderLeft(first, second, 2) /\ BranchOrder(second, 2, p)
        /\ ~CanCloseOrEnqueue(second.tee.branch[2])
        BY <1>5, <1>7, <1>8, ErrorToOrder
  <2> QED BY <1>5, <2>1, <2>2
<1> HIDE DEF second
<1>10. StreamOrder(second) /\ PassedBy(second) = p /\ BranchOrder(second, 1, p)
       BY <1>5, <1>7, <1>8, <1>9 DEF OrderLeft
<1>11. /\ StreamOrder(ended) /\ PassedBy(ended) = p
       /\ BranchOrder(ended, 1, p) /\ BranchOrder(ended, 2, p)
  <2> DEFINE x == ~second.threw
  <2>1. x \in BOOLEAN /\ ended = [second EXCEPT !.tee.closedOrErrored = x]
        OBVIOUS
  <2>2. x => \A k \in Branches :
                 second.tee.canceled[k] \/ ~CanCloseOrEnqueue(second.tee.branch[k])
        BY <1>5, <1>7, <1>9
  <2> HIDE DEF ended, x
  <2>3. second \in TeeStates
        BY <1>9 DEF TeeSound
  <2>4. /\ StreamOrder(ended) /\ PassedBy(ended) = PassedBy(second)
        /\ \A k, o : BranchOrder(second, k, o) => BranchOrder(ended, k, o)
        BY <1>10, <2>1, <2>2, <2>3, EndedOrder
  <2> QED BY <1>9, <1>10, <2>4
<1> HIDE DEF ended
<1>12. StreamOrder(t) /\ PassedBy(t) = p /\ BranchOrder(t, 1, p) /\ BranchOrder(t, 2, p)
       BY <1>6, <1>11
<1> HIDE DEF t
<1>13. Ordered(t)
  <2>1. \A k \in Branches : BranchOrder(t, k, PassedBy(t))
        BY <1>5, <1>12
  <2> QED BY <1>12, <2>1 DEF Ordered
<1> QED BY <1>1, <1>13, BecomeOrdered

\* What the tee is before tee(): two branches that nothing has happened to.
Unteed(t) ==
    /\ ~t.tee.closedOrErrored
    /\ \A k \in Branches :
           /\ t.tee.branch[k] = B!NewStream(t.stream.keysMatch)
           /\ ~t.tee.canceled[k] /\ t.tee.reads[k] = 0 /\ t.tee.pulled[k] = "no"

\* What holds always: the order where the keys agree, once tee() was called.
OrderInvariant(t) ==
    /\ t.tee.on /\ t.stream.keysMatch => Ordered(t)
    /\ ~t.tee.on => Unteed(t)

\* A branch that nothing has happened to, but that has a reader.
LEMMA NewBranchHolds ==
    ASSUME NEW b, b = B!AcquireReader(B!NewStream(TRUE)), NEW p, p = <<>>, NEW ended
    PROVE  Holds(b, p, FALSE, ended)
<1> DEFINE n == B!NewStream(TRUE)
<1>1. n \in BP!Slots /\ BranchReads \in Nat
      BY NewBranch, SameTypes, BranchAssumption
<1>2. /\ n.keysMatch /\ n.state = "readable" /\ n.readRequests = <<>> /\ n.queue = <<>>
      /\ ~n.cancelled /\ n.closeRequested = FALSE /\ n.sizing = None /\ ~n.readInSize
      /\ \A i \in BP!Reads : n.answers[i] = "none"
      /\ DOMAIN n.answers = 1..BranchReads
      BY DEF B!NewStream, B!Reads, BP!Reads
<1> HIDE DEF n
<1>3. BP!InOrder(n)
  <2>1. "none" \notin Chunks
        BY BranchAssumption
  <2>2. BP!InTurn(n)
        BY <1>2, <2>1 DEF BP!InTurn, BP!Served
  <2>3. \A i \in BP!Reads : n.answers[i] = "none" <=> i > 0
        BY <1>1, <1>2 DEF BP!Reads
  <2>4. \E m \in 0..BranchReads : \A i \in BP!Reads : n.answers[i] = "none" <=> i > m
        BY <1>1, <2>3
  <2> QED BY <1>1, <1>2, <2>1, <2>2, <2>4 DEF BP!InOrder, BP!Waits
<1>4. b = BP!AcquireReader(n)
      BY SameReader DEF n
<1>5. b \in BP!Slots /\ BP!SameChannel(n, b)
      BY <1>1, <1>4, BranchAssumption, BP!AcquireKeeps
<1>6. b.closeRequested = FALSE
      BY <1>1, <1>2, <1>4 DEF BP!AcquireReader, BP!Slots
<1>7. BP!SameContent(n, b)
      BY <1>5 DEF BP!SameChannel, BP!SameContent
<1>8. BP!InOrder(b)
      BY <1>3, <1>5, <1>7, BranchAssumption, BP!SameContentOrder
<1>9. b.state = "readable" /\ b.queue = <<>> /\ b.answers = n.answers /\ b.sizing = None
      BY <1>2, <1>5 DEF BP!SameChannel
<1>10. BP!Delivered(b) = p
  <2>1. \A i \in 1..BranchReads : b.answers[i] \notin Chunks
        BY <1>2, <1>9, BranchAssumption DEF BP!Reads
  <2>2. DOMAIN b.answers = 1..BranchReads
        BY <1>2, <1>9
  <2>3. BP!Chosen(b.answers, Chunks) = <<>>
        BY ONLY <1>1, <2>1, <2>2, BranchAssumption, BP!NothingChosen
  <2> QED BY <2>3 DEF BP!Delivered
<1>11. BP!Content(b) = p
       BY <1>8, <1>9, <1>10, BranchAssumption, BP!ContentFacts
<1>12. Begins(BP!Delivered(b), p)
       BY <1>8, <1>11, HeldFacts
<1> QED BY <1>6, <1>8, <1>9, <1>11, <1>12 DEF Holds, CanCloseOrEnqueue

\* tee() is called of a stream that was not read.
LEMMA CallTeeOrdered ==
    ASSUME TeeInvariant(Now), stream.keysMatch, Unteed(Now), CallTee
    PROVE  Ordered(Now')
<1> DEFINE branch == [k \in Branches |-> B!AcquireReader(tee.branch[k])]
           tee1 == [tee EXCEPT !.on = TRUE, !.late = stream.cancelled, !.watching = TRUE,
                               !.branch = branch]
           u == Now'
<1>1. /\ \A i \in Reads : stream.answers[i] = "none"
      /\ stream' = AcquireReader(stream) /\ tee' = tee1
      BY DEF CallTee
<1>2. /\ TeeSound(Now) /\ Now \in TeeStates /\ tee \in BranchSlots /\ ReadableInvariant(stream)
      BY NowFacts, StateFacts DEF TeeInvariant, TeeSound
<1>3. /\ ChannelInvariant(stream) /\ InTurn(stream) /\ stream \in Slots
      /\ stream.readRequests \in Seq(Reads)
      BY <1>2, InvariantFacts DEF ReadableInvariant
<1>4. branch = [k \in Branches |-> B!AcquireReader(B!NewStream(TRUE))]
  <2>1. \A k \in Branches : tee.branch[k] = B!NewStream(stream.keysMatch)
        BY NowFacts DEF Unteed
  <2>2. stream.keysMatch = TRUE
        BY <1>3, InvariantFacts
  <2> QED BY <2>1, <2>2
<1> HIDE DEF branch
<1>5. /\ tee1.branch = branch /\ tee1.canceled = tee.canceled /\ tee1.late = stream.cancelled
      /\ tee1.closedOrErrored = tee.closedOrErrored
      /\ tee1.reads = tee.reads /\ tee1.pulled = tee.pulled
      BY <1>2 DEF BranchSlots
<1>6. /\ u.stream = AcquireReader(stream) /\ u.tee.late = stream.cancelled
      /\ ~u.tee.closedOrErrored
      /\ \A k \in Branches :
             /\ u.tee.branch[k] = B!AcquireReader(B!NewStream(TRUE))
             /\ ~u.tee.canceled[k] /\ u.tee.reads[k] = 0 /\ u.tee.pulled[k] = "no"
  <2>1. ~tee.closedOrErrored /\ \A k \in Branches :
            ~tee.canceled[k] /\ tee.reads[k] = 0 /\ tee.pulled[k] = "no"
        BY NowFacts DEF Unteed
  <2>2. u.stream = stream' /\ u.tee = tee1
        BY <1>1, NowFacts
  <2>3. \A k \in Branches : branch[k] = B!AcquireReader(B!NewStream(TRUE))
        BY <1>4
  <2> HIDE DEF tee1, u
  <2>4. u.tee.branch = branch /\ u.stream = AcquireReader(stream)
        BY <1>1, <1>5, <2>2
  <2>5. /\ u.tee.late = stream.cancelled /\ ~u.tee.closedOrErrored
        /\ \A k \in Branches :
               ~u.tee.canceled[k] /\ u.tee.reads[k] = 0 /\ u.tee.pulled[k] = "no"
        BY <1>5, <2>1, <2>2
  <2> QED BY <2>3, <2>4, <2>5
<1> HIDE DEF tee1, u
<1>7. InOrder(stream)
  <2>1. stream.readRequests = <<>>
    <3>1. DOMAIN stream.readRequests = {}
          BY <1>1, <1>3, WaitingMade
    <3>2. /\ Len(stream.readRequests) \in Nat
          /\ DOMAIN stream.readRequests = 1..Len(stream.readRequests)
          /\ stream.readRequests # <<>> => Len(stream.readRequests) > 0
          BY <1>3, SequenceParts
    <3>3. 1 \notin 1..Len(stream.readRequests)
          BY <3>1, <3>2
    <3> QED BY <3>2, <3>3
  <2>2. "none" \notin Chunks
        BY ReadableStreamAssumption
  <2> QED BY <1>1, <1>3, <2>1, <2>2 DEF InOrder, Waits, ChannelInvariant
<1>8. AcquireReader(stream) \in Slots /\ SameChannel(stream, AcquireReader(stream))
      BY <1>3, AcquireKeeps
<1>9. /\ InOrder(u.stream) /\ u.stream.cancelled = stream.cancelled
      /\ \A i \in Reads : u.stream.answers[i] = "none"
  <2> DEFINE a == AcquireReader(stream)
  <2>1. a \in Slots /\ SameChannel(stream, a) /\ u.stream = a
        BY <1>6, <1>8
  <2> HIDE DEF a
  <2>2. SameContent(stream, a)
        BY <2>1 DEF SameChannel, SameContent
  <2>3. InOrder(a)
        BY <1>7, <2>1, <2>2, SameContentOrder
  <2> QED BY <1>1, <2>1, <2>2, <2>3 DEF SameContent
<1>10. StreamOrder(u)
       BY <1>6, <1>9 DEF StreamOrder
<1>11. PassedBy(u) = <<>>
  <2> DEFINE f == Noticed(u)
  <2>1. DOMAIN f = 1..MaxReads /\ MaxReads \in Nat /\ \A i \in 1..MaxReads : f[i] = "none"
        BY <1>9, ReadableStreamAssumption DEF Noticed, Reads
  <2>2. "none" \notin Chunks
        BY ReadableStreamAssumption
  <2>3. \A i \in 1..MaxReads : f[i] \notin Chunks
        BY <2>1, <2>2
  <2> HIDE DEF f
  <2>4. Chosen(f, Chunks) = <<>>
        BY <2>1, <2>3, NothingChosen
  <2> QED BY <2>4 DEF PassedBy, f
<1>12. ASSUME NEW k \in Branches
       PROVE  BranchOrder(u, k, PassedBy(u))
  <2>1. Holds(u.tee.branch[k], PassedBy(u), FALSE, Drained(u))
        BY <1>6, <1>11, NewBranchHolds
  <2>2. Holds(u.tee.branch[k], PassedBy(u), u.tee.canceled[k], Drained(u))
        BY <1>6, <2>1 DEF Holds
  <2> QED BY <1>6, <2>2 DEF BranchOrder, Asked
<1>13. Ordered(u)
       BY <1>10, <1>12 DEF Ordered
<1> QED BY <1>13 DEF u

\* Every step keeps the order.
LEMMA OrderStep ==
    ASSUME TeeInvariant(Now), OrderInvariant(Now), [TeeNext]_teeVars
    PROVE  OrderInvariant(Now')
<1>1. SameKind(Now, Now')
      BY TeeStep
<1>2. ASSUME tee.on, stream.keysMatch
      PROVE  Ordered(Now')
  <2>1. Ordered(Now)
        BY <1>2, NowFacts DEF OrderInvariant
  <2>2. CASE CallTee \/ UseStream
        BY <1>2, <2>2 DEF CallTee, UseStream
  <2>3. CASE UseSource \/ StreamSettles
        BY <1>2, <2>1, <2>3, SourceOrdered
  <2>4. ASSUME NEW k \in Branches, BranchRead(k)
        PROVE  Ordered(Now')
        BY <1>2, <2>1, <2>4, BranchReadOrdered
  <2>5. ASSUME NEW k \in Branches, BranchCancel(k)
        PROVE  Ordered(Now')
        BY <1>2, <2>1, <2>5, BranchCancelOrdered
  <2>6. ASSUME NEW k \in Branches, BranchStarts(k)
        PROVE  Ordered(Now')
        BY <1>2, <2>1, <2>6, BranchStartsOrdered
  <2>7. ASSUME NEW k \in Branches, ReadAnswered(k)
        PROVE  Ordered(Now')
        BY <1>2, <2>1, <2>7, ReadAnsweredOrdered
  <2>8. ASSUME NEW k \in Branches, BranchPulled(k)
        PROVE  Ordered(Now')
        BY <1>2, <2>1, <2>8, BranchPulledOrdered
  <2>9. CASE StreamRejected
        BY <1>2, <2>1, <2>9, StreamRejectedOrdered
  <2>10. CASE UNCHANGED teeVars
    <3>1. Now' = Now
          BY <2>10 DEF teeVars, Now
    <3> QED BY <2>1, <3>1
  <2> QED BY <2>2, <2>3, <2>4, <2>5, <2>6, <2>7, <2>8, <2>9, <2>10 DEF TeeNext, TeeReacts
<1>3. ASSUME ~tee.on, CallTee
      PROVE  OrderInvariant(Now')
  <2>1. Unteed(Now)
        BY <1>3, NowFacts DEF OrderInvariant
  <2>2. stream.keysMatch => Ordered(Now')
        BY <1>3, <2>1, CallTeeOrdered
  <2>3. tee'.on
    <3>1. tee \in BranchSlots
          BY NowFacts, StateFacts DEF TeeInvariant, TeeSound
    <3> QED BY <1>3, <3>1 DEF CallTee, BranchSlots
  <2> QED BY <1>1, <2>2, <2>3, NowFacts DEF OrderInvariant, SameKind
<1>4. ASSUME ~tee.on, UNCHANGED tee
      PROVE  OrderInvariant(Now')
  <2>1. Unteed(Now) /\ stream'.keysMatch = stream.keysMatch
        BY <1>1, <1>4, NowFacts DEF OrderInvariant, SameKind
  <2>2. Unteed(Now')
        BY <1>4, <2>1, NowFacts DEF Unteed
  <2> QED BY <1>4, <2>2, NowFacts DEF OrderInvariant
<1>5. ASSUME ~tee.on
      PROVE  CallTee \/ UNCHANGED tee
  <2>1. ~Quiet
        BY <1>5 DEF Quiet
  <2>2. ~StreamRejected /\ \A k \in Branches :
            /\ ~BranchRead(k) /\ ~BranchCancel(k) /\ ~BranchStarts(k)
            /\ ~ReadAnswered(k) /\ ~BranchPulled(k)
        BY <2>1 DEF StreamRejected, BranchRead, BranchCancel, BranchStarts, ReadAnswered,
                    BranchPulled
  <2>3. UseStream \/ UseSource \/ StreamSettles => UNCHANGED tee
        BY DEF UseStream, UseSource, StreamSettles
  <2>4. UNCHANGED teeVars => UNCHANGED tee
        BY DEF teeVars
  <2> QED BY <2>2, <2>3, <2>4 DEF TeeNext, TeeReacts
<1>6. tee.on => OrderInvariant(Now')
      BY <1>1, <1>2, NowFacts DEF OrderInvariant, SameKind
<1> QED BY <1>3, <1>4, <1>5, <1>6

\* Of two sequences that begin the same one, the shorter begins the longer.
LEMMA BothBegin ==
    ASSUME NEW p, NEW d \in Seq(Chunks), NEW e \in Seq(Chunks), Begins(d, p), Begins(e, p),
           Len(d) <= Len(e)
    PROVE  IsPrefix(d, e)
<1>1. PICK r \in Seq(Chunks) : p = d \o r
      BY DEF Begins
<1>2. PICK s \in Seq(Chunks) : p = e \o s
      BY DEF Begins
<1>3. \A k \in 1..Len(d) : p[k] = d[k]
      BY ONLY <1>1, ConcatParts
<1>4. \A k \in 1..Len(e) : p[k] = e[k]
      BY ONLY <1>2, ConcatParts
<1>5. Len(d) \in Nat /\ Len(e) \in Nat /\ DOMAIN d = 1..Len(d)
      BY SequenceParts
<1>6. \A k \in 1..Len(d) : d[k] = e[k]
      BY <1>3, <1>4, <1>5
<1>7. SubSeq(d, 1, Len(d)) = SubSeq(e, 1, Len(d))
  <2> DEFINE x == SubSeq(d, 1, Len(d))
             y == SubSeq(e, 1, Len(d))
  <2>1. x = [k \in 1..Len(d) |-> d[k]]
        BY <1>5
  <2>2. y = [k \in 1..Len(d) |-> e[k]]
        BY <1>5
  <2> HIDE DEF x, y
  <2> QED BY <1>6, <2>1, <2>2
<1> QED BY <1>7 DEF IsPrefix

\* The order says what the program sees.
LEMMA OrderShows ==
    ASSUME OrderInvariant(Now)
    PROVE  BranchesAgree
<1> SUFFICES ASSUME tee.on, stream.keysMatch
             PROVE  /\ \A k \in Branches : ~tee.canceled[k] =>
                           /\ tee.branch[k].state = "readable" =>
                                 Got(k) \o Values(tee.branch[k].queue) = Passed
                           /\ tee.branch[k].state = "closed" =>
                                 /\ Got(k) = Passed /\ stream.state = "closed"
                                 /\ stream.cancelled = tee.late
                    /\ \E k \in Branches : IsPrefix(Got(k), Got(3 - k))
    BY DEF BranchesAgree
<1> DEFINE p == PassedBy(Now)
<1>1. Passed = p
      BY NowFacts DEF Passed, PassedBy, Noticed, Unread
<1>2. /\ StreamOrder(Now)
      /\ \A k \in Branches : Holds(tee.branch[k], p, tee.canceled[k], Drained(Now))
      BY NowFacts DEF OrderInvariant, Ordered, BranchOrder
<1> HIDE DEF p
<1>3. ASSUME NEW k \in Branches
      PROVE  /\ Got(k) = BP!Delivered(tee.branch[k]) /\ Got(k) \in Seq(Chunks)
             /\ Begins(Got(k), p)
             /\ BP!Content(tee.branch[k]) = Got(k) \o Values(tee.branch[k].queue)
             /\ tee.branch[k].queue = <<>> => BP!Content(tee.branch[k]) = Got(k)
  <2> DEFINE b == tee.branch[k]
  <2>1. Got(k) = BP!Delivered(b) /\ Values(b.queue) = BP!Values(b.queue)
        BY SameContents DEF Got, BP!Delivered
  <2>2. BP!InOrder(b) /\ Begins(BP!Delivered(b), p)
        BY <1>2 DEF Holds
  <2> HIDE DEF b
  <2>3. /\ BP!Delivered(b) \in Seq(Chunks)
        /\ BP!Content(b) = BP!Delivered(b) \o BP!Values(b.queue)
        /\ b.queue = <<>> => BP!Content(b) = BP!Delivered(b)
        BY <2>2, BranchAssumption, BP!ContentFacts
  <2> QED BY <2>1, <2>2, <2>3 DEF b
<1>4. ASSUME NEW k \in Branches, ~tee.canceled[k], tee.branch[k].state = "readable"
      PROVE  Got(k) \o Values(tee.branch[k].queue) = Passed
  <2>1. BP!Content(tee.branch[k]) = p
        BY <1>2, <1>4 DEF Holds
  <2> QED BY <1>1, <1>3, <2>1
<1>5. ASSUME NEW k \in Branches, ~tee.canceled[k], tee.branch[k].state = "closed"
      PROVE  Got(k) = Passed /\ stream.state = "closed" /\ stream.cancelled = tee.late
  <2>1. /\ BP!Content(tee.branch[k]) = p /\ tee.branch[k].queue = <<>>
        /\ CanCloseOrEnqueue(tee.branch[k]) \/ Drained(Now)
        BY <1>2, <1>5 DEF Holds
  <2>2. Got(k) = Passed
        BY <1>1, <1>3, <2>1
  <2>3. stream.state = "closed"
        BY <1>5, <2>1, NowFacts DEF CanCloseOrEnqueue, Drained
  <2>4. stream.cancelled = tee.late
        BY <1>2, <1>5, NowFacts DEF StreamOrder
  <2> QED BY <2>2, <2>3, <2>4
<1>6. \E k \in Branches : IsPrefix(Got(k), Got(3 - k))
  <2> DEFINE d == Got(1)
             e == Got(2)
  <2>1. 1 \in Branches /\ 2 \in Branches /\ 3 - 1 = 2 /\ 3 - 2 = 1
        BY DEF Branches
  <2>2. d \in Seq(Chunks) /\ e \in Seq(Chunks) /\ Begins(d, p) /\ Begins(e, p)
        BY <1>3, <2>1
  <2>3. IsPrefix(d, e) \/ IsPrefix(e, d)
    <3> HIDE DEF d, e
    <3>1. Len(d) \in Nat /\ Len(e) \in Nat
          BY <2>2, SequenceParts
    <3>2. Len(d) <= Len(e) \/ Len(e) <= Len(d)
          BY <3>1
    <3> QED BY <2>2, <3>2, BothBegin
  <2>4. IsPrefix(Got(1), Got(3 - 1)) \/ IsPrefix(Got(2), Got(3 - 2))
        BY <2>1, <2>3
  <2> QED BY <2>1, <2>4
<1> QED BY <1>4, <1>5, <1>6

\* Once tee() was called, and where the keys agree, the branches hold what was passed on of the
\* stream, in its order, and nothing on its way to one of them is lost or overtaken.
THEOREM OrderHolds == TeeSpec => []OrderInvariant(Now)
<1>1. TeeInit => OrderInvariant(Now)
  <2> SUFFICES ASSUME TeeInit
               PROVE  OrderInvariant(Now)
      OBVIOUS
  <2>1. ~tee.on /\ Unteed(Now)
        BY NowFacts DEF TeeInit, Unteed
  <2> QED BY <2>1, NowFacts DEF OrderInvariant
<1>2. TeeInvariant(Now) /\ OrderInvariant(Now) /\ [TeeNext]_teeVars => OrderInvariant(Now)'
  <2>1. ASSUME TeeInvariant(Now), OrderInvariant(Now), [TeeNext]_teeVars
        PROVE  OrderInvariant(Now')
        BY <2>1, OrderStep
  <2>2. OrderInvariant(Now') <=> OrderInvariant(Now)'
        BY DEF OrderInvariant
  <2> QED BY <2>1, <2>2
<1> QED BY <1>1, <1>2, TeeInvariantHolds, PTL DEF TeeSpec

\* However the reads, cancels and pulls of the branches and the answers, the end or the error
\* of the stream cross: an open branch has all that was read for either, a branch that closed
\* delivered all that the stream held, and what the two delivered differs in length only.
THEOREM BranchesAgreeCorrect == TeeSpec => []BranchesAgree
<1>1. OrderInvariant(Now) => BranchesAgree
      BY OrderShows
<1> QED BY <1>1, OrderHolds, PTL

=============================================================================
