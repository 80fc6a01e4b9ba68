-------------------------------- MODULE Tee --------------------------------
(***************************************************************************)
(* tee() of a ReadableStream (ReadableStreamTee): two more ReadableStreams *)
(* whose common source reads the first one.  The module extends            *)
(* ReadableStream: `stream' is the stream that is read, alone before       *)
(* tee() and as the source of the branches after it.                       *)
(*                                                                         *)
(* pullAlgorithm and the two cancel algorithms run in the middle of the    *)
(* branch operations that call them; their calls of the stream are part of *)
(* the same action.  What they leave to promises is a reaction.  Reads     *)
(* that are answered have their reactions run in the order of the reads.   *)
(***************************************************************************)
EXTENDS ReadableStream

CONSTANTS
    TeeKeysMatch,   \* the values of keysMatch for which tee() is looked at
    StreamReads,    \* the reads of the stream before tee() (a bound)
    BranchReads,    \* the reads of the first branch (a bound)
    SlowReads       \* and of the second (a bound)

ASSUME TeeAssumption ==
    /\ TeeKeysMatch \subseteq RequestKeysMatch
    /\ StreamReads \in 0..MaxReads
    /\ BranchReads \in Nat /\ SlowReads \in 0..BranchReads

VARIABLE tee

teeVars == <<stream, tee>>

Branches == 1..2

\* Both branches may be pulled at once: the stream has a read left for each (a bound).
ReadsLeft == Cardinality({i \in Reads : stream.answers[i] = "none"}) >= 2

\* The branches are not used by size() (a bound), nor by reactions while it runs.
Quiet == tee.on /\ stream.sizing = None /\ ReadsLeft

(* The operations on a branch: high water mark 1, and size() gives 1.         *)
B == INSTANCE ReadableStream WITH HighWaterMark <- 1, MaxReads <- BranchReads

BranchSlots == [
    on : BOOLEAN,                       \* tee() was called
    branch : [Branches -> B!Slots],
    canceled : [Branches -> BOOLEAN],
    closedOrErrored : BOOLEAN,
    late : BOOLEAN,                     \* history: the stream was canceled before
    watching : BOOLEAN,                 \* for the stream's reader to be rejected
    reads : [Branches -> Reads \cup {0}],   \* the read pullAlgorithm waits for
    pulled : [Branches -> {"no", "fulfilled", "rejected"}]] \* its result

TypeOK == stream \in Slots /\ tee \in BranchSlots

TeeInit ==
    /\ Init
    /\ tee = [on |-> FALSE,
              branch |-> [k \in Branches |-> B!NewStream(stream.keysMatch)],
              canceled |-> [k \in Branches |-> FALSE],
              closedOrErrored |-> FALSE, late |-> FALSE,
              watching |-> FALSE,
              reads |-> [k \in Branches |-> 0],
              pulled |-> [k \in Branches |-> "no"]]

-----------------------------------------------------------------------------
(* The operations work on both variables and on whether an exception is       *)
(* passing through them.                                                      *)

Now == [stream |-> stream, tee |-> tee, threw |-> FALSE]

Become(t) == stream' = t.stream /\ tee' = t.tee

\* Branch k has become b.  If b was pulled thereby, pullAlgorithm reads.  (The
\* histories `owing' and `idle' are not kept for a branch.)
WithBranch(t, k, b) ==
    LET changed == [t EXCEPT !.tee.branch[k] = [b EXCEPT !.owing = FALSE, !.idle = FALSE]]
    IN  IF "pull" \in b.sourceCalls \ t.tee.branch[k].sourceCalls
        THEN [changed EXCEPT !.stream = Read(@), !.tee.reads[k] = NextRead(t.stream)]
        ELSE changed

\* The controllers are used without their public checks: an assertion is left.
WithOpenBranch(t, k, operation(_), throws) ==
    LET b == t.tee.branch[k]
    IN  CASE t.threw \/ t.tee.canceled[k] -> t
          [] ~t.threw /\ ~t.tee.canceled[k] /\ ~CanCloseOrEnqueue(b) ->
                [t EXCEPT !.tee.branch[k] = Asserted(b, "can close or enqueue", FALSE),
                          !.threw = TRUE]
          [] OTHER -> [WithBranch(t, k, operation(b)) EXCEPT !.threw = throws]

EnqueueTo(t, k, chunk) ==
    WithOpenBranch(t, k, LAMBDA b : B!Enqueue(b, chunk, 1), EnqueueThrows(t.tee.branch[k]))

CloseTo(t, k) == WithOpenBranch(t, k, LAMBDA b : B!ControllerClose(b), FALSE)

ErrorTo(t, k) ==
    IF t.threw THEN t
    ELSE LET b == t.tee.branch[k]
         IN  [WithBranch(t, k, B!ControllerError(b)) EXCEPT
                 !.threw = b.state = "readable" /\ EnqueueThrows(b)]

\* A mutant: a chunk goes to the branch that asked for it.
GiveToOne(t, k, answer) ==
    CASE t.tee.closedOrErrored -> t
      [] ~t.tee.closedOrErrored /\ answer = "done" ->
            LET closed == CloseTo(CloseTo(t, 1), 2)
            IN  [closed EXCEPT !.tee.closedOrErrored = ~closed.threw]
      [] OTHER -> EnqueueTo(t, k, answer)

\* A mutant: what ends the branches does not say that they have ended.
GiveEndTwice(t, k, answer) ==
    IF answer = "done" THEN CloseTo(CloseTo(t, 1), 2)
    ELSE EnqueueTo(EnqueueTo(t, 1, answer), 2, answer)

\* The reaction of pullAlgorithm, run for branch k, to the answer of its read.
Give(t, k, answer) ==
    CASE t.tee.closedOrErrored -> t
      [] ~t.tee.closedOrErrored /\ answer = "done" ->
            LET closed == CloseTo(CloseTo(t, 1), 2)
            IN  [closed EXCEPT !.tee.closedOrErrored = ~closed.threw]
      [] OTHER -> EnqueueTo(EnqueueTo(t, 1, answer), 2, answer)

\* cancel1Algorithm and cancel2Algorithm are part of canceling an open branch.
CancelBranch(t, k) ==
    [t EXCEPT !.tee.branch[k] = B!Cancel(@),
              !.tee.canceled[k] = TRUE,
              !.stream = IF t.tee.canceled[3 - k] THEN Cancel(@) ELSE @]

-----------------------------------------------------------------------------
(* The program's calls.                                                       *)

\* tee() of a stream that was not read before, and getReader() of the branches,
\* whose readers are not released (bounds).
CallTee ==
    /\ ~tee.on /\ ~stream.reader /\ stream.sizing = None
    /\ \A i \in Reads : stream.answers[i] = "none"
    /\ stream.keysMatch \in TeeKeysMatch
    /\ stream' = AcquireReader(stream)
    /\ tee' = [tee EXCEPT !.on = TRUE, !.late = stream.cancelled,
                           !.watching = TRUE,
                           !.branch = [k \in Branches |-> B!AcquireReader(@[k])]]

\* What the program may do with the stream while it is not locked to the tee.
UseStream ==
    /\ ~tee.on
    /\ \/ GetReader
       \/ ReleaseLock
       \/ ReaderRead /\ NextRead(stream) <= StreamReads
       \/ StreamCancel
    /\ UNCHANGED tee

UseSource == SourceCallsController /\ UNCHANGED tee

BranchRead(k) ==
    /\ Quiet
    /\ B!CanRead(tee.branch[k])
    /\ k = 2 => B!NextRead(tee.branch[k]) <= SlowReads
    /\ Become(WithBranch(Now, k, B!Read(tee.branch[k])))

BranchCancel(k) ==
    /\ Quiet /\ tee.branch[k].state = "readable"
    /\ Become(CancelBranch(Now, k))

-----------------------------------------------------------------------------
(* Reactions.                                                                 *)

\* startAlgorithm does nothing; the branches start one after the other.
BranchStarts(k) ==
    /\ Quiet /\ "start" \in tee.branch[k].sourceCalls
    /\ k = 2 => tee.branch[1].started
    /\ Become(WithBranch(Now, k, B!FinishStart(tee.branch[k])))

Answered(i) == i # 0 /\ stream.answers[i] # "pending"

ReadAnswered(k) ==
    /\ Quiet /\ Answered(tee.reads[k])
    /\ Answered(tee.reads[3 - k]) => tee.reads[k] < tee.reads[3 - k]
    /\ LET answer == stream.answers[tee.reads[k]]
           given == IF answer = "rejected" THEN [Now EXCEPT !.threw = TRUE]
                    ELSE Give(Now, k, answer)
       IN  Become([given EXCEPT !.tee.reads[k] = 0,
                                !.tee.pulled[k] = IF given.threw THEN "rejected"
                                                  ELSE "fulfilled"])

BranchPulled(k) ==
    /\ Quiet /\ tee.pulled[k] # "no"
    /\ LET settled == [Now EXCEPT !.tee.pulled[k] = "no",
                                  !.tee.branch[k] = B!Settled(@, "pull")]
       IN  Become(WithBranch(settled, k,
               IF tee.pulled[k] = "fulfilled" THEN B!FinishPull(tee.branch[k])
               ELSE B!FailPull(tee.branch[k])))

StreamRejected ==
    /\ Quiet /\ tee.watching /\ stream.closed = "rejected"
    /\ LET seen == [Now EXCEPT !.tee.watching = FALSE]
           errored == ErrorTo(ErrorTo(seen, 1), 2)
       IN  Become(IF tee.closedOrErrored THEN seen
                  ELSE [errored EXCEPT !.tee.closedOrErrored = ~errored.threw])

StreamSettles == SourceSettles /\ UNCHANGED tee

TeeReacts ==
    \/ \E k \in Branches : BranchStarts(k) \/ ReadAnswered(k) \/ BranchPulled(k)
    \/ StreamRejected

TeeNext ==
    \/ CallTee
    \/ UseStream
    \/ UseSource
    \/ \E k \in Branches :
          BranchRead(k) \/ BranchCancel(k)
    \/ StreamSettles
    \/ TeeReacts

Reactions == TeeReacts \/ StreamSettles \/ (SizeReturns /\ UNCHANGED tee)

\* Where a reaction, or the end of size(), is possible: ENABLED Reactions.
ReactionsLeft ==
    \/ stream.sizing # None
    \/ stream.sourceCalls # {}
    \/ Quiet /\ \E k \in Branches : \/ "start" \in tee.branch[k].sourceCalls
                                  \/ Answered(tee.reads[k])
                                  \/ tee.pulled[k] # "no"
    \/ Quiet /\ tee.watching /\ stream.closed = "rejected"

(* As in ReadableStream, and the tee's own promises settle by themselves:     *)
(* WF_teeVars(Reactions), written out because TLC is slow to find what is     *)
(* enabled.  One condition is enough: reactions that nothing new feeds end.   *)
TeeFairness == []<>~ReactionsLeft \/ []<><<Reactions>>_teeVars

TeeSpec == TeeInit /\ [][TeeNext]_teeVars /\ TeeFairness

-----------------------------------------------------------------------------
(* Correctness.                                                               *)

\* The chunks branch k's readers got.
Got(k) == Chosen(tee.branch[k].answers, Chunks)

\* The chunks pullAlgorithm has read and passed on.
Passed ==
    LET seen == Reads \ {tee.reads[k] : k \in Branches}
    IN  Chosen([i \in Reads |-> IF i \in seen THEN stream.answers[i] ELSE "none"], Chunks)

\* Where the keys agree an open branch has, received or in its queue, everything
\* that was read for either branch, and a branch that closed without having been
\* canceled delivered everything the stream held.  What the readers of the two
\* branches got never differs but in length, whichever branch asked, was
\* canceled or failed first.
BranchesAgree ==
    tee.on /\ stream.keysMatch =>
        /\ LET passed == Passed
           IN  \A k \in Branches : ~tee.canceled[k] =>
                 /\ tee.branch[k].state = "readable" =>
                       Got(k) \o Values(tee.branch[k].queue) = passed
                 /\ tee.branch[k].state = "closed" =>
                       /\ Got(k) = passed
                       /\ stream.state = "closed" /\ stream.cancelled = tee.late
        /\ \E k \in Branches : IsPrefix(Got(k), Got(3 - k))

\* Where the keys agree no assertion fails in the stream or in a branch: pull()
\* results, cancels and errors that cross never use a branch's controller once
\* it cannot be used.
BranchAssertionsHold ==
    /\ stream.failed = {}
    /\ stream.keysMatch => \A k \in Branches : tee.branch[k].failed = {}

\* Neither branch makes the other wait: the reads of a branch settle, unless the
\* source of the stream ended a pull() still owing a chunk, whatever the other
\* branch does or does not read.
BranchReadsSettle ==
    \A k \in Branches :
        []<>(tee.branch[k].readRequests = <<>> \/ stream.idle \/ ~stream.keysMatch)

=============================================================================
