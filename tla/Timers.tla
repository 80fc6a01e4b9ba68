------------------------------- MODULE Timers -------------------------------
(***************************************************************************)
(* setTimeout, setInterval and their clear functions (whatwg/timers.js) on *)
(* the one uv timer of TimerWrap (zero_timer.cc).  All timers share a      *)
(* sorted queue; the uv timer is armed for its head; its callback walks    *)
(* the live queue with forEach while handlers set and clear timers.        *)
(*                                                                         *)
(* Every time is in whole milliseconds relative to performance.now(),      *)
(* which is thus 0 for ever, and a tick of the clock takes 1 from all.     *)
(* nestingLevel is left out: it only feeds the clamp at line 86, whose     *)
(* test reads this.timeout before it is set and is never true.             *)
(***************************************************************************)
EXTENDS Integers, Sequences, FiniteSets, SequencesExt

CONSTANTS
    Timeouts,   \* the values of item.timeout
    MaxTimers,  \* bound: how many timers are ever set
    MaxLag      \* bound: how late the model lets callbacks and handlers be

ASSUME TimersAssumption ==
    /\ Timeouts \subseteq Nat \ {0}     \* the constructor makes it 1 or more
    /\ MaxTimers \in Nat
    /\ MaxLag \in Nat

VARIABLES
    timerId,    \* the next id
    queue,      \* items [id, expiry, timeout, repeat] in the queue's order
    armed,      \* the uv timer is active,
    due,        \* and fires when the loop's time is this
    loopTime,   \* uv_now: the time when the loop last updated it
    phase,      \* "idle", "pass" in the callback, "handler" in a handler
    now,        \* the callback's `now'
    index,      \* the next index forEach visits
    length,     \* and the length it took at its start
    running,    \* the item whose handler runs
    cleared,    \* history: ids whose clear call returned true
    started     \* history: ids whose handler has been called

passVars == <<phase, now, index, length>>
history == <<running, cleared, started>>
vars == <<timerId, queue, armed, due, loopTime, passVars, history>>

Ids == 0..(MaxTimers - 1)
Items == [id : Ids, expiry : Int, timeout : Timeouts, repeat : BOOLEAN]
NoItem == [id |-> -1]

TypeOK ==
    /\ timerId \in 0..MaxTimers
    /\ queue \in Seq(Items)
    /\ armed \in BOOLEAN
    /\ due \in Int
    /\ loopTime \in Int /\ loopTime <= 0
    /\ phase \in {"idle", "pass", "handler"}
    /\ now \in Int /\ now <= 0
    /\ index \in 0..length
    /\ length \in 0..MaxTimers
    /\ running \in Items \cup {NoItem}
    /\ cleared \subseteq Ids
    /\ started \subseteq Ids

Init ==
    /\ timerId = 0
    /\ queue = <<>>
    /\ armed = FALSE
    /\ due = 0
    /\ loopTime = 0
    /\ phase = "idle"
    /\ now = 0
    /\ index = 0
    /\ length = 0
    /\ running = NoItem
    /\ cleared = {}
    /\ started = {}

-----------------------------------------------------------------------------

\* The comparator of queue.sort.
Before(a, b) == a.expiry < b.expiry \/ (a.expiry = b.expiry /\ a.id < b.id)

\* wrap.update(msecs): uv_timer_start counts from the loop's cached time.
Update(msecs) ==
    /\ armed' = TRUE
    /\ due' = loopTime + msecs

\* A mutant: the item is pushed and not sorted.
PushUnsorted(q, item) ==
    /\ queue' = Append(q, item)
    /\ IF q = <<>> \/ Head(q).expiry > item.expiry
       THEN Update(item.timeout)
       ELSE UNCHANGED <<armed, due>>

\* insert(item) into a queue q: push and sort.  The uv timer is armed again
\* when the queue was empty or its head expires later than the item.
Insert(q, item) ==
    LET before == {i \in DOMAIN q : Before(q[i], item)}
    IN  /\ queue' = InsertAt(q, Cardinality(before) + 1, item)
        /\ IF q = <<>> \/ Head(q).expiry > item.expiry
           THEN Update(item.timeout)
           ELSE UNCHANGED <<armed, due>>

\* JavaScript runs in a handler, or elsewhere while no timer pass is under way.
JavaScript == phase \in {"idle", "handler"}

\* setTimeout and setInterval.
SetTimer(timeout, repeat) ==
    /\ JavaScript
    /\ timerId < MaxTimers
    /\ timerId' = timerId + 1
    /\ Insert(queue, [id |-> timerId, expiry |-> timeout, timeout |-> timeout,
                      repeat |-> repeat])
    /\ UNCHANGED <<loopTime, passVars, history>>

\* clearTimeout and clearInterval, of a timer that is in the queue; the uv
\* timer stays armed.
ClearTimer(i) ==
    /\ JavaScript
    /\ queue' = RemoveAt(queue, i)
    /\ cleared' = cleared \cup {queue[i].id}
    /\ UNCHANGED <<timerId, armed, due, loopTime, passVars, running, started>>

-----------------------------------------------------------------------------
(* TimerWrap's callback.                                                       *)

\* libuv stops a one-shot timer and calls it: the pass begins.
UvTimerFires ==
    /\ phase = "idle"
    /\ armed /\ due <= loopTime
    /\ armed' = FALSE
    /\ due' = 0
    /\ phase' = "pass"
    /\ now' = 0
    /\ index' = 0
    /\ length' = Len(queue)
    /\ UNCHANGED <<timerId, queue, loopTime, history>>

Visiting == phase = "pass" /\ index < length

\* forEach goes past an index that no longer exists or whose item is not due.
Skip ==
    /\ Visiting
    /\ index < Len(queue) => queue[index + 1].expiry > now
    /\ index' = index + 1
    /\ UNCHANGED <<timerId, queue, armed, due, loopTime, phase, now, length, history>>

\* A mutant: the due item is called and stays in the queue.
CallWithoutSplice ==
    /\ Visiting
    /\ index < Len(queue)
    /\ LET item == queue[index + 1]
       IN  /\ item.expiry <= now
           /\ running' = item
           /\ started' = started \cup {item.id}
    /\ index' = index + 1
    /\ phase' = "handler"
    /\ UNCHANGED <<timerId, queue, armed, due, loopTime, now, length, cleared>>

\* A due item leaves the queue, an interval goes back into it, its handler runs.
CallHandler ==
    /\ Visiting
    /\ index < Len(queue)
    /\ LET item == queue[index + 1]
           rest == RemoveAt(queue, index + 1)
       IN  /\ item.expiry <= now
           /\ \/ /\ item.repeat
                 /\ Insert(rest, [item EXCEPT !.expiry = @ + item.timeout])
              \/ /\ ~item.repeat
                 /\ queue' = rest
                 /\ UNCHANGED <<armed, due>>
           /\ running' = item
           /\ started' = started \cup {item.id}
    /\ index' = index + 1
    /\ phase' = "handler"
    /\ UNCHANGED <<timerId, loopTime, now, length, cleared>>

\* The handler returns or throws; the catch block is empty.
HandlerReturns ==
    /\ phase = "handler"
    /\ phase' = "pass"
    /\ running' = NoItem
    /\ UNCHANGED <<timerId, queue, armed, due, loopTime, now, index, length,
                   cleared, started>>

\* A mutant: the pass ends without wrap.update.
EndWithoutUpdate ==
    /\ phase = "pass"
    /\ index = length
    /\ phase' = "idle"
    /\ now' = 0 /\ index' = 0 /\ length' = 0
    /\ UNCHANGED <<timerId, queue, armed, due, loopTime, history>>

\* After forEach: arm the uv timer for the new head.
EndPass ==
    /\ phase = "pass"
    /\ index = length
    /\ IF queue = <<>> THEN UNCHANGED <<armed, due>>
       ELSE Update(IF Head(queue).expiry > 1 THEN Head(queue).expiry ELSE 1)
    /\ phase' = "idle"
    /\ now' = 0 /\ index' = 0 /\ length' = 0
    /\ UNCHANGED <<timerId, queue, loopTime, history>>

-----------------------------------------------------------------------------
(* The clock, and libuv's copy of it: a loop iteration updates it before it    *)
(* runs the timers that are due.                                               *)

\* MaxLag bounds how long the copy is not updated, and for how long a timer
\* is left in the queue after it expired, unless there is nothing to do but
\* to wait for the uv timer.
MayTick ==
    /\ loopTime > -MaxLag
    /\ \/ phase = "idle" /\ armed /\ due > 0
       \/ /\ now > -MaxLag
          /\ due > -MaxLag
          /\ \A i \in DOMAIN queue : queue[i].expiry > -MaxLag

Tick ==
    /\ MayTick
    /\ queue' = [i \in DOMAIN queue |-> [queue[i] EXCEPT !.expiry = @ - 1]]
    /\ loopTime' = loopTime - 1
    /\ due' = IF armed THEN due - 1 ELSE due
    /\ now' = IF phase = "idle" THEN now ELSE now - 1
    /\ UNCHANGED <<timerId, armed, phase, index, length, history>>

UpdateTime ==
    /\ phase = "idle"
    /\ loopTime # 0
    /\ loopTime' = 0
    /\ UNCHANGED <<timerId, queue, armed, due, passVars, history>>

Callback == UvTimerFires \/ Skip \/ CallHandler \/ HandlerReturns \/ EndPass

Next ==
    \/ \E timeout \in Timeouts, repeat \in BOOLEAN : SetTimer(timeout, repeat)
    \/ \E i \in DOMAIN queue : ClearTimer(i)
    \/ Callback
    \/ Tick
    \/ UpdateTime

(* Time passes, the loop iterates, callbacks and handlers return.  Nothing     *)
(* obliges JavaScript to set or to clear a timer.                              *)
Fairness ==
    /\ WF_vars(Callback)
    /\ WF_vars(Tick)
    /\ WF_vars(UpdateTime)

SafeSpec == Init /\ [][Next]_vars

Spec == SafeSpec /\ Fairness

-----------------------------------------------------------------------------
(* Correctness.                                                                *)

\* Outside the callback a queue with a timer has the uv timer armed, no later
\* than the head expires, or a millisecond after a pass the head was left in:
\* no timer is forgotten and the loop stays alive for it, although clearing
\* never touches the uv timer and inserting only sometimes does.
Armed ==
    phase = "idle" /\ queue # <<>> =>
        /\ armed
        /\ due <= Head(queue).expiry \/ due <= loopTime + 1

\* A handler is never called for a timer that was cleared before, nor a second
\* time for a timeout, although the pass walks a queue that handlers change.
StartsOnlyLive ==
    [][phase = "pass" /\ phase' = "handler" =>
          /\ running'.id \notin cleared
          /\ running'.id \in started => running'.repeat]_vars

\* No timer starves: each one that is set fires or is cleared, whatever
\* intervals do and although forEach passes over the item after each one that
\* the callback removes.
NoStarvation ==
    \A id \in Ids : timerId > id ~> id \in started \cup cleared
=============================================================================
