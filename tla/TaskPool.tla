------------------------------ MODULE TaskPool ------------------------------
(***************************************************************************)
(* What the worker-thread task runner of the platform promises, without    *)
(* threads, locks or condition variables: tasks are started in the order   *)
(* they were submitted, each of them once; a drain returns only when       *)
(* nothing submitted is left unfinished; a closed pool starts nothing.     *)
(* TaskQueue.tla is shown to implement this module.                        *)
(***************************************************************************)
EXTENDS Sequences

CONSTANT Tasks

VARIABLES
    fresh,      \* tasks nobody has submitted yet
    pending,    \* submitted and not started, in submission order
    running,    \* started and not finished
    draining,   \* the draining thread is inside a drain
    closed      \* the pool was shut down

vars == <<fresh, pending, running, draining, closed>>

Init ==
    /\ fresh = Tasks
    /\ pending = <<>>
    /\ running = {}
    /\ draining = FALSE
    /\ closed = FALSE

\* While a drain is in progress only a running task can submit another one:
\* the draining thread is the only other submitter, and it is blocked.
Submit(t) ==
    /\ t \in fresh
    /\ draining => running # {}
    /\ fresh' = fresh \ {t}
    /\ pending' = Append(pending, t)
    /\ UNCHANGED <<running, draining, closed>>

Start ==
    /\ ~closed
    /\ pending # <<>>
    /\ running' = running \cup {Head(pending)}
    /\ pending' = Tail(pending)
    /\ UNCHANGED <<fresh, draining, closed>>

Finish(t) ==
    /\ t \in running
    /\ running' = running \ {t}
    /\ UNCHANGED <<fresh, pending, draining, closed>>

Drain ==
    /\ ~draining
    /\ draining' = TRUE
    /\ UNCHANGED <<fresh, pending, running, closed>>

Drained ==
    /\ draining
    /\ pending = <<>>
    /\ running = {}
    /\ draining' = FALSE
    /\ UNCHANGED <<fresh, pending, running, closed>>

Close ==
    /\ ~closed
    /\ ~draining
    /\ closed' = TRUE
    /\ UNCHANGED <<fresh, pending, running, draining>>

Next ==
    \/ \E t \in Tasks : Submit(t) \/ Finish(t)
    \/ Start
    \/ Drain
    \/ Drained
    \/ Close

Fairness ==
    /\ WF_vars(Start)
    /\ \A t \in Tasks : WF_vars(Finish(t))
    /\ WF_vars(Drained)

SafeSpec == Init /\ [][Next]_vars

Spec == SafeSpec /\ Fairness
=============================================================================
