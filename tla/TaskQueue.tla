------------------------------ MODULE TaskQueue ------------------------------
(***************************************************************************)
(* The worker threads' TaskQueue (zero_platform.cc) and the threads that   *)
(* use it: the workers in WorkerThreadMain, and the main thread, which     *)
(* posts tasks, drains the queue and shuts the workers down.  A method of  *)
(* TaskQueue holds lock_ from its first statement to its return or to a    *)
(* ConditionVariable::Wait, so each such section is one action.            *)
(***************************************************************************)
EXTENDS Naturals, Sequences, FiniteSets

CONSTANTS
    Workers,    \* the threads of the pool (four of them, zero.cc:227)
    Tasks,      \* the v8::Task objects; a unique_ptr, so posted at most once
    NoTask      \* the null unique_ptr

ASSUME TaskQueueAssumption ==
    /\ IsFiniteSet(Workers)
    /\ NoTask \notin Tasks

VARIABLES
    fresh,              \* tasks not posted so far
    task_queue_,
    outstanding_tasks_,
    stopped_,
    worker,             \* where each worker is in WorkerThreadMain
    task,               \* the worker's local variable `task'
    main                \* where the main thread is with respect to the queue

tqVars == <<fresh, task_queue_, outstanding_tasks_, stopped_, worker, task,
            main>>

(* A worker is in BlockingPop before its test of the queue ("pop"), blocked   *)
(* on tasks_available_ ("wait"), in task->Run() ("run"), past it and before    *)
(* NotifyOfCompletion ("ran"), or has returned ("exit").                       *)
WorkerStates == {"pop", "wait", "run", "ran", "exit"}

(* The main thread is outside the queue ("out"), in BlockingDrain before its   *)
(* test ("drain") or blocked on tasks_drained_ ("wait"), joining the workers   *)
(* in Shutdown ("join"), or past it ("joined").                                *)
MainStates == {"out", "drain", "wait", "join", "joined"}

At(pc) == {w \in Workers : worker[w] = pc}

Busy == At("run") \cup At("ran")

TypeOK ==
    /\ fresh \subseteq Tasks
    /\ task_queue_ \in Seq(Tasks)
    /\ outstanding_tasks_ \in Nat
    /\ stopped_ \in BOOLEAN
    /\ worker \in [Workers -> WorkerStates]
    /\ task \in [Workers -> Tasks \cup {NoTask}]
    /\ main \in MainStates

Init ==
    /\ fresh = Tasks
    /\ task_queue_ = <<>>
    /\ outstanding_tasks_ = 0
    /\ stopped_ = FALSE
    /\ worker = [w \in Workers |-> "pop"]
    /\ task = [w \in Workers |-> NoTask]
    /\ main = "out"

-----------------------------------------------------------------------------
(* Condition variables: Signal wakes one waiter if there is one, Broadcast     *)
(* all of them; a woken thread takes the lock again and repeats its test.      *)

\* A mutant: the wakeup is forgotten.
NoSignal == UNCHANGED worker

SignalAvailable ==
    \/ /\ At("wait") = {}
       /\ UNCHANGED worker
    \/ \E w \in At("wait") : worker' = [worker EXCEPT ![w] = "pop"]

BroadcastAvailable ==
    worker' = [w \in Workers |-> IF worker[w] = "wait" THEN "pop" ELSE worker[w]]

\* A mutant: the drained queue wakes nobody.
NoBroadcast == UNCHANGED main

BroadcastDrained == main' = IF main = "wait" THEN "drain" ELSE main

\* pthread_cond_wait may return without a signal.
SpuriousWakeup ==
    \/ /\ \E w \in At("wait") : worker' = [worker EXCEPT ![w] = "pop"]
       /\ UNCHANGED main
    \/ /\ main = "wait"
       /\ main' = "drain"
       /\ UNCHANGED worker

-----------------------------------------------------------------------------
(* The methods of TaskQueue.                                                   *)

Push(t) ==
    /\ outstanding_tasks_' = outstanding_tasks_ + 1
    /\ task_queue_' = Append(task_queue_, t)
    /\ SignalAvailable

\* One turn of the loop in BlockingPop: wait, return null, or take the head.
BlockingPop(w) ==
    /\ worker[w] = "pop"
    /\ \/ /\ task_queue_ = <<>> /\ ~stopped_
          /\ worker' = [worker EXCEPT ![w] = "wait"]
          /\ UNCHANGED <<task_queue_, task>>
       \/ /\ stopped_
          /\ worker' = [worker EXCEPT ![w] = "exit"]
          /\ UNCHANGED <<task_queue_, task>>
       \/ /\ task_queue_ # <<>> /\ ~stopped_
          /\ worker' = [worker EXCEPT ![w] = "run"]
          /\ task' = [task EXCEPT ![w] = Head(task_queue_)]
          /\ task_queue_' = Tail(task_queue_)
    /\ UNCHANGED <<fresh, outstanding_tasks_, stopped_, main>>

NotifyOfCompletion(w) ==
    /\ worker[w] = "ran"
    /\ worker' = [worker EXCEPT ![w] = "pop"]
    /\ task' = [task EXCEPT ![w] = NoTask]
    /\ outstanding_tasks_' = outstanding_tasks_ - 1
    /\ IF outstanding_tasks_ = 1 THEN BroadcastDrained ELSE UNCHANGED main
    /\ UNCHANGED <<fresh, task_queue_, stopped_>>

\* A mutant: the drain waits for the queue to be empty, not for its tasks.
DrainQueueOnly ==
    /\ main = "drain"
    /\ main' = IF task_queue_ # <<>> THEN "wait" ELSE "out"
    /\ UNCHANGED <<fresh, task_queue_, outstanding_tasks_, stopped_, worker, task>>

\* One turn of the loop in BlockingDrain.
BlockingDrain ==
    /\ main = "drain"
    /\ main' = IF outstanding_tasks_ > 0 THEN "wait" ELSE "out"
    /\ UNCHANGED <<fresh, task_queue_, outstanding_tasks_, stopped_, worker, task>>

Stop ==
    /\ stopped_' = TRUE
    /\ BroadcastAvailable

-----------------------------------------------------------------------------
(* The threads.                                                                *)

\* CallOnWorkerThread: V8 posts from the main thread, or from a running task.
PostTask(t) ==
    /\ t \in fresh
    /\ fresh' = fresh \ {t}
    /\ Push(t)
    /\ UNCHANGED <<stopped_, task, main>>

\* task->Run() returns.
RunReturns(w) ==
    /\ worker[w] = "run"
    /\ worker' = [worker EXCEPT ![w] = "ran"]
    /\ UNCHANGED <<fresh, task_queue_, outstanding_tasks_, stopped_, task, main>>

WorkerThreadMain(w) == BlockingPop(w) \/ RunReturns(w) \/ NotifyOfCompletion(w)

\* The main thread enters WorkerThreadsTaskRunner::BlockingDrain.
StartDrain ==
    /\ main = "out"
    /\ main' = "drain"
    /\ UNCHANGED <<fresh, task_queue_, outstanding_tasks_, stopped_, worker, task>>

\* WorkerThreadsTaskRunner::Shutdown: Stop, then join every thread.
Shutdown ==
    /\ main = "out"
    /\ Stop
    /\ main' = "join"
    /\ UNCHANGED <<fresh, task_queue_, outstanding_tasks_, task>>

Joined ==
    /\ main = "join"
    /\ At("exit") = Workers
    /\ main' = "joined"
    /\ UNCHANGED <<fresh, task_queue_, outstanding_tasks_, stopped_, worker, task>>

Wakeup ==
    /\ SpuriousWakeup
    /\ UNCHANGED <<fresh, task_queue_, outstanding_tasks_, stopped_, task>>

Next ==
    \/ \E t \in Tasks : (main = "out" \/ At("run") # {}) /\ PostTask(t)
    \/ \E w \in Workers : WorkerThreadMain(w)
    \/ StartDrain
    \/ BlockingDrain
    \/ Shutdown
    \/ Joined
    \/ Wakeup

(* Every thread is scheduled: a worker that can take a step takes it, tasks    *)
(* return, and the main thread goes on once it is inside the queue.  Nothing   *)
(* obliges V8 to post, to drain or to shut down, and no wakeup is owed.        *)
Fairness ==
    /\ \A w \in Workers : WF_tqVars(WorkerThreadMain(w))
    /\ WF_tqVars(BlockingDrain)
    /\ WF_tqVars(Joined)

SafeSpec == Init /\ [][Next]_tqVars

Spec == SafeSpec /\ Fairness

-----------------------------------------------------------------------------
(* Correctness.                                                                *)

\* outstanding_tasks_ counts exactly the tasks that are queued or held by a
\* worker that has not yet reported completion: BlockingDrain relies on it.
Accounting == outstanding_tasks_ = Len(task_queue_) + Cardinality(Busy)

\* No wakeup of a worker is lost: as long as some worker sleeps on
\* tasks_available_, at least as many workers are on their way to test the
\* queue as there are tasks in it, although a signal wakes only one worker
\* and any other worker may take the task before it.  None sleeps once stopped.
NoLostWakeup ==
    At("wait") # {} =>
        /\ ~stopped_
        /\ Len(task_queue_) <= Cardinality(At("pop"))

\* The main thread never sleeps on tasks_drained_ with nothing outstanding,
\* which would block it for ever: the last completion has woken it.
NoLostDrain == main = "wait" => outstanding_tasks_ > 0

\* A task is at one place at a time: not posted, once in the queue, or in the
\* hands of one worker.
OnePlace ==
    /\ \A i, j \in DOMAIN task_queue_ :
          task_queue_[i] = task_queue_[j] => i = j
    /\ \A i \in DOMAIN task_queue_ :
          /\ task_queue_[i] \notin fresh
          /\ \A w \in Workers : task[w] # task_queue_[i]
    /\ \A w \in Workers :
          /\ (task[w] = NoTask) = (w \notin Busy)
          /\ task[w] \notin fresh
    /\ \A v, w \in Workers : task[v] = task[w] /\ task[v] # NoTask => v = w

\* The tasks the workers hold.
Running == {task[w] : w \in Busy}

\* WorkerThreadsTaskRunner implements the abstract pool, whose fairness says
\* that queued tasks start, started tasks finish and drains return.
Pool == INSTANCE TaskPool
    WITH pending <- task_queue_,
         running <- Running,
         draining <- main \in {"drain", "wait"},
         closed <- stopped_

PoolSpec == Pool!Spec

\* Shutdown returns: every worker, asleep or not, sees stopped_ and exits.
ShutdownReturns == main = "join" ~> main = "joined"
=============================================================================
