------------------------------ MODULE Platform ------------------------------
(***************************************************************************)
(* The event loop of zero.cc on top of the platform of zero_platform.cc:   *)
(* the main thread runs JavaScript, libuv's loop and DrainTasks; the       *)
(* workers of TaskQueue run worker tasks; every thread may post foreground *)
(* tasks, which only the main thread runs.  One isolate.                   *)
(***************************************************************************)
EXTENDS TaskQueue

CONSTANTS
    ForegroundTasks,    \* v8::Task objects posted to the foreground runner
    Handles             \* what keeps libuv's loop alive: timers, sockets,
                        \* requests in flight

VARIABLES
    unposted,           \* foreground tasks not posted so far
    foreground_tasks_,
    foreground_delayed_tasks_,
    scheduled,          \* scheduled_delayed_tasks_: their timers are running
    asyncPending,       \* uv_async_send was called and FlushTasks has not run
    sending,            \* workers between Push and uv_async_send
    tasks,              \* `tasks' of FlushForegroundTasksInternal
    did_work,
    handles,            \* the active and referenced handles and requests
    microtasks,         \* V8's microtask queue is not empty
    pc,                 \* where the main thread is
    jsBack,             \* where it goes on when JavaScript returns,
    flushBack           \* and when FlushForegroundTasksInternal does

flushVars == <<scheduled, tasks, did_work>>
foregroundVars == <<unposted, foreground_tasks_, foreground_delayed_tasks_,
                    asyncPending, sending>>
loopVars == <<handles, microtasks, pc, jsBack, flushBack>>
platformVars == <<tqVars, flushVars, foregroundVars, loopVars>>

(* "js"                       JavaScript runs, with or without a callback scope *)
(* "loop", "iterate"          uv_run before its alive test, and in an iteration *)
(* "flush", "popall", "batch" the parts of FlushForegroundTasksInternal         *)
(* "drain", "draining"        DrainTasks before and in BlockingDrain            *)
(* "microtasks", "alive"      main() after DrainTasks, and at the loop's test   *)
(* "exit"                     past the loop and the exit handler                *)
Places == {"js", "loop", "iterate", "flush", "popall", "batch", "drain",
           "draining", "microtasks", "alive", "exit"}

PlatformTypeOK ==
    /\ TypeOK
    /\ unposted \subseteq ForegroundTasks
    /\ foreground_tasks_ \in Seq(ForegroundTasks)
    /\ foreground_delayed_tasks_ \in Seq(ForegroundTasks)
    /\ scheduled \subseteq ForegroundTasks
    /\ asyncPending \in BOOLEAN
    /\ sending \subseteq At("run")
    /\ tasks \in Seq(ForegroundTasks)
    /\ did_work \in BOOLEAN
    /\ handles \subseteq Handles
    /\ microtasks \in BOOLEAN
    /\ pc \in Places
    /\ jsBack \in {"loop", "iterate", "batch", "alive", "exit"}
    /\ flushBack \in {"iterate", "drain"}

\* main() has just called the zero function: JavaScript runs, and uv_run is next.
PlatformInit ==
    /\ Init
    /\ unposted = ForegroundTasks
    /\ foreground_tasks_ = <<>>
    /\ foreground_delayed_tasks_ = <<>>
    /\ scheduled = {}
    /\ asyncPending = FALSE
    /\ sending = {}
    /\ tasks = <<>>
    /\ did_work = FALSE
    /\ handles = {}
    /\ microtasks = FALSE
    /\ pc = "js"
    /\ jsBack = "loop"
    /\ flushBack = "iterate"

-----------------------------------------------------------------------------
(* PerIsolatePlatformData::PostTask and PostDelayedTask: a Push, then          *)
(* uv_async_send.                                                              *)

PushForeground(f) ==
    /\ f \in unposted
    /\ unposted' = unposted \ {f}
    /\ \/ /\ foreground_tasks_' = Append(foreground_tasks_, f)
          /\ UNCHANGED foreground_delayed_tasks_
       \/ /\ foreground_delayed_tasks_' = Append(foreground_delayed_tasks_, f)
          /\ UNCHANGED foreground_tasks_

WorkerPushes(w, f) ==
    /\ worker[w] = "run"
    /\ w \notin sending
    /\ PushForeground(f)
    /\ sending' = sending \cup {w}
    /\ UNCHANGED <<tqVars, flushVars, loopVars, asyncPending>>

WorkerSends(w) ==
    /\ w \in sending
    /\ sending' = sending \ {w}
    /\ asyncPending' = TRUE
    /\ UNCHANGED <<tqVars, flushVars, loopVars, unposted, foreground_tasks_,
                   foreground_delayed_tasks_>>

-----------------------------------------------------------------------------
(* The workers, as in TaskQueue.                                               *)

WorkerSteps(w) ==
    /\ \/ BlockingPop(w)
       \/ w \notin sending /\ RunReturns(w)
       \/ NotifyOfCompletion(w)
    /\ UNCHANGED <<flushVars, foregroundVars, loopVars>>

WorkerPosts(w, t) ==
    /\ worker[w] = "run"
    /\ w \notin sending
    /\ PostTask(t)
    /\ UNCHANGED <<flushVars, foregroundVars, loopVars>>

-----------------------------------------------------------------------------
(* The main thread in JavaScript.                                              *)

MainPosts(t) ==
    /\ pc = "js"
    /\ PostTask(t)
    /\ UNCHANGED <<flushVars, foregroundVars, loopVars>>

\* A mutant: uv_async_send is left out.
PostsWithoutSend(f) ==
    /\ pc = "js"
    /\ PushForeground(f)
    /\ UNCHANGED <<tqVars, flushVars, loopVars, sending, asyncPending>>

\* No other thread reads the foreground queues, so the main thread's own two
\* steps are one.
MainPostsForeground(f) ==
    /\ pc = "js"
    /\ PushForeground(f)
    /\ asyncPending' = TRUE
    /\ UNCHANGED <<tqVars, flushVars, loopVars, sending>>

\* JavaScript starts or closes a timer, a socket or a request.
MainTouchesHandle(h) ==
    /\ pc = "js"
    /\ handles' = IF h \in handles THEN handles \ {h} ELSE handles \cup {h}
    /\ UNCHANGED <<tqVars, flushVars, foregroundVars, microtasks, pc, jsBack,
                   flushBack>>

\* Control goes back to C++.  An InternalCallbackScope has run the microtasks
\* by then; main's call of the zero function and of the exit handler and the
\* callbacks of zero_tcp.cc have no scope and may leave some.
MainReturns ==
    /\ pc = "js"
    /\ pc' = jsBack
    /\ microtasks' \in IF jsBack \in {"batch", "alive"} THEN {FALSE} ELSE BOOLEAN
    /\ UNCHANGED <<tqVars, flushVars, foregroundVars, handles, jsBack, flushBack>>

RunJavaScript(return) ==
    /\ pc' = "js"
    /\ jsBack' = return
    /\ UNCHANGED flushBack

Go(place) ==
    /\ pc' = place
    /\ UNCHANGED <<jsBack, flushBack>>

-----------------------------------------------------------------------------
(* uv_run(UV_RUN_DEFAULT): iterations while a referenced handle is active.     *)
(* The async handle and the timers of delayed tasks are not referenced, but    *)
(* fire in an iteration that is under way.                                     *)

Iterate ==
    /\ pc = "loop"
    /\ Go(IF handles # {} THEN "iterate" ELSE "drain")
    /\ UNCHANGED <<tqVars, flushVars, foregroundVars, handles, microtasks>>

\* With handles left, the loop iterates again or blocks in poll.
EndIteration ==
    /\ pc = "iterate"
    /\ handles = {}
    /\ Go("loop")
    /\ UNCHANGED <<tqVars, flushVars, foregroundVars, handles, microtasks>>

HandleFires(h) ==
    /\ pc = "iterate"
    /\ h \in handles
    /\ handles' \in {handles, handles \ {h}}
    /\ RunJavaScript("iterate")
    /\ UNCHANGED <<tqVars, flushVars, foregroundVars, microtasks>>

\* The uv_async callback, FlushTasks.
AsyncFires ==
    /\ pc = "iterate"
    /\ asyncPending
    /\ asyncPending' = FALSE
    /\ did_work' = FALSE
    /\ pc' = "flush"
    /\ flushBack' = "iterate"
    /\ UNCHANGED <<tqVars, scheduled, tasks, unposted, foreground_tasks_,
                   foreground_delayed_tasks_, sending, handles, microtasks,
                   jsBack>>

\* RunForegroundTask(uv_timer_t*): the task runs and leaves the list.
TimerFires(f) ==
    /\ pc = "iterate"
    /\ f \in scheduled
    /\ scheduled' = scheduled \ {f}
    /\ RunJavaScript("iterate")
    /\ UNCHANGED <<tqVars, tasks, did_work, foregroundVars, handles, microtasks>>

-----------------------------------------------------------------------------
(* FlushForegroundTasksInternal.                                               *)

\* Pop a delayed task and start its timer, until Pop returns null.
FlushDelayed ==
    /\ pc = "flush"
    /\ \/ /\ foreground_delayed_tasks_ = <<>>
          /\ Go("popall")
          /\ UNCHANGED <<did_work, scheduled, foreground_delayed_tasks_>>
       \/ /\ foreground_delayed_tasks_ # <<>>
          /\ did_work' = TRUE
          /\ scheduled' = scheduled \cup {Head(foreground_delayed_tasks_)}
          /\ foreground_delayed_tasks_' = Tail(foreground_delayed_tasks_)
          /\ Go("flush")
    /\ UNCHANGED <<tqVars, tasks, unposted, foreground_tasks_, asyncPending,
                   sending, handles, microtasks>>

PopAll ==
    /\ pc = "popall"
    /\ tasks' = foreground_tasks_
    /\ foreground_tasks_' = <<>>
    /\ Go("batch")
    /\ UNCHANGED <<tqVars, scheduled, did_work, unposted, asyncPending, sending,
                   foreground_delayed_tasks_, handles, microtasks>>

RunForegroundTask ==
    /\ pc = "batch"
    /\ tasks # <<>>
    /\ tasks' = Tail(tasks)
    /\ did_work' = TRUE
    /\ RunJavaScript("batch")
    /\ UNCHANGED <<tqVars, scheduled, foregroundVars, handles, microtasks>>

\* A mutant: DrainTasks drains once.
FlushEndsDrain ==
    /\ pc = "batch"
    /\ tasks = <<>>
    /\ Go(IF flushBack = "iterate" THEN "iterate" ELSE "microtasks")
    /\ UNCHANGED <<tqVars, flushVars, foregroundVars, handles, microtasks>>

\* The flush returns did_work, which FlushTasks ignores and DrainTasks loops on.
FlushReturns ==
    /\ pc = "batch"
    /\ tasks = <<>>
    /\ Go(IF flushBack = "iterate" THEN "iterate"
          ELSE IF did_work THEN "drain" ELSE "microtasks")
    /\ UNCHANGED <<tqVars, flushVars, foregroundVars, handles, microtasks>>

-----------------------------------------------------------------------------
(* ZeroPlatform::DrainTasks, and main() around it.                             *)

DrainWorkers ==
    /\ pc = "drain"
    /\ StartDrain
    /\ Go("draining")
    /\ UNCHANGED <<flushVars, foregroundVars, handles, microtasks>>

Draining ==
    /\ pc = "draining"
    /\ BlockingDrain
    /\ UNCHANGED <<flushVars, foregroundVars, loopVars>>

FlushAfterDrain ==
    /\ pc = "draining"
    /\ main = "out"
    /\ did_work' = FALSE
    /\ pc' = "flush"
    /\ flushBack' = "drain"
    /\ UNCHANGED <<tqVars, scheduled, tasks, foregroundVars, handles, microtasks,
                   jsBack>>

\* InternalCallbackScope::Run in main().
RunMicrotasks ==
    /\ pc = "microtasks"
    /\ IF microtasks THEN RunJavaScript("alive") ELSE Go("alive")
    /\ microtasks' = FALSE
    /\ UNCHANGED <<tqVars, flushVars, foregroundVars, handles>>

\* more = uv_loop_alive(event_loop); once it is 0 the exit handler runs.
LoopOrExit ==
    /\ pc = "alive"
    /\ IF handles # {} THEN Go("loop") ELSE RunJavaScript("exit")
    /\ UNCHANGED <<tqVars, flushVars, foregroundVars, handles, microtasks>>

SpuriousWakeups ==
    /\ Wakeup
    /\ UNCHANGED <<flushVars, foregroundVars, loopVars>>

-----------------------------------------------------------------------------

Worker(w) ==
    \/ WorkerSteps(w)
    \/ WorkerSends(w)

Loop ==
    \/ Iterate
    \/ EndIteration
    \/ FlushDelayed
    \/ PopAll
    \/ RunForegroundTask
    \/ FlushReturns
    \/ DrainWorkers
    \/ Draining
    \/ FlushAfterDrain
    \/ RunMicrotasks
    \/ LoopOrExit

PlatformNext ==
    \/ \E w \in Workers : \/ Worker(w)
                          \/ \E t \in Tasks : WorkerPosts(w, t)
                          \/ \E f \in ForegroundTasks : WorkerPushes(w, f)
    \/ \E t \in Tasks : MainPosts(t)
    \/ \E f \in ForegroundTasks : MainPostsForeground(f) \/ TimerFires(f)
    \/ \E h \in Handles : MainTouchesHandle(h) \/ HandleFires(h)
    \/ MainReturns
    \/ AsyncFires
    \/ Loop
    \/ SpuriousWakeups

(* The threads are scheduled, tasks and callbacks return.  An iteration polls  *)
(* every descriptor that is ready, so an async handle that stays signalled is  *)
(* served although other handles keep firing: strong fairness.  No handle and  *)
(* no timer is obliged to fire.                                                *)
PlatformFairness ==
    /\ \A w \in Workers : WF_platformVars(Worker(w))
    /\ WF_platformVars(MainReturns)
    /\ WF_platformVars(Loop)
    /\ SF_platformVars(AsyncFires)

PlatformSafeSpec == PlatformInit /\ [][PlatformNext]_platformVars

PlatformSpec == PlatformSafeSpec /\ PlatformFairness

-----------------------------------------------------------------------------
(* Correctness.                                                                *)

\* A foreground task in a queue is never forgotten: uv_async_send was or is
\* about to be called for it, or the main thread is in a flush that has not
\* yet reached the queue, in whatever order workers push and send.
NoForgottenTask ==
    /\ foreground_delayed_tasks_ # <<>> =>
          asyncPending \/ sending # {} \/ pc = "flush"
    /\ foreground_tasks_ # <<>> =>
          asyncPending \/ sending # {} \/ pc \in {"flush", "popall"}

\* DrainTasks returns only when no thread can add work any more: nothing is
\* outstanding on the workers and both foreground queues are empty, although
\* tasks of either kind may post tasks of both.
DrainIsComplete ==
    pc = "microtasks" =>
        /\ outstanding_tasks_ = 0
        /\ foreground_tasks_ = <<>>
        /\ foreground_delayed_tasks_ = <<>>
        /\ tasks = <<>>

InSeq(f, s) == \E i \in DOMAIN s : s[i] = f

\* A posted foreground task that is not delayed is run, by the loop while
\* something keeps it alive and by DrainTasks otherwise, unless it was posted
\* by the last microtasks or the exit handler and the process ends first.
ForegroundTasksRun ==
    \A f \in ForegroundTasks :
        InSeq(f, foreground_tasks_) ~>
            \/ ~InSeq(f, foreground_tasks_) /\ ~InSeq(f, tasks)
            \/ pc = "exit"

\* DrainTasks returns once tasks stop posting tasks.
DrainReturns == pc = "drain" ~> pc = "microtasks"
=============================================================================
