--------------------------- MODULE PlatformProofs ---------------------------
(***************************************************************************)
(* Proofs about TaskQueue, for every finite set of workers and every set   *)
(* of tasks, and then about Platform, which extends it, for all sets of    *)
(* worker tasks, foreground tasks and handles.                             *)
(***************************************************************************)
EXTENDS Platform, FiniteSetTheorems, SequenceTheorems, TLAPS

-----------------------------------------------------------------------------
(* The queue, and the threads that work on it: TaskQueue.                     *)

\* TypeOK needs Accounting (the count never goes below zero), and the two
\* wakeup invariants need both: the four are inductive together.
QInv == TypeOK /\ Accounting /\ NoLostWakeup /\ NoLostDrain

\* Any set of workers is finite and has a natural number of elements.
LEMMA WorkerSets ==
    ASSUME NEW S \in SUBSET Workers
    PROVE  IsFiniteSet(S) /\ Cardinality(S) \in Nat
BY TaskQueueAssumption, FS_Subset, FS_CardinalityType

\* Adding or removing one worker changes the cardinality by one.
LEMMA AddWorker ==
    ASSUME NEW S \in SUBSET Workers, NEW w \in Workers, w \notin S
    PROVE  Cardinality(S \cup {w}) = Cardinality(S) + 1
BY WorkerSets, FS_AddElement

LEMMA RemoveWorker ==
    ASSUME NEW S \in SUBSET Workers, NEW w \in S
    PROVE  Cardinality(S \ {w}) = Cardinality(S) - 1
BY WorkerSets, FS_RemoveElement

\* The sets of workers after one worker moved from one place to another.
LEMMA Move ==
    ASSUME TypeOK, NEW w \in Workers, NEW place \in WorkerStates,
           NEW from \in WorkerStates, worker[w] = from, from # place,
           worker' = [worker EXCEPT ![w] = place]
    PROVE  /\ worker' \in [Workers -> WorkerStates]
           /\ At(place)' = At(place) \cup {w} /\ w \notin At(place)
           /\ At(from)' = At(from) \ {w} /\ w \in At(from)
           /\ \A q \in WorkerStates \ {place, from} : At(q)' = At(q)
BY DEF TypeOK, At

\* What Signal does to the sets of workers.
LEMMA Signalled ==
    ASSUME TypeOK, SignalAvailable
    PROVE  /\ worker' \in [Workers -> WorkerStates]
           /\ \A q \in {"run", "ran", "exit"} : At(q)' = At(q)
           /\ \/ At("wait") = {} /\ At("wait")' = {} /\ At("pop")' = At("pop")
              \/ \E w \in Workers : /\ At("pop")' = At("pop") \cup {w}
                                    /\ w \notin At("pop")
<1>1. CASE At("wait") = {} /\ worker' = worker
  BY <1>1 DEF TypeOK, At
<1>2. CASE \E w \in At("wait") : worker' = [worker EXCEPT ![w] = "pop"]
  <2>1. PICK w \in At("wait") : worker' = [worker EXCEPT ![w] = "pop"]
    BY <1>2
  <2>2. w \in Workers /\ worker[w] = "wait"
    BY DEF At
  <2> QED
    BY <2>1, <2>2, Move DEF WorkerStates
<1> QED
  BY <1>1, <1>2 DEF SignalAvailable

LEMMA InitQInv == Init => QInv
<1> SUFFICES ASSUME Init PROVE QInv
  OBVIOUS
<1>1. TypeOK
  BY EmptySeq DEF Init, TypeOK, WorkerStates, MainStates
<1>2. Busy = {} /\ At("wait") = {}
  BY DEF Init, Busy, At
<1>3. Accounting
  BY <1>2, FS_EmptySet DEF Init, Accounting
<1> QED
  BY <1>1, <1>2, <1>3 DEF QInv, NoLostWakeup, NoLostDrain, Init

LEMMA PushQInv ==
    ASSUME QInv, NEW t \in Tasks, PostTask(t)
    PROVE  QInv'
<1> USE DEF QInv
<1>1. /\ outstanding_tasks_' = outstanding_tasks_ + 1
      /\ task_queue_' = Append(task_queue_, t)
      /\ SignalAvailable
      /\ fresh' = fresh \ {t}
      /\ UNCHANGED <<stopped_, task, main>>
  BY DEF PostTask, Push
<1>2. Len(task_queue_') = Len(task_queue_) + 1 /\ Len(task_queue_) \in Nat
      /\ task_queue_' \in Seq(Tasks)
  BY <1>1, AppendProperties, LenProperties DEF TypeOK
<1>3. TypeOK'
  BY <1>1, <1>2, Signalled DEF TypeOK
<1>4. Busy' = Busy /\ Cardinality(Busy) \in Nat
  BY <1>1, Signalled, WorkerSets DEF Busy, At
<1>5. Accounting'
  BY <1>1, <1>2, <1>4 DEF Accounting, TypeOK
<1>6. NoLostWakeup'
  <2>1. CASE At("wait") = {} /\ At("wait")' = {}
    BY <2>1 DEF NoLostWakeup
  <2>2. CASE \E w \in Workers : At("pop")' = At("pop") \cup {w} /\ w \notin At("pop")
    <3>1. At("wait") # {} => Cardinality(At("pop")') = Cardinality(At("pop")) + 1
          /\ Cardinality(At("pop")) \in Nat
      BY <2>2, AddWorker, WorkerSets DEF At
    <3>2. CASE At("wait") # {}
      BY <3>1, <3>2, <1>1, <1>2 DEF NoLostWakeup
    <3>3. CASE At("wait") = {}
      BY <3>3, <1>1 DEF SignalAvailable, NoLostWakeup, At
    <3> QED
      BY <3>2, <3>3
  <2> QED
    BY <2>1, <2>2, <1>1, Signalled
<1>7. NoLostDrain'
  BY <1>1 DEF NoLostDrain, TypeOK
<1> QED
  BY <1>3, <1>5, <1>6, <1>7

LEMMA PopQInv ==
    ASSUME QInv, NEW w \in Workers, BlockingPop(w)
    PROVE  QInv'
<1> USE DEF QInv
<1>1. worker[w] = "pop" /\ w \in At("pop")
      /\ UNCHANGED <<fresh, outstanding_tasks_, stopped_, main>>
  BY DEF BlockingPop, At
<1>2. CASE /\ task_queue_ = <<>> /\ ~stopped_
           /\ worker' = [worker EXCEPT ![w] = "wait"]
           /\ UNCHANGED <<task_queue_, task>>
  <2>1. /\ At("wait")' = At("wait") \cup {w}
        /\ At("run")' = At("run") /\ At("ran")' = At("ran")
        /\ At("pop")' = At("pop") \ {w}
        /\ worker' \in [Workers -> WorkerStates]
    BY <1>1, <1>2, Move DEF WorkerStates
  <2>2. TypeOK'
    BY <1>1, <1>2, <2>1 DEF TypeOK
  <2>3. Accounting'
    BY <1>1, <1>2, <2>1 DEF Accounting, Busy
  <2>4. Len(task_queue_') = 0 /\ Cardinality(At("pop")') \in Nat
    BY <1>2, WorkerSets DEF At
  <2> QED
    BY <1>1, <1>2, <2>2, <2>3, <2>4 DEF NoLostWakeup, NoLostDrain
<1>3. CASE /\ stopped_
           /\ worker' = [worker EXCEPT ![w] = "exit"]
           /\ UNCHANGED <<task_queue_, task>>
  <2>1. /\ At("wait")' = At("wait")
        /\ At("run")' = At("run") /\ At("ran")' = At("ran")
        /\ worker' \in [Workers -> WorkerStates]
    BY <1>1, <1>3, Move DEF WorkerStates
  <2>2. TypeOK'
    BY <1>1, <1>3, <2>1 DEF TypeOK
  <2>3. Accounting'
    BY <1>1, <1>3, <2>1 DEF Accounting, Busy
  <2> QED
    BY <1>1, <1>3, <2>1, <2>2, <2>3 DEF NoLostWakeup, NoLostDrain
<1>4. CASE /\ task_queue_ # <<>> /\ ~stopped_
           /\ worker' = [worker EXCEPT ![w] = "run"]
           /\ task' = [task EXCEPT ![w] = Head(task_queue_)]
           /\ task_queue_' = Tail(task_queue_)
  <2>1. /\ At("wait")' = At("wait")
        /\ At("run")' = At("run") \cup {w} /\ w \notin At("run")
        /\ At("ran")' = At("ran")
        /\ At("pop")' = At("pop") \ {w}
        /\ worker' \in [Workers -> WorkerStates]
    BY <1>1, <1>4, Move DEF WorkerStates
  <2>2. /\ task_queue_' \in Seq(Tasks) /\ Head(task_queue_) \in Tasks
        /\ Len(task_queue_) \in Nat
        /\ Len(task_queue_') = Len(task_queue_) - 1
    BY <1>4, HeadTailProperties, LenProperties DEF TypeOK
  <2>3. TypeOK'
    BY <1>1, <1>4, <2>1, <2>2 DEF TypeOK
  <2>4. Busy' = Busy \cup {w} /\ w \notin Busy /\ Busy \in SUBSET Workers
    BY <1>1, <2>1 DEF Busy, At
  <2>5. Cardinality(Busy') = Cardinality(Busy) + 1 /\ Cardinality(Busy) \in Nat
    BY <2>4, AddWorker, WorkerSets
  <2>6. Accounting'
    BY <1>1, <2>2, <2>5 DEF Accounting
  <2>7. /\ Cardinality(At("pop")') = Cardinality(At("pop")) - 1
        /\ Cardinality(At("pop")) \in Nat
    BY <1>1, <2>1, RemoveWorker, WorkerSets DEF At
  <2>8. NoLostWakeup'
    BY <1>1, <2>1, <2>2, <2>7 DEF NoLostWakeup
  <2> QED
    BY <1>1, <2>3, <2>6, <2>8 DEF NoLostDrain
<1> QED
  BY <1>2, <1>3, <1>4 DEF BlockingPop

LEMMA RunReturnsQInv ==
    ASSUME QInv, NEW w \in Workers, RunReturns(w)
    PROVE  QInv'
<1> USE DEF QInv
<1>1. worker[w] = "run" /\ worker' = [worker EXCEPT ![w] = "ran"]
      /\ UNCHANGED <<fresh, task_queue_, outstanding_tasks_, stopped_, task, main>>
  BY DEF RunReturns
<1>2. /\ At("wait")' = At("wait") /\ At("pop")' = At("pop")
      /\ At("run")' = At("run") \ {w} /\ w \in At("run")
      /\ At("ran")' = At("ran") \cup {w}
      /\ worker' \in [Workers -> WorkerStates]
  BY <1>1, Move DEF WorkerStates
<1>3. Busy' = Busy
  BY <1>2 DEF Busy
<1> QED
  BY <1>1, <1>2, <1>3 DEF TypeOK, Accounting, NoLostWakeup, NoLostDrain

LEMMA NotifyQInv ==
    ASSUME QInv, NEW w \in Workers, NotifyOfCompletion(w)
    PROVE  QInv'
<1> USE DEF QInv
<1>1. /\ worker[w] = "ran" /\ worker' = [worker EXCEPT ![w] = "pop"]
      /\ task' = [task EXCEPT ![w] = NoTask]
      /\ outstanding_tasks_' = outstanding_tasks_ - 1
      /\ IF outstanding_tasks_ = 1 THEN BroadcastDrained ELSE UNCHANGED main
      /\ UNCHANGED <<fresh, task_queue_, stopped_>>
  BY DEF NotifyOfCompletion
<1>2. /\ At("wait")' = At("wait")
      /\ At("ran")' = At("ran") \ {w} /\ w \in At("ran")
      /\ At("run")' = At("run") /\ w \notin At("run")
      /\ At("pop")' = At("pop") \cup {w} /\ w \notin At("pop")
      /\ worker' \in [Workers -> WorkerStates]
  BY <1>1, Move DEF WorkerStates, At
<1>3. Busy' = Busy \ {w} /\ w \in Busy /\ Busy \in SUBSET Workers
  BY <1>2 DEF Busy, At
<1>4. /\ Cardinality(Busy') = Cardinality(Busy) - 1
      /\ Cardinality(Busy) \in Nat /\ Cardinality(Busy') \in Nat
  BY <1>3, RemoveWorker, WorkerSets DEF At, Busy
<1>5. Len(task_queue_) \in Nat
  BY LenProperties DEF TypeOK
<1>6. outstanding_tasks_' \in Nat
  BY <1>1, <1>4, <1>5 DEF Accounting, TypeOK
<1>7. main' \in MainStates /\ (main' = "wait" => main = "wait" /\ outstanding_tasks_ # 1)
  BY <1>1 DEF BroadcastDrained, TypeOK, MainStates
<1>8. TypeOK'
  BY <1>1, <1>2, <1>6, <1>7 DEF TypeOK
<1>9. Accounting'
  BY <1>1, <1>4, <1>5 DEF Accounting
<1>10. /\ Cardinality(At("pop")') = Cardinality(At("pop")) + 1
       /\ Cardinality(At("pop")) \in Nat
  BY <1>1, <1>2, AddWorker, WorkerSets DEF At
<1>11. NoLostWakeup'
  BY <1>1, <1>2, <1>5, <1>10 DEF NoLostWakeup
<1>12. NoLostDrain'
  BY <1>1, <1>6, <1>7 DEF NoLostDrain, TypeOK
<1> QED
  BY <1>8, <1>9, <1>11, <1>12

\* StartDrain, BlockingDrain and Joined move the main thread only.
LEMMA MainQInv ==
    ASSUME QInv, StartDrain \/ BlockingDrain \/ Joined
    PROVE  QInv'
<1> USE DEF QInv
<1>1. UNCHANGED <<fresh, task_queue_, outstanding_tasks_, stopped_, worker, task>>
  BY DEF StartDrain, BlockingDrain, Joined
<1>2. main' \in MainStates /\ (main' = "wait" => outstanding_tasks_ > 0)
  BY DEF StartDrain, BlockingDrain, Joined, MainStates
<1> QED
  BY <1>1, <1>2 DEF TypeOK, Accounting, NoLostWakeup, NoLostDrain, Busy, At

LEMMA ShutdownQInv ==
    ASSUME QInv, Shutdown
    PROVE  QInv'
<1> USE DEF QInv
<1>1. /\ worker' = [w \in Workers |-> IF worker[w] = "wait" THEN "pop" ELSE worker[w]]
      /\ stopped_' = TRUE /\ main' = "join"
      /\ UNCHANGED <<fresh, task_queue_, outstanding_tasks_, task>>
  BY DEF Shutdown, Stop, BroadcastAvailable
<1>2. /\ worker' \in [Workers -> WorkerStates]
      /\ At("wait")' = {} /\ Busy' = Busy
  BY <1>1 DEF TypeOK, WorkerStates, At, Busy
<1> QED
  BY <1>1, <1>2 DEF TypeOK, MainStates, Accounting, NoLostWakeup, NoLostDrain

LEMMA WakeupQInv ==
    ASSUME QInv, Wakeup
    PROVE  QInv'
<1> USE DEF QInv
<1>1. UNCHANGED <<fresh, task_queue_, outstanding_tasks_, stopped_, task>>
  BY DEF Wakeup
<1>2. CASE main = "wait" /\ main' = "drain" /\ UNCHANGED worker
  BY <1>1, <1>2 DEF TypeOK, MainStates, Accounting, NoLostWakeup, NoLostDrain, Busy, At
<1>3. CASE UNCHANGED main /\ \E w \in At("wait") : worker' = [worker EXCEPT ![w] = "pop"]
  <2>1. PICK w \in At("wait") : worker' = [worker EXCEPT ![w] = "pop"]
    BY <1>3
  <2>2. w \in Workers /\ worker[w] = "wait"
    BY DEF At
  <2>3. /\ At("wait")' = At("wait") \ {w}
        /\ At("run")' = At("run") /\ At("ran")' = At("ran")
        /\ At("pop")' = At("pop") \cup {w} /\ w \notin At("pop")
        /\ worker' \in [Workers -> WorkerStates]
    BY <2>1, <2>2, Move DEF WorkerStates
  <2>4. /\ Cardinality(At("pop")') = Cardinality(At("pop")) + 1
        /\ Cardinality(At("pop")) \in Nat
    BY <2>2, <2>3, AddWorker, WorkerSets DEF At
  <2>5. Len(task_queue_) \in Nat
    BY LenProperties DEF TypeOK
  <2>6. NoLostWakeup'
    BY <1>1, <2>3, <2>4, <2>5 DEF NoLostWakeup
  <2> QED
    BY <1>1, <1>3, <2>3, <2>6 DEF TypeOK, Accounting, NoLostDrain, Busy
<1> QED
  BY <1>2, <1>3 DEF Wakeup, SpuriousWakeup

LEMMA NextQInv == QInv /\ [Next]_tqVars => QInv'
<1> SUFFICES ASSUME QInv, [Next]_tqVars PROVE QInv'
  OBVIOUS
<1>1. CASE \E t \in Tasks : PostTask(t)
  BY <1>1, PushQInv
<1>2. CASE \E w \in Workers : WorkerThreadMain(w)
  BY <1>2, PopQInv, RunReturnsQInv, NotifyQInv DEF WorkerThreadMain
<1>3. CASE StartDrain \/ BlockingDrain \/ Joined
  BY <1>3, MainQInv
<1>4. CASE Shutdown
  BY <1>4, ShutdownQInv
<1>5. CASE Wakeup
  BY <1>5, WakeupQInv
<1>6. CASE UNCHANGED tqVars
  BY <1>6 DEF tqVars, QInv, TypeOK, Accounting, NoLostWakeup, NoLostDrain, Busy, At
<1> QED
  BY <1>1, <1>2, <1>3, <1>4, <1>5, <1>6 DEF Next

\* Type correctness of the queue and its threads (TaskQueue in
\* zero_platform.cc), outstanding_tasks_ never dropping below zero included.
THEOREM TypeCorrect == Spec => []TypeOK
<1>1. QInv => TypeOK
  BY DEF QInv
<1> QED
  BY <1>1, InitQInv, NextQInv, PTL DEF Spec, SafeSpec

\* outstanding_tasks_ is the number of tasks queued or being run, so
\* BlockingDrain waits for exactly the work that is left.
THEOREM AccountingCorrect == Spec => []Accounting
<1>1. QInv => Accounting
  BY DEF QInv
<1> QED
  BY <1>1, InitQInv, NextQInv, PTL DEF Spec, SafeSpec

\* A single Signal per Push is enough: no worker sleeps beside a task that
\* no other worker is about to fetch, and none sleeps through Stop.
THEOREM WakeupsCorrect == Spec => []NoLostWakeup
<1>1. QInv => NoLostWakeup
  BY DEF QInv
<1> QED
  BY <1>1, InitQInv, NextQInv, PTL DEF Spec, SafeSpec

\* BlockingDrain never sleeps with nothing outstanding.
THEOREM DrainWakeupCorrect == Spec => []NoLostDrain
<1>1. QInv => NoLostDrain
  BY DEF QInv
<1> QED
  BY <1>1, InitQInv, NextQInv, PTL DEF Spec, SafeSpec

-----------------------------------------------------------------------------
(* Every task is at one place.                                                 *)

LEMMA InitOnePlace == Init => OnePlace
BY TaskQueueAssumption DEF Init, OnePlace, Busy, At

LEMMA PushOnePlace ==
    ASSUME QInv, OnePlace, NEW t \in Tasks, PostTask(t)
    PROVE  OnePlace'
<1>1. /\ t \in fresh /\ fresh' = fresh \ {t}
      /\ task_queue_' = Append(task_queue_, t)
      /\ SignalAvailable
      /\ task' = task
  BY DEF PostTask, Push
<1>2. Busy' = Busy
  BY <1>1, Signalled DEF QInv, Busy, At
<1>3. /\ DOMAIN task_queue_ = 1..Len(task_queue_) /\ Len(task_queue_) \in Nat
      /\ DOMAIN task_queue_' = 1..(Len(task_queue_) + 1)
      /\ \A i \in 1..Len(task_queue_) : task_queue_'[i] = task_queue_[i]
      /\ task_queue_'[Len(task_queue_) + 1] = t
  BY <1>1, AppendProperties, LenProperties DEF QInv, TypeOK
<1>4. \A i \in DOMAIN task_queue_' :
         i \in DOMAIN task_queue_ \/ i = Len(task_queue_) + 1
  BY <1>3
<1>5. \A i \in DOMAIN task_queue_ : task_queue_[i] # t
  BY <1>1 DEF OnePlace
<1>6. \A w \in Workers : task[w] # t
  BY <1>1 DEF OnePlace
<1>7. \A i, j \in DOMAIN task_queue_' : task_queue_'[i] = task_queue_'[j] => i = j
  BY <1>3, <1>4, <1>5 DEF OnePlace
<1>8. \A i \in DOMAIN task_queue_' :
         /\ task_queue_'[i] \notin fresh'
         /\ \A w \in Workers : task'[w] # task_queue_'[i]
  BY <1>1, <1>3, <1>4, <1>6 DEF OnePlace
<1> QED
  BY <1>1, <1>2, <1>7, <1>8 DEF OnePlace

LEMMA PopOnePlace ==
    ASSUME QInv, OnePlace, NEW w \in Workers, BlockingPop(w)
    PROVE  OnePlace'
<1> USE DEF QInv
<1>1. worker[w] = "pop" /\ w \notin Busy /\ fresh' = fresh
  BY DEF BlockingPop, Busy, At
<1>2. CASE /\ worker' = [worker EXCEPT ![w] = "wait"]
           /\ UNCHANGED <<task_queue_, task>>
  <2>1. Busy' = Busy
    BY <1>1, <1>2, Move DEF Busy, WorkerStates
  <2> QED
    BY <1>1, <1>2, <2>1 DEF OnePlace
<1>3. CASE /\ worker' = [worker EXCEPT ![w] = "exit"]
           /\ UNCHANGED <<task_queue_, task>>
  <2>1. Busy' = Busy
    BY <1>1, <1>3, Move DEF Busy, WorkerStates
  <2> QED
    BY <1>1, <1>3, <2>1 DEF OnePlace
<1>4. CASE /\ task_queue_ # <<>>
           /\ worker' = [worker EXCEPT ![w] = "run"]
           /\ task' = [task EXCEPT ![w] = Head(task_queue_)]
           /\ task_queue_' = Tail(task_queue_)
  <2>1. Busy' = Busy \cup {w}
    BY <1>1, <1>4, Move DEF Busy, WorkerStates
  <2>2. /\ Head(task_queue_) = task_queue_[1] /\ task_queue_[1] \in Tasks
        /\ Len(task_queue_) \in Nat /\ Len(task_queue_) > 0
        /\ DOMAIN task_queue_ = 1..Len(task_queue_)
        /\ DOMAIN task_queue_' = 1..(Len(task_queue_) - 1)
        /\ \A i \in 1..(Len(task_queue_) - 1) : task_queue_'[i] = task_queue_[i + 1]
    BY <1>4, HeadTailProperties, LenProperties, EmptySeq DEF TypeOK
  <2>3. \A i \in DOMAIN task_queue_' :
           /\ i + 1 \in DOMAIN task_queue_ /\ i + 1 # 1
           /\ task_queue_'[i] = task_queue_[i + 1]
    BY <2>2
  <2>4. 1 \in DOMAIN task_queue_
    BY <2>2
  <2>5. \A i, j \in DOMAIN task_queue_' : task_queue_'[i] = task_queue_'[j] => i = j
    <3> SUFFICES ASSUME NEW i \in DOMAIN task_queue_', NEW j \in DOMAIN task_queue_',
                        task_queue_'[i] = task_queue_'[j]
                 PROVE  i = j
      OBVIOUS
    <3>1. i + 1 = j + 1
      BY <2>3 DEF OnePlace
    <3> QED
      BY <3>1, <2>2
  <2>6. \A i \in DOMAIN task_queue_' : task_queue_'[i] # task_queue_[1]
    BY <2>3, <2>4 DEF OnePlace
  <2>7. \A v \in Workers : task'[v] = IF v = w THEN task_queue_[1] ELSE task[v]
    BY <1>4, <2>2 DEF TypeOK
  <2>8. \A i \in DOMAIN task_queue_' :
           /\ task_queue_'[i] \notin fresh'
           /\ \A v \in Workers : task'[v] # task_queue_'[i]
    BY <1>1, <2>3, <2>6, <2>7 DEF OnePlace
  <2>9. \A v \in Workers : /\ (task'[v] = NoTask) = (v \notin Busy')
                           /\ task'[v] \notin fresh'
    BY <1>1, <2>1, <2>2, <2>4, <2>7, TaskQueueAssumption DEF OnePlace
  <2>10. \A v \in Workers : task[v] # task_queue_[1]
    BY <2>4 DEF OnePlace
  <2>11. \A u, v \in Workers : task'[u] = task'[v] /\ task'[u] # NoTask => u = v
    BY <2>7, <2>10 DEF OnePlace
  <2> QED
    BY <2>5, <2>8, <2>9, <2>11 DEF OnePlace
<1> QED
  BY <1>2, <1>3, <1>4 DEF BlockingPop

LEMMA NotifyOnePlace ==
    ASSUME QInv, OnePlace, NEW w \in Workers, NotifyOfCompletion(w)
    PROVE  OnePlace'
<1>1. /\ worker[w] = "ran" /\ worker' = [worker EXCEPT ![w] = "pop"]
      /\ task' = [task EXCEPT ![w] = NoTask]
      /\ UNCHANGED <<fresh, task_queue_>>
  BY DEF NotifyOfCompletion
<1>2. Busy' = Busy \ {w}
  BY <1>1, Move DEF QInv, Busy, At, WorkerStates
<1>3. \A v \in Workers : task'[v] = IF v = w THEN NoTask ELSE task[v]
  BY <1>1 DEF QInv, TypeOK
<1>4. task_queue_ \in [1..Len(task_queue_) -> Tasks]
  BY LenProperties DEF QInv, TypeOK
<1>5. \A i \in DOMAIN task_queue_ : task_queue_[i] # NoTask
  BY <1>4, TaskQueueAssumption
<1>6. NoTask \notin fresh
  BY TaskQueueAssumption DEF QInv, TypeOK
<1> QED
  BY <1>1, <1>2, <1>3, <1>5, <1>6 DEF OnePlace

\* The other actions move no task.
LEMMA OtherOnePlace ==
    ASSUME QInv, OnePlace,
           \/ \E w \in Workers : RunReturns(w)
           \/ StartDrain \/ BlockingDrain \/ Joined \/ Shutdown \/ Wakeup
           \/ UNCHANGED tqVars
    PROVE  OnePlace'
<1>1. UNCHANGED <<fresh, task_queue_, task>>
  BY DEF RunReturns, StartDrain, BlockingDrain, Joined, Shutdown, Wakeup, tqVars
<1>2. Busy' = Busy
  <2>1. CASE \E w \in Workers : RunReturns(w)
    <3>1. PICK w \in Workers : RunReturns(w)
      BY <2>1
    <3> QED
      BY <3>1 DEF RunReturns, Busy, At, QInv, TypeOK
  <2>2. CASE StartDrain \/ BlockingDrain \/ Joined \/ UNCHANGED tqVars
    BY <2>2 DEF StartDrain, BlockingDrain, Joined, tqVars, Busy, At
  <2>3. CASE Shutdown
    BY <2>3 DEF Shutdown, Stop, BroadcastAvailable, Busy, At
  <2>4. CASE Wakeup
    BY <2>4 DEF Wakeup, SpuriousWakeup, Busy, At, QInv, TypeOK
  <2> QED
    BY <2>1, <2>2, <2>3, <2>4
<1> QED
  BY <1>1, <1>2 DEF OnePlace

LEMMA NextOnePlace == QInv /\ OnePlace /\ [Next]_tqVars => OnePlace'
BY PushOnePlace, PopOnePlace, NotifyOnePlace, OtherOnePlace DEF Next, WorkerThreadMain

\* No task is lost, duplicated or run by two workers.
THEOREM OnePlaceCorrect == Spec => []OnePlace
BY InitQInv, NextQInv, InitOnePlace, NextOnePlace, PTL DEF Spec, SafeSpec

-----------------------------------------------------------------------------
(* TaskQueue implements TaskPool.                                              *)

LEMMA InitPool == Init => Pool!Init
BY DEF Init, Pool!Init, Running, Busy, At

LEMMA PushSubmits ==
    ASSUME QInv, NEW t \in Tasks, main = "out" \/ At("run") # {}, PostTask(t)
    PROVE  Pool!Submit(t)
<1>1. Busy' = Busy /\ UNCHANGED task
  BY Signalled DEF QInv, Busy, At, PostTask, Push
<1>2. Running' = Running
  BY <1>1 DEF Running
<1>3. At("run") # {} => Running # {}
  BY DEF Running, Busy
<1> QED
  BY <1>2, <1>3 DEF PostTask, Push, Pool!Submit

LEMMA PopStarts ==
    ASSUME QInv, NEW w \in Workers, BlockingPop(w)
    PROVE  Pool!Start \/ UNCHANGED Pool!vars
<1> USE DEF QInv
<1>1. /\ worker[w] = "pop" /\ w \notin Busy
      /\ UNCHANGED <<fresh, stopped_, main>>
  BY DEF BlockingPop, Busy, At
<1>2. CASE /\ \E place \in {"wait", "exit"} : worker' = [worker EXCEPT ![w] = place]
           /\ UNCHANGED <<task_queue_, task>>
  <2>1. Busy' = Busy
    BY <1>1, <1>2, Move DEF Busy, WorkerStates
  <2> QED
    BY <1>1, <1>2, <2>1 DEF Running, Pool!vars
<1>3. CASE /\ task_queue_ # <<>> /\ ~stopped_
           /\ worker' = [worker EXCEPT ![w] = "run"]
           /\ task' = [task EXCEPT ![w] = Head(task_queue_)]
           /\ task_queue_' = Tail(task_queue_)
  <2>1. Busy' = Busy \cup {w}
    BY <1>1, <1>3, Move DEF Busy, WorkerStates
  <2>2. /\ task'[w] = Head(task_queue_)
        /\ \A v \in Busy : task'[v] = task[v]
    BY <1>1, <1>3 DEF TypeOK, Busy, At
  <2>3. Running' = Running \cup {Head(task_queue_)}
    BY <2>1, <2>2 DEF Running
  <2> QED
    BY <1>1, <1>3, <2>3 DEF Pool!Start
<1> QED
  BY <1>2, <1>3 DEF BlockingPop

LEMMA NotifyFinishes ==
    ASSUME QInv, OnePlace, NEW w \in Workers, NotifyOfCompletion(w)
    PROVE  \E t \in Tasks : Pool!Finish(t)
<1>1. /\ worker[w] = "ran" /\ worker' = [worker EXCEPT ![w] = "pop"]
      /\ task' = [task EXCEPT ![w] = NoTask]
      /\ UNCHANGED <<fresh, task_queue_, stopped_>>
      /\ main' = main \/ (main = "wait" /\ main' = "drain")
  BY DEF NotifyOfCompletion, BroadcastDrained
<1>2. w \in Busy /\ Busy' = Busy \ {w}
  BY <1>1, Move DEF QInv, Busy, At, WorkerStates
<1>3. /\ task[w] \in Tasks /\ task[w] \in Running
      /\ \A v \in Busy \ {w} : task[v] # task[w] /\ task'[v] = task[v]
  BY <1>1, <1>2 DEF QInv, TypeOK, OnePlace, Running, Busy, At
<1>4. Running' = Running \ {task[w]}
  BY <1>2, <1>3 DEF Running
<1>5. Pool!Finish(task[w])
  BY <1>1, <1>3, <1>4 DEF Pool!Finish
<1> QED
  BY <1>3, <1>5

\* BlockingDrain returns only from a state with nothing outstanding, and by
\* Accounting nothing is then queued or running.
LEMMA DrainEndsClean ==
    ASSUME QInv, BlockingDrain
    PROVE  Pool!Drained \/ UNCHANGED Pool!vars
<1> USE DEF QInv
<1>1. /\ main = "drain"
      /\ UNCHANGED <<fresh, task_queue_, stopped_>> /\ Running' = Running
  BY DEF BlockingDrain, Running, Busy, At
<1>2. CASE main' = "wait"
  BY <1>1, <1>2 DEF Pool!vars
<1>3. CASE main' = "out" /\ ~(outstanding_tasks_ > 0)
  <2>1. Len(task_queue_) \in Nat /\ Cardinality(Busy) \in Nat /\ IsFiniteSet(Busy)
    BY LenProperties, WorkerSets DEF TypeOK, Busy, At
  <2>2. Len(task_queue_) = 0 /\ Cardinality(Busy) = 0
    BY <1>3, <2>1 DEF Accounting, TypeOK
  <2>3. task_queue_ = <<>> /\ Busy = {}
    BY <2>1, <2>2, EmptySeq, FS_EmptySet DEF TypeOK
  <2> QED
    BY <1>1, <1>3, <2>3 DEF Pool!Drained, Running
<1> QED
  BY <1>2, <1>3 DEF BlockingDrain

LEMMA OthersImplement ==
    ASSUME QInv,
           \/ \E w \in Workers : RunReturns(w)
           \/ StartDrain \/ Shutdown \/ Joined \/ Wakeup \/ UNCHANGED tqVars
    PROVE  Pool!Drain \/ Pool!Close \/ UNCHANGED Pool!vars
<1> USE DEF QInv
<1>1. CASE \E w \in Workers : RunReturns(w)
  <2>1. PICK w \in Workers : RunReturns(w)
    BY <1>1
  <2>2. Busy' = Busy /\ Running' = Running
    BY <2>1 DEF RunReturns, Busy, At, TypeOK, Running
  <2> QED
    BY <2>1, <2>2 DEF RunReturns, Pool!vars
<1>2. CASE StartDrain
  BY <1>2 DEF StartDrain, Pool!Drain, Running, Busy, At
<1>3. CASE Joined
  BY <1>3 DEF Joined, Pool!vars, Running, Busy, At
<1>4. CASE UNCHANGED tqVars
  BY <1>4 DEF tqVars, Pool!vars, Running, Busy, At
<1>5. CASE Shutdown
  <2>1. Busy' = Busy /\ UNCHANGED task
    BY <1>5 DEF Shutdown, Stop, BroadcastAvailable, Busy, At
  <2>2. CASE ~stopped_
    BY <1>5, <2>1, <2>2 DEF Shutdown, Stop, Pool!Close, Running
  <2>3. CASE stopped_
    BY <1>5, <2>1, <2>3 DEF Shutdown, Stop, Pool!vars, Running, TypeOK
  <2> QED
    BY <2>2, <2>3
<1>6. CASE Wakeup
  <2>1. Busy' = Busy /\ Running' = Running
    BY <1>6 DEF Wakeup, SpuriousWakeup, Busy, At, TypeOK, Running
  <2> QED
    BY <1>6, <2>1 DEF Wakeup, SpuriousWakeup, Pool!vars
<1> QED
  BY <1>1, <1>2, <1>3, <1>4, <1>5, <1>6

LEMMA NextPool == QInv /\ OnePlace /\ [Next]_tqVars => [Pool!Next]_Pool!vars
BY PushSubmits, PopStarts, NotifyFinishes, DrainEndsClean, OthersImplement
   DEF Next, WorkerThreadMain, Pool!Next

\* The threads, the lock and the two condition variables together behave as
\* the abstract pool: first-in first-out starts, each task once, and
\* BlockingDrain returning only when nothing posted is unfinished.
THEOREM ImplementsPool == Spec => Pool!SafeSpec
BY InitQInv, NextQInv, InitOnePlace, NextOnePlace, InitPool, NextPool, PTL
   DEF Spec, SafeSpec, Pool!SafeSpec

-----------------------------------------------------------------------------
(* The event loop on top of it: Platform.                                     *)

\* The main thread is in the worker queue only while DrainTasks calls it.
MainPlace == main # "out" => main \in {"drain", "wait"} /\ pc = "draining"

\* A drain that has done no foreground work since BlockingDrain returned.
QuietDrain ==
    \/ pc = "draining" /\ main = "out"
    \/ pc \in {"flush", "popall", "batch"} /\ flushBack = "drain" /\ ~did_work
    \/ pc = "microtasks"

\* Nothing is outstanding during a quiet drain, so nobody posts, and what the
\* flush has found empty stays empty.
Quiet ==
    QuietDrain =>
        /\ outstanding_tasks_ = 0
        /\ pc \in {"popall", "batch", "microtasks"} => foreground_delayed_tasks_ = <<>>
        /\ pc \in {"batch", "microtasks"} => foreground_tasks_ = <<>>
        /\ pc = "microtasks" => tasks = <<>>

\* A task run by a flush counts as work.
BatchWorks == pc = "js" /\ jsBack = "batch" => did_work = TRUE

PInv ==
    PlatformTypeOK /\ QInv /\ MainPlace /\ NoForgottenTask /\ Quiet /\ BatchWorks

\* With nothing outstanding, no worker is in a task.
LEMMA NobodyRuns ==
    ASSUME QInv, outstanding_tasks_ = 0
    PROVE  Busy = {} /\ At("run") = {} /\ At("ran") = {}
<1>1. Len(task_queue_) \in Nat /\ Cardinality(Busy) \in Nat /\ IsFiniteSet(Busy)
  BY LenProperties, WorkerSets DEF QInv, TypeOK, Busy, At
<1>2. Cardinality(Busy) = 0
  BY <1>1 DEF QInv, Accounting
<1> QED
  BY <1>1, <1>2, FS_EmptySet DEF Busy

LEMMA InitPInv == PlatformInit => PInv
<1> SUFFICES ASSUME PlatformInit PROVE PInv
  OBVIOUS
<1>1. QInv
  BY InitQInv DEF PlatformInit
<1>2. PlatformTypeOK
  BY <1>1, EmptySeq DEF PlatformInit, PlatformTypeOK, QInv, Places
<1> QED
  BY <1>1, <1>2 DEF PlatformInit, PInv, MainPlace, NoForgottenTask, Quiet,
                    QuietDrain, BatchWorks, Init

\* The steps that leave the worker queue alone.
LEMMA PushForegroundTypes ==
    ASSUME PlatformTypeOK, NEW f \in ForegroundTasks, PushForeground(f)
    PROVE  /\ unposted' \subseteq ForegroundTasks
           /\ foreground_tasks_' \in Seq(ForegroundTasks)
           /\ foreground_delayed_tasks_' \in Seq(ForegroundTasks)
<1>1. \A s \in Seq(ForegroundTasks) : Append(s, f) \in Seq(ForegroundTasks)
  BY AppendProperties
<1> QED
  BY <1>1 DEF PlatformTypeOK, PushForeground

LEMMA WorkerPushesPInv ==
    ASSUME PInv, NEW w \in Workers, NEW f \in ForegroundTasks, WorkerPushes(w, f)
    PROVE  PInv'
<1>1. /\ worker[w] = "run" /\ sending' = sending \cup {w} /\ w \in At("run")
      /\ UNCHANGED <<tqVars, flushVars, loopVars, asyncPending>>
  BY DEF WorkerPushes, At
<1>2. UNCHANGED <<fresh, task_queue_, outstanding_tasks_, stopped_, worker, task, main>>
      /\ UNCHANGED <<scheduled, tasks, did_work>>
      /\ UNCHANGED <<handles, microtasks, pc, jsBack, flushBack>>
  BY <1>1 DEF tqVars, flushVars, loopVars
<1>3. QInv' /\ At("run")' = At("run") /\ TypeOK'
  BY <1>2, NextQInv DEF PInv, tqVars, QInv, At
<1>4. PlatformTypeOK'
  BY <1>1, <1>2, <1>3, PushForegroundTypes DEF PInv, PlatformTypeOK, WorkerPushes
<1>5. ~QuietDrain
  BY <1>1, NobodyRuns DEF PInv, Quiet
<1> QED
  BY <1>1, <1>2, <1>3, <1>4, <1>5
     DEF PInv, MainPlace, NoForgottenTask, Quiet, QuietDrain, BatchWorks

LEMMA WorkerSendsPInv ==
    ASSUME PInv, NEW w \in Workers, WorkerSends(w)
    PROVE  PInv'
<1>1. /\ sending' = sending \ {w} /\ asyncPending' = TRUE
      /\ UNCHANGED <<fresh, task_queue_, outstanding_tasks_, stopped_, worker, task, main>>
      /\ UNCHANGED <<scheduled, tasks, did_work>>
      /\ UNCHANGED <<handles, microtasks, pc, jsBack, flushBack>>
      /\ UNCHANGED <<unposted, foreground_tasks_, foreground_delayed_tasks_>>
  BY DEF WorkerSends, tqVars, flushVars, loopVars
<1>2. QInv' /\ At("run")' = At("run") /\ TypeOK'
  BY <1>1, NextQInv DEF PInv, tqVars, QInv, At
<1> QED
  BY <1>1, <1>2 DEF PInv, PlatformTypeOK, MainPlace, NoForgottenTask, Quiet, QuietDrain, BatchWorks

LEMMA MainPostsForegroundPInv ==
    ASSUME PInv, NEW f \in ForegroundTasks, MainPostsForeground(f)
    PROVE  PInv'
<1>1. /\ pc = "js" /\ asyncPending' = TRUE
      /\ UNCHANGED <<fresh, task_queue_, outstanding_tasks_, stopped_, worker, task, main>>
      /\ UNCHANGED <<scheduled, tasks, did_work>>
      /\ UNCHANGED <<handles, microtasks, pc, jsBack, flushBack, sending>>
  BY DEF MainPostsForeground, tqVars, flushVars, loopVars
<1>2. QInv' /\ At("run")' = At("run") /\ TypeOK'
  BY <1>1, NextQInv DEF PInv, tqVars, QInv, At
<1>3. PlatformTypeOK'
  BY <1>1, <1>2, PushForegroundTypes DEF PInv, PlatformTypeOK, MainPostsForeground
<1> QED
  BY <1>1, <1>2, <1>3 DEF PInv, MainPlace, NoForgottenTask, Quiet, QuietDrain, BatchWorks

\* Steps of the main thread that touch neither the worker queue nor the senders.
MainAlone ==
    \/ \E f \in ForegroundTasks : TimerFires(f)
    \/ \E h \in Handles : MainTouchesHandle(h) \/ HandleFires(h)
    \/ MainReturns \/ AsyncFires
    \/ Iterate \/ EndIteration \/ FlushDelayed \/ PopAll \/ RunForegroundTask
    \/ FlushReturns \/ FlushAfterDrain \/ RunMicrotasks \/ LoopOrExit

LEMMA MainAlonePInv ==
    ASSUME PInv, MainAlone
    PROVE  PInv'
<1> USE DEF RunJavaScript, Go, flushVars, foregroundVars
<1>1. /\ UNCHANGED tqVars /\ UNCHANGED <<unposted, sending>>
      /\ foreground_tasks_' \in {foreground_tasks_, <<>>}
  BY DEF MainAlone, TimerFires, MainTouchesHandle, HandleFires, MainReturns,
         AsyncFires, Iterate, EndIteration, FlushDelayed, PopAll,
         RunForegroundTask, FlushReturns, FlushAfterDrain, RunMicrotasks, LoopOrExit
<1>2. UNCHANGED <<fresh, task_queue_, outstanding_tasks_, stopped_, worker, task, main>>
  BY <1>1 DEF tqVars
<1>3. QInv' /\ At("run")' = At("run") /\ TypeOK'
  BY <1>1, <1>2, NextQInv DEF PInv, QInv, At
<1>4. PlatformTypeOK'
  <2>1. /\ \A s \in Seq(ForegroundTasks) :
              s # <<>> => Tail(s) \in Seq(ForegroundTasks) /\ Head(s) \in ForegroundTasks
        /\ <<>> \in Seq(ForegroundTasks)
    BY HeadTailProperties, EmptySeq
  <2>2. /\ foreground_tasks_' \in Seq(ForegroundTasks)
        /\ foreground_delayed_tasks_' \in Seq(ForegroundTasks)
        /\ tasks' \in Seq(ForegroundTasks)
        /\ scheduled' \subseteq ForegroundTasks
        /\ handles' \subseteq Handles
    BY <2>1, <1>1
       DEF PInv, PlatformTypeOK, MainAlone, TimerFires, MainTouchesHandle,
           HandleFires, MainReturns, AsyncFires, Iterate, EndIteration,
           FlushDelayed, PopAll, RunForegroundTask, FlushReturns,
           FlushAfterDrain, RunMicrotasks, LoopOrExit
  <2>3. pc' \in Places
    BY DEF PInv, PlatformTypeOK, MainAlone, TimerFires, MainTouchesHandle,
           HandleFires, MainReturns, AsyncFires, Iterate, EndIteration,
           FlushDelayed, PopAll, RunForegroundTask, FlushReturns,
           FlushAfterDrain, RunMicrotasks, LoopOrExit, Places
  <2>4. /\ jsBack' \in {"loop", "iterate", "batch", "alive", "exit"}
        /\ flushBack' \in {"iterate", "drain"}
    BY DEF PInv, PlatformTypeOK, MainAlone, TimerFires, MainTouchesHandle,
           HandleFires, MainReturns, AsyncFires, Iterate, EndIteration,
           FlushDelayed, PopAll, RunForegroundTask, FlushReturns,
           FlushAfterDrain, RunMicrotasks, LoopOrExit
  <2>5. microtasks' \in BOOLEAN
    BY DEF PInv, PlatformTypeOK, MainAlone, TimerFires, MainTouchesHandle,
           HandleFires, MainReturns, AsyncFires, Iterate, EndIteration,
           FlushDelayed, PopAll, RunForegroundTask, FlushReturns,
           FlushAfterDrain, RunMicrotasks, LoopOrExit
  <2>6. did_work' \in BOOLEAN /\ asyncPending' \in BOOLEAN
    BY DEF PInv, PlatformTypeOK, MainAlone, TimerFires, MainTouchesHandle,
           HandleFires, MainReturns, AsyncFires, Iterate, EndIteration,
           FlushDelayed, PopAll, RunForegroundTask, FlushReturns,
           FlushAfterDrain, RunMicrotasks, LoopOrExit
  <2> QED
    BY <1>1, <1>3, <2>2, <2>3, <2>4, <2>5, <2>6 DEF PInv, PlatformTypeOK
<1>5. MainPlace'
  BY <1>2 DEF PInv, MainPlace, MainAlone, TimerFires, MainTouchesHandle,
           HandleFires, MainReturns, AsyncFires, Iterate, EndIteration,
           FlushDelayed, PopAll, RunForegroundTask, FlushReturns,
           FlushAfterDrain, RunMicrotasks, LoopOrExit
<1>6. NoForgottenTask'
  BY <1>1 DEF PInv, NoForgottenTask, MainAlone, TimerFires, MainTouchesHandle,
           HandleFires, MainReturns, AsyncFires, Iterate, EndIteration,
           FlushDelayed, PopAll, RunForegroundTask, FlushReturns,
           FlushAfterDrain, RunMicrotasks, LoopOrExit
<1>7. Quiet'
  <2>1. CASE \/ \E f \in ForegroundTasks : TimerFires(f)
             \/ \E h \in Handles : MainTouchesHandle(h) \/ HandleFires(h)
             \/ MainReturns \/ AsyncFires \/ Iterate \/ EndIteration
             \/ RunForegroundTask \/ RunMicrotasks \/ LoopOrExit
    <3>1. pc' \notin {"draining", "popall", "microtasks"}
      BY <2>1
         DEF PInv, PlatformTypeOK, TimerFires, MainTouchesHandle, HandleFires,
             MainReturns, AsyncFires, Iterate, EndIteration, RunForegroundTask,
             RunMicrotasks, LoopOrExit
    <3>2. pc' = "flush" => flushBack' = "iterate"
      BY <2>1
         DEF PInv, PlatformTypeOK, TimerFires, MainTouchesHandle, HandleFires,
             MainReturns, AsyncFires, Iterate, EndIteration, RunForegroundTask,
             RunMicrotasks, LoopOrExit
    <3>3. pc' = "batch" => did_work' = TRUE
      BY <2>1
         DEF PInv, PlatformTypeOK, BatchWorks, TimerFires, MainTouchesHandle,
             HandleFires, MainReturns, AsyncFires, Iterate, EndIteration,
             RunForegroundTask, RunMicrotasks, LoopOrExit
    <3> QED
      BY <3>1, <3>2, <3>3 DEF Quiet, QuietDrain
  <2>2. CASE FlushDelayed
    BY <2>2, <1>2 DEF PInv, Quiet, QuietDrain, FlushDelayed
  <2>3. CASE PopAll
    BY <2>3, <1>2 DEF PInv, Quiet, QuietDrain, PopAll
  <2>4. CASE FlushReturns
    BY <2>4, <1>2 DEF PInv, PlatformTypeOK, Quiet, QuietDrain, FlushReturns
  <2>5. CASE FlushAfterDrain
    BY <2>5, <1>2 DEF PInv, Quiet, QuietDrain, FlushAfterDrain
  <2> QED
    BY <2>1, <2>2, <2>3, <2>4, <2>5 DEF MainAlone
<1>8. BatchWorks'
  BY DEF PInv, BatchWorks, MainAlone, TimerFires, MainTouchesHandle, HandleFires,
         MainReturns, AsyncFires, Iterate, EndIteration, FlushDelayed, PopAll,
         RunForegroundTask, FlushReturns, FlushAfterDrain, RunMicrotasks, LoopOrExit
<1> QED
  BY <1>3, <1>4, <1>5, <1>6, <1>7, <1>8 DEF PInv

\* Steps of the worker queue: each is a step of TaskQueue by a thread that is
\* where TaskQueue wants it.
QueueStep ==
    /\ \/ \E w \in Workers : w \notin sending /\ WorkerThreadMain(w)
       \/ \E w \in Workers : NotifyOfCompletion(w) \/ BlockingPop(w)
       \/ \E t \in Tasks : (pc = "js" \/ At("run") # {}) /\ PostTask(t)
       \/ pc = "draining" /\ BlockingDrain
       \/ Wakeup
    /\ UNCHANGED <<flushVars, foregroundVars, loopVars>>

LEMMA QueueStepIsNext ==
    ASSUME PInv, QueueStep \/ DrainWorkers
    PROVE  Next
<1>1. pc = "js" => main = "out"
  BY DEF PInv, MainPlace
<1> QED
  BY <1>1 DEF QueueStep, DrainWorkers, Next, WorkerThreadMain

\* No step of the queue takes a worker out of task->Run() but its return.
LEMMA SendersStay ==
    ASSUME PInv, QueueStep \/ DrainWorkers
    PROVE  sending' \subseteq At("run")'
<1>1. sending' = sending /\ sending \subseteq At("run") /\ TypeOK
  BY DEF QueueStep, DrainWorkers, foregroundVars, PInv, PlatformTypeOK
<1>2. SUFFICES ASSUME NEW v \in sending PROVE worker'[v] = "run"
  BY <1>1 DEF At
<1>3. v \in Workers /\ worker[v] = "run"
  BY <1>1 DEF At
<1>4. CASE \E w \in Workers : w \notin sending /\ WorkerThreadMain(w)
  BY <1>1, <1>3, <1>4
     DEF WorkerThreadMain, BlockingPop, RunReturns, NotifyOfCompletion, TypeOK
<1>5. CASE \E w \in Workers : NotifyOfCompletion(w) \/ BlockingPop(w)
  BY <1>1, <1>3, <1>5 DEF NotifyOfCompletion, BlockingPop, TypeOK
<1>6. CASE \E t \in Tasks : PostTask(t)
  BY <1>1, <1>3, <1>6 DEF PostTask, Push, SignalAvailable, At, TypeOK
<1>7. CASE BlockingDrain \/ DrainWorkers
  BY <1>3, <1>7 DEF BlockingDrain, DrainWorkers, StartDrain
<1>8. CASE Wakeup
  BY <1>1, <1>3, <1>8 DEF Wakeup, SpuriousWakeup, At, TypeOK
<1> QED
  BY <1>4, <1>5, <1>6, <1>7, <1>8 DEF QueueStep

LEMMA QueueStepPInv ==
    ASSUME PInv, QueueStep \/ DrainWorkers
    PROVE  PInv'
<1>1. /\ UNCHANGED <<scheduled, tasks, did_work>>
      /\ UNCHANGED <<unposted, foreground_tasks_, foreground_delayed_tasks_,
                     asyncPending, sending>>
      /\ UNCHANGED <<handles, microtasks, jsBack, flushBack>>
      /\ pc' = pc \/ (DrainWorkers /\ pc = "drain" /\ pc' = "draining")
  BY DEF QueueStep, DrainWorkers, flushVars, foregroundVars, loopVars, Go
<1>2. QInv' /\ TypeOK'
  BY QueueStepIsNext, NextQInv DEF PInv, QInv
<1>3. PlatformTypeOK'
  BY <1>1, <1>2, SendersStay DEF PInv, PlatformTypeOK, Places
<1>4. /\ main' # main => (main' \in {"drain", "wait", "out"} /\ pc' = "draining")
      /\ DrainWorkers => main' = "drain" /\ pc' = "draining"
      /\ (main = "drain" /\ main' = "out") => outstanding_tasks_ = 0
      /\ (main = "wait" => main' # "out")
  BY DEF PInv, MainPlace, QueueStep, DrainWorkers, StartDrain, BlockingDrain,
         WorkerThreadMain, BlockingPop, RunReturns, NotifyOfCompletion,
         BroadcastDrained, PostTask, Push, Wakeup, SpuriousWakeup,
         QInv, TypeOK, MainStates, Go, loopVars
<1>5. MainPlace'
  BY <1>1, <1>4 DEF PInv, MainPlace
<1>6. NoForgottenTask'
  BY <1>1 DEF PInv, NoForgottenTask
<1>7. outstanding_tasks_ = 0 /\ pc # "js" => outstanding_tasks_' = 0
  BY NobodyRuns
     DEF PInv, QueueStep, DrainWorkers, StartDrain, BlockingDrain, WorkerThreadMain,
         BlockingPop, RunReturns, NotifyOfCompletion, At, PostTask, Wakeup
<1>8. QuietDrain' => QuietDrain \/ (outstanding_tasks_ = 0 /\ pc = "draining")
  <2>1. CASE DrainWorkers
    BY <2>1, <1>4 DEF QuietDrain
  <2>2. CASE pc' = pc /\ pc # "draining"
    BY <2>2, <1>1 DEF QuietDrain
  <2>3. CASE pc' = pc /\ pc = "draining"
    BY <2>3, <1>4 DEF QuietDrain, PInv, QInv, TypeOK, MainPlace
  <2> QED
    BY <1>1, <2>1, <2>2, <2>3
<1>9. Quiet'
  BY <1>1, <1>7, <1>8 DEF PInv, Quiet, QuietDrain
<1>10. BatchWorks'
  BY <1>1 DEF PInv, BatchWorks
<1> QED
  BY <1>2, <1>3, <1>5, <1>6, <1>9, <1>10 DEF PInv

\* A step of the composition is a step of the worker queue, or leaves it alone.
LEMMA PlatformSteps ==
    ASSUME PlatformNext
    PROVE  \/ QueueStep \/ DrainWorkers \/ MainAlone
           \/ \E w \in Workers, f \in ForegroundTasks : WorkerPushes(w, f)
           \/ \E w \in Workers : WorkerSends(w)
           \/ \E f \in ForegroundTasks : MainPostsForeground(f)
<1>1. CASE \E w \in Workers : WorkerSteps(w)
  BY <1>1 DEF WorkerSteps, QueueStep, WorkerThreadMain
<1>2. CASE \E w \in Workers, t \in Tasks : WorkerPosts(w, t)
  BY <1>2 DEF WorkerPosts, QueueStep, At
<1>3. CASE \E t \in Tasks : MainPosts(t)
  BY <1>3 DEF MainPosts, QueueStep
<1>4. CASE Draining \/ SpuriousWakeups
  BY <1>4 DEF Draining, SpuriousWakeups, QueueStep
<1> QED
  BY <1>1, <1>2, <1>3, <1>4 DEF PlatformNext, Worker, Loop, MainAlone

LEMMA NextPInv == PInv /\ [PlatformNext]_platformVars => PInv'
<1>1. ASSUME PInv, UNCHANGED platformVars PROVE PInv'
  <2>1. /\ UNCHANGED <<scheduled, tasks, did_work>>
        /\ UNCHANGED <<unposted, foreground_tasks_, foreground_delayed_tasks_,
                       asyncPending, sending>>
        /\ UNCHANGED <<handles, microtasks, pc, jsBack, flushBack>>
        /\ UNCHANGED <<fresh, task_queue_, outstanding_tasks_, stopped_, worker,
                       task, main>>
        /\ UNCHANGED tqVars
    BY <1>1 DEF platformVars, flushVars, foregroundVars, loopVars, tqVars
  <2>2. QInv' /\ TypeOK' /\ At("run")' = At("run")
    BY <1>1, <2>1, NextQInv DEF PInv, QInv, At
  <2> QED
    BY <1>1, <2>1, <2>2
       DEF PInv, PlatformTypeOK, MainPlace, NoForgottenTask, Quiet, QuietDrain, BatchWorks
<1> QED
  BY <1>1, PlatformSteps, QueueStepPInv, MainAlonePInv, WorkerPushesPInv,
     WorkerSendsPInv, MainPostsForegroundPInv

\* No foreground task is forgotten in a queue with no flush to come
\* (PerIsolatePlatformData::PostTask against FlushTasks and DrainTasks).
THEOREM NoForgottenTaskCorrect == PlatformSpec => []NoForgottenTask
<1>1. PInv => NoForgottenTask
  BY DEF PInv
<1> QED
  BY <1>1, InitPInv, NextPInv, PTL DEF PlatformSpec, PlatformSafeSpec

\* When ZeroPlatform::DrainTasks returns there is nothing left to drain.
THEOREM DrainIsCompleteCorrect == PlatformSpec => []DrainIsComplete
<1>1. PInv => DrainIsComplete
  BY DEF PInv, Quiet, QuietDrain, DrainIsComplete
<1> QED
  BY <1>1, InitPInv, NextPInv, PTL DEF PlatformSpec, PlatformSafeSpec

\* Type correctness of the composition.
THEOREM PlatformTypeCorrect == PlatformSpec => []PlatformTypeOK
<1>1. PInv => PlatformTypeOK
  BY DEF PInv
<1> QED
  BY <1>1, InitPInv, NextPInv, PTL DEF PlatformSpec, PlatformSafeSpec

\* Inside the event loop the worker queue behaves as TaskQueue, so that every
\* theorem about SafeSpec holds of the whole.
THEOREM ComposesTaskQueue == PlatformSpec => SafeSpec
<1>1. PlatformInit => Init
  BY DEF PlatformInit
<1>2. PInv /\ [PlatformNext]_platformVars => [Next]_tqVars
  <2>1. ASSUME MainAlone PROVE UNCHANGED tqVars
    BY <2>1 DEF MainAlone, TimerFires, MainTouchesHandle, HandleFires, MainReturns,
           AsyncFires, Iterate, EndIteration, FlushDelayed, PopAll,
           RunForegroundTask, FlushReturns, FlushAfterDrain, RunMicrotasks, LoopOrExit
  <2> QED
    BY <2>1, PlatformSteps, QueueStepIsNext
       DEF WorkerPushes, WorkerSends, MainPostsForeground, platformVars
<1> QED
  BY <1>1, <1>2, InitPInv, NextPInv, PTL
     DEF PlatformSpec, PlatformSafeSpec, SafeSpec
=============================================================================
