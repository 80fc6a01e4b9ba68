----------------------------- MODULE MCTaskQueue -----------------------------
(* Three workers and four tasks: more tasks than workers, so that the queue    *)
(* grows behind busy workers, and more than one worker can sleep.              *)
EXTENDS TaskQueue
CONSTANTS w1, w2, w3, t1, t2, t3, t4

MCWorkers == {w1, w2, w3}
MCTasks == {t1, t2, t3, t4}
=============================================================================
