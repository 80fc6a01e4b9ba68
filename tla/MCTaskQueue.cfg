\* The main thread may stop after Shutdown, and V8 need not post anything.
CONSTANTS
    w1 = w1  w2 = w2  w3 = w3
    t1 = t1  t2 = t2  t3 = t3  t4 = t4
    NoTask = NoTask
    Workers <- MCWorkers
    Tasks <- MCTasks
SPECIFICATION Spec
INVARIANT NoLostWakeup
PROPERTIES PoolSpec ShutdownReturns
CHECK_DEADLOCK FALSE
