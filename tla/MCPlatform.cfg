\* The process ends: pc = "exit" with the workers asleep.
CONSTANTS
    w1 = w1  w2 = w2
    t1 = t1  t2 = t2
    f1 = f1  f2 = f2
    h1 = h1
    NoTask = NoTask
    Workers <- MCWorkers
    Tasks <- MCTasks
    ForegroundTasks <- MCForegroundTasks
    Handles <- MCHandles
SPECIFICATION PlatformSpec
INVARIANTS NoForgottenTask DrainIsComplete
PROPERTIES ForegroundTasksRun DrainReturns
CHECK_DEADLOCK FALSE
