SPECIFICATION Spec
CONSTANTS
    Jobs = {j1, j2, j3}
    Threads = {t1, t2}
    NoJob = NoJob
    NoThread = NoThread
INVARIANTS
    TypeOK
    IdleThreadsWait
    ThreadsAccounted
    RunHandsOver
    SlotNotRaced
PROPERTIES
    ImplementsTaskPool
    OperationsReturn
CHECK_DEADLOCK FALSE
