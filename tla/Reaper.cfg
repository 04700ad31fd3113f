CONSTANTS
    Tasks = {t1, t2, t3}
    Head = Head
    Mutexes = {m1, m2}
    Null = Null
    Preempt = FALSE
SPECIFICATION Spec
INVARIANTS FreeListSound NoOrphanMutex
PROPERTY AbandonedReleased
CHECK_DEADLOCK FALSE
