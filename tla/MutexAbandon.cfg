\* Tasks of two priorities that create each other and may end with the mutex.
CONSTANTS
    Tasks = {t1, t2}
    KernelTask = KernelTask
    SleepTask = SleepTask
    PreSwitch = PreSwitch
    NoTask = NoTask
    Priorities = {5, 7}
    PeriodsUs = {0}
    KernelUs = 1
    TickUs = 1
    Word = 2
    Dynamic = TRUE
    Mutexes = {m1}
    NoMutex = NoMutex
    BootTask = BootTask
    HeldMax = 2
    Abandon = TRUE
SPECIFICATION FairMutexSpec
INVARIANTS HeldConsistent
PROPERTIES ImplementsLock NoStuckHolder
CHECK_DEADLOCK FALSE
