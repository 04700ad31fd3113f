\* Three boot tasks, two mutexes, nested in any order and released before a task ends.
CONSTANTS
    Tasks = {t1, t2, t3}
    KernelTask = KernelTask
    SleepTask = SleepTask
    PreSwitch = PreSwitch
    NoTask = NoTask
    Priorities = {5, 7}
    PeriodsUs = {0}
    KernelUs = 1
    TickUs = 1
    Word = 8
    Dynamic = FALSE
    Mutexes = {m1, m2}
    NoMutex = NoMutex
    BootTask = BootTask
    HeldMax = 2
    Abandon = FALSE
SPECIFICATION MutexSpec
SYMMETRY MutexSymmetry
INVARIANTS WaiterReal DeadlockReal 
CHECK_DEADLOCK FALSE
