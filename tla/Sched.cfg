\* Two dynamic tasks of two priorities, periodic or not: the lists stay sound.
CONSTANTS
    Tasks = {t1, t2}
    KernelTask = KernelTask
    SleepTask = SleepTask
    PreSwitch = PreSwitch
    NoTask = NoTask
    Priorities = {0, 5}
    PeriodsUs = {0, 1}
    KernelUs = 1
    TickUs = 1
    Word = 8
    Dynamic = TRUE
SPECIFICATION Spec
SYMMETRY Symmetry
INVARIANTS TypeOK ListsSound CurrRunnable NoTaskLost
CHECK_DEADLOCK FALSE
