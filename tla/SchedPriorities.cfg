\* Two priorities: the task selected is not always the highest.
CONSTANTS
    Tasks = {t1, t2}
    KernelTask = KernelTask
    SleepTask = SleepTask
    PreSwitch = PreSwitch
    NoTask = NoTask
    Priorities = {5, 7}
    PeriodsUs = {0}
    KernelUs = 1
    TickUs = 1
    Word = 8
    Dynamic = FALSE
SPECIFICATION Spec
PROPERTY HighestPriorityRuns
CHECK_DEADLOCK FALSE
