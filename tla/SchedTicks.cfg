\* Tasks of one priority, periodic or not, that create each other, under fair
\* ticks of 2 us: they run, wake again on time and are freed.
CONSTANTS
    Tasks = {t1, t2}
    KernelTask = KernelTask
    SleepTask = SleepTask
    PreSwitch = PreSwitch
    NoTask = NoTask
    Priorities = {5}
    PeriodsUs = {0, 3}
    KernelUs = 2
    TickUs = 2
    Word = 5
    Dynamic = TRUE
SPECIFICATION SpecT
PROPERTIES  HighestPriorityRuns RunnableRuns PeriodicRequeued EndedFreed
CHECK_DEADLOCK FALSE
