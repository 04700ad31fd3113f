CONSTANTS
    Tasks = {t1, t2, t3}
    Head = Head
    Mutexes = {m1, m2}
    Null = Null
    Preempt = TRUE
SPECIFICATION Spec
PROPERTY AbandonedReleased
CHECK_DEADLOCK FALSE
