\* Two tasks on a ring of 2 bytes.
CONSTANTS
    Tasks = {t1, t2}
    NoTask = NoTask
    BufferSize = 2
    MaxBytes = 4
    Lengths = {1, 3}
SPECIFICATION FairSpec
INVARIANTS InitializedOnce DeadlockBeforeReady BytesKept
PROPERTY CallsReturn
CHECK_DEADLOCK FALSE
