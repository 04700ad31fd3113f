\* One task that reads a ring of 3 bytes.
CONSTANTS
    Tasks = {t1}
    NoTask = NoTask
    BufferSize = 3
    MaxBytes = 7
    Lengths = {1, 4}
SPECIFICATION Spec
INVARIANT StartsOverLate
CHECK_DEADLOCK FALSE
