\* Two tasks on a heap of 32 bytes with nodes of 8, 16 and 32 bytes.
CONSTANTS
    Tasks = {t1, t2}
    NoTask = NoTask
    MinOrder = 3
    MaxOrder = 5
    Header = 4
    Sizes = {4, 5, 12, 13, 28, 29}
SPECIFICATION FairSpec
INVARIANTS Partition Fits SpaceExact
PROPERTIES ImplementsHeap CallsReturn
