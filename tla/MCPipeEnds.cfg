\* Readers and writers that dup, fork and close around calls in progress.
CONSTANTS
    PAGE_SIZE = 2
    NULL = NULL
    Procs = {p1, p2, p3}
    Bytes = {0}
    ReadSizes = {0, 1, 2}
    WriteSizes = {1, 2}
    Readers = {p1, p2}
    Writers = {p2, p3}
    MaxFds = 2
SPECIFICATION Spec
INVARIANTS OneBugOnly EndsCounted SleepersWoken
\* A process that holds the only write end may sleep in its own read for ever.
CHECK_DEADLOCK FALSE
