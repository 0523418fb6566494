\* A reader, a writer and a process that does both.
CONSTANTS
    Procs = {p1, p2, p3}
    NOBODY = NOBODY
    Readers = {p1, p2}
    Writers = {p2, p3}
    Sizes = {1, 2}
    RxMax = 1
    TxMax = 2
    BufferMax = 6
    LOG_SIZE = 5
SPECIFICATION TtyFairSpec
INVARIANTS TtySound FormatsRight
PROPERTY WritersProgress
