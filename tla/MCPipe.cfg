\* Data: every byte through every position of the ring.
CONSTANTS
    PAGE_SIZE = 2
    NULL = NULL
    Procs = {p1, p2}
    Bytes = {0, 1}
    ReadSizes = {1, 3}
    WriteSizes = {1, 3}
    Readers = {p1}
    Writers = {p2}
    MaxFds = 1
SPECIFICATION FairSpec
PROPERTIES ChannelSpec CallsServed
\* A process that holds the only write end may sleep in its own read for ever.
CHECK_DEADLOCK FALSE
