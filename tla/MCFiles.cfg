\* Two processes, so fork, with room for the tty, a pipe and a file; one
\* marks descriptors close-on-exec.  Two open files of one inode with room
\* for three words or three records.
CONSTANTS
    Procs = {1, 2}
    Init1 = 1
    MAX_FD_SIZE = 3
    MaxFiles = 3
    MaxPipes = 1
    Markers = {1}
    OpenFiles = {1, 2}
    Modes <- MCModes
    Room = 3
    Vectors <- MCVectors
    ULONG_MAX = 4
    LLONG_MAX = 9
    SeekOffsets <- MCSeekOffsets
    MaxSlots = 3
    BufferSizes = {1, 2, 3}
SPECIFICATION MCSpec
INVARIANTS CountsExact CloexecOnlyOpen VectorsAreOne SeekExact ListedOnce
\* Once the last process exited nothing runs.
CHECK_DEADLOCK FALSE
