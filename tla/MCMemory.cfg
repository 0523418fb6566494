CONSTANTS
    PAGE_SIZE = 2
    L2_ENTRY_NUM = 4
    USER_ADDRESS_START = 2
    USER_ADDRESS_END = 16
    BRK_ADDRESS_END = 10
    STACK_START = 10
    STACK_END = 16
    AddressMax = 23
    ARG_MAX = 2
    FrameNum = 21
    MaxPid = 2
    MaxLive = 2
    Executables <- MCExecutables
    FirstExecutable <- Plain
    Stored = {5, 10}
    Breaks = {7}
    ULONG_MAX = 23
    sizeof <- MCsizeof
    TermiosRequests = {1, 2}
    TIOCGWINSZ = 13
    Registers = {0, 1, 2, 4, 13, 15, 16, 23}
    Memories <- MCMemories
SPECIFICATION Spec
INVARIANTS MemoryAccounted 
  
CHECK_DEADLOCK FALSE
