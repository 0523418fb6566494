CONSTANTS
    MaxPid = 3
    Forkers = {1, 2}
    Signals = {}
    MaskArgs = {}
    MaskDepth = 0
    ExitCodes = {1}
    IoQueues = {"io"}
SPECIFICATION FairSpec
PROPERTY WaitReturns
