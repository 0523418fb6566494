\* SIGKILL and a signal that is handled, ignored and masked; handlers nest.
CONSTANTS
    MaxPid = 2
    Forkers = {1, 2}
    Signals = {9, 11}
    MaskArgs = {{9, 11}}
    MaskDepth = 0
    ExitCodes = {1}
    IoQueues = {"io"}
SPECIFICATION FairSpec
INVARIANTS  KilledOnlyByDefault
 
