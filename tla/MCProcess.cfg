\* Three processes, two queues, one fatal and one ignored signal, no handlers.
CONSTANTS
    MaxPid = 3
    Forkers = {1, 2, 3}
    Signals = {13, 17}
    MaskArgs = {}
    MaskDepth = 0
    ExitCodes = {1}
    IoQueues = {"a", "b"}
SPECIFICATION FairSpec
INVARIANTS RunQueueReady WaitersBlocked FamilyTree
PROPERTIES DeadStaysDead ReadyRuns
