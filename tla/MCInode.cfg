\* Two files that compete for zones, with tables of both depths.
CONSTANTS
    InodeNum = 2
    ZoneNum = 11
    DIRECT = 1
    ZONES_PER_BLOCK = 2
    MaxSize = 12
    WriteSizes = {2, 11}
    Starts = {1, 6}
    DataWords <- MCDataWords
    HoleBlocks = 0
SPECIFICATION Spec
INVARIANTS ZonesOwnedOnce NothingLeaks  ReadsBack
\* A volume with a stale table is not looked at further.
CHECK_DEADLOCK FALSE
