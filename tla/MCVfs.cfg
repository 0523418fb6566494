CONSTANTS
    InodeNum = 4
    MaxSlots = 4
    DIRENTS_PER_BLOCK = 3
    FileNum = 1
    MaxRoom = 2
    FilePaths <- MCFilePaths
    DirPaths <- MCDirPaths
    LongNames = {"nn"}
    LongPaths <- MCLongPaths
    Chars = {"x", "y"}
    MaxPath = 6
    NAME_MAX = 4
SPECIFICATION Spec
INVARIANTS  VolumeSound OpenFilesKeep PathsSplitAtBoot
