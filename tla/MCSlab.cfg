\* Two caches that compete for three slabs.  504 is the largest size a one-page
\* slab takes, 505 is rounded past its limit, 524288 is larger than any limit.
\* Three blocks of two sectors, so the cache needs a second page.
CONSTANTS
    Slabs = {s1, s2, s3}
    CacheNum = 2
    ObjectNum = 2
    PAGE_MAX_DEPTH = 11
    Sizes = {504, 505, 524288}
    BlockNum = 3
    SECTORS = 2
    BLOCKS_PER_PAGE = 2
    Data = {0, 1}
    Magic = {1}
    Heads = {"h", "g"}
    Items = {"a", "b", "c", "d"}
SPECIFICATION MCSpec
INVARIANTS SlabsSound LayoutFits ListsAreSequences
PROPERTIES DeviceSpec
\* Without a free block slab_new halts the machine; a volume without its magic
\* number is not mounted.
CHECK_DEADLOCK FALSE
