\* Two blocks of the largest order, so merging must stop at it; callers may
\* link the blocks they hold to page 0.
CONSTANTS
    PAGE_NUM = 8
    PAGE_MAX_ORDER = 2
    LinkTargets = {0}
SPECIFICATION Spec
INVARIANTS BlocksSound FreeListsSound
PROPERTY AllocatorSpec
\* system_halt stops the machine.
CHECK_DEADLOCK FALSE
