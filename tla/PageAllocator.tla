---------------------------- MODULE PageAllocator ----------------------------
(***************************************************************************)
(* What the page allocator promises its callers: every block it hands out  *)
(* is 2^order pages, aligned to its size, inside memory and disjoint from  *)
(* every block handed out and not yet given back.                          *)
(***************************************************************************)
EXTENDS Integers

CONSTANTS
    PAGE_NUM, PAGE_MAX_ORDER,
    pages_in        \* the pages in a block of each order: 2^order

VARIABLE blocks     \* the blocks in use: pairs <<first page, order>>

Extent(b) == b[1]..(b[1] + pages_in[b[2]] - 1)

Block == {b \in (0..(PAGE_NUM - 1)) \X (0..PAGE_MAX_ORDER) :
            b[1] % pages_in[b[2]] = 0 /\ b[1] + pages_in[b[2]] <= PAGE_NUM}

Init == blocks = {}

Alloc(b) ==
    /\ \A c \in blocks : Extent(b) \cap Extent(c) = {}
    /\ blocks' = blocks \cup {b}

Free(b) == blocks' = blocks \ {b}

Next == \/ \E b \in Block : Alloc(b)
        \/ \E b \in blocks : Free(b)

Spec == Init /\ [][Next]_blocks
=============================================================================
