-------------------------------- MODULE Buddy --------------------------------
(***************************************************************************)
(* The buddy page allocator (kernel/buddy.c) and page_find_head            *)
(* (kernel/page.c), down to the flags, orders and next pointers of struct  *)
(* page.  buddy_free calls itself once for every merge: `freeing` is its   *)
(* argument, and nothing else runs until it has pushed a block.            *)
(***************************************************************************)
EXTENDS Integers, FiniteSets

CONSTANTS
    PAGE_NUM, PAGE_MAX_ORDER,
    LinkTargets     \* bound: the pages a caller's next pointer may name

Pages == 0..(PAGE_NUM - 1)
Orders == 0..PAGE_MAX_ORDER
NULL == -1

\* 1 << o, the pages in a block of order o.
shifted[o \in Orders] == IF o = 0 THEN 1 ELSE 2 * shifted[o - 1]
pages_in == [o \in Orders |-> shifted[o]]

ASSUME BuddyAssumption ==
    /\ LinkTargets \subseteq Pages
    /\ PAGE_NUM \in Nat \ {0} /\ PAGE_MAX_ORDER \in Nat
    /\ PAGE_NUM % pages_in[PAGE_MAX_ORDER] = 0

VARIABLES
    head,           \* free_lists[order].head
    next, order,    \* page->next, page->order
    free_list,      \* the pages with PF_FREE_LIST
    first_page,     \* the pages with PF_FIRST_PAGE
    freeing,        \* the argument of the running buddy_free
    halted,         \* system_halt: "no", "oom" or "broken"
    blocks          \* what callers hold: pairs <<first page, order>>

lists == <<head, next, order, free_list>>
vars == <<lists, first_page, freeing, halted, blocks>>

\* buddy_init: every block of the largest order, linked in address order.
Init ==
    LET size == pages_in[PAGE_MAX_ORDER]
    IN  /\ head = [o \in Orders |-> IF o = PAGE_MAX_ORDER THEN 0 ELSE NULL]
        /\ next = [i \in Pages |-> IF i % size = 0 /\ i + size < PAGE_NUM
                                   THEN i + size ELSE NULL]
        /\ order = [i \in Pages |-> IF i % size = 0 THEN PAGE_MAX_ORDER ELSE 0]
        /\ free_list = {i \in Pages : i % size = 0}
        /\ first_page = {}
        /\ freeing = NULL
        /\ halted = "no"
        /\ blocks = {}

Running == halted = "no" /\ freeing = NULL

\* The pages reached from the head of list o.
Chain(o) ==
    LET after(page) == IF page = NULL THEN NULL ELSE next[page]
        node[k \in 0..PAGE_NUM] == IF k = 0 THEN head[o] ELSE after(node[k - 1])
    IN  {node[k] : k \in 0..PAGE_NUM} \ {NULL}

-----------------------------------------------------------------------------

\* The order buddy_alloc looks for first, for a size in pages.
order_for(size) == {i \in Orders : pages_in[i] >= size /\ \A j \in Orders : pages_in[j] >= size => i <= j}

HandOut(page, o) ==
    /\ first_page' = first_page \cup {page}
    /\ blocks' = blocks \cup {<<page, o>>}
    /\ UNCHANGED <<freeing, halted>>

\* Mutant: the page is handed out and stays on the list.
alloc_pop_keep(o) ==
    /\ head[o] # NULL
    /\ UNCHANGED lists
    /\ HandOut(head[o], o)

\* The list of the right order has a page: buddy_list_pop.
alloc_pop(o) ==
    LET page == head[o]
    IN  /\ page # NULL
        /\ head' = [head EXCEPT ![o] = next[page]]
        /\ next' = [next EXCEPT ![page] = NULL]
        /\ free_list' = free_list \ {page}
        /\ UNCHANGED order
        /\ HandOut(page, order[page])

\* buddy_pull_block splits `page`, popped from list `to + 1`: the first half
\* of each split becomes the head of a list, as it is; the last piece is kept.
piece(page, to, i) == page + pages_in[to + 1] - pages_in[i + 1]

alloc_pull(from) ==
    /\ head[from] = NULL
    /\ \E to \in from..(PAGE_MAX_ORDER - 1) :
        LET page == head[to + 1]
            last == page + pages_in[to + 1] - pages_in[from]
        IN  /\ page # NULL
            /\ \A i \in (from + 1)..to : head[i] = NULL
            /\ head' = [o \in Orders |-> IF o \in from..to THEN piece(page, to, o)
                                         ELSE IF o = to + 1 THEN next[page] ELSE head[o]]
            /\ next' = [next EXCEPT ![page] = NULL]
            /\ order' = [q \in Pages |->
                           IF q = last THEN from
                           ELSE IF \E i \in from..to : q = piece(page, to, i)
                           THEN CHOOSE i \in from..to : q = piece(page, to, i)
                           ELSE order[q]]
            /\ free_list' = (free_list \ {page}) \cup {piece(page, to, i) : i \in from..to}
            /\ HandOut(last, from)

\* "out of memory" and "requested page is too large": system_halt.
alloc_halt(os) ==
    /\ \A o \in os : \A i \in o..PAGE_MAX_ORDER : head[i] = NULL
    /\ halted' = "oom"
    /\ UNCHANGED <<lists, first_page, freeing, blocks>>

buddy_alloc(size) ==
    /\ Running
    /\ \/ \E o \in order_for(size) : alloc_pop(o) \/ alloc_pull(o)
       \/ alloc_halt(order_for(size))

\* While a caller holds a block it may link it by its next pointer, as
\* add_page of mmu.c does.
add_page(page, other) ==
    /\ Running
    /\ next' = [next EXCEPT ![page] = other]
    /\ UNCHANGED <<head, order, free_list, first_page, freeing, halted, blocks>>

-----------------------------------------------------------------------------

buddy_find_buddy_index(page, o) ==
    IF (page \div pages_in[o]) % 2 = 1 THEN page - pages_in[o] ELSE page + pages_in[o]

buddy_is_free_buddy(page, buddy) == buddy \in free_list /\ order[buddy] = order[page]

\* buddy_free by the holder of a block.
buddy_free(b) ==
    /\ Running
    /\ freeing' = b[1]
    /\ blocks' = blocks \ {b}
    /\ UNCHANGED <<lists, first_page, halted>>

\* Mutant: single pages never merge.
CanMerge_large ==
    /\ order[freeing] \notin {0, PAGE_MAX_ORDER}
    /\ buddy_is_free_buddy(freeing, buddy_find_buddy_index(freeing, order[freeing]))

CanMerge ==
    /\ order[freeing] # PAGE_MAX_ORDER
    /\ buddy_is_free_buddy(freeing, buddy_find_buddy_index(freeing, order[freeing]))

\* Mutant: PF_FIRST_PAGE stays set.
free_push_flag ==
    LET o == order[freeing]
    IN  /\ freeing # NULL /\ halted = "no"
        /\ ~CanMerge
        /\ next' = [next EXCEPT ![freeing] = head[o]]
        /\ head' = [head EXCEPT ![o] = freeing]
        /\ free_list' = free_list \cup {freeing}
        /\ freeing' = NULL
        /\ UNCHANGED <<order, first_page, halted, blocks>>

\* The last call pushes the block: buddy_list_push.
free_push ==
    LET o == order[freeing]
    IN  /\ freeing # NULL /\ halted = "no"
        /\ ~CanMerge
        /\ first_page' = first_page \ {freeing}
        /\ next' = [next EXCEPT ![freeing] = head[o]]
        /\ head' = [head EXCEPT ![o] = freeing]
        /\ free_list' = free_list \cup {freeing}
        /\ freeing' = NULL
        /\ UNCHANGED <<order, halted, blocks>>

\* buddy_list_remove of page i from list o; nextp has the other writes to next.
list_remove(o, i, nextp) ==
    /\ head' = [head EXCEPT ![o] = IF @ = i THEN next[i] ELSE @]
    /\ next' = [q \in Pages |-> IF q = i THEN NULL
                                ELSE IF q \in Chain(o) /\ next[q] = i THEN next[i]
                                ELSE nextp[q]]
    /\ free_list' = free_list \ {freeing, i}

\* The other calls take the buddy off its list and merge into the lower half.
free_merge ==
    LET o == order[freeing]
        bi == buddy_find_buddy_index(freeing, o)
        low == IF bi < freeing THEN bi ELSE freeing
        high == IF bi < freeing THEN freeing ELSE bi
    IN  /\ freeing # NULL /\ halted = "no"
        /\ CanMerge
        /\ first_page' = first_page \ {freeing}
        /\ IF bi \in Chain(o)
           THEN /\ list_remove(o, bi, [next EXCEPT ![freeing] = NULL])
                /\ order' = [order EXCEPT ![high] = 0, ![low] = o + 1]
                /\ freeing' = low
                /\ UNCHANGED halted
           ELSE halted' = "broken" /\ UNCHANGED <<lists, freeing>>
        /\ UNCHANGED blocks

-----------------------------------------------------------------------------

Next ==
    \/ \E size \in 0..(pages_in[PAGE_MAX_ORDER] + 1) : buddy_alloc(size)
    \/ \E b \in blocks : buddy_free(b)
    \/ \E b \in blocks, other \in LinkTargets : add_page(b[1], other)
    \/ free_push
    \/ free_merge

Spec == Init /\ [][Next]_vars

-----------------------------------------------------------------------------
(* Properties *)

\* Every field of struct page and every list head keeps its range.
TypeOK ==
    /\ head \in [Orders -> Pages \cup {NULL}]
    /\ next \in [Pages -> Pages \cup {NULL}]
    /\ order \in [Pages -> Orders]
    /\ free_list \subseteq Pages
    /\ first_page \subseteq Pages
    /\ freeing \in Pages \cup {NULL}
    /\ halted \in {"no", "oom", "broken"}
    /\ blocks \subseteq Pages \X Orders

Extent(page, o) == page..(page + pages_in[o] - 1)

\* The list of order o holds exactly the pages flagged PF_FREE_LIST whose
\* order is o, once each: no list runs into another, into a page in use or
\* into a cycle, although buddy_pull_block makes list heads of pages without
\* setting their next; so buddy_free never stops with "broken page".
ListsSound ==
    /\ halted # "broken"
    /\ \A o \in Orders :
        /\ Chain(o) = {i \in free_list : order[i] = o}
        /\ Cardinality({i \in Pages : next[i] \in Chain(o) /\ i \in Chain(o)})
              = Cardinality(Chain(o)) - (IF head[o] = NULL THEN 0 ELSE 1)

\* Every page is in exactly one block: free, in use, or being freed.
PagesAccounted ==
    \A q \in Pages :
        Cardinality({i \in free_list : q \in Extent(i, order[i])})
          + Cardinality({b \in blocks : q \in Extent(b[1], b[2])})
          + (IF freeing # NULL /\ q \in Extent(freeing, order[freeing]) THEN 1 ELSE 0) = 1

\* Between calls no two free buddies are left unmerged; so once everything is
\* given back only blocks of the largest order are left.
Coalesced ==
    freeing = NULL =>
        \A i \in free_list :
            order[i] < PAGE_MAX_ORDER =>
                ~ buddy_is_free_buddy(i, buddy_find_buddy_index(i, order[i]))

\* page_find_head: walking down from any page of a block in use finds its
\* first page.
page_find_head(q) == CHOOSE i \in 0..q : i \in first_page /\ \A j \in (i + 1)..q : j \notin first_page
FindHead ==
    freeing = NULL =>
        \A b \in blocks : \A q \in Extent(b[1], b[2]) :
            /\ \E i \in 0..q : i \in first_page
            /\ page_find_head(q) = b[1]

\* Every page is in one block, whose first page page_find_head finds, through
\* every split and merge (buddy_alloc, buddy_free).
BlocksSound == TypeOK /\ PagesAccounted /\ FindHead

\* The free lists hold what they should, once, and merged as far as it goes.
FreeListsSound == ListsSound /\ Coalesced

Allocator == INSTANCE PageAllocator

\* The allocator keeps what PageAllocator promises its callers.
AllocatorSpec == Allocator!Spec
=============================================================================
