-------------------------------- MODULE Slab ---------------------------------
(***************************************************************************)
(* The slab allocator (kernel/slab.c): caches of equal objects cut from    *)
(* slabs, each slab with a free list of object indices threaded through an *)
(* array, and two lists of slabs per cache linked through header->next.    *)
(* Pages come from the page allocator: any block not in use.               *)
(***************************************************************************)
EXTENDS Integers, Sequences, FiniteSets

CONSTANTS
    Slabs,          \* the slab-sized blocks of memory
    CacheNum,       \* bound: descriptors in the page slab_cache_new cuts up
    ObjectNum,      \* bound: objects of a slab, in place of slab_max_object_num
    PAGE_MAX_DEPTH,
    Sizes           \* the object sizes callers ask for

ASSUME SlabAssumption ==
    /\ CacheNum \in Nat /\ ObjectNum \in Nat \ {0}
    /\ PAGE_MAX_DEPTH \in Nat \ {0}
    /\ Sizes \subseteq Nat \ {0}
    /\ IsFiniteSet(Slabs) /\ "NULL" \notin Slabs

Caches == 1..CacheNum
NULL == "NULL"
SLAB_FREE_END == -1
Indices == 0..ObjectNum     \* ObjectNum is the sentinel entry
PAGE_SIZE == 4096
SLAB_HEADER_SIZE == 16      \* sizeof(struct slab_header) + sizeof(uint32_t)

VARIABLES
    free_caches,            \* the list from free_cache_head
    live,                   \* the caches in use
    object_size, slab_size, \* cache->object_size, cache->slab_size
    partial, full,          \* cache->slabs_partial, cache->slabs_full
    taken,                  \* the blocks held from the page allocator
    next, free,             \* header->next; header->free as an index
    free_list,              \* the array behind the header
    held,                   \* what each cache's callers hold: <<slab, index>>
    broken                  \* system_halt after "broken slab"

caches == <<free_caches, live, object_size, slab_size>>
slabs == <<taken, next, free, free_list>>
vars == <<caches, partial, full, slabs, held, broken>>

\* The slabs reached from a list head.
Chain(head) ==
    LET node[k \in 0..Cardinality(Slabs)] ==
            IF k = 0 THEN head
            ELSE IF node[k - 1] = NULL THEN NULL ELSE next[node[k - 1]]
    IN  {node[k] : k \in 0..Cardinality(Slabs)} \ {NULL}

\* The objects reached along the free list of slab s, in order, up to the sentinel.
FreeObjects(s) ==
    LET node[k \in Indices] ==
            IF k = 0 THEN free[s]
            ELSE IF node[k - 1] \in 0..(ObjectNum - 1) THEN free_list[s][node[k - 1]]
                 ELSE node[k - 1]
    IN  [k \in Indices |-> node[k]]

-----------------------------------------------------------------------------
(* Sizes *)

\* slab_size_limits[i], what eight objects and the header leave room for.
slab_size_limit(i) == (PAGE_SIZE * 2^i) \div 8 - (SLAB_HEADER_SIZE \div 8 + 1) - 4

\* (size + 3) & ~3
rounded(size) == ((size + 3) \div 4) * 4

\* Mutant: the limit is not looked at.
slab_size_for_first(size) == {PAGE_SIZE}

\* The slab size slab_cache_create settles on: the first that is large enough.
slab_size_for(size) ==
    {PAGE_SIZE * 2^i : i \in {j \in 0..(PAGE_MAX_DEPTH - 1) :
        /\ rounded(size) <= slab_size_limit(j)
        /\ \A k \in 0..(j - 1) : rounded(size) > slab_size_limit(k)}}

slab_max_object_num(slab, object) == (slab - SLAB_HEADER_SIZE) \div (object + 4)

-----------------------------------------------------------------------------

Init ==
    /\ free_caches = [i \in 1..CacheNum |-> i]
    /\ live = {}
    /\ object_size = [c \in Caches |-> 0]
    /\ slab_size = [c \in Caches |-> 0]
    /\ partial = [c \in Caches |-> NULL]
    /\ full = [c \in Caches |-> NULL]
    /\ taken = {}
    /\ next = [s \in Slabs |-> NULL]
    /\ free = [s \in Slabs |-> 0]
    /\ free_list = [s \in Slabs |-> [i \in Indices |-> SLAB_FREE_END]]
    /\ held = [c \in Caches |-> {}]
    /\ broken = FALSE

\* slab_cache_create: a size no slab can hold costs the descriptor.
slab_cache_create(size) ==
    /\ ~broken
    /\ free_caches # <<>>
    /\ free_caches' = Tail(free_caches)
    /\ LET c == Head(free_caches)
       IN  \/ /\ slab_size_for(size) = {}
              /\ UNCHANGED <<live, object_size, slab_size>>
           \/ \E s \in slab_size_for(size) :
              /\ live' = live \cup {c}
              /\ object_size' = [object_size EXCEPT ![c] = rounded(size)]
              /\ slab_size' = [slab_size EXCEPT ![c] = s]
    /\ UNCHANGED <<partial, full, slabs, held, broken>>

\* slab_cache_destroy: both lists go back to the page allocator, with whatever
\* objects the callers still hold, and the descriptor to its list.
slab_cache_destroy(c) ==
    /\ ~broken
    /\ c \in live
    /\ taken' = taken \ (Chain(full[c]) \cup Chain(partial[c]))
    /\ free_caches' = <<c>> \o free_caches
    /\ live' = live \ {c}
    /\ object_size' = [object_size EXCEPT ![c] = 0]
    /\ slab_size' = [slab_size EXCEPT ![c] = 0]
    /\ partial' = [partial EXCEPT ![c] = NULL]
    /\ full' = [full EXCEPT ![c] = NULL]
    /\ held' = [held EXCEPT ![c] = {}]
    /\ UNCHANGED <<next, free, free_list, broken>>

\* The free list of a new slab; its free pointer is 0 and its next is NULL.
slab_new == [i \in Indices |-> IF i < ObjectNum THEN i + 1 ELSE SLAB_FREE_END]

\* The slab has just given its last object away.
filled(list, next_index) == list[next_index] = SLAB_FREE_END

slab_cache_alloc(c) ==
    /\ ~broken
    /\ c \in live
    /\ \E h \in Slabs :
       LET new == partial[c] = NULL
           index == IF new THEN 0 ELSE free[h]
           after == IF new THEN NULL ELSE next[h]
           old == IF new THEN slab_new ELSE free_list[h]
           next_index == old[index]
           list == [old EXCEPT ![index] = SLAB_FREE_END]
       IN  /\ IF new THEN h \notin taken ELSE h = partial[c]
           /\ taken' = taken \cup {h}
           /\ free_list' = [free_list EXCEPT ![h] = list]
           /\ free' = [free EXCEPT ![h] = next_index]
           /\ held' = [held EXCEPT ![c] = @ \cup {<<h, index>>}]
           /\ IF filled(list, next_index)
              THEN /\ partial' = [partial EXCEPT ![c] = after]
                   /\ full' = [full EXCEPT ![c] = h]
                   /\ next' = [next EXCEPT ![h] = full[c]]
              ELSE /\ partial' = [partial EXCEPT ![c] = h]
                   /\ next' = [next EXCEPT ![h] = after]
                   /\ UNCHANGED full
    /\ UNCHANGED <<caches, broken>>

\* Mutant: only the head of the list is unlinked.
unlinked_head(h, c) == [next EXCEPT ![h] = partial[c]]

\* The next pointers once h went from slabs_full to the head of slabs_partial.
unlinked(h, c) ==
    [s \in Slabs |-> CASE s = h -> partial[c]
                       [] s # h /\ s \in Chain(full[c]) /\ next[s] = h -> next[h]
                       [] OTHER -> next[s]]

\* slab_cache_free of object i of slab h.
slab_cache_free(c, h, i) ==
    /\ ~broken
    /\ <<h, i>> \in held[c]
    /\ held' = [held EXCEPT ![c] = @ \ {<<h, i>>}]
    /\ free_list' = [free_list EXCEPT ![h][i] = free[h]]
    /\ free' = [free EXCEPT ![h] = i]
    /\ IF free_list[h][free[h]] # SLAB_FREE_END
       THEN UNCHANGED <<partial, full, next, broken>>
       ELSE IF h \in Chain(full[c])
       THEN /\ partial' = [partial EXCEPT ![c] = h]
            /\ full' = [full EXCEPT ![c] = IF @ = h THEN next[h] ELSE @]
            /\ next' = unlinked(h, c)
            /\ UNCHANGED broken
       ELSE /\ broken' = TRUE
            /\ UNCHANGED <<partial, full, next>>
    /\ UNCHANGED <<caches, taken>>

Next ==
    \/ \E size \in Sizes : slab_cache_create(size)
    \/ \E c \in Caches :
          \/ slab_cache_destroy(c)
          \/ slab_cache_alloc(c)
          \/ \E h \in Slabs, i \in 0..(ObjectNum - 1) : slab_cache_free(c, h, i)

Spec == Init /\ [][Next]_vars

-----------------------------------------------------------------------------
(* Properties *)

\* Every variable keeps its type; in particular header->free stays inside the
\* array, which a freed index or a read of SLAB_FREE_END could take it out of.
TypeOK ==
    /\ free_caches \in Seq(Caches)
    /\ live \subseteq Caches
    /\ object_size \in [Caches -> Nat] /\ slab_size \in [Caches -> Nat]
    /\ partial \in [Caches -> Slabs \cup {NULL}]
    /\ full \in [Caches -> Slabs \cup {NULL}]
    /\ taken \subseteq Slabs
    /\ next \in [Slabs -> Slabs \cup {NULL}]
    /\ free \in [Slabs -> Indices]
    /\ free_list \in [Slabs -> [Indices -> Indices \cup {SLAB_FREE_END}]]
    /\ held \in [Caches -> SUBSET (Slabs \X (0..(ObjectNum - 1)))]
    /\ broken \in BOOLEAN

\* The objects nobody holds are exactly those along the slab's free list, each
\* once: an object is never handed out twice and never lost, whatever the order
\* of slab_cache_alloc and slab_cache_free.
FreeListSound ==
    \A c \in live : \A s \in Chain(full[c]) \cup Chain(partial[c]) :
        LET path == FreeObjects(s)
            objects == {i \in 0..(ObjectNum - 1) : <<s, i>> \notin held[c]}
        IN  /\ path[Cardinality(objects)] = ObjectNum
            /\ objects = {path[k] : k \in 0..(Cardinality(objects) - 1)}

\* Every block taken from the page allocator is on exactly one list of one
\* cache, slabs_partial holds slabs with a free object and slabs_full those
\* without, and callers hold objects of their own cache's slabs only: what
\* slab_cache_alloc relies on when it takes the first partial slab unseen, and
\* why slab_cache_free always finds the slab it looks for and never halts with
\* "broken slab".
SlabsAccounted ==
    /\ ~broken
    /\ \A c \in Caches : Chain(partial[c]) \cap Chain(full[c]) = {}
    /\ \A c, d \in Caches : c # d =>
          (Chain(partial[c]) \cup Chain(full[c])) \cap (Chain(partial[d]) \cup Chain(full[d])) = {}
    /\ taken = UNION {Chain(partial[c]) \cup Chain(full[c]) : c \in live}
    /\ \A c \in live :
          /\ \A s \in Chain(partial[c]) : \E i \in 0..(ObjectNum - 1) : <<s, i>> \notin held[c]
          /\ \A s \in Chain(full[c]) : \A i \in 0..(ObjectNum - 1) : <<s, i>> \in held[c]
          /\ \A o \in held[c] : o[1] \in Chain(partial[c]) \cup Chain(full[c])

\* A live cache can hold at least eight objects a slab, and the header, the
\* free list with its sentinel and the objects fit (slab_size_limits).
LayoutFits ==
    \A c \in live :
        LET num == slab_max_object_num(slab_size[c], object_size[c])
        IN  /\ num >= 8
            /\ 12 + 4 * (num + 1) + num * object_size[c] <= slab_size[c]

\* Slabs, their lists and their free lists agree with what callers hold, so an
\* object handed out is nobody else's (slab_cache_alloc, slab_cache_free).
SlabsSound == TypeOK /\ FreeListSound /\ SlabsAccounted
=============================================================================
