------------------------------- MODULE MCSlab ---------------------------------
(***************************************************************************)
(* The caches of the kernel: slabs (Slab), blocks of the volume (Block)    *)
(* and the lists they are kept in (Lists).  They share no state, so the    *)
(* run looks at each with the others as they were at first.                *)
(***************************************************************************)
EXTENDS Slab, Block

CONSTANTS Heads, Items

VARIABLES forward, backward, content

list == <<forward, backward, content>>

L == INSTANCE Lists WITH next <- forward, prev <- backward

MCInit == Init /\ BlockInit /\ L!Init

\* One volume, for the steps of the others.
blank == \A k \in DOMAIN card : card[k] = 0

MCNext ==
    \/ L!Init /\ BlockInit /\ blank /\ Next /\ UNCHANGED block_vars /\ UNCHANGED list
    \/ L!Init /\ Init /\ BlockNext /\ UNCHANGED vars /\ UNCHANGED list
    \/ Init /\ BlockInit /\ blank /\ L!Next /\ UNCHANGED vars /\ UNCHANGED block_vars

MCSpec == MCInit /\ [][MCNext]_<<vars, block_vars, list>>

\* The rings of list.c are the sequences they stand for.
ListsAreSequences == L!ListsAreSequences
=============================================================================
