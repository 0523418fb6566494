-------------------------------- MODULE Lists ---------------------------------
(***************************************************************************)
(* The intrusive lists the kernel keeps its queues and caches in           *)
(* (kernel/lib/list.c): rings of next and prev pointers through a head.    *)
(* `content` is the sequence each list is meant to be.  Callers add items  *)
(* that are on no list and remove items that are on one.                   *)
(***************************************************************************)
EXTENDS Integers, SequencesExt

CONSTANTS Heads, Items

NULL == "NULL"
Nodes == Heads \cup Items

VARIABLES
    next, prev,     \* of every struct list
    content

vars == <<next, prev, content>>

Free == {x \in Items : \A h \in Heads : x \notin Range(content[h])}

\* list_init of every head.
Init ==
    /\ next = [n \in Nodes |-> IF n \in Heads THEN n ELSE NULL]
    /\ prev = next
    /\ content = [h \in Heads |-> <<>>]

list_empty(h) == next[h] = h

\* The walk of list_foreach and list_length, along next or prev.
along(f, h) ==
    LET step(s, k) == IF f[s[Len(s)]] = h THEN s ELSE Append(s, f[s[Len(s)]])
    IN  Tail(FoldLeft(step, <<h>>, [k \in 1..(Cardinality(Items) + 1) |-> k]))

list_length(h) == Len(along(next, h))

\* The four stores of list_add, in their order.
list_add(h, x) ==
    LET p1 == [prev EXCEPT ![x] = h]
        n1 == [next EXCEPT ![x] = next[h], ![h] = x]
    IN  /\ x \in Free
        /\ next' = n1
        /\ prev' = [p1 EXCEPT ![n1[x]] = x]
        /\ content' = [content EXCEPT ![h] = <<x>> \o @]

\* Mutant: the last of the other list is not linked on.
joined_short(h, o) == [next EXCEPT ![h] = next[o], ![o] = o]

\* next once `other` is in front of the list and empty again.
joined(h, o) == [next EXCEPT ![prev[o]] = next[h], ![h] = next[o], ![o] = o]

list_concat(h, o) ==
    /\ h # o
    /\ IF list_empty(o) THEN UNCHANGED <<next, prev>>
       ELSE /\ next' = joined(h, o)
            /\ prev' = [[prev EXCEPT ![next[o]] = h] EXCEPT ![next[h]] = prev[o], ![o] = o]
    /\ content' = [content EXCEPT ![h] = content[o] \o @, ![o] = <<>>]

list_remove(x) ==
    /\ x \in Items \ Free
    /\ next' = [next EXCEPT ![prev[x]] = next[x], ![x] = NULL]
    /\ prev' = [prev EXCEPT ![next[x]] = prev[x], ![x] = NULL]
    /\ content' = [h \in Heads |-> SelectSeq(content[h], LAMBDA y : y # x)]

Next ==
    \/ \E h \in Heads : (\E x \in Items : list_add(h, x)) \/ (\E o \in Heads : list_concat(h, o))
    \/ \E x \in Items : list_remove(x)

Spec == Init /\ [][Next]_vars

-----------------------------------------------------------------------------
(* Properties *)

\* Every list is the sequence it should be, forwards and backwards, however
\* items moved between lists, with the items off the lists unlinked: so a
\* queue loses no process and no page, and list_length and list_empty agree.
ListsAreSequences ==
    /\ \A h \in Heads :
        /\ along(next, h) = content[h] /\ along(prev, h) = Reverse(content[h])
        /\ list_length(h) = Len(content[h]) /\ (list_empty(h) <=> content[h] = <<>>)
    /\ \A x \in Free : next[x] = NULL /\ prev[x] = NULL
=============================================================================
