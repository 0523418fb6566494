----------------------------- MODULE CacheProofs -----------------------------
(***************************************************************************)
(* The caches of the kernel: slabs (Slab), then blocks of the volume       *)
(* (Block).  All is proved for every value of the constants.               *)
(*                                                                         *)
(* Slab.  First the layout: slab_size_limits is computed by a formula of   *)
(* its own and slab_max_object_num by another, and nothing in slab.c       *)
(* compares the two.  Then the lists: the slabs of a cache and the objects *)
(* of a slab are linked by pointers, and the properties walk along them.   *)
(* A walk is a recursive function; the proofs replace it by the sequence   *)
(* it visits.                                                              *)
(*                                                                         *)
(* Block.  Through the cache the volume is a plain disk (BlockDevice), of  *)
(* which a power failure tears at most the block that is being written.    *)
(* First where the sectors of the blocks lie, then what a transfer leaves  *)
(* on the card, by induction over its sectors, then the cache: every entry *)
(* has a slot of its own that holds what the card holds.                   *)
(***************************************************************************)
EXTENDS Slab, Block, FiniteSetTheorems, TLAPS

-----------------------------------------------------------------------------
(* The layout of a slab *)

\* Eight objects with their free list entries fit behind the header.
Fits(slab, object) ==
    slab \in Int /\ object \in Nat /\ 8 * (object + 4) <= slab - SLAB_HEADER_SIZE

\* The inductive invariant: the descriptors are typed, and every live cache
\* has sizes slab_cache_create accepted.
SizesInv ==
    /\ free_caches \in Seq(Caches)
    /\ object_size \in [Caches -> Nat]
    /\ slab_size \in [Caches -> Int]
    /\ live \subseteq Caches
    /\ \A c \in live : Fits(slab_size[c], object_size[c])

\* The limit slab_cache_create compares with leaves room for eight objects.
LEMMA LimitLeavesRoom ==
    ASSUME NEW size \in Nat \ {0}, NEW slab \in slab_size_for(size)
    PROVE  Fits(slab, rounded(size))
<1>1. rounded(size) \in Nat
  BY DEF rounded
<1>2. PICK i \in 0..(PAGE_MAX_DEPTH - 1) :
        slab = PAGE_SIZE * 2^i /\ rounded(size) <= slab_size_limit(i)
  BY DEF slab_size_for
<1>3. 2^i \in Int
  BY SlabAssumption
<1>4. rounded(size) <= slab \div 8 - 7
  BY <1>2, <1>3 DEF slab_size_limit, PAGE_SIZE, SLAB_HEADER_SIZE
<1> QED
  BY <1>1, <1>2, <1>3, <1>4 DEF Fits, PAGE_SIZE, SLAB_HEADER_SIZE

\* What slab_max_object_num computes from sizes that fit: at least eight
\* objects, whose free list and bodies end inside the slab.
LEMMA LayoutOfFits ==
    ASSUME NEW slab, NEW object, Fits(slab, object)
    PROVE  LET num == slab_max_object_num(slab, object)
           IN  num >= 8 /\ 12 + 4 * (num + 1) + num * object <= slab
<1> DEFINE room == slab - SLAB_HEADER_SIZE
           entry == object + 4
           num == room \div entry
<1>1. room \in Nat /\ entry \in Nat \ {0} /\ 8 * entry <= room /\ slab = room + 16
      /\ object \in Nat /\ entry = object + 4
  BY DEF Fits, SLAB_HEADER_SIZE
<1> HIDE DEF room, entry
<1>2. num \in Nat /\ num * entry <= room
  BY <1>1
<1>3. num >= 8
  BY <1>1
<1> HIDE DEF num
<1>4. num * entry = num * object + num * 4
  BY <1>1, <1>2
<1>5. 12 + 4 * (num + 1) + num * object <= slab
  BY <1>1, <1>2, <1>4
<1> QED
  BY <1>3, <1>5 DEF num, room, entry, slab_max_object_num

\* Every operation keeps the sizes of live caches such that objects fit.
LEMMA SizesStep == SizesInv /\ [Next]_vars => SizesInv'
<1> SUFFICES ASSUME SizesInv, [Next]_vars PROVE SizesInv'
  OBVIOUS
<1> USE SlabAssumption
<1>1. ASSUME NEW size \in Sizes, slab_cache_create(size) PROVE SizesInv'
  <2> DEFINE c == Head(free_caches)
  <2>1. c \in Caches /\ Tail(free_caches) \in Seq(Caches)
    BY <1>1 DEF SizesInv, slab_cache_create
  <2>2. size \in Nat \ {0} /\ free_caches' = Tail(free_caches)
    BY <1>1 DEF slab_cache_create
  <2> HIDE DEF c
  <2>3. CASE UNCHANGED <<live, object_size, slab_size>>
    BY <2>1, <2>2, <2>3 DEF SizesInv
  <2>4. CASE \E s \in slab_size_for(size) :
               /\ live' = live \cup {c}
               /\ object_size' = [object_size EXCEPT ![c] = rounded(size)]
               /\ slab_size' = [slab_size EXCEPT ![c] = s]
    <3>1. PICK s \in slab_size_for(size) :
               /\ live' = live \cup {c}
               /\ object_size' = [object_size EXCEPT ![c] = rounded(size)]
               /\ slab_size' = [slab_size EXCEPT ![c] = s]
      BY <2>4, Zenon
    <3>2. Fits(s, rounded(size))
      BY <2>2, LimitLeavesRoom
    <3>3. s \in Int /\ rounded(size) \in Nat
      BY <3>2 DEF Fits
    <3>4. ASSUME NEW d \in live' PROVE Fits(slab_size'[d], object_size'[d])
      <4>1. CASE d = c
        BY <2>1, <3>1, <3>2, <4>1 DEF SizesInv
      <4>2. CASE d # c
        BY <2>1, <3>1, <4>2 DEF SizesInv
      <4> QED
        BY <4>1, <4>2
    <3>5. /\ object_size' \in [Caches -> Nat] /\ slab_size' \in [Caches -> Int]
          /\ live' \subseteq Caches
      BY <2>1, <3>1, <3>3 DEF SizesInv
    <3> QED
      BY <2>1, <2>2, <3>4, <3>5, SMTT(60) DEF SizesInv
  <2> QED
    BY <1>1, <2>3, <2>4 DEF slab_cache_create, c
<1>2. ASSUME NEW c \in Caches, slab_cache_destroy(c) PROVE SizesInv'
  <2>1. /\ free_caches' = <<c>> \o free_caches /\ live' = live \ {c}
        /\ object_size' = [object_size EXCEPT ![c] = 0]
        /\ slab_size' = [slab_size EXCEPT ![c] = 0]
    BY <1>2 DEF slab_cache_destroy
  <2>2. free_caches' \in Seq(Caches)
    BY <2>1 DEF SizesInv
  <2>3. \A d \in live' : object_size'[d] = object_size[d] /\ slab_size'[d] = slab_size[d]
    BY <2>1 DEF SizesInv
  <2> QED
    BY <2>1, <2>2, <2>3 DEF SizesInv
<1>3. CASE UNCHANGED caches
  BY <1>3 DEF SizesInv, caches
<1> QED
  BY <1>1, <1>2, <1>3, Zenon DEF Next, vars, slab_cache_alloc, slab_cache_free

\* In every slab of every live cache the header, the free list with its
\* sentinel and at least eight objects fit, for any object size callers ask for.
THEOREM SlabLayoutFits == Spec => []LayoutFits
<1>1. Init => SizesInv
  <2> SUFFICES ASSUME Init PROVE SizesInv
    OBVIOUS
  <2>1. free_caches \in Seq(Caches)
    BY SlabAssumption DEF Init, Caches
  <2> QED
    BY <2>1 DEF Init, SizesInv
<1>2. SizesInv => LayoutFits
  BY LayoutOfFits DEF SizesInv, LayoutFits
<1> QED
  BY <1>1, <1>2, SizesStep, PTL DEF Spec

-----------------------------------------------------------------------------
(* Lists linked by pointers *)

\* The elements of s are linked from h on by the pointers n, each once, up to end,
Linked(s, h, n, end) ==
    /\ h = IF Len(s) = 0 THEN end ELSE s[1]
    /\ \A i \in 1..Len(s) : n[s[i]] = IF i = Len(s) THEN end ELSE s[i + 1]
    /\ \A i, j \in 1..Len(s) : s[i] = s[j] => i = j

\* and they are those of S.
Lists(s, S) ==
    /\ \A i \in 1..Len(s) : s[i] \in S
    /\ \A q \in S : \E i \in 1..Len(s) : s[i] = q

\* So the list from h on holds exactly S: header->next links slabs up to NULL,
\* and a free list links the indices of objects up to the sentinel.
List(h, n, end, D, S) == \E s \in Seq(D) : Linked(s, h, n, end) /\ Lists(s, S)

\* The pointers of S are the same.
Same(n, n2, S) == \A q \in S : n2[q] = n[q]

\* What pointed at b points behind it.
Unhooked(n, n2, S, b) == \A q \in S : q # b => n2[q] = IF n[q] = b THEN n[b] ELSE n[q]

\* r is the sequence s without its k-th element.
Without(r, s, k) ==
    /\ Len(r) = Len(s) - 1
    /\ \A i \in 1..Len(r) : r[i] = IF i < k THEN s[i] ELSE s[i + 1]

\* A set of numbers has a least one.
LEMMA LeastNumber ==
    ASSUME NEW T, T \subseteq Nat, T # {}
    PROVE  \E x \in T : \A y \in T : x <= y
<1>1. IsWellFoundedOn(OpToRel(<, Nat), Nat)
  BY NatLessThanWellFounded, Zenon
<1>2. PICK x \in T : \A y \in T : ~ (<<y, x>> \in OpToRel(<, Nat))
  BY <1>1, WFMin, Zenon
<1>3. \A y \in T : ~ (y < x)
  BY <1>2, Zenon DEF OpToRel
<1> QED
  BY <1>3

\* A list stays when its pointers do.
LEMMA ListKept ==
    ASSUME NEW h, NEW n, NEW end, NEW D, NEW S, List(h, n, end, D, S),
           NEW n2, Same(n, n2, S)
    PROVE  List(h, n2, end, D, S)
<1>1. PICK s \in Seq(D) : Linked(s, h, n, end) /\ Lists(s, S)
  BY Zenon DEF List
<1>2. \A i \in 1..Len(s) : n2[s[i]] = n[s[i]]
  BY <1>1, Zenon DEF Lists, Same
<1>3. Linked(s, h, n2, end)
  BY <1>1, <1>2, Zenon DEF Linked
<1> QED
  BY <1>1, <1>3, Zenon DEF List

\* A list whose head is end is empty,
LEMMA ListEmpty ==
    ASSUME NEW n, NEW end, NEW D, NEW S, end \notin D, List(end, n, end, D, S)
    PROVE  S = {}
<1>1. PICK s \in Seq(D) : Linked(s, end, n, end) /\ Lists(s, S)
  BY Zenon DEF List
<1>2. \A p \in D : p # end
  OBVIOUS
<1>3. Len(s) \in Nat
  OBVIOUS
<1>4. Len(s) # 0 => 1 \in 1..Len(s) /\ s[1] \in D
  BY <1>3
<1>5. Len(s) = 0
  BY <1>1, <1>2, <1>4, Zenon DEF Linked
<1>6. 1..Len(s) = {}
  BY <1>5
<1> QED
  BY <1>1, <1>6, Zenon DEF Lists

\* another begins with one of its elements,
LEMMA ListHead ==
    ASSUME NEW h, NEW n, NEW end, h # end, NEW D, NEW S, List(h, n, end, D, S)
    PROVE  h \in S
<1>1. PICK s \in Seq(D) : Linked(s, h, n, end) /\ Lists(s, S)
  BY Zenon DEF List
<1>2. Len(s) \in Nat
  OBVIOUS
<1>3. Len(s) # 0
  BY <1>1, Zenon DEF Linked
<1>4. 1 \in 1..Len(s)
  BY <1>2, <1>3
<1>5. h = s[1]
  BY <1>1, <1>3, Zenon DEF Linked
<1> QED
  BY <1>1, <1>4, <1>5, Zenon DEF Lists

\* and none of them points at its head.
LEMMA ListFirst ==
    ASSUME NEW h, NEW n, NEW end, h # end, NEW D, NEW S, List(h, n, end, D, S), NEW q \in S
    PROVE  n[q] # h
<1>1. PICK s \in Seq(D) : Linked(s, h, n, end) /\ Lists(s, S)
  BY Zenon DEF List
<1>2. PICK k \in 1..Len(s) : s[k] = q
  BY <1>1, Zenon DEF Lists
<1>3. n[q] = IF k = Len(s) THEN end ELSE s[k + 1]
  BY <1>1, <1>2, Zenon DEF Linked
<1>4. CASE k = Len(s)
  BY <1>3, <1>4, Zenon
<1>5. CASE k # Len(s)
  <2>1. Len(s) # 0 /\ 1 \in 1..Len(s) /\ k + 1 \in 1..Len(s) /\ k + 1 # 1
    BY <1>5
  <2>2. h = s[1]
    BY <1>1, <2>1, Zenon DEF Linked
  <2>3. s[k + 1] # s[1]
    BY <1>1, <2>1, Zenon DEF Linked
  <2> QED BY <1>3, <1>5, <2>2, <2>3, Zenon
<1> QED
  BY <1>4, <1>5, Zenon

\* There is a sequence without the k-th element.
LEMMA DropOne ==
    ASSUME NEW D, NEW s \in Seq(D), NEW k \in 1..Len(s)
    PROVE  \E r \in Seq(D) : Without(r, s, k)
<1> DEFINE m == Len(s) - 1
           r == [i \in 1..m |-> IF i < k THEN s[i] ELSE s[i + 1]]
<1>1. m \in Nat /\ Len(s) \in Nat
  OBVIOUS
<1>2. \A i \in 1..m : s[i] \in D /\ s[i + 1] \in D
  BY <1>1
<1>3. r \in [1..m -> D]
  BY <1>2
<1>4. r \in Seq(D)
  BY <1>1, <1>3
<1>5. Len(r) = m
  BY <1>1
<1>6. Without(r, s, k)
  BY <1>5 DEF Without
<1> QED
  BY <1>4, <1>6, Zenon

\* Its elements are the others of s, in their order.
LEMMA DropIndices ==
    ASSUME NEW D, NEW s \in Seq(D), NEW k \in 1..Len(s), NEW r \in Seq(D), Without(r, s, k)
    PROVE  /\ \A i \in 1..Len(r) : \E j \in 1..Len(s) : j # k /\ r[i] = s[j] /\ j = IF i < k THEN i ELSE i + 1
           /\ \A j \in 1..Len(s) : j # k => \E i \in 1..Len(r) : r[i] = s[j]
<1>1. Len(s) \in Nat /\ Len(r) = Len(s) - 1 /\ \A i \in 1..Len(r) : r[i] = IF i < k THEN s[i] ELSE s[i + 1]
  BY DEF Without
<1>2. ASSUME NEW i \in 1..Len(r)
      PROVE  \E j \in 1..Len(s) : j # k /\ r[i] = s[j] /\ j = IF i < k THEN i ELSE i + 1
  BY <1>1
<1>3. ASSUME NEW j \in 1..Len(s), j # k
      PROVE  \E i \in 1..Len(r) : r[i] = s[j]
  <2>1. CASE j < k
    <3>1. j \in 1..Len(r)
      BY <1>1, <2>1
    <3> QED BY <1>1, <2>1, <3>1, Zenon
  <2>2. CASE j > k
    <3>1. j - 1 \in 1..Len(r) /\ ~ (j - 1 < k) /\ (j - 1) + 1 = j
      BY <1>1, <2>2
    <3> QED BY <1>1, <3>1, Zenon
  <2> QED BY <1>1, <1>3, <2>1, <2>2
<1> QED
  BY <1>2, <1>3, Zenon

\* What a list looks like when b has been taken out of it: the head or the
\* element before b points at the one behind it.
LEMMA ListWithout ==
    ASSUME NEW h, NEW n, NEW end, NEW D, NEW S, List(h, n, end, D, S),
           end \notin D, NEW b \in S,
           NEW h2, h2 = IF h = b THEN n[b] ELSE h,
           NEW n2, Unhooked(n, n2, S, b), NEW S2, S2 = S \ {b}
    PROVE  List(h2, n2, end, D, S2)
<1>0. /\ \A q \in S : q # b => n2[q] = IF n[q] = b THEN n[b] ELSE n[q]
      /\ \A q \in S : q # b => q \in S2
      /\ \A q \in S2 : q \in S /\ q # b
  BY Zenon DEF Unhooked
<1>1. PICK s \in Seq(D) : Linked(s, h, n, end) /\ Lists(s, S)
  BY Zenon DEF List
<1>2. PICK k \in 1..Len(s) : s[k] = b
  BY <1>1, Zenon DEF Lists
<1>3. PICK r \in Seq(D) : Without(r, s, k)
  BY DropOne, Zenon
<1>4. \A i, j \in 1..Len(s) : s[i] = s[j] => i = j
  BY <1>1, Zenon DEF Linked
<1>5. \A i \in 1..Len(s) : n[s[i]] = IF i = Len(s) THEN end ELSE s[i + 1]
  BY <1>1, Zenon DEF Linked
<1>6. h = IF Len(s) = 0 THEN end ELSE s[1]
  BY <1>1, Zenon DEF Linked
<1>7. /\ \A i \in 1..Len(r) : \E j \in 1..Len(s) : j # k /\ r[i] = s[j] /\ j = IF i < k THEN i ELSE i + 1
      /\ \A j \in 1..Len(s) : j # k => \E i \in 1..Len(r) : r[i] = s[j]
  BY <1>3, DropIndices, SMTT(60)
<1>8. Lists(r, S2)
  <2>1. ASSUME NEW i \in 1..Len(r) PROVE r[i] \in S2
    <3>1. PICK j \in 1..Len(s) : j # k /\ r[i] = s[j]
      BY <1>7, Zenon
    <3>2. s[j] \in S /\ s[j] # b
      BY <1>1, <1>2, <1>4, <3>1, Zenon DEF Lists
    <3> QED BY <1>0, <3>1, <3>2, Zenon
  <2>2. ASSUME NEW q \in S2 PROVE \E i \in 1..Len(r) : r[i] = q
    <3>1. q \in S /\ q # b
      BY <1>0, <2>2, Zenon
    <3>2. PICK j \in 1..Len(s) : s[j] = q
      BY <1>1, <3>1, Zenon DEF Lists
    <3>3. j # k
      BY <1>2, <3>1, <3>2, Zenon
    <3> QED BY <1>7, <3>2, <3>3, Zenon
  <2> QED BY <2>1, <2>2, Zenon DEF Lists
<1>9. Len(s) \in Nat /\ Len(r) = Len(s) - 1 /\ \A i \in 1..Len(r) : r[i] = IF i < k THEN s[i] ELSE s[i + 1]
  BY <1>3 DEF Without
<1>10. \A p \in D : p # end
  OBVIOUS
<1>11. \A i \in 1..Len(s) : s[i] \in D
  OBVIOUS
<1>12. h2 = IF Len(r) = 0 THEN end ELSE r[1]
  <2>1. h = s[1] /\ 1 \in 1..Len(s)
    <3>1. Len(s) # 0 /\ 1 \in 1..Len(s)
      BY <1>9
    <3> QED BY <1>6, <3>1, Zenon
  <2>2. CASE k = 1
    <3>1. h2 = IF 1 = Len(s) THEN end ELSE s[1 + 1]
      BY <1>2, <1>5, <2>1, <2>2, Zenon
    <3>2. CASE Len(s) = 1
      BY <1>9, <3>1, <3>2
    <3>3. CASE Len(s) # 1
      <4>1. 1 \in 1..Len(r) /\ ~ (1 < k) /\ Len(r) # 0
        BY <1>9, <2>2, <3>3
      <4>2. r[1] = s[1 + 1]
        BY <1>9, <4>1, Zenon
      <4> QED BY <3>1, <3>3, <4>1, <4>2, Zenon
    <3> QED BY <3>2, <3>3, Zenon
  <2>3. CASE k # 1
    <3>1. h # b
      BY <1>2, <1>4, <2>1, <2>3, Zenon
    <3>2. 1 \in 1..Len(r) /\ 1 < k /\ Len(r) # 0
      BY <1>9, <2>3
    <3> QED BY <1>9, <2>1, <3>1, <3>2, Zenon
  <2> QED BY <2>2, <2>3, Zenon
<1>13. ASSUME NEW i \in 1..Len(r) PROVE n2[r[i]] = IF i = Len(r) THEN end ELSE r[i + 1]
  <2>1. PICK j \in 1..Len(s) : j # k /\ r[i] = s[j] /\ j = IF i < k THEN i ELSE i + 1
    BY <1>7, Zenon
  <2>2. s[j] \in S /\ s[j] # b
    BY <1>1, <1>2, <1>4, <2>1, Zenon DEF Lists
  <2>3. n2[r[i]] = IF n[s[j]] = b THEN n[b] ELSE n[s[j]]
    BY <1>0, <2>1, <2>2, Zenon
  <2>4. n[s[j]] = IF j = Len(s) THEN end ELSE s[j + 1]
    BY <1>5, Zenon
  <2>5. n[b] = IF k = Len(s) THEN end ELSE s[k + 1]
    BY <1>2, <1>5, Zenon
  <2>6. CASE j = Len(s)
    <3>1. n[s[j]] = end /\ b # end
      BY <1>2, <1>10, <1>11, <2>4, <2>6, Zenon
    <3>2. i = Len(r)
      BY <1>9, <2>1, <2>6
    <3> QED BY <2>3, <3>1, <3>2, Zenon
  <2>7. CASE j # Len(s)
    <3>1. j + 1 \in 1..Len(s) /\ n[s[j]] = s[j + 1]
      <4>1. j + 1 \in 1..Len(s)
        BY <1>9, <2>7
      <4> QED BY <2>4, <2>7, <4>1, Zenon
    <3>2. CASE j + 1 = k
      <4>1. n2[r[i]] = n[b]
        BY <1>2, <2>3, <3>1, <3>2, Zenon
      <4>2. i = j /\ i + 1 = k
        BY <1>9, <2>1, <3>2
      <4>3. CASE k = Len(s)
        <5>1. i = Len(r)
          BY <1>9, <4>2, <4>3
        <5> QED BY <2>5, <4>1, <4>3, <5>1, Zenon
      <4>4. CASE k # Len(s)
        <5>1. i # Len(r) /\ i + 1 \in 1..Len(r) /\ ~ (i + 1 < k)
          BY <1>9, <4>2, <4>4
        <5>2. r[i + 1] = s[(i + 1) + 1]
          BY <1>9, <5>1, Zenon
        <5>3. r[i + 1] = s[k + 1]
          BY <4>2, <5>2, Zenon
        <5> QED BY <2>5, <4>1, <4>4, <5>1, <5>3, Zenon
      <4> QED BY <4>3, <4>4, Zenon
    <3>3. CASE j + 1 # k
      <4>1. n2[r[i]] = s[j + 1]
        BY <1>2, <1>4, <2>3, <3>1, <3>3, Zenon
      <4>2. i # Len(r) /\ i + 1 \in 1..Len(r)
        BY <1>9, <2>1, <2>7, <3>3
      <4>3. r[i + 1] = s[j + 1]
        <5>1. CASE i < k
          <6>1. j = i /\ i + 1 < k
            BY <1>9, <2>1, <3>3, <5>1
          <6> QED BY <1>9, <4>2, <6>1, Zenon
        <5>2. CASE ~ (i < k)
          <6>1. j = i + 1 /\ ~ (i + 1 < k)
            BY <1>9, <2>1, <5>2
          <6> QED BY <1>9, <4>2, <6>1, Zenon
        <5> QED BY <5>1, <5>2, Zenon
      <4> QED BY <4>1, <4>2, <4>3, Zenon
    <3> QED BY <3>2, <3>3, Zenon
  <2> QED BY <2>6, <2>7, Zenon
<1>14. ASSUME NEW i \in 1..Len(r), NEW j \in 1..Len(r), r[i] = r[j] PROVE i = j
  <2>1. PICK x \in 1..Len(s) : r[i] = s[x] /\ x = IF i < k THEN i ELSE i + 1
    BY <1>7, Zenon
  <2>2. PICK y \in 1..Len(s) : r[j] = s[y] /\ y = IF j < k THEN j ELSE j + 1
    BY <1>7, Zenon
  <2>3. x = y
    BY <1>4, <1>14, <2>1, <2>2, Zenon
  <2> QED BY <1>9, <2>1, <2>2, <2>3
<1>15. Linked(r, h2, n2, end)
  BY <1>12, <1>13, <1>14, ZenonT(60) DEF Linked
<1> QED
  BY <1>8, <1>15, Zenon DEF List

\* An element in front of a list makes a list.
LEMMA ListWith ==
    ASSUME NEW h, NEW n, NEW end, NEW D, NEW S, List(h, n, end, D, S),
           NEW b \in D, b \notin S,
           NEW n2, n2[b] = h, Same(n, n2, S), NEW S2, S2 = S \cup {b}
    PROVE  List(b, n2, end, D, S2)
<1>1. PICK s \in Seq(D) : Linked(s, h, n, end) /\ Lists(s, S)
  BY Zenon DEF List
<1> DEFINE r == <<b>> \o s
<1>2. /\ r \in Seq(D) /\ Len(s) \in Nat /\ Len(r) = Len(s) + 1 /\ r[1] = b
      /\ \A i \in 1..Len(r) : i # 1 => i - 1 \in 1..Len(s) /\ r[i] = s[i - 1]
  OBVIOUS
<1> HIDE DEF r
<1>3. \A i \in 1..Len(s) : s[i] \in S /\ s[i] # b
  BY <1>1, Zenon DEF Lists
<1>4. Lists(r, S2)
  <2>1. ASSUME NEW i \in 1..Len(r) PROVE r[i] \in S2
    <3>1. CASE i = 1
      BY <1>2, <3>1, Zenon
    <3>2. CASE i # 1
      <4>1. i - 1 \in 1..Len(s) /\ r[i] = s[i - 1]
        BY <1>2, <3>2, Zenon
      <4>2. s[i - 1] \in S
        BY <1>3, <4>1, Zenon
      <4> QED BY <4>1, <4>2, Zenon
    <3> QED BY <3>1, <3>2, Zenon
  <2>2. ASSUME NEW q \in S2 PROVE \E i \in 1..Len(r) : r[i] = q
    <3>1. CASE q = b
      <4>1. 1 \in 1..Len(r)
        BY <1>2
      <4> QED BY <1>2, <3>1, <4>1, Zenon
    <3>2. CASE q # b
      <4>1. PICK k \in 1..Len(s) : s[k] = q
        BY <1>1, <2>2, <3>2, Zenon DEF Lists
      <4>2. k + 1 \in 1..Len(r) /\ k + 1 # 1 /\ (k + 1) - 1 = k
        BY <1>2
      <4> QED BY <1>2, <4>1, <4>2, Zenon
    <3> QED BY <3>1, <3>2, Zenon
  <2> QED BY <2>1, <2>2, Zenon DEF Lists
<1>5. Len(r) # 0
  BY <1>2
<1>6. ASSUME NEW i \in 1..Len(r) PROVE n2[r[i]] = IF i = Len(r) THEN end ELSE r[i + 1]
  <2>1. CASE i = 1
    <3>1. n2[r[i]] = IF Len(s) = 0 THEN end ELSE s[1]
      BY <1>1, <1>2, <2>1, Zenon DEF Linked
    <3>2. CASE Len(s) = 0
      <4>1. i = Len(r)
        BY <1>2, <2>1, <3>2
      <4> QED BY <3>1, <3>2, <4>1, Zenon
    <3>3. CASE Len(s) # 0
      <4>1. i # Len(r) /\ i + 1 \in 1..Len(r) /\ i + 1 # 1 /\ (i + 1) - 1 = 1
        BY <1>2, <2>1, <3>3
      <4>2. r[i + 1] = s[1]
        BY <1>2, <4>1, Zenon
      <4> QED BY <3>1, <3>3, <4>1, <4>2, Zenon
    <3> QED BY <3>2, <3>3, Zenon
  <2>2. CASE i # 1
    <3>1. i - 1 \in 1..Len(s) /\ r[i] = s[i - 1]
      BY <1>2, <2>2, Zenon
    <3>2. n2[r[i]] = n[s[i - 1]]
      BY <1>3, <3>1, Zenon DEF Same
    <3>3. n[s[i - 1]] = IF i - 1 = Len(s) THEN end ELSE s[(i - 1) + 1]
      BY <1>1, <3>1, Zenon DEF Linked
    <3>4. (i - 1 = Len(s)) <=> (i = Len(r))
      BY <1>2
    <3>5. CASE i = Len(r)
      BY <3>2, <3>3, <3>4, <3>5, Zenon
    <3>6. CASE i # Len(r)
      <4>1. i + 1 \in 1..Len(r) /\ i + 1 # 1 /\ (i + 1) - 1 = (i - 1) + 1
        BY <1>2, <3>6
      <4>2. r[i + 1] = s[(i - 1) + 1]
        BY <1>2, <4>1, Zenon
      <4> QED BY <3>2, <3>3, <3>4, <3>6, <4>2, Zenon
    <3> QED BY <3>5, <3>6, Zenon
  <2> QED BY <2>1, <2>2, Zenon
<1>7. ASSUME NEW i \in 1..Len(r), NEW j \in 1..Len(r), r[i] = r[j] PROVE i = j
  <2>1. CASE i = 1
    BY <1>2, <1>3, <1>7, <2>1, ZenonT(60)
  <2>2. CASE j = 1
    BY <1>2, <1>3, <1>7, <2>2, ZenonT(60)
  <2>3. CASE i # 1 /\ j # 1
    <3>1. i - 1 \in 1..Len(s) /\ j - 1 \in 1..Len(s) /\ s[i - 1] = s[j - 1]
      BY <1>2, <1>7, <2>3, Zenon
    <3>2. i - 1 = j - 1
      BY <1>1, <3>1, Zenon DEF Linked
    <3> QED BY <1>2, <3>2
  <2> QED BY <2>1, <2>2, <2>3, Zenon
<1>8. Linked(r, b, n2, end)
  BY <1>2, <1>5, <1>6, <1>7, Zenon DEF Linked
<1> QED
  BY <1>2, <1>4, <1>8, Zenon DEF List

\* What is behind the head of a list is a list.
LEMMA ListTail ==
    ASSUME NEW h, NEW n, NEW end, NEW D, NEW S, end \notin D, h # end, List(h, n, end, D, S),
           NEW S2, S2 = S \ {h}
    PROVE  List(n[h], n, end, D, S2)
<1>1. h \in S
  BY ListHead, Zenon
<1>2. Unhooked(n, n, S, h)
  BY ListFirst, Zenon DEF Unhooked
<1>3. n[h] = IF h = h THEN n[h] ELSE h
  OBVIOUS
<1> QED
  BY <1>1, <1>2, <1>3, ListWithout, Zenon

\* Nothing at all is a list.
LEMMA ListNone ==
    ASSUME NEW n, NEW end, NEW D
    PROVE  List(end, n, end, D, {})
<1> DEFINE s == << >>
<1>1. s \in Seq(D) /\ Len(s) = 0 /\ 1..Len(s) = {}
  OBVIOUS
<1> HIDE DEF s
<1>2. Linked(s, end, n, end) /\ Lists(s, {})
  BY <1>1, Zenon DEF Linked, Lists
<1> QED
  BY <1>1, <1>2, Zenon DEF List

\* A list is as long as its set is large.
LEMMA ListLength ==
    ASSUME NEW D, NEW s \in Seq(D), NEW S, Lists(s, S),
           \A i, j \in 1..Len(s) : s[i] = s[j] => i = j
    PROVE  IsFiniteSet(S) /\ Cardinality(S) = Len(s)
<1>1. Len(s) \in Nat /\ 1 \in Int /\ Len(s) \in Int
  OBVIOUS
<1>2. IsFiniteSet(1..Len(s)) /\ Cardinality(1..Len(s)) = Len(s)
  <2>1. IsFiniteSet(1..Len(s)) /\ Cardinality(1..Len(s)) = IF 1 > Len(s) THEN 0 ELSE Len(s) - 1 + 1
    BY <1>1, FS_Interval, SMTT(60)
  <2> QED BY <1>1, <2>1
<1> DEFINE f == [i \in 1..Len(s) |-> s[i]]
<1>3. f \in [1..Len(s) -> S]
  BY Zenon DEF Lists
<1>4. \A i, j \in 1..Len(s) : f[i] = f[j] => i = j
  OBVIOUS
<1>5. \A q \in S : \E i \in 1..Len(s) : f[i] = q
  BY Zenon DEF Lists
<1> HIDE DEF f
<1>6. f \in Bijection(1..Len(s), S)
  BY <1>3, <1>4, <1>5, Zenon DEF Bijection, Injection, Surjection, IsInjective
<1>7. ExistsBijection(1..Len(s), S)
  BY <1>6, Zenon DEF ExistsBijection
<1> QED
  BY <1>2, <1>7, FS_Bijection, Zenon

\* The k-th element of a list, from 0, and end once it is over.
At(s, end, k) == IF k < Len(s) THEN s[k + 1] ELSE end

\* Pointers lead from each to the next.
Leads(s, n, end, D, k) ==
    \/ At(s, end, k - 1) \in D /\ n[At(s, end, k - 1)] = At(s, end, k)
    \/ At(s, end, k - 1) = end /\ At(s, end, k) = end

\* s is a list of elements of D, linked from h on.
Chained(s, h, n, end, D) == s \in Seq(D) /\ end \notin D /\ Linked(s, h, n, end)

\* They do along a list.
LEMMA AtStep ==
    ASSUME NEW s, NEW h, NEW n, NEW end, NEW D, Chained(s, h, n, end, D), NEW k \in Nat \ {0}
    PROVE  Leads(s, n, end, D, k)
<1> USE DEF Chained, Leads
<1>1. s \in Seq(D) /\ Len(s) \in Nat
  OBVIOUS
<1>2. CASE k - 1 < Len(s)
  <2>1. k \in 1..Len(s) /\ (k - 1) + 1 = k /\ s[k] \in D /\ (k = Len(s) <=> ~ (k < Len(s)))
    BY <1>1, <1>2
  <2>2. At(s, end, k - 1) = s[k]
    BY <1>2, <2>1, Zenon DEF At
  <2>3. n[s[k]] = IF k = Len(s) THEN end ELSE s[k + 1]
    BY <2>1, Zenon DEF Linked
  <2>4. At(s, end, k) = IF k = Len(s) THEN end ELSE s[k + 1]
    BY <2>1, Zenon DEF At
  <2> QED BY <2>1, <2>2, <2>3, <2>4, Zenon
<1>3. CASE ~ (k - 1 < Len(s))
  <2>1. ~ (k < Len(s))
    BY <1>1, <1>3
  <2> QED BY <1>3, <2>1, Zenon DEF At
<1> QED BY <1>2, <1>3, Zenon

\* g goes from h along the pointers.
Follows(g, h, n, end, D, N) ==
    /\ g[0] = h
    /\ \A k \in 1..N : (g[k - 1] \in D => g[k] = n[g[k - 1]]) /\ (g[k - 1] = end => g[k] = end)

\* A walk from the head along the pointers meets the elements in order.
LEMMA Walk ==
    ASSUME NEW s, NEW h, NEW n, NEW end, NEW D, Chained(s, h, n, end, D),
           NEW N \in Nat, NEW g, Follows(g, h, n, end, D, N)
    PROVE  \A k \in 0..N : g[k] = At(s, end, k)
<1> USE DEF Chained, Follows
<1> DEFINE T == {k \in 0..N : g[k] # At(s, end, k)}
<1> SUFFICES ASSUME T # {} PROVE FALSE
  BY Zenon
<1>1. T \subseteq Nat
  OBVIOUS
<1>2. PICK x \in T : \A y \in T : x <= y
  BY <1>1, LeastNumber, Zenon
<1>3. x \in 0..N /\ g[x] # At(s, end, x)
  BY <1>2, Zenon
<1>4. g[0] = At(s, end, 0)
  <2>1. 0 < Len(s) <=> Len(s) # 0
    OBVIOUS
  <2>2. 0 + 1 = 1
    OBVIOUS
  <2> QED BY <2>1, <2>2, Zenon DEF At, Linked
<1>5. x # 0
  BY <1>3, <1>4, Zenon
<1>6. x \in 1..N /\ x \in Nat \ {0} /\ x - 1 \in 0..N /\ ~ (x <= x - 1)
  BY <1>3, <1>5
<1>7. g[x - 1] = At(s, end, x - 1)
  BY <1>2, <1>6, Zenon
<1>8. Leads(s, n, end, D, x)
  BY <1>6, AtStep, Zenon
<1> QED
  BY <1>3, <1>6, <1>7, <1>8, Zenon DEF Leads

\* The slabs reached from a head are those of its list.
LEMMA ChainIs ==
    ASSUME NEW h, NEW S, List(h, next, NULL, Slabs, S)
    PROVE  Chain(h) = S
<1>1. PICK s \in Seq(Slabs) : Linked(s, h, next, NULL) /\ Lists(s, S)
  BY Zenon DEF List
<1> DEFINE N == Cardinality(Slabs)
           Run(g) == g = [k \in 0..N |-> IF k = 0 THEN h ELSE
                                         IF g[k - 1] = NULL THEN NULL ELSE next[g[k - 1]]]
           node == CHOOSE g : Run(g)
<1>2. \A i, j \in 1..Len(s) : s[i] = s[j] => i = j
  BY <1>1, Zenon DEF Linked
<1>3. IsFiniteSet(Slabs) /\ NULL \notin Slabs /\ Chained(s, h, next, NULL, Slabs)
  BY <1>1, SlabAssumption, Zenon DEF NULL, Chained
<1>4. N \in Nat /\ Len(s) \in Nat /\ Len(s) <= N
  <2>1. IsFiniteSet(S) /\ Cardinality(S) = Len(s)
    BY <1>1, <1>2, ListLength, Zenon
  <2>2. \A i \in 1..Len(s) : s[i] \in Slabs
    OBVIOUS
  <2>3. S \subseteq Slabs
    BY <1>1, <2>2, Zenon DEF Lists
  <2>4. Cardinality(S) <= Cardinality(Slabs) /\ Cardinality(Slabs) \in Nat
    BY <1>3, <2>3, FS_Subset, FS_CardinalityType, Zenon
  <2> QED BY <2>1, <2>4
<1>5. \E g : Run(g)
  <2> DEFINE g == [k \in 0..N |-> At(s, NULL, k)]
  <2>1. ASSUME NEW k \in 0..N
        PROVE  g[k] = IF k = 0 THEN h ELSE IF g[k - 1] = NULL THEN NULL ELSE next[g[k - 1]]
    <3>1. CASE k = 0
      <4>1. (0 < Len(s) <=> Len(s) # 0) /\ 0 + 1 = 1
        BY <1>4
      <4>2. At(s, NULL, 0) = h
        BY <1>1, <4>1, Zenon DEF At, Linked
      <4> QED BY <3>1, <4>2, Zenon
    <3>2. CASE k # 0
      <4>1. k \in Nat \ {0} /\ k - 1 \in 0..N
        BY <1>4, <3>2
      <4>2. Leads(s, next, NULL, Slabs, k)
        BY <1>3, <4>1, AtStep, Zenon
      <4>3. g[k - 1] = At(s, NULL, k - 1) /\ g[k] = At(s, NULL, k)
        BY <4>1, Zenon
      <4> QED BY <1>3, <3>2, <4>2, <4>3, Zenon DEF Leads
    <3> QED BY <3>1, <3>2, Zenon
  <2>2. Run(g)
    BY <2>1, Zenon
  <2> QED BY <2>2, Zenon
<1>6. Run(node)
  BY <1>5, Zenon
<1>7. Chain(h) = {node[k] : k \in 0..N} \ {NULL}
  BY Zenon DEF Chain
<1>8. \A k \in 0..N : node[k] = IF k = 0 THEN h ELSE
                                IF node[k - 1] = NULL THEN NULL ELSE next[node[k - 1]]
  BY <1>6, Zenon
<1> HIDE DEF node
<1>9. 0 \in 0..N /\ \A k \in 1..N : k \in 0..N /\ k # 0
  BY <1>4
<1>10. node[0] = h /\ \A k \in 1..N : /\ node[k - 1] \in Slabs => node[k] = next[node[k - 1]]
                                      /\ node[k - 1] = NULL => node[k] = NULL
  BY <1>3, <1>8, <1>9, Zenon
<1> HIDE DEF N
<1>11. \A k \in 0..N : node[k] = At(s, NULL, k)
  <2>1. Follows(node, h, next, NULL, Slabs, N)
    BY <1>10, Zenon DEF Follows
  <2> QED BY <1>3, <1>4, <2>1, Walk
<1>12. ASSUME NEW q \in Chain(h) PROVE q \in S
  <2>1. PICK k \in 0..N : q = At(s, NULL, k) /\ q # NULL
    BY <1>7, <1>11, Zenon
  <2>2. k < Len(s) /\ q = s[k + 1]
    BY <2>1, Zenon DEF At
  <2>3. k + 1 \in 1..Len(s)
    BY <1>4, <2>1, <2>2
  <2> QED BY <1>1, <2>2, <2>3, Zenon DEF Lists
<1>13. ASSUME NEW q \in S PROVE q \in Chain(h)
  <2>1. PICK i \in 1..Len(s) : s[i] = q
    BY <1>1, Zenon DEF Lists
  <2>2. i - 1 \in 0..N /\ i - 1 < Len(s) /\ (i - 1) + 1 = i /\ s[i] \in Slabs
    BY <1>4
  <2>3. At(s, NULL, i - 1) = q /\ q # NULL
    BY <1>3, <2>1, <2>2, Zenon DEF At
  <2> QED BY <1>7, <1>11, <2>2, <2>3, Zenon
<1> QED
  BY <1>12, <1>13, Zenon

\* The indices of objects; ObjectNum is the sentinel.
Objects == 0..(ObjectNum - 1)

\* What FreeListSound says of one slab, from its free list.
LEMMA FreeIs ==
    ASSUME NEW t \in Slabs, NEW O, List(free[t], free_list[t], ObjectNum, Objects, O)
    PROVE  LET path == FreeObjects(t)
           IN  /\ path[Cardinality(O)] = ObjectNum
               /\ O = {path[k] : k \in 0..(Cardinality(O) - 1)}
<1>1. PICK s \in Seq(Objects) : Linked(s, free[t], free_list[t], ObjectNum) /\ Lists(s, O)
  BY Zenon DEF List
<1> DEFINE n == free_list[t]
           Run(g) == g = [k \in Indices |-> IF k = 0 THEN free[t] ELSE
                             IF g[k - 1] \in 0..(ObjectNum - 1) THEN free_list[t][g[k - 1]] ELSE g[k - 1]]
           node == CHOOSE g : Run(g)
<1>2. \A i, j \in 1..Len(s) : s[i] = s[j] => i = j
  BY <1>1, Zenon DEF Linked
<1>3. /\ ObjectNum \in Nat /\ ObjectNum \notin Objects /\ Indices = 0..ObjectNum
      /\ Chained(s, free[t], n, ObjectNum, Objects)
  <2>1. ObjectNum \in Nat /\ ObjectNum \notin Objects /\ Indices = 0..ObjectNum
    BY SlabAssumption DEF Objects, Indices
  <2> QED BY <1>1, <2>1, Zenon DEF Chained
<1>4. Len(s) \in Nat /\ Len(s) <= ObjectNum /\ Cardinality(O) = Len(s)
  <2>1. IsFiniteSet(O) /\ Cardinality(O) = Len(s)
    BY <1>1, <1>2, ListLength, Zenon
  <2>2. \A i \in 1..Len(s) : s[i] \in Objects
    OBVIOUS
  <2>3. O \subseteq Objects
    BY <1>1, <2>2, Zenon DEF Lists
  <2>4. 0 \in Int /\ ObjectNum - 1 \in Int
    BY <1>3
  <2>5. IsFiniteSet(0..(ObjectNum - 1))
        /\ Cardinality(0..(ObjectNum - 1)) = IF 0 > ObjectNum - 1 THEN 0 ELSE (ObjectNum - 1) - 0 + 1
    BY <2>4, FS_Interval, SMTT(60)
  <2>6. IsFiniteSet(Objects) /\ Cardinality(Objects) = ObjectNum
    BY <1>3, <2>5 DEF Objects
  <2>7. Cardinality(O) <= Cardinality(Objects)
    BY <2>3, <2>6, FS_Subset, Zenon
  <2> QED BY <1>3, <2>1, <2>6, <2>7
<1>5. \E g : Run(g)
  <2> DEFINE g == [k \in Indices |-> At(s, ObjectNum, k)]
  <2>1. ASSUME NEW k \in Indices
        PROVE  g[k] = IF k = 0 THEN free[t] ELSE
                      IF g[k - 1] \in 0..(ObjectNum - 1) THEN free_list[t][g[k - 1]] ELSE g[k - 1]
    <3>1. CASE k = 0
      <4>1. (0 < Len(s) <=> Len(s) # 0) /\ 0 + 1 = 1
        BY <1>4
      <4>2. At(s, ObjectNum, 0) = free[t]
        BY <1>1, <4>1, Zenon DEF At, Linked
      <4> QED BY <3>1, <4>2, Zenon
    <3>2. CASE k # 0
      <4>1. k \in Nat \ {0} /\ k - 1 \in Indices
        BY <1>3, <3>2
      <4>2. Leads(s, n, ObjectNum, Objects, k)
        BY <1>3, <4>1, AtStep, Zenon
      <4>3. g[k - 1] = At(s, ObjectNum, k - 1) /\ g[k] = At(s, ObjectNum, k)
        BY <4>1, Zenon
      <4> QED BY <1>3, <3>2, <4>2, <4>3, Zenon DEF Leads, Objects
    <3> QED BY <3>1, <3>2, Zenon
  <2>2. Run(g)
    BY <2>1, Zenon
  <2> QED BY <2>2, Zenon
<1>6. Run(node)
  BY <1>5, Zenon
<1>7. FreeObjects(t) = [k \in Indices |-> node[k]]
  BY Zenon DEF FreeObjects
<1>8. \A k \in Indices : node[k] = IF k = 0 THEN free[t] ELSE
                             IF node[k - 1] \in Objects THEN n[node[k - 1]] ELSE node[k - 1]
  BY <1>6, Zenon DEF Objects
<1> HIDE DEF node
<1>9. 0 \in Indices /\ \A k \in 1..ObjectNum : k \in Indices /\ k # 0
  BY <1>3
<1>10. node[0] = free[t] /\ \A k \in 1..ObjectNum :
                               /\ node[k - 1] \in Objects => node[k] = n[node[k - 1]]
                               /\ node[k - 1] = ObjectNum => node[k] = ObjectNum
  BY <1>3, <1>8, <1>9, Zenon
<1>11. \A k \in 0..ObjectNum : node[k] = At(s, ObjectNum, k)
  <2>1. Follows(node, free[t], n, ObjectNum, Objects, ObjectNum)
    BY <1>10, Zenon DEF Follows
  <2> QED BY <1>3, <2>1, Walk
<1>12. \A k \in 0..ObjectNum : FreeObjects(t)[k] = At(s, ObjectNum, k)
  BY <1>3, <1>7, <1>11, Zenon
<1> DEFINE path == FreeObjects(t)
<1> HIDE DEF path
<1>13. path[Len(s)] = ObjectNum
  <2>1. Len(s) \in 0..ObjectNum /\ ~ (Len(s) < Len(s))
    BY <1>3, <1>4
  <2> QED BY <1>12, <2>1, Zenon DEF At, path
<1>14. \A k \in 0..(Len(s) - 1) : k + 1 \in 1..Len(s) /\ path[k] = s[k + 1]
  <2>1. \A k \in 0..(Len(s) - 1) : k + 1 \in 1..Len(s) /\ k < Len(s) /\ k \in 0..ObjectNum
    BY <1>3, <1>4
  <2> QED BY <1>12, <2>1, Zenon DEF At, path
<1>15. \A i \in 1..Len(s) : i - 1 \in 0..(Len(s) - 1) /\ (i - 1) + 1 = i
  BY <1>4
<1>16. \A i \in 1..Len(s) : path[i - 1] = s[i]
  BY <1>14, <1>15
<1>17. O = {path[k] : k \in 0..(Len(s) - 1)}
  <2>1. ASSUME NEW q \in O PROVE q \in {path[k] : k \in 0..(Len(s) - 1)}
    BY <1>1, <1>15, <1>16, Zenon DEF Lists
  <2>2. ASSUME NEW k \in 0..(Len(s) - 1) PROVE path[k] \in O
    BY <1>1, <1>14, Zenon DEF Lists
  <2> QED BY <2>1, <2>2, Zenon
<1> QED
  BY <1>4, <1>13, <1>17, Zenon DEF path

\* From a list, a pointer leads to another of its elements or to its end.
LEMMA ListNext ==
    ASSUME NEW h, NEW n, NEW end, NEW D, NEW S, List(h, n, end, D, S), NEW q \in S
    PROVE  n[q] \in D \cup {end} /\ q \in D
<1>1. PICK s \in Seq(D) : Linked(s, h, n, end) /\ Lists(s, S)
  BY Zenon DEF List
<1>2. PICK i \in 1..Len(s) : s[i] = q
  BY <1>1, Zenon DEF Lists
<1>3. n[q] = IF i = Len(s) THEN end ELSE s[i + 1]
  BY <1>1, <1>2, Zenon DEF Linked
<1>4. s[i] \in D /\ (i # Len(s) => s[i + 1] \in D)
  OBVIOUS
<1> QED
  BY <1>2, <1>3, <1>4, Zenon

\* The free list slab_new writes holds every object.
LEMMA NewList == List(0, slab_new, ObjectNum, Objects, Objects)
<1> DEFINE s == [i \in 1..ObjectNum |-> i - 1]
<1>1. ObjectNum \in Nat /\ ObjectNum # 0
  BY SlabAssumption
<1>2. s \in Seq(Objects)
  BY <1>1 DEF Objects
<1>3. Len(s) = ObjectNum
  BY <1>1
<1>4. \A i \in 1..ObjectNum : s[i] = i - 1 /\ s[i] \in Objects
  BY <1>1 DEF Objects
<1>5. \A q \in Objects : q + 1 \in 1..ObjectNum /\ (q + 1) - 1 = q
  BY <1>1 DEF Objects
<1> HIDE DEF s
<1>6. Lists(s, Objects)
  <2>1. ASSUME NEW q \in Objects PROVE \E i \in 1..Len(s) : s[i] = q
    <3>1. s[q + 1] = q
      BY <1>4, <1>5
    <3> QED BY <1>3, <1>5, <3>1, Zenon
  <2> QED BY <1>3, <1>4, <2>1, Zenon DEF Lists
<1>7. ASSUME NEW i \in 1..Len(s) PROVE slab_new[s[i]] = IF i = Len(s) THEN ObjectNum ELSE s[i + 1]
  <2>1. s[i] = i - 1 /\ s[i] \in Indices /\ s[i] < ObjectNum
    BY <1>1, <1>3, <1>4 DEF Indices
  <2>2. slab_new[s[i]] = i
    BY <2>1 DEF slab_new
  <2>3. i # Len(s) => s[i + 1] = i
    BY <1>1, <1>3, <1>4
  <2> QED BY <1>3, <2>2, <2>3
<1>8. \A i, j \in 1..Len(s) : s[i] = s[j] => i = j
  BY <1>1, <1>3, <1>4
<1>9. 0 = IF Len(s) = 0 THEN ObjectNum ELSE s[1]
  BY <1>1, <1>3, <1>4
<1>10. Linked(s, 0, slab_new, ObjectNum)
  BY <1>7, <1>8, <1>9, Zenon DEF Linked
<1> QED
  BY <1>2, <1>6, <1>10, Zenon DEF List

-----------------------------------------------------------------------------
(* The inductive invariant *)

\* The objects of slab s that nobody holds, when callers hold H.
FreeIn(H, c, s) == {i \in Objects : <<s, i>> \notin H[c]}

\* P[c] and F[c] are the slabs on the lists of cache c.
Listed(P, F) ==
    \A c \in Caches : /\ List(partial[c], next, NULL, Slabs, P[c])
                      /\ List(full[c], next, NULL, Slabs, F[c])

\* No slab is on two lists,
Apart(P, F) ==
    \A c, d \in Caches : /\ P[c] \cap F[d] = {}
                         /\ c # d => P[c] \cap P[d] = {} /\ F[c] \cap F[d] = {}

\* the slabs taken are on one, of a live cache,
Owned(P, F) ==
    /\ \A s \in Slabs : s \in taken <=> \E c \in Caches : s \in P[c] \cup F[c]
    /\ \A c \in Caches : c \notin live => P[c] = {} /\ F[c] = {}

\* the free list of a slab holds the objects nobody holds,
Threaded(P, F) ==
    \A c \in Caches : \A s \in P[c] \cup F[c] :
        /\ List(free[s], free_list[s], ObjectNum, Objects, FreeIn(held, c, s))
        /\ free_list[s][ObjectNum] = SLAB_FREE_END

\* slabs_partial holds those with a free object and slabs_full the others,
Sorted(P, F) ==
    \A c \in Caches : /\ \A s \in P[c] : FreeIn(held, c, s) # {}
                      /\ \A s \in F[c] : FreeIn(held, c, s) = {}

\* and callers hold objects of these slabs.
Backed(P, F) ==
    \A c \in Caches : \A s \in Slabs, i \in Objects : <<s, i>> \in held[c] => s \in P[c] \cup F[c]

\* All of it, for the slabs P and F of the lists.
Placed(P, F) ==
    /\ P \in [Caches -> SUBSET Slabs] /\ F \in [Caches -> SUBSET Slabs]
    /\ Listed(P, F) /\ Apart(P, F) /\ Owned(P, F)
    /\ Threaded(P, F) /\ Sorted(P, F) /\ Backed(P, F)

\* The inductive invariant of SlabsSound: the walks of the properties are
\* replaced by the sets that they visit.
IInv == TypeOK /\ ~broken /\ \E P, F : Placed(P, F)

\* It says what SlabsSound does.
LEMMA PlacedIsSound == ASSUME IInv PROVE SlabsSound
<1>1. PICK P, F : Placed(P, F)
  BY Zenon DEF IInv
<1>2. \A c \in Caches : Chain(partial[c]) = P[c] /\ Chain(full[c]) = F[c]
  BY <1>1, ChainIs, Zenon DEF Placed, Listed
<1>3. TypeOK /\ ~broken /\ live \subseteq Caches
  BY Zenon DEF IInv, TypeOK
<1>4. FreeListSound
  <2> SUFFICES ASSUME NEW c \in live, NEW s \in Chain(full[c]) \cup Chain(partial[c])
               PROVE  LET path == FreeObjects(s)
                          objects == {i \in 0..(ObjectNum - 1) : <<s, i>> \notin held[c]}
                      IN  /\ path[Cardinality(objects)] = ObjectNum
                          /\ objects = {path[k] : k \in 0..(Cardinality(objects) - 1)}
    BY Zenon DEF FreeListSound
  <2>1. c \in Caches /\ s \in P[c] \cup F[c] /\ s \in Slabs
    BY <1>1, <1>2, <1>3 DEF Placed
  <2>2. List(free[s], free_list[s], ObjectNum, Objects, FreeIn(held, c, s))
    BY <1>1, <2>1, Zenon DEF Placed, Threaded
  <2>3. LET path == FreeObjects(s)
        IN  /\ path[Cardinality(FreeIn(held, c, s))] = ObjectNum
            /\ FreeIn(held, c, s) = {path[k] : k \in 0..(Cardinality(FreeIn(held, c, s)) - 1)}
    BY <2>1, <2>2, FreeIs, Zenon
  <2>4. FreeIn(held, c, s) = {i \in 0..(ObjectNum - 1) : <<s, i>> \notin held[c]}
    BY Zenon DEF FreeIn, Objects
  <2> QED BY <2>3, <2>4, Zenon
<1>5. /\ \A c \in Caches : Chain(partial[c]) \cap Chain(full[c]) = {}
      /\ \A c, d \in Caches : c # d =>
          (Chain(partial[c]) \cup Chain(full[c])) \cap (Chain(partial[d]) \cup Chain(full[d])) = {}
  <2>1. ASSUME NEW c \in Caches PROVE P[c] \cap F[c] = {}
    BY <1>1, Zenon DEF Placed, Apart
  <2>2. ASSUME NEW c \in Caches, NEW d \in Caches, c # d
        PROVE  (P[c] \cup F[c]) \cap (P[d] \cup F[d]) = {}
    <3>1. P[c] \cap P[d] = {} /\ F[c] \cap F[d] = {} /\ P[c] \cap F[d] = {} /\ P[d] \cap F[c] = {}
      BY <1>1, <2>2, Zenon DEF Placed, Apart
    <3> QED BY <3>1
  <2> QED BY <1>2, <2>1, <2>2, Zenon
<1>6. taken = UNION {Chain(partial[c]) \cup Chain(full[c]) : c \in live}
  <2>1. \A s \in Slabs : s \in taken <=> \E c \in live : s \in P[c] \cup F[c]
    BY <1>1, <1>3, Zenon DEF Placed, Owned
  <2>2. taken \subseteq Slabs /\ \A c \in live : P[c] \subseteq Slabs /\ F[c] \subseteq Slabs
    BY <1>1, <1>3 DEF Placed, TypeOK
  <2>3. \A c \in live : Chain(partial[c]) \cup Chain(full[c]) = P[c] \cup F[c]
    BY <1>2, <1>3, Zenon
  <2>4. \A x : x \in taken <=> \E c \in live : x \in P[c] \cup F[c]
    BY <2>1, <2>2, Zenon
  <2>5. \A x : x \in UNION {Chain(partial[c]) \cup Chain(full[c]) : c \in live}
                 <=> \E c \in live : x \in P[c] \cup F[c]
    BY <2>3, Zenon
  <2> QED BY <2>4, <2>5, Zenon
<1>7. ASSUME NEW c \in live
      PROVE  /\ \A s \in Chain(partial[c]) : \E i \in 0..(ObjectNum - 1) : <<s, i>> \notin held[c]
             /\ \A s \in Chain(full[c]) : \A i \in 0..(ObjectNum - 1) : <<s, i>> \in held[c]
             /\ \A o \in held[c] : o[1] \in Chain(partial[c]) \cup Chain(full[c])
  <2>1. c \in Caches /\ Chain(partial[c]) = P[c] /\ Chain(full[c]) = F[c]
    BY <1>2, <1>3, Zenon
  <2>2. /\ \A s \in P[c] : \E i \in 0..(ObjectNum - 1) : <<s, i>> \notin held[c]
        /\ \A s \in F[c] : \A i \in 0..(ObjectNum - 1) : <<s, i>> \in held[c]
    BY <1>1, <2>1, Zenon DEF Placed, Sorted, FreeIn, Objects
  <2>3. ASSUME NEW o \in held[c] PROVE o[1] \in P[c] \cup F[c]
    <3>1. held[c] \subseteq Slabs \X Objects
      BY <1>3, <2>1 DEF TypeOK, Objects
    <3>2. PICK s \in Slabs, i \in Objects : o = <<s, i>>
      BY <3>1
    <3>3. s \in P[c] \cup F[c]
      BY <1>1, <2>1, <2>3, <3>2, Zenon DEF Placed, Backed
    <3> QED BY <3>2, <3>3
  <2> QED BY <2>1, <2>2, <2>3, Zenon
<1> QED
  BY <1>3, <1>4, <1>5, <1>6, <1>7, Zenon DEF SlabsSound, SlabsAccounted

\* In the next state only slab h moved: it is on the list of c that filled says.
Moved(P, F, P2, F2, c, h, isfull) ==
    /\ P2 \in [Caches -> SUBSET Slabs] /\ F2 \in [Caches -> SUBSET Slabs]
    /\ \A d \in Caches : \A s \in Slabs :
          s # h => (s \in P2[d] <=> s \in P[d]) /\ (s \in F2[d] <=> s \in F[d])
    /\ \A d \in Caches : (h \in P2[d] <=> d = c /\ ~isfull) /\ (h \in F2[d] <=> d = c /\ isfull)
    /\ \A d \in Caches : d # c => h \notin P[d] \cup F[d]

\* Only objects of slab h changed hands, and its free list tells which are left.
Handed(c, h, isfull) ==
    /\ \A d \in Caches : \A s \in Slabs : d # c \/ s # h => FreeIn(held', d, s) = FreeIn(held, d, s)
    /\ \A s \in Slabs : s # h => free'[s] = free[s] /\ free_list'[s] = free_list[s]
    /\ List(free'[h], free_list'[h], ObjectNum, Objects, FreeIn(held', c, h))
    /\ free_list'[h][ObjectNum] = SLAB_FREE_END
    /\ isfull <=> FreeIn(held', c, h) = {}

\* What both slab_cache_alloc and slab_cache_free come to.
LEMMA MovedIsPlaced ==
    ASSUME NEW P, NEW F, Placed(P, F), NEW P2, NEW F2, NEW c \in live, c \in Caches, NEW h \in Slabs,
           NEW isfull \in BOOLEAN, Moved(P, F, P2, F2, c, h, isfull), Handed(c, h, isfull),
           taken' = taken \cup {h}, live' = live,
           Listed(P2, F2)'
    PROVE  Placed(P2, F2)'
<1>1. /\ P \in [Caches -> SUBSET Slabs] /\ F \in [Caches -> SUBSET Slabs]
      /\ P2 \in [Caches -> SUBSET Slabs] /\ F2 \in [Caches -> SUBSET Slabs]
  BY Zenon DEF Placed, Moved
<1>2. \A d \in Caches : P[d] \subseteq Slabs /\ F[d] \subseteq Slabs /\ P2[d] \subseteq Slabs /\ F2[d] \subseteq Slabs
  BY <1>1
<1>3. /\ \A d \in Caches : \A s \in Slabs :
            s # h => (s \in P2[d] <=> s \in P[d]) /\ (s \in F2[d] <=> s \in F[d])
      /\ \A d \in Caches : (h \in P2[d] <=> d = c /\ ~isfull) /\ (h \in F2[d] <=> d = c /\ isfull)
  BY Zenon DEF Moved
<1>4. Apart(P2, F2)'
  <2> SUFFICES ASSUME NEW d \in Caches, NEW e \in Caches
               PROVE  /\ P2[d] \cap F2[e] = {}
                      /\ d # e => P2[d] \cap P2[e] = {} /\ F2[d] \cap F2[e] = {}
    BY Zenon DEF Apart
  <2>1. /\ P[d] \cap F[e] = {}
        /\ d # e => P[d] \cap P[e] = {} /\ F[d] \cap F[e] = {}
    BY Zenon DEF Placed, Apart
  <2>2. P2[d] \cap F2[e] = {}
    BY <1>2, <1>3, <2>1, ZenonT(60)
  <2>3. ASSUME d # e PROVE P2[d] \cap P2[e] = {} /\ F2[d] \cap F2[e] = {}
    <3>1. ASSUME NEW s \in P2[d], s \in P2[e] PROVE FALSE
      <4>1. s # h /\ s \in Slabs
        BY <1>2, <1>3, <2>3, <3>1, Zenon
      <4> QED BY <1>3, <2>1, <2>3, <3>1, <4>1, Zenon
    <3>2. ASSUME NEW s \in F2[d], s \in F2[e] PROVE FALSE
      <4>1. s # h /\ s \in Slabs
        BY <1>2, <1>3, <2>3, <3>2, Zenon
      <4> QED BY <1>3, <2>1, <2>3, <3>2, <4>1, Zenon
    <3> QED BY <3>1, <3>2, Zenon
  <2> QED BY <2>2, <2>3, Zenon
<1>5. Owned(P2, F2)'
  <2>1. ASSUME NEW s \in Slabs PROVE s \in taken' <=> \E d \in Caches : s \in P2[d] \cup F2[d]
    <3>1. CASE s = h
      BY <1>3, <3>1, Zenon
    <3>2. CASE s # h
      <4>1. s \in taken <=> \E d \in Caches : s \in P[d] \cup F[d]
        BY Zenon DEF Placed, Owned
      <4> QED BY <1>3, <3>2, <4>1, Zenon
    <3> QED BY <3>1, <3>2, Zenon
  <2>2. ASSUME NEW d \in Caches, d \notin live' PROVE P2[d] = {} /\ F2[d] = {}
    <3>1. d # c /\ P[d] = {} /\ F[d] = {}
      BY <2>2, Zenon DEF Placed, Owned
    <3> QED BY <1>2, <1>3, <3>1, Zenon
  <2> QED BY <2>1, <2>2, Zenon DEF Owned
<1>6. ASSUME NEW d \in Caches, NEW s \in P2[d] \cup F2[d]
      PROVE  /\ s \in Slabs /\ (s = h => d = c)
             /\ s # h => /\ s \in P[d] \cup F[d] /\ free'[s] = free[s] /\ free_list'[s] = free_list[s]
                         /\ FreeIn(held', d, s) = FreeIn(held, d, s)
  <2>1. s \in Slabs
    BY <1>2, Zenon
  <2> QED BY <1>3, <2>1, Zenon DEF Handed
<1>7. Threaded(P2, F2)'
  <2> SUFFICES ASSUME NEW d \in Caches, NEW s \in P2[d] \cup F2[d]
               PROVE  /\ List(free'[s], free_list'[s], ObjectNum, Objects, FreeIn(held', d, s))
                      /\ free_list'[s][ObjectNum] = SLAB_FREE_END
    BY Zenon DEF Threaded
  <2>1. CASE s = h
    <3>1. d = c
      BY <1>6, <2>1, Zenon
    <3> QED BY <2>1, <3>1, Zenon DEF Handed
  <2>2. CASE s # h
    <3>1. /\ s \in P[d] \cup F[d] /\ free'[s] = free[s] /\ free_list'[s] = free_list[s]
          /\ FreeIn(held', d, s) = FreeIn(held, d, s)
      BY <1>6, <2>2, Zenon
    <3>2. List(free[s], free_list[s], ObjectNum, Objects, FreeIn(held, d, s))
          /\ free_list[s][ObjectNum] = SLAB_FREE_END
      BY <3>1, Zenon DEF Placed, Threaded
    <3> QED BY <3>1, <3>2, Zenon
  <2> QED BY <2>1, <2>2, Zenon
<1>8. Sorted(P2, F2)'
  <2>1. ASSUME NEW d \in Caches, NEW s \in P2[d] PROVE FreeIn(held', d, s) # {}
    <3>1. CASE s = h
      BY <1>3, <3>1, Zenon DEF Handed
    <3>2. CASE s # h
      <4>1. s \in P[d] /\ FreeIn(held', d, s) = FreeIn(held, d, s)
        BY <1>2, <1>3, <1>6, <3>2, Zenon
      <4> QED BY <4>1, Zenon DEF Placed, Sorted
    <3> QED BY <3>1, <3>2, Zenon
  <2>2. ASSUME NEW d \in Caches, NEW s \in F2[d] PROVE FreeIn(held', d, s) = {}
    <3>1. CASE s = h
      BY <1>3, <3>1, Zenon DEF Handed
    <3>2. CASE s # h
      <4>1. s \in F[d] /\ FreeIn(held', d, s) = FreeIn(held, d, s)
        BY <1>2, <1>3, <1>6, <3>2, Zenon
      <4> QED BY <4>1, Zenon DEF Placed, Sorted
    <3> QED BY <3>1, <3>2, Zenon
  <2> QED BY <2>1, <2>2, Zenon DEF Sorted
<1>9. Backed(P2, F2)'
  <2> SUFFICES ASSUME NEW d \in Caches, NEW s \in Slabs, NEW i \in Objects, <<s, i>> \in held'[d]
               PROVE  s \in P2[d] \cup F2[d]
    BY Zenon DEF Backed
  <2>1. CASE d = c /\ s = h
    BY <1>3, <2>1, Zenon
  <2>2. CASE d # c \/ s # h
    <3>1. i \notin FreeIn(held', d, s)
      BY Zenon DEF FreeIn
    <3>2. i \notin FreeIn(held, d, s)
      BY <2>2, <3>1, Zenon DEF Handed
    <3>3. s \in P[d] \cup F[d]
      BY <3>2, Zenon DEF FreeIn, Placed, Backed
    <3>4. CASE s # h
      BY <1>3, <3>3, <3>4, Zenon
    <3>5. CASE s = h
      <4>1. d # c
        BY <2>2, <3>5, Zenon
      <4> QED BY <3>3, <3>5, <4>1, Zenon DEF Moved
    <3> QED BY <3>4, <3>5, Zenon
  <2> QED BY <2>1, <2>2, Zenon
<1> QED
  BY <1>1, <1>4, <1>5, <1>7, <1>8, <1>9, Zenon DEF Placed

\* The parts of slab_cache_alloc: the object, the slabs behind h and the free list.
AllocIndex(c, h) == IF partial[c] = NULL THEN 0 ELSE free[h]
AllocAfter(c, h) == IF partial[c] = NULL THEN NULL ELSE next[h]
AllocOld(c, h) == IF partial[c] = NULL THEN slab_new ELSE free_list[h]
AllocList(c, h) == [AllocOld(c, h) EXCEPT ![AllocIndex(c, h)] = SLAB_FREE_END]

\* slab_cache_alloc takes the first object from h.
AllocFrom(c, h) ==
    /\ IF partial[c] = NULL THEN h \notin taken ELSE h = partial[c]
    /\ taken' = taken \cup {h}
    /\ free_list' = [free_list EXCEPT ![h] = AllocList(c, h)]
    /\ free' = [free EXCEPT ![h] = AllocOld(c, h)[AllocIndex(c, h)]]
    /\ held' = [held EXCEPT ![c] = @ \cup {<<h, AllocIndex(c, h)>>}]
    /\ IF filled(AllocList(c, h), AllocOld(c, h)[AllocIndex(c, h)])
       THEN /\ partial' = [partial EXCEPT ![c] = AllocAfter(c, h)]
            /\ full' = [full EXCEPT ![c] = h]
            /\ next' = [next EXCEPT ![h] = full[c]]
       ELSE /\ partial' = [partial EXCEPT ![c] = h]
            /\ next' = [next EXCEPT ![h] = AllocAfter(c, h)]
            /\ full' = full

\* The slab h that slab_cache_alloc uses has a list of free objects, is on
\* slabs_partial or on no list, and slabs_partial goes on behind it.
LEMMA AllocFinds ==
    ASSUME TypeOK, NEW P, NEW F, Placed(P, F), NEW c \in Caches, NEW h \in Slabs, AllocFrom(c, h)
    PROVE  /\ List(AllocIndex(c, h), AllocOld(c, h), ObjectNum, Objects, FreeIn(held, c, h))
           /\ AllocIndex(c, h) \in FreeIn(held, c, h)
           /\ AllocOld(c, h)[ObjectNum] = SLAB_FREE_END
           /\ AllocOld(c, h) \in [Indices -> Indices \cup {SLAB_FREE_END}]
           /\ \A d \in Caches : h \notin F[d] /\ (d # c => h \notin P[d])
           /\ List(AllocAfter(c, h), next, NULL, Slabs, P[c] \ {h})
<1>1. /\ ObjectNum \in Nat /\ ObjectNum # 0 /\ ObjectNum \notin Objects /\ 0 \in Objects
      /\ ObjectNum \in Indices /\ ~ (ObjectNum < ObjectNum)
  BY SlabAssumption DEF Objects, Indices
<1>2. NULL \notin Slabs
  BY SlabAssumption, Zenon DEF NULL
<1>3. /\ List(partial[c], next, NULL, Slabs, P[c])
      /\ \A s \in Slabs : s \in taken <=> \E d \in Caches : s \in P[d] \cup F[d]
  BY Zenon DEF Placed, Listed, Owned
<1>4. CASE partial[c] = NULL
  <2>1. h \notin taken
    BY <1>4, Zenon DEF AllocFrom
  <2>2. \A d \in Caches : h \notin P[d] /\ h \notin F[d]
    BY <1>3, <2>1, Zenon
  <2>3. \A i \in Objects : <<h, i>> \notin held[c]
    BY <2>2, Zenon DEF Placed, Backed
  <2>4. FreeIn(held, c, h) = Objects
    BY <2>3, Zenon DEF FreeIn
  <2>5. P[c] = {}
    BY <1>2, <1>3, <1>4, ListEmpty, Zenon
  <2>6. P[c] \ {h} = {} /\ List(NULL, next, NULL, Slabs, {})
    BY <2>5, ListNone, Zenon
  <2>7. AllocIndex(c, h) = 0 /\ AllocAfter(c, h) = NULL /\ AllocOld(c, h) = slab_new
    BY <1>4, Zenon DEF AllocIndex, AllocAfter, AllocOld
  <2>8. slab_new[ObjectNum] = SLAB_FREE_END
    BY <1>1, Zenon DEF slab_new
  <2>9. slab_new \in [Indices -> Indices \cup {SLAB_FREE_END}]
    BY <1>1 DEF slab_new, Indices
  <2> QED BY <1>1, <2>2, <2>4, <2>6, <2>7, <2>8, <2>9, NewList, ZenonT(60)
<1>5. CASE partial[c] # NULL
  <2>1. h = partial[c]
    BY <1>5, Zenon DEF AllocFrom
  <2>2. h \in P[c]
    BY <1>3, <1>5, <2>1, ListHead, Zenon
  <2>3. \A d \in Caches : h \notin F[d] /\ (d # c => h \notin P[d])
    BY <2>2, Zenon DEF Placed, Apart
  <2>4. /\ List(free[h], free_list[h], ObjectNum, Objects, FreeIn(held, c, h))
        /\ free_list[h][ObjectNum] = SLAB_FREE_END
    BY <2>2, Zenon DEF Placed, Threaded
  <2>5. FreeIn(held, c, h) # {}
    BY <2>2, Zenon DEF Placed, Sorted
  <2>6. free[h] # ObjectNum
    BY <1>1, <2>4, <2>5, ListEmpty, Zenon
  <2>7. free[h] \in FreeIn(held, c, h)
    BY <2>4, <2>6, ListHead, Zenon
  <2>8. AllocIndex(c, h) = free[h] /\ AllocAfter(c, h) = next[h] /\ AllocOld(c, h) = free_list[h]
    BY <1>5, Zenon DEF AllocIndex, AllocAfter, AllocOld
  <2>9. free_list[h] \in [Indices -> Indices \cup {SLAB_FREE_END}]
    BY Zenon DEF TypeOK
  <2>10. List(next[h], next, NULL, Slabs, P[c] \ {h})
    BY <1>2, <1>3, <1>5, <2>1, ListTail, Zenon
  <2> QED BY <2>3, <2>4, <2>7, <2>8, <2>9, <2>10, Zenon
<1> QED
  BY <1>4, <1>5, Zenon

\* What slab_cache_alloc does to the free list of h.
LEMMA AllocHands ==
    ASSUME TypeOK, NEW P, NEW F, Placed(P, F), NEW c \in Caches, NEW h \in Slabs, AllocFrom(c, h)
    PROVE  /\ Handed(c, h, filled(AllocList(c, h), AllocOld(c, h)[AllocIndex(c, h)]))
           /\ AllocIndex(c, h) \in Objects
           /\ AllocOld(c, h)[AllocIndex(c, h)] \in Indices
           /\ AllocList(c, h) \in [Indices -> Indices \cup {SLAB_FREE_END}]
<1> DEFINE index == AllocIndex(c, h)
           old == AllocOld(c, h)
           list == AllocList(c, h)
           O == FreeIn(held, c, h)
           O2 == O \ {index}
<1>1. /\ List(index, old, ObjectNum, Objects, O) /\ index \in O /\ old[ObjectNum] = SLAB_FREE_END
      /\ old \in [Indices -> Indices \cup {SLAB_FREE_END}]
  BY AllocFinds, Zenon
<1>2. list = [old EXCEPT ![index] = SLAB_FREE_END]
  BY Zenon DEF AllocList
<1>3. /\ free_list' = [free_list EXCEPT ![h] = list]
      /\ free' = [free EXCEPT ![h] = old[index]]
      /\ held' = [held EXCEPT ![c] = @ \cup {<<h, index>>}]
  BY Zenon DEF AllocFrom
<1>4. O \subseteq Objects
  BY Zenon DEF FreeIn
<1>5. /\ \A d \in Caches : \A s \in Slabs : d # c \/ s # h => FreeIn(held', d, s) = FreeIn(held, d, s)
      /\ FreeIn(held', c, h) = O2
  <2>1. held \in [Caches -> SUBSET (Slabs \X (0..(ObjectNum - 1)))]
    BY Zenon DEF TypeOK
  <2>2. held'[c] = held[c] \cup {<<h, index>>} /\ \A d \in Caches : d # c => held'[d] = held[d]
    BY <1>3, <2>1, Zenon
  <2>3. \A s \in Slabs, i \in Objects :
          <<s, i>> \in held'[c] <=> <<s, i>> \in held[c] \/ (s = h /\ i = index)
    BY <2>2
  <2>4. \A s \in Slabs : s # h => FreeIn(held', c, s) = FreeIn(held, c, s)
    BY <2>3, Zenon DEF FreeIn
  <2>5. \A d \in Caches : \A s \in Slabs : d # c => FreeIn(held', d, s) = FreeIn(held, d, s)
    BY <2>2, Zenon DEF FreeIn
  <2>6. FreeIn(held', c, h) = O2
    BY <2>3, Zenon DEF FreeIn
  <2> QED BY <2>4, <2>5, <2>6, Zenon
<1> HIDE DEF index, old, list, O
<1>6. /\ ObjectNum \in Indices /\ Objects \subseteq Indices /\ ObjectNum \notin Objects
      /\ Objects \cup {ObjectNum} = Indices /\ SLAB_FREE_END \notin Indices
  BY SlabAssumption DEF Objects, Indices, SLAB_FREE_END
<1>7. index \in Objects /\ index \in Indices /\ index # ObjectNum
  BY <1>1, <1>4, <1>6, Zenon
<1>8. List(old[index], old, ObjectNum, Objects, O2)
  BY <1>1, <1>6, <1>7, ListTail, Zenon
<1>9. \A i \in Indices : i # index => list[i] = old[i]
  BY <1>1, <1>2, Zenon
<1>10. Same(old, list, O2)
  BY <1>4, <1>6, <1>9, Zenon DEF Same
<1>11. List(old[index], list, ObjectNum, Objects, O2)
  BY <1>8, <1>10, ListKept, Zenon
<1>12. list[ObjectNum] = SLAB_FREE_END
  BY <1>1, <1>6, <1>7, <1>9, Zenon
<1>13. old[index] \in Indices
  BY <1>1, <1>6, ListNext, Zenon
<1>14. list \in [Indices -> Indices \cup {SLAB_FREE_END}]
  BY <1>1, <1>2, <1>7
<1> HIDE DEF O2
<1>15. filled(list, old[index]) <=> O2 = {}
  <2>1. CASE O2 = {}
    <3>1. old[index] = ObjectNum
      BY <1>8, <2>1, ListHead, Zenon
    <3> QED BY <1>12, <2>1, <3>1, Zenon DEF filled
  <2>2. CASE O2 # {}
    <3>1. ASSUME old[index] = ObjectNum PROVE FALSE
      <4>1. List(ObjectNum, old, ObjectNum, Objects, O2)
        BY <1>8, <3>1, Zenon
      <4> QED BY <1>6, <2>2, <4>1, ListEmpty, Zenon
    <3>2. old[index] \in O2
      BY <1>8, <3>1, ListHead, Zenon
    <3>3. list[old[index]] \in Objects \cup {ObjectNum}
      BY <1>11, <3>2, ListNext, ZenonT(60)
    <3> QED BY <1>6, <2>2, <3>3, Zenon DEF filled
  <2> QED BY <2>1, <2>2, Zenon
<1>16. /\ \A s \in Slabs : s # h => free'[s] = free[s] /\ free_list'[s] = free_list[s]
       /\ free'[h] = old[index] /\ free_list'[h] = list
  <2>1. free \in [Slabs -> Indices] /\ free_list \in [Slabs -> [Indices -> Indices \cup {SLAB_FREE_END}]]
    BY Zenon DEF TypeOK
  <2> QED BY <1>3, <2>1, Zenon
<1>17. Handed(c, h, filled(list, old[index]))
  BY <1>5, <1>11, <1>12, <1>15, <1>16, Zenon DEF Handed
<1> QED
  BY <1>7, <1>13, <1>14, <1>17, Zenon DEF index, old, list

\* Pointers other than that of h stay.
LEMMA NextSame ==
    ASSUME TypeOK, NEW h \in Slabs, NEW x, next' = [next EXCEPT ![h] = x], NEW S \in SUBSET Slabs, h \notin S
    PROVE  Same(next, next', S)
<1>1. next \in [Slabs -> Slabs \cup {NULL}]
  BY Zenon DEF TypeOK
<1> QED
  BY <1>1, Zenon DEF Same

\* slab_cache_alloc keeps the lists.
LEMMA AllocStep ==
    ASSUME IInv, NEW c \in Caches, slab_cache_alloc(c)
    PROVE  IInv'
<1>1. PICK P, F : Placed(P, F)
  BY Zenon DEF IInv
<1>2. TypeOK /\ ~broken
  BY Zenon DEF IInv
<1>3. PICK h \in Slabs : AllocFrom(c, h)
  BY Zenon DEF slab_cache_alloc, AllocFrom, AllocIndex, AllocAfter, AllocOld, AllocList
<1>4. c \in live /\ UNCHANGED <<free_caches, live, object_size, slab_size>> /\ broken' = broken
  BY Zenon DEF slab_cache_alloc, caches
<1>7. PICK fl \in BOOLEAN : fl = filled(AllocList(c, h), AllocOld(c, h)[AllocIndex(c, h)])
  BY Zenon DEF filled
<1> DEFINE Q == P[c] \ {h}
           P2 == [P EXCEPT ![c] = IF fl THEN Q ELSE Q \cup {h}]
           F2 == [F EXCEPT ![c] = IF fl THEN F[c] \cup {h} ELSE F[c]]
<1>5. /\ \A d \in Caches : h \notin F[d] /\ (d # c => h \notin P[d])
      /\ List(AllocAfter(c, h), next, NULL, Slabs, Q)
  BY <1>1, <1>2, <1>3, AllocFinds, Zenon
<1>6. /\ Handed(c, h, fl) /\ AllocIndex(c, h) \in Objects
      /\ AllocOld(c, h)[AllocIndex(c, h)] \in Indices
      /\ AllocList(c, h) \in [Indices -> Indices \cup {SLAB_FREE_END}]
  BY <1>1, <1>2, <1>3, <1>7, AllocHands, Zenon
<1>8. /\ P \in [Caches -> SUBSET Slabs] /\ F \in [Caches -> SUBSET Slabs]
      /\ \A d \in Caches : P[d] \subseteq Slabs /\ F[d] \subseteq Slabs
  <2>1. P \in [Caches -> SUBSET Slabs] /\ F \in [Caches -> SUBSET Slabs]
    BY <1>1, Zenon DEF Placed
  <2> QED BY <2>1
<1>9. /\ \A d \in Caches : d # c => P2[d] = P[d] /\ F2[d] = F[d]
      /\ P2[c] = IF fl THEN Q ELSE Q \cup {h}
      /\ F2[c] = IF fl THEN F[c] \cup {h} ELSE F[c]
  BY <1>8, Zenon
<1>10. IF fl THEN /\ partial' = [partial EXCEPT ![c] = AllocAfter(c, h)]
                  /\ full' = [full EXCEPT ![c] = h]
                  /\ next' = [next EXCEPT ![h] = full[c]]
             ELSE /\ partial' = [partial EXCEPT ![c] = h]
                  /\ next' = [next EXCEPT ![h] = AllocAfter(c, h)]
                  /\ full' = full
  BY <1>3, <1>7, Zenon DEF AllocFrom
<1>11. /\ taken' = taken \cup {h}
       /\ free_list' = [free_list EXCEPT ![h] = AllocList(c, h)]
       /\ free' = [free EXCEPT ![h] = AllocOld(c, h)[AllocIndex(c, h)]]
       /\ held' = [held EXCEPT ![c] = @ \cup {<<h, AllocIndex(c, h)>>}]
  BY <1>3, Zenon DEF AllocFrom
<1>12. P2 \in [Caches -> SUBSET Slabs] /\ F2 \in [Caches -> SUBSET Slabs]
  <2>1. Q \subseteq Slabs /\ Q \cup {h} \subseteq Slabs /\ F[c] \cup {h} \subseteq Slabs /\ F[c] \subseteq Slabs
    BY <1>8, Zenon
  <2>2. (IF fl THEN Q ELSE Q \cup {h}) \in SUBSET Slabs /\ (IF fl THEN F[c] \cup {h} ELSE F[c]) \in SUBSET Slabs
    BY <2>1, Zenon
  <2> HIDE DEF Q
  <2> QED BY <1>8, <2>2, Zenon
<1> HIDE DEF P2, F2
<1>13. Moved(P, F, P2, F2, c, h, fl)
  <2>1. ASSUME NEW d \in Caches, NEW s \in Slabs, s # h
        PROVE  (s \in P2[d] <=> s \in P[d]) /\ (s \in F2[d] <=> s \in F[d])
    BY <1>9, <2>1, Zenon
  <2>2. ASSUME NEW d \in Caches
        PROVE  (h \in P2[d] <=> d = c /\ ~fl) /\ (h \in F2[d] <=> d = c /\ fl)
    BY <1>5, <1>9, Zenon
  <2> QED BY <1>5, <1>12, <2>1, <2>2, Zenon DEF Moved
<1>14. next' = [next EXCEPT ![h] = IF fl THEN full[c] ELSE AllocAfter(c, h)]
  BY <1>10, Zenon
<1>15. \A S \in SUBSET Slabs : h \notin S => Same(next, next', S)
  BY <1>2, <1>14, NextSame, Zenon
<1>16. next'[h] = IF fl THEN full[c] ELSE AllocAfter(c, h)
  BY <1>2, <1>14, Zenon DEF TypeOK
<1>17. \A d \in Caches : List(partial[d], next, NULL, Slabs, P[d]) /\ List(full[d], next, NULL, Slabs, F[d])
  BY <1>1, Zenon DEF Placed, Listed
<1>18. partial \in [Caches -> Slabs \cup {NULL}] /\ full \in [Caches -> Slabs \cup {NULL}]
       /\ next \in [Slabs -> Slabs \cup {NULL}]
  BY <1>2, Zenon DEF TypeOK
<1>19. Q \subseteq Slabs /\ h \notin Q
  BY <1>8, Zenon
<1> HIDE DEF Q
<1>20. Listed(P2, F2)'
  <2> SUFFICES ASSUME NEW d \in Caches
               PROVE  /\ List(partial'[d], next', NULL, Slabs, P2[d])
                      /\ List(full'[d], next', NULL, Slabs, F2[d])
    BY Zenon DEF Listed
  <2>1. List(full[d], next', NULL, Slabs, F[d])
    BY <1>5, <1>8, <1>15, <1>17, ListKept, Zenon
  <2>2. CASE d # c
    <3>1. List(partial[d], next', NULL, Slabs, P[d])
      BY <1>5, <1>8, <1>15, <1>17, <2>2, ListKept, Zenon
    <3>2. partial'[d] = partial[d] /\ full'[d] = full[d]
      BY <1>10, <1>18, <2>2, ZenonT(60)
    <3> QED BY <1>9, <2>1, <2>2, <3>1, <3>2, Zenon
  <2>3. CASE d = c /\ fl
    <3>1. List(AllocAfter(c, h), next', NULL, Slabs, Q)
      BY <1>5, <1>15, <1>19, ListKept, Zenon
    <3>2. partial'[c] = AllocAfter(c, h) /\ full'[c] = h /\ next'[h] = full[c]
      BY <1>10, <1>16, <1>18, <2>3, Zenon
    <3>3. List(h, next', NULL, Slabs, F[c] \cup {h})
      <4>1. h \notin F[c] /\ Same(next, next', F[c])
        BY <1>5, <1>8, <1>15, Zenon
      <4> QED BY <1>17, <3>2, <4>1, ListWith, Zenon
    <3> QED BY <1>9, <2>3, <3>1, <3>2, <3>3, Zenon
  <2>4. CASE d = c /\ ~fl
    <3>1. partial'[c] = h /\ full' = full /\ next'[h] = AllocAfter(c, h)
      BY <1>10, <1>16, <1>18, <2>4, Zenon
    <3>2. Same(next, next', Q)
      BY <1>15, <1>19, Zenon
    <3>3. List(h, next', NULL, Slabs, Q \cup {h})
      BY <1>5, <1>19, <3>1, <3>2, ListWith, Zenon
    <3> QED BY <1>9, <2>1, <2>4, <3>1, <3>3, Zenon
  <2> QED BY <2>2, <2>3, <2>4, Zenon
<1>21. Placed(P2, F2)'
  BY <1>1, <1>4, <1>6, <1>7, <1>11, <1>13, <1>20, MovedIsPlaced, ZenonT(60)
<1>22. TypeOK'
  <2>1. AllocAfter(c, h) \in Slabs \cup {NULL}
    BY <1>18, Zenon DEF AllocAfter
  <2>2. partial' \in [Caches -> Slabs \cup {NULL}]
    BY <1>10, <1>18, <2>1
  <2>3. full' \in [Caches -> Slabs \cup {NULL}]
    BY <1>10, <1>18
  <2>4. next' \in [Slabs -> Slabs \cup {NULL}]
    BY <1>14, <1>18, <2>1
  <2>5. free' \in [Slabs -> Indices] /\ free_list' \in [Slabs -> [Indices -> Indices \cup {SLAB_FREE_END}]]
    BY <1>2, <1>6, <1>11, Zenon DEF TypeOK
  <2>6. held' \in [Caches -> SUBSET (Slabs \X (0..(ObjectNum - 1)))]
    BY <1>2, <1>6, <1>11 DEF TypeOK, Objects
  <2>7. taken' \subseteq Slabs
    BY <1>2, <1>11, Zenon DEF TypeOK
  <2> QED BY <1>2, <1>4, <2>2, <2>3, <2>4, <2>5, <2>6, <2>7, ZenonT(60) DEF TypeOK
<1> QED
  BY <1>2, <1>4, <1>21, <1>22, Zenon DEF IInv

\* What slab_cache_free does to the free list of h.
LEMMA FreeHands ==
    ASSUME TypeOK, NEW P, NEW F, Placed(P, F), NEW c \in Caches, NEW h \in Slabs, NEW i \in Objects,
           <<h, i>> \in held[c], h \in P[c] \cup F[c],
           held' = [held EXCEPT ![c] = @ \ {<<h, i>>}],
           free_list' = [free_list EXCEPT ![h][i] = free[h]],
           free' = [free EXCEPT ![h] = i]
    PROVE  /\ Handed(c, h, FALSE)
           /\ free_list[h][free[h]] # SLAB_FREE_END <=> FreeIn(held, c, h) # {}
           /\ free_list' \in [Slabs -> [Indices -> Indices \cup {SLAB_FREE_END}]]
           /\ free' \in [Slabs -> Indices]
<1> DEFINE O == FreeIn(held, c, h)
           n == free_list[h]
           n2 == [n EXCEPT ![i] = free[h]]
<1>1. List(free[h], n, ObjectNum, Objects, O) /\ n[ObjectNum] = SLAB_FREE_END
  BY Zenon DEF Placed, Threaded
<1>2. /\ ObjectNum \in Indices /\ Objects \subseteq Indices /\ ObjectNum \notin Objects
      /\ Objects \cup {ObjectNum} = Indices /\ SLAB_FREE_END \notin Indices
  BY SlabAssumption DEF Objects, Indices, SLAB_FREE_END
<1>3. /\ free \in [Slabs -> Indices]
      /\ free_list \in [Slabs -> [Indices -> Indices \cup {SLAB_FREE_END}]]
      /\ held \in [Caches -> SUBSET (Slabs \X (0..(ObjectNum - 1)))]
  BY Zenon DEF TypeOK
<1>4. n \in [Indices -> Indices \cup {SLAB_FREE_END}] /\ free[h] \in Indices /\ i \in Indices
  BY <1>2, <1>3, Zenon
<1>5. /\ \A s \in Slabs : s # h => free'[s] = free[s] /\ free_list'[s] = free_list[s]
      /\ free'[h] = i /\ free_list'[h] = n2
  BY <1>3, Zenon
<1>6. n2[i] = free[h] /\ (\A k \in Indices : k # i => n2[k] = n[k])
      /\ n2 \in [Indices -> Indices \cup {SLAB_FREE_END}]
  BY <1>4
<1>7. i \notin O /\ O \subseteq Objects
  BY Zenon DEF FreeIn
<1>8. /\ \A d \in Caches : \A s \in Slabs : d # c \/ s # h => FreeIn(held', d, s) = FreeIn(held, d, s)
      /\ FreeIn(held', c, h) = O \cup {i}
  <2>1. held'[c] = held[c] \ {<<h, i>>} /\ \A d \in Caches : d # c => held'[d] = held[d]
    BY <1>3, Zenon
  <2>2. \A s \in Slabs, k \in Objects :
          <<s, k>> \in held'[c] <=> <<s, k>> \in held[c] /\ ~ (s = h /\ k = i)
    BY <2>1
  <2>3. \A s \in Slabs : s # h => FreeIn(held', c, s) = FreeIn(held, c, s)
    BY <2>2, Zenon DEF FreeIn
  <2>4. \A d \in Caches : \A s \in Slabs : d # c => FreeIn(held', d, s) = FreeIn(held, d, s)
    BY <2>1, Zenon DEF FreeIn
  <2>5. FreeIn(held', c, h) = O \cup {i}
    BY <2>2, Zenon DEF FreeIn
  <2> QED BY <2>3, <2>4, <2>5, Zenon
<1> HIDE DEF O, n, n2
<1>9. Same(n, n2, O)
  BY <1>2, <1>6, <1>7, Zenon DEF Same
<1>10. List(i, n2, ObjectNum, Objects, O \cup {i})
  BY <1>1, <1>6, <1>7, <1>9, ListWith, Zenon
<1>11. n2[ObjectNum] = SLAB_FREE_END
  BY <1>1, <1>2, <1>6, Zenon
<1>12. Handed(c, h, FALSE)
  BY <1>5, <1>8, <1>10, <1>11, Zenon DEF Handed
<1>13. n[free[h]] # SLAB_FREE_END <=> O # {}
  <2>1. CASE free[h] = ObjectNum
    <3>1. List(ObjectNum, n, ObjectNum, Objects, O)
      BY <1>1, <2>1, Zenon
    <3>2. O = {}
      BY <1>2, <3>1, ListEmpty, Zenon
    <3> QED BY <1>1, <2>1, <3>2, Zenon
  <2>2. CASE free[h] # ObjectNum
    <3>1. free[h] \in O
      BY <1>1, <2>2, ListHead, Zenon
    <3>2. n[free[h]] \in Objects \cup {ObjectNum}
      <4>1. List(free[h], n, ObjectNum, Objects, O)
        BY <1>1, Zenon
      <4> QED BY <3>1, <4>1, ListNext
    <3> QED BY <1>2, <3>1, <3>2, Zenon
  <2> QED BY <2>1, <2>2, Zenon
<1>14. free' \in [Slabs -> Indices]
  BY <1>3, <1>4, Zenon
<1>15. free_list' \in [Slabs -> [Indices -> Indices \cup {SLAB_FREE_END}]]
  <2>1. free_list' = [free_list EXCEPT ![h] = n2]
    BY Zenon DEF n2, n
  <2> QED BY <1>3, <1>6, <2>1, Zenon
<1> QED
  BY <1>12, <1>13, <1>14, <1>15, Zenon DEF n, O

\* slab_cache_free keeps the lists, and finds a slab that was full on slabs_full.
LEMMA FreeStep ==
    ASSUME IInv, NEW c \in Caches, NEW h \in Slabs, NEW i \in Objects, slab_cache_free(c, h, i)
    PROVE  IInv'
<1>1. PICK P, F : Placed(P, F)
  BY Zenon DEF IInv
<1>2. TypeOK /\ ~broken
  BY Zenon DEF IInv
<1>3. /\ <<h, i>> \in held[c]
      /\ held' = [held EXCEPT ![c] = @ \ {<<h, i>>}]
      /\ free_list' = [free_list EXCEPT ![h][i] = free[h]]
      /\ free' = [free EXCEPT ![h] = i]
      /\ UNCHANGED <<free_caches, live, object_size, slab_size>> /\ taken' = taken
  BY Zenon DEF slab_cache_free, caches
<1>4. h \in P[c] \cup F[c]
  BY <1>1, <1>3, Zenon DEF Placed, Backed
<1>5. /\ Handed(c, h, FALSE)
      /\ free_list[h][free[h]] # SLAB_FREE_END <=> FreeIn(held, c, h) # {}
      /\ free_list' \in [Slabs -> [Indices -> Indices \cup {SLAB_FREE_END}]]
      /\ free' \in [Slabs -> Indices]
  BY <1>1, <1>2, <1>3, <1>4, FreeHands, Zenon
<1>6. c \in live /\ h \in taken
  BY <1>1, <1>4, Zenon DEF Placed, Owned
<1>7. \A d \in Caches : /\ List(partial[d], next, NULL, Slabs, P[d])
                        /\ List(full[d], next, NULL, Slabs, F[d])
  BY <1>1, Zenon DEF Placed, Listed
<1>8. \A d \in Caches : Chain(full[d]) = F[d]
  BY <1>7, ChainIs, Zenon
<1>9. \A d \in Caches : d # c => h \notin P[d] \cup F[d]
  BY <1>1, <1>4, Zenon DEF Placed, Apart
<1>10. h \in P[c] => h \notin F[c]
  BY <1>1, Zenon DEF Placed, Apart
<1>11. /\ P \in [Caches -> SUBSET Slabs] /\ F \in [Caches -> SUBSET Slabs]
       /\ \A d \in Caches : P[d] \subseteq Slabs /\ F[d] \subseteq Slabs
  <2>1. P \in [Caches -> SUBSET Slabs] /\ F \in [Caches -> SUBSET Slabs]
    BY <1>1, Zenon DEF Placed
  <2> QED BY <2>1
<1>12. /\ partial \in [Caches -> Slabs \cup {NULL}] /\ full \in [Caches -> Slabs \cup {NULL}]
       /\ next \in [Slabs -> Slabs \cup {NULL}]
  BY <1>2, Zenon DEF TypeOK
<1> DEFINE P2 == [P EXCEPT ![c] = P[c] \cup {h}]
           F2 == [F EXCEPT ![c] = F[c] \ {h}]
<1>13. /\ \A d \in Caches : d # c => P2[d] = P[d] /\ F2[d] = F[d]
       /\ P2[c] = P[c] \cup {h} /\ F2[c] = F[c] \ {h}
  BY <1>11, Zenon
<1>14. P2 \in [Caches -> SUBSET Slabs] /\ F2 \in [Caches -> SUBSET Slabs]
  <2>1. P[c] \cup {h} \in SUBSET Slabs /\ F[c] \ {h} \in SUBSET Slabs
    BY <1>11, Zenon
  <2> QED BY <1>11, <2>1, Zenon
<1> HIDE DEF P2, F2
<1>15. Moved(P, F, P2, F2, c, h, FALSE)
  <2>1. ASSUME NEW d \in Caches, NEW s \in Slabs, s # h
        PROVE  (s \in P2[d] <=> s \in P[d]) /\ (s \in F2[d] <=> s \in F[d])
    BY <1>13, <2>1, Zenon
  <2>2. ASSUME NEW d \in Caches
        PROVE  (h \in P2[d] <=> d = c) /\ h \notin F2[d]
    BY <1>9, <1>13, Zenon
  <2> QED BY <1>9, <1>14, <2>1, <2>2, Zenon DEF Moved
<1>16. ASSUME Listed(P2, F2)', broken' = broken, partial' \in [Caches -> Slabs \cup {NULL}],
              full' \in [Caches -> Slabs \cup {NULL}], next' \in [Slabs -> Slabs \cup {NULL}]
       PROVE  IInv'
  <2>1. taken' = taken \cup {h} /\ live' = live /\ FALSE \in BOOLEAN
    BY <1>3, <1>6, Zenon
  <2>2. Placed(P2, F2)'
    BY <1>1, <1>5, <1>6, <1>15, <1>16, <2>1, MovedIsPlaced, ZenonT(60)
  <2>3. held' \in [Caches -> SUBSET (Slabs \X (0..(ObjectNum - 1)))]
    BY <1>2, <1>3 DEF TypeOK
  <2>4. TypeOK'
    BY <1>2, <1>3, <1>5, <1>16, <2>3, ZenonT(60) DEF TypeOK
  <2> QED BY <1>2, <1>16, <2>2, <2>4, Zenon DEF IInv
<1>17. CASE FreeIn(held, c, h) # {}
  <2>1. UNCHANGED <<partial, full, next, broken>>
    BY <1>5, <1>17, Zenon DEF slab_cache_free
  <2>2. h \in P[c] /\ h \notin F[c]
    BY <1>1, <1>4, <1>10, <1>17, Zenon DEF Placed, Sorted
  <2>3. \A d \in Caches : P2[d] = P[d] /\ F2[d] = F[d]
    BY <1>13, <2>2, Zenon
  <2>4. Listed(P2, F2)'
    BY <1>7, <2>1, <2>3, Zenon DEF Listed
  <2> QED BY <1>12, <1>16, <2>1, <2>4, Zenon
<1>18. CASE FreeIn(held, c, h) = {}
  <2>1. h \notin P[c] /\ h \in F[c]
    BY <1>1, <1>4, <1>18, Zenon DEF Placed, Sorted
  <2>2. /\ partial' = [partial EXCEPT ![c] = h]
        /\ full' = [full EXCEPT ![c] = IF @ = h THEN next[h] ELSE @]
        /\ next' = unlinked(h, c)
        /\ broken' = broken
    BY <1>5, <1>8, <1>18, <2>1, Zenon DEF slab_cache_free
  <2>3. \A s \in Slabs : next'[s] = IF s = h THEN partial[c]
                                    ELSE IF s \in F[c] /\ next[s] = h THEN next[h] ELSE next[s]
    BY <1>8, <2>2, Zenon DEF unlinked
  <2>4. next' \in [Slabs -> Slabs \cup {NULL}]
    <3>1. next' = [s \in Slabs |-> next'[s]]
      BY <2>2, Zenon DEF unlinked
    <3>2. \A s \in Slabs : next'[s] \in Slabs \cup {NULL}
      BY <1>12, <2>3, Zenon
    <3> QED BY <3>1, <3>2, Zenon
  <2>5. partial' \in [Caches -> Slabs \cup {NULL}] /\ full' \in [Caches -> Slabs \cup {NULL}]
    BY <1>12, <2>2
  <2>6. \A S \in SUBSET Slabs : h \notin S /\ S \cap F[c] = {} => Same(next, next', S)
    BY <2>3, Zenon DEF Same
  <2>7. \A d \in Caches : P[d] \cap F[c] = {} /\ (d # c => F[d] \cap F[c] = {})
    BY <1>1, Zenon DEF Placed, Apart
  <2>8. Listed(P2, F2)'
    <3> SUFFICES ASSUME NEW d \in Caches
                 PROVE  /\ List(partial'[d], next', NULL, Slabs, P2[d])
                        /\ List(full'[d], next', NULL, Slabs, F2[d])
      BY Zenon DEF Listed
    <3>1. CASE d # c
      <4>1. Same(next, next', P[d]) /\ Same(next, next', F[d])
        BY <1>9, <1>11, <2>6, <2>7, <3>1, ZenonT(60)
      <4>2. List(partial[d], next', NULL, Slabs, P[d]) /\ List(full[d], next', NULL, Slabs, F[d])
        BY <1>7, <4>1, ListKept, Zenon
      <4>3. partial'[d] = partial[d] /\ full'[d] = full[d]
        BY <1>12, <2>2, <3>1, Zenon
      <4> QED BY <1>13, <3>1, <4>2, <4>3, Zenon
    <3>2. CASE d = c
      <4>1. /\ partial'[c] = h /\ full'[c] = IF full[c] = h THEN next[h] ELSE full[c]
            /\ next'[h] = partial[c]
        BY <1>12, <2>2, <2>3, Zenon
      <4>2. Same(next, next', P[c])
        BY <1>11, <2>1, <2>6, <2>7, Zenon
      <4>3. List(h, next', NULL, Slabs, P2[c])
        <5>1. List(partial[c], next, NULL, Slabs, P[c])
          BY <1>7, Zenon
        <5>2. List(h, next', NULL, Slabs, P[c] \cup {h})
          BY <2>1, <4>1, <4>2, <5>1, ListWith, ZenonT(60)
        <5> QED BY <1>13, <5>2, Zenon
      <4>4. Unhooked(next, next', F[c], h)
        BY <1>11, <2>3, Zenon DEF Unhooked
      <4>5. NULL \notin Slabs
        BY SlabAssumption, Zenon DEF NULL
      <4>6. List(full'[c], next', NULL, Slabs, F2[c])
        <5>1. List(full[c], next, NULL, Slabs, F[c])
          BY <1>7, Zenon
        <5>2. List(full'[c], next', NULL, Slabs, F[c] \ {h})
          <6> DEFINE S2 == F[c] \ {h}
          <6>1. /\ S2 = F[c] \ {h} /\ h \in F[c]
                /\ full'[c] = IF full[c] = h THEN next[h] ELSE full[c]
            BY <2>1, <4>1, ZenonT(60)
          <6> HIDE DEF S2
          <6>2. List(full'[c], next', NULL, Slabs, S2)
            BY <4>4, <4>5, <5>1, <6>1, ListWithout, SMTT(60)
          <6> QED BY <6>1, <6>2, Zenon
        <5> QED BY <1>13, <5>2, Zenon
      <4> QED BY <3>2, <4>1, <4>3, <4>6, ZenonT(60)
    <3> QED BY <3>1, <3>2, Zenon
  <2> QED BY <1>16, <2>2, <2>4, <2>5, <2>8, ZenonT(60)
<1> QED
  BY <1>17, <1>18, Zenon

\* slab_cache_destroy gives back the slabs of its cache and no others.
LEMMA DestroyStep ==
    ASSUME IInv, NEW c \in Caches, slab_cache_destroy(c)
    PROVE  IInv'
<1>1. PICK P, F : Placed(P, F)
  BY Zenon DEF IInv
<1>2. TypeOK /\ ~broken
  BY Zenon DEF IInv
<1>3. /\ taken' = taken \ (Chain(full[c]) \cup Chain(partial[c]))
      /\ free_caches' = <<c>> \o free_caches
      /\ live' = live \ {c}
      /\ object_size' = [object_size EXCEPT ![c] = 0]
      /\ slab_size' = [slab_size EXCEPT ![c] = 0]
      /\ partial' = [partial EXCEPT ![c] = NULL]
      /\ full' = [full EXCEPT ![c] = NULL]
      /\ held' = [held EXCEPT ![c] = {}]
      /\ next' = next /\ free' = free /\ free_list' = free_list /\ broken' = broken
  BY Zenon DEF slab_cache_destroy
<1>4. \A d \in Caches : /\ List(partial[d], next, NULL, Slabs, P[d])
                        /\ List(full[d], next, NULL, Slabs, F[d])
  BY <1>1, Zenon DEF Placed, Listed
<1>5. Chain(full[c]) = F[c] /\ Chain(partial[c]) = P[c]
  BY <1>4, ChainIs, Zenon
<1>6. P \in [Caches -> SUBSET Slabs] /\ F \in [Caches -> SUBSET Slabs]
  BY <1>1, Zenon DEF Placed
<1> DEFINE P2 == [P EXCEPT ![c] = {}]
           F2 == [F EXCEPT ![c] = {}]
<1>7. /\ \A d \in Caches : d # c => P2[d] = P[d] /\ F2[d] = F[d]
      /\ P2[c] = {} /\ F2[c] = {}
  BY <1>6, Zenon
<1>8. P2 \in [Caches -> SUBSET Slabs] /\ F2 \in [Caches -> SUBSET Slabs]
  BY <1>6
<1> HIDE DEF P2, F2
<1>9. /\ \A d \in Caches : d # c => /\ partial'[d] = partial[d] /\ full'[d] = full[d]
                                    /\ held'[d] = held[d]
      /\ partial'[c] = NULL /\ full'[c] = NULL /\ held'[c] = {}
  BY <1>2, <1>3, Zenon DEF TypeOK
<1>10. Listed(P2, F2)'
  <2>1. ASSUME NEW d \in Caches
        PROVE  List(partial'[d], next', NULL, Slabs, P2[d]) /\ List(full'[d], next', NULL, Slabs, F2[d])
    <3>1. CASE d = c
      <4>1. List(NULL, next', NULL, Slabs, {})
        BY ListNone, Zenon
      <4> QED BY <1>7, <1>9, <3>1, <4>1, Zenon
    <3>2. CASE d # c
      BY <1>3, <1>4, <1>7, <1>9, <3>2, ZenonT(60)
    <3> QED BY <3>1, <3>2, Zenon
  <2> QED BY <2>1, Zenon DEF Listed
<1>11. Apart(P2, F2)'
  <2> SUFFICES ASSUME NEW d \in Caches, NEW e \in Caches
               PROVE  /\ P2[d] \cap F2[e] = {}
                      /\ d # e => P2[d] \cap P2[e] = {} /\ F2[d] \cap F2[e] = {}
    BY Zenon DEF Apart
  <2>1. /\ P[d] \cap F[e] = {}
        /\ d # e => P[d] \cap P[e] = {} /\ F[d] \cap F[e] = {}
    BY <1>1, Zenon DEF Placed, Apart
  <2>2. P2[d] \subseteq P[d] /\ F2[d] \subseteq F[d] /\ P2[e] \subseteq P[e] /\ F2[e] \subseteq F[e]
    BY <1>7, Zenon
  <2> QED BY <2>1, <2>2
<1>12. Owned(P2, F2)'
  <2>1. ASSUME NEW s \in Slabs PROVE s \in taken' <=> \E d \in Caches : s \in P2[d] \cup F2[d]
    <3>1. s \in taken <=> \E d \in Caches : s \in P[d] \cup F[d]
      BY <1>1, Zenon DEF Placed, Owned
    <3>2. s \in taken' <=> s \in taken /\ s \notin P[c] /\ s \notin F[c]
      BY <1>3, <1>5, Zenon
    <3>3. \A d \in Caches : d # c => /\ P[c] \cap F[d] = {} /\ P[d] \cap F[c] = {}
                                     /\ P[c] \cap P[d] = {} /\ F[c] \cap F[d] = {}
      BY <1>1, Zenon DEF Placed, Apart
    <3>4. CASE s \in P[c] \cup F[c]
      <4>1. \A d \in Caches : s \notin P2[d] \cup F2[d]
        BY <1>7, <3>3, <3>4, Zenon
      <4> QED BY <3>2, <3>4, <4>1, Zenon
    <3>5. CASE s \notin P[c] \cup F[c]
      BY <1>7, <3>1, <3>2, <3>5, ZenonT(60)
    <3> QED BY <3>4, <3>5, Zenon
  <2>2. ASSUME NEW d \in Caches, d \notin live' PROVE P2[d] = {} /\ F2[d] = {}
    BY <1>1, <1>3, <1>7, <2>2, ZenonT(60) DEF Placed, Owned
  <2> QED BY <2>1, <2>2, Zenon DEF Owned
<1>13. \A d \in Caches : \A s \in P2[d] \cup F2[d] :
           d # c /\ s \in P[d] \cup F[d] /\ FreeIn(held', d, s) = FreeIn(held, d, s)
  BY <1>7, <1>9, Zenon DEF FreeIn
<1>14. Threaded(P2, F2)'
  BY <1>1, <1>3, <1>13, Zenon DEF Placed, Threaded
<1>15. Sorted(P2, F2)'
  <2>1. \A d \in Caches : P2[d] \subseteq P[d] /\ F2[d] \subseteq F[d]
    BY <1>7, Zenon
  <2>2. ASSUME NEW d \in Caches, NEW s \in P2[d] PROVE FreeIn(held', d, s) # {}
    <3>1. s \in P[d] /\ FreeIn(held', d, s) = FreeIn(held, d, s)
      BY <1>13, <2>1, Zenon
    <3> QED BY <1>1, <3>1, Zenon DEF Placed, Sorted
  <2>3. ASSUME NEW d \in Caches, NEW s \in F2[d] PROVE FreeIn(held', d, s) = {}
    <3>1. s \in F[d] /\ FreeIn(held', d, s) = FreeIn(held, d, s)
      BY <1>13, <2>1, Zenon
    <3> QED BY <1>1, <3>1, Zenon DEF Placed, Sorted
  <2> QED BY <2>2, <2>3, Zenon DEF Sorted
<1>16. Backed(P2, F2)'
  BY <1>1, <1>7, <1>9, Zenon DEF Placed, Backed
<1>17. Placed(P2, F2)'
  BY <1>8, <1>10, <1>11, <1>12, <1>14, <1>15, <1>16, Zenon DEF Placed
<1>18. TypeOK'
  <2>1. free_caches' \in Seq(Caches)
    BY <1>2, <1>3, SMTT(60) DEF TypeOK
  <2>2. object_size' \in [Caches -> Nat] /\ slab_size' \in [Caches -> Nat]
    BY <1>2, <1>3, SMTT(60) DEF TypeOK
  <2>3. /\ partial' \in [Caches -> Slabs \cup {NULL}] /\ full' \in [Caches -> Slabs \cup {NULL}]
        /\ held' \in [Caches -> SUBSET (Slabs \X (0..(ObjectNum - 1)))]
    BY <1>2, <1>3 DEF TypeOK
  <2> QED BY <1>2, <1>3, <2>1, <2>2, <2>3, ZenonT(60) DEF TypeOK
<1> QED
  BY <1>2, <1>3, <1>17, <1>18, ZenonT(60) DEF IInv

\* slab_cache_create touches no slab.
LEMMA CreateStep ==
    ASSUME IInv, NEW size \in Sizes, slab_cache_create(size)
    PROVE  IInv'
<1>1. PICK P, F : Placed(P, F)
  BY Zenon DEF IInv
<1>2. TypeOK /\ ~broken
  BY Zenon DEF IInv
<1> DEFINE c == Head(free_caches)
<1>3. /\ free_caches # << >> /\ free_caches' = Tail(free_caches)
      /\ UNCHANGED <<partial, full, taken, next, free, free_list, held, broken>>
      /\ \/ UNCHANGED <<live, object_size, slab_size>>
         \/ \E s \in slab_size_for(size) :
              /\ live' = live \cup {c}
              /\ object_size' = [object_size EXCEPT ![c] = rounded(size)]
              /\ slab_size' = [slab_size EXCEPT ![c] = s]
  BY Zenon DEF slab_cache_create, slabs
<1>4. c \in Caches /\ free_caches' \in Seq(Caches)
  BY <1>2, <1>3 DEF TypeOK
<1> HIDE DEF c
<1>5. live \subseteq live' /\ live' \subseteq Caches
  BY <1>2, <1>3, <1>4, Zenon DEF TypeOK
<1>6. Placed(P, F)'
  <2>1. Owned(P, F)'
    BY <1>1, <1>3, <1>5, Zenon DEF Placed, Owned
  <2>2. Listed(P, F)' /\ Apart(P, F)' /\ Threaded(P, F)' /\ Sorted(P, F)' /\ Backed(P, F)'
    BY <1>1, <1>3, Zenon DEF Placed, Listed, Apart, Threaded, Sorted, Backed
  <2> QED BY <1>1, <2>1, <2>2, Zenon DEF Placed
<1>7. object_size' \in [Caches -> Nat] /\ slab_size' \in [Caches -> Nat]
  <2>1. size \in Nat \ {0}
    BY SlabAssumption
  <2>2. ASSUME NEW s \in slab_size_for(size) PROVE s \in Nat /\ rounded(size) \in Nat
    <3>1. Fits(s, rounded(size))
      BY <2>1, LimitLeavesRoom, Zenon
    <3> QED BY <3>1 DEF Fits, SLAB_HEADER_SIZE
  <2>3. object_size \in [Caches -> Nat] /\ slab_size \in [Caches -> Nat]
    BY <1>2, Zenon DEF TypeOK
  <2> QED BY <1>3, <1>4, <2>2, <2>3, ZenonT(60)
<1>8. TypeOK'
  BY <1>2, <1>3, <1>4, <1>5, <1>7, ZenonT(60) DEF TypeOK
<1> QED
  BY <1>2, <1>3, <1>6, <1>8, Zenon DEF IInv

\* At first no slab is taken.
LEMMA InitPlaced == Init => IInv
<1> SUFFICES ASSUME Init PROVE IInv
  OBVIOUS
<1> DEFINE P == [c \in Caches |-> {}]
<1>1. P \in [Caches -> SUBSET Slabs] /\ \A c \in Caches : P[c] = {}
  BY Zenon
<1> HIDE DEF P
<1>2. ObjectNum \in Nat \ {0} /\ 0 \in Indices /\ CacheNum \in Nat
  BY SlabAssumption DEF Indices
<1>3. Listed(P, P)
  <2>1. \A c \in Caches : partial[c] = NULL /\ full[c] = NULL
    BY Zenon DEF Init
  <2>2. List(NULL, next, NULL, Slabs, {})
    BY ListNone, Zenon
  <2> QED BY <1>1, <2>1, <2>2, Zenon DEF Listed
<1>4. Apart(P, P) /\ Threaded(P, P) /\ Sorted(P, P)
  BY <1>1, Zenon DEF Apart, Threaded, Sorted
<1>5. Owned(P, P)
  BY <1>1, Zenon DEF Owned, Init
<1>6. Backed(P, P)
  <2>1. \A c \in Caches : held[c] = {}
    BY Zenon DEF Init
  <2> QED BY <2>1, Zenon DEF Backed
<1>7. Placed(P, P)
  BY <1>1, <1>3, <1>4, <1>5, <1>6, Zenon DEF Placed
<1>8. TypeOK
  <2>1. free_caches \in Seq(Caches)
    BY <1>2 DEF Init, Caches
  <2>2. object_size \in [Caches -> Nat] /\ slab_size \in [Caches -> Nat]
    BY DEF Init
  <2>3. /\ partial \in [Caches -> Slabs \cup {NULL}] /\ full \in [Caches -> Slabs \cup {NULL}]
        /\ next \in [Slabs -> Slabs \cup {NULL}] /\ held \in [Caches -> SUBSET (Slabs \X (0..(ObjectNum - 1)))]
    BY Zenon DEF Init
  <2>4. free \in [Slabs -> Indices] /\ free_list \in [Slabs -> [Indices -> Indices \cup {SLAB_FREE_END}]]
    BY <1>2, Zenon DEF Init
  <2> QED BY <2>1, <2>2, <2>3, <2>4, Zenon DEF Init, TypeOK
<1> QED
  BY <1>7, <1>8, Zenon DEF IInv, Init

\* For any number of caches, slabs and objects: every slab taken is on exactly
\* one list of one live cache, slabs_partial holds those with a free object and
\* slabs_full the others, the free list of a slab holds exactly the objects
\* nobody holds, and slab_cache_free never halts with "broken slab".
THEOREM SlabsAreSound == Spec => []SlabsSound
<1>1. IInv /\ [Next]_vars => IInv'
  <2> SUFFICES ASSUME IInv, [Next]_vars PROVE IInv'
    OBVIOUS
  <2>1. ASSUME NEW size \in Sizes, slab_cache_create(size) PROVE IInv'
    BY <2>1, CreateStep, Zenon
  <2>2. ASSUME NEW c \in Caches, slab_cache_destroy(c) PROVE IInv'
    BY <2>2, DestroyStep, Zenon
  <2>3. ASSUME NEW c \in Caches, slab_cache_alloc(c) PROVE IInv'
    BY <2>3, AllocStep, Zenon
  <2>4. ASSUME NEW c \in Caches, NEW h \in Slabs, NEW i \in 0..(ObjectNum - 1), slab_cache_free(c, h, i)
        PROVE  IInv'
    BY <2>4, FreeStep, Zenon DEF Objects
  <2>5. CASE UNCHANGED vars
    <3>1. PICK P, F : Placed(P, F)
      BY Zenon DEF IInv
    <3>2. /\ UNCHANGED <<free_caches, live, object_size, slab_size, partial, full>>
          /\ UNCHANGED <<taken, next, free, free_list, held, broken>>
      BY <2>5, Zenon DEF vars, caches, slabs
    <3>3. Placed(P, F)'
      BY <3>1, <3>2, ZenonT(60) DEF Placed, Listed, Apart, Owned, Threaded, Sorted, Backed
    <3>4. TypeOK' /\ ~broken'
      BY <3>2, Zenon DEF IInv, TypeOK
    <3> QED BY <3>3, <3>4, Zenon DEF IInv
  <2> QED BY <2>1, <2>2, <2>3, <2>4, <2>5, Zenon DEF Next
<1>2. IInv => SlabsSound
  BY PlacedIsSound, Zenon
<1> QED
  BY <1>1, <1>2, InitPlaced, PTL DEF Spec

-----------------------------------------------------------------------------
(* Blocks: where the sectors lie *)

\* The addresses of the card, in sectors.
Places == 0..(BlockNum * SECTORS - 1)

\* One block ends where the next one begins.
LEMMA BlocksApart ==
    ASSUME NEW i \in Nat, NEW j \in Nat, i < j
    PROVE  i * SECTORS + SECTORS <= j * SECTORS
<1>1. SECTORS \in Nat
  BY BlockAssumption
<1>2. PICK m \in Nat : j = i + 1 + m
  BY SMT
<1>3. m * SECTORS \in Nat
  BY <1>1
<1>4. j * SECTORS = i * SECTORS + SECTORS + m * SECTORS
  BY <1>1, <1>2
<1> QED
  BY <1>1, <1>3, <1>4

\* The sectors of a block are on the card.
LEMMA SectorsOnCard ==
    ASSUME NEW i \in Blocks, NEW k \in Sectors
    PROVE  i * SECTORS \in Nat /\ i * SECTORS + k \in Places
<1>1. SECTORS \in Nat \ {0} /\ BlockNum \in Nat \ {0} /\ i \in Nat /\ i < BlockNum
      /\ k \in Nat /\ k < SECTORS
  BY BlockAssumption DEF Blocks, Sectors
<1>2. i * SECTORS + SECTORS <= BlockNum * SECTORS
  BY <1>1, BlocksApart
<1>3. i * SECTORS \in Nat /\ BlockNum * SECTORS \in Nat
  BY <1>1
<1> QED
  BY <1>1, <1>2, <1>3 DEF Places

\* The sectors of two blocks do not overlap.
LEMMA SectorsApart ==
    ASSUME NEW i \in Blocks, NEW j \in Blocks, NEW k \in Sectors, NEW n \in 0..SECTORS,
           i * SECTORS + k \in (j * SECTORS)..(j * SECTORS + n - 1)
    PROVE  i = j
<1>1. SECTORS \in Nat \ {0} /\ i \in Nat /\ j \in Nat /\ k \in Nat /\ k < SECTORS
      /\ n \in Nat /\ n <= SECTORS
  BY BlockAssumption DEF Blocks, Sectors
<1>2. i * SECTORS \in Nat /\ j * SECTORS \in Nat
  BY <1>1
<1>3. ~ (i < j)
  <2> SUFFICES ASSUME i < j PROVE FALSE
    OBVIOUS
  <2>1. i * SECTORS + SECTORS <= j * SECTORS
    BY <1>1, BlocksApart
  <2> QED
    BY <1>1, <1>2, <2>1
<1>4. ~ (j < i)
  <2> SUFFICES ASSUME j < i PROVE FALSE
    OBVIOUS
  <2>1. j * SECTORS + SECTORS <= i * SECTORS
    BY <1>1, BlocksApart
  <2> QED
    BY <1>1, <1>2, <2>1
<1> QED
  BY <1>1, <1>3, <1>4

-----------------------------------------------------------------------------
(* What a transfer leaves on the card *)

\* The first n sectors of d, laid at address over the sectors c.
Laid(c, address, d, n) ==
    [a \in Places |-> IF a \in address..(address + n - 1) THEN d[a - address] ELSE c[a]]

\* One sector more.
LEMMA LaidOne ==
    ASSUME NEW c, NEW address \in Nat, NEW d, NEW n \in Nat
    PROVE  mmc_write_block(Laid(c, address, d, n), address + n, d[n]) = Laid(c, address, d, n + 1)
<1> DEFINE A == [Laid(c, address, d, n) EXCEPT ![address + n] = d[n]]
           B == Laid(c, address, d, n + 1)
<1>1. A = [a \in Places |-> A[a]]
  BY Zenon DEF Laid
<1>2. ASSUME NEW a \in Places PROVE A[a] = B[a]
  <2>0. a \in Nat \/ a \in Int
    BY DEF Places
  <2>1. Laid(c, address, d, n)[a] = IF a \in address..(address + n - 1) THEN d[a - address] ELSE c[a]
    BY Zenon DEF Laid
  <2>2. B[a] = IF a \in address..(address + n) THEN d[a - address] ELSE c[a]
    BY DEF Laid
  <2>3. A[a] = IF a = address + n THEN d[n] ELSE Laid(c, address, d, n)[a]
    BY Zenon DEF Laid
  <2>4. CASE a = address + n
    <3>1. a - address = n /\ a \in address..(address + n)
      BY <2>4
    <3> QED BY <2>2, <2>3, <2>4, <3>1, Zenon
  <2>5. CASE a # address + n
    <3>1. a \in address..(address + n) <=> a \in address..(address + n - 1)
      BY <2>0, <2>5
    <3> QED BY <2>1, <2>2, <2>3, <2>5, <3>1, Zenon
  <2> QED BY <2>4, <2>5, Zenon
<1>3. B = [a \in Places |-> B[a]]
  BY Zenon DEF Laid
<1> HIDE DEF A, B
<1>4. A = B
  BY <1>1, <1>2, <1>3, Zenon
<1> QED
  BY <1>4, Zenon DEF A, B, mmc_write_block

\* Nothing but the card changes, and it becomes c.
OnlyCard(s, t, c) == t = [s EXCEPT !.card = c]

\* The loop of mmc_write leaves the first n sectors of its data.
LEMMA Transfer ==
    ASSUME NEW s, s.card \in [Places -> Data], NEW address \in Nat, NEW d, NEW n \in Nat
    PROVE  OnlyCard(s, mmc_write(s, address, d, n), Laid(s.card, address, d, n))
<1> DEFINE c == s.card
           L(k) == Laid(c, address, d, k)
           Run(g) == g = [k \in 0..n |-> IF k = 0 THEN c ELSE mmc_write_block(g[k - 1], address + k - 1, d[k - 1])]
           after == CHOOSE g : Run(g)
<1>1. L(0) = c
  <2>1. \A a \in Places : a \notin address..(address + 0 - 1)
    BY DEF Places
  <2>2. L(0) = [a \in Places |-> c[a]]
    BY <2>1, Zenon DEF Laid
  <2> QED BY <2>2, Zenon
<1>2. ASSUME NEW k \in 1..n
      PROVE  L(k) = mmc_write_block(L(k - 1), address + k - 1, d[k - 1])
  <2> DEFINE j == k - 1
  <2>1. j \in Nat /\ j + 1 = k /\ address + j = address + k - 1
    OBVIOUS
  <2> HIDE DEF c, j
  <2>2. mmc_write_block(Laid(c, address, d, j), address + j, d[j]) = Laid(c, address, d, j + 1)
    BY <2>1, LaidOne, Zenon
  <2>3. L(k) = mmc_write_block(L(j), address + k - 1, d[j])
    BY <2>1, <2>2, Zenon
  <2> HIDE DEF L
  <2> QED BY <2>3, Zenon DEF j
<1> HIDE DEF L, c
<1>3. \E g : Run(g)
  <2> DEFINE g == [k \in 0..n |-> L(k)]
  <2>1. ASSUME NEW k \in 0..n
        PROVE  g[k] = IF k = 0 THEN c ELSE mmc_write_block(g[k - 1], address + k - 1, d[k - 1])
    <3>1. CASE k = 0
      BY <1>1, <3>1, Zenon
    <3>2. CASE k # 0
      <4>1. k \in 1..n /\ k - 1 \in 0..n
        BY <3>2
      <4>2. g[k] = L(k) /\ g[k - 1] = L(k - 1)
        BY <4>1, Zenon
      <4> HIDE DEF g
      <4> QED BY <1>2, <3>2, <4>1, <4>2, Zenon
    <3> QED BY <3>1, <3>2, Zenon
  <2>2. g = [k \in 0..n |-> g[k]]
    BY Zenon
  <2> HIDE DEF g
  <2>3. Run(g)
    BY <2>1, <2>2, Zenon
  <2> QED BY <2>3, Zenon
<1>4. Run(after)
  BY <1>3, Zenon
<1>5. mmc_write(s, address, d, n) = [s EXCEPT !.card = after[n]]
  BY Zenon DEF mmc_write, c
<1> HIDE DEF after
<1>6. \A k \in 0..n : after[k] = IF k = 0 THEN c ELSE mmc_write_block(after[k - 1], address + k - 1, d[k - 1])
  BY <1>4, Zenon
<1>7. \A k \in 0..n : after[k] = L(k)
  <2> DEFINE T == {k \in 0..n : after[k] # L(k)}
  <2> SUFFICES ASSUME T # {} PROVE FALSE
    BY Zenon
  <2>1. T \subseteq Nat
    BY SMT
  <2>2. PICK k \in T : \A y \in T : k <= y
    BY <2>1, LeastNumber, Zenon
  <2>3. k \in 0..n /\ after[k] # L(k)
    BY <2>2, Zenon
  <2>4. k # 0
    BY <1>1, <1>6, <2>3, Zenon
  <2>5. k \in 1..n /\ k - 1 \in 0..n /\ ~ (k <= k - 1)
    BY <2>3, <2>4
  <2>6. after[k - 1] = L(k - 1)
    BY <2>2, <2>5, Zenon
  <2>7. after[k] = mmc_write_block(after[k - 1], address + k - 1, d[k - 1])
    BY <1>6, <2>3, <2>4, Zenon
  <2> QED BY <1>2, <2>3, <2>5, <2>6, <2>7, Zenon
<1>8. after[n] = L(n)
  BY <1>7
<1> QED
  BY <1>5, <1>8, Zenon DEF L, c, OnlyCard

-----------------------------------------------------------------------------
(* The cache *)

\* Block i as the card c holds it.
BlockOn(c, i) == [k \in Sectors |-> c[i * SECTORS + k]]

\* Entries of the list, and what a piece of memory holds.
Entries == [index : Blocks, slot : Nat]
Pieces == Contents \cup {<<>>}

\* The entries u of used_blocks and f of free_blocks point at the memory m of
\* the pages,
Held(c, u, f, m) ==
    /\ c \in [Places -> Data]
    /\ m \in Seq(Pieces) /\ u \in Seq(Entries) /\ f \in Seq(Nat)
    /\ \A i \in 1..Len(u) : u[i].slot \in 1..Len(m)
    /\ \A i \in 1..Len(f) : f[i] \in 1..Len(m)

\* no two at the same, and no two used ones are of the same block,
Distinct(u, f) ==
    /\ \A i, j \in 1..Len(u) : u[i].index = u[j].index => i = j
    /\ \A i, j \in 1..Len(u) : u[i].slot = u[j].slot => i = j
    /\ \A i, j \in 1..Len(f) : f[i] = f[j] => i = j
    /\ \A i \in 1..Len(u), j \in 1..Len(f) : u[i].slot # f[j]

\* and what a used entry points at is what the card holds.
Coherent(c, u, m) == \A i \in 1..Len(u) : m[u[i].slot] = BlockOn(c, u[i].index)

\* The cache is sound.
Cache(c, u, f, m) == Held(c, u, f, m) /\ Distinct(u, f) /\ Coherent(c, u, m)

\* v is u with e in front of it.
FrontOf(v, e, u) ==
    /\ Len(u) \in Nat /\ Len(v) = Len(u) + 1 /\ v[1] = e
    /\ \A i \in 1..Len(v) : i # 1 => i - 1 \in 1..Len(u) /\ v[i] = u[i - 1]

\* So it is when list_add puts it there.
LEMMA InFront ==
    ASSUME NEW S, NEW e \in S, NEW u \in Seq(S)
    PROVE  <<e>> \o u \in Seq(S) /\ FrontOf(<<e>> \o u, e, u)
  BY DEF FrontOf

\* What is left of a sequence without its first element.
LEMMA Left ==
    ASSUME NEW S, NEW f \in Seq(S), f # <<>>
    PROVE  /\ Head(f) = f[1] /\ 1 \in 1..Len(f) /\ Tail(f) \in Seq(S)
           /\ Len(f) \in Nat /\ Len(Tail(f)) = Len(f) - 1
           /\ \A i \in 1..Len(Tail(f)) : Tail(f)[i] = f[i + 1] /\ i + 1 \in 1..Len(f)
  OBVIOUS

\* The blocks of a new page, the last one first.
Down(f, l, n) ==
    /\ Len(f) = n /\ f # <<>> /\ f \in Seq(Nat)
    /\ \A i \in 1..n : f[i] = l + n + 1 - i

\* prepare_blocks leaves them in that order.
LEMMA NewPage ==
    ASSUME NEW l \in Nat, NEW n \in Nat \ {0}
    PROVE  Down([k \in 1..n |-> l + n + 1 - k], l, n)
<1> DEFINE f == [k \in 1..n |-> l + n + 1 - k]
<1>1. \A k \in 1..n : l + n + 1 - k \in Nat
  OBVIOUS
<1>2. f \in [1..n -> Nat] /\ \A k \in 1..n : f[k] = l + n + 1 - k
  BY <1>1, Zenon
<1> HIDE DEF f
<1>3. f \in Seq(Nat) /\ Len(f) = n
  BY <1>2
<1>4. f # <<>>
  BY <1>3
<1> QED
  BY <1>2, <1>3, <1>4, Zenon DEF Down, f

\* prepare_blocks: a new page of free blocks.
LEMMA Prepared ==
    ASSUME NEW c, NEW u, NEW m, Cache(c, u, <<>>, m),
           NEW f, f = [k \in 1..BLOCKS_PER_PAGE |-> Len(m) + BLOCKS_PER_PAGE + 1 - k],
           NEW n, n = m \o [k \in 1..BLOCKS_PER_PAGE |-> <<>>]
    PROVE  Cache(c, u, f, n) /\ f # <<>>
<1> DEFINE B == BLOCKS_PER_PAGE
           z == [k \in 1..BLOCKS_PER_PAGE |-> <<>>]
<1>1. B \in Nat \ {0} /\ m \in Seq(Pieces) /\ Len(m) \in Nat
  BY BlockAssumption DEF Cache, Held
<1>2. n \in Seq(Pieces) /\ Len(n) = Len(m) + B /\ \A i \in 1..Len(m) : n[i] = m[i]
  <2>0. <<>> \in Pieces
    BY Zenon DEF Pieces
  <2>1. z \in Seq(Pieces) /\ Len(z) = B
    BY <1>1, <2>0
  <2> HIDE DEF z
  <2>2. n = m \o z
    BY Zenon DEF z
  <2> QED BY <1>1, <2>1, <2>2, SMTT(60)
<1>3. Len(f) = B /\ f # <<>> /\ (\A i \in 1..B : f[i] = Len(m) + B + 1 - i) /\ f \in Seq(Nat)
  <2> DEFINE L == Len(m)
  <2>1. L \in Nat /\ B \in Nat \ {0} /\ f = [k \in 1..B |-> L + B + 1 - k]
    BY <1>1, Zenon
  <2> HIDE DEF L, B
  <2>2. Down(f, L, B)
    BY <2>1, NewPage, Zenon
  <2> QED BY <2>2, Zenon DEF L, Down
<1>4. \A i \in 1..Len(f) : f[i] \in 1..Len(n)
  BY <1>1, <1>2, <1>3
<1>5. \A i \in 1..Len(u) : u[i].slot \in 1..Len(m)
  BY Zenon DEF Cache, Held
<1>6. \A i \in 1..Len(u) : u[i].slot \in 1..Len(n)
  <2>1. \A x \in 1..Len(m) : x \in 1..Len(n)
    BY <1>1, <1>2
  <2> QED BY <1>5, <2>1, Zenon
<1>8. Held(c, u, f, n)
  BY <1>2, <1>3, <1>4, <1>6, Zenon DEF Cache, Held
<1>9. Distinct(u, f)
  <2>1. \A i, j \in 1..Len(f) : f[i] = f[j] => i = j
    BY <1>1, <1>3
  <2>2. \A i \in 1..Len(u), j \in 1..Len(f) : u[i].slot # f[j]
    BY <1>1, <1>3, <1>5, SMTT(60)
  <2> QED BY <2>1, <2>2, Zenon DEF Distinct, Cache
<1>10. Coherent(c, u, n)
  BY <1>2, <1>5, Zenon DEF Coherent, Cache
<1> QED
  BY <1>3, <1>8, <1>9, <1>10, Zenon DEF Cache

\* The rest of get_block: the first free block gets the block of the card.
LEMMA Fetched ==
    ASSUME NEW c, NEW u, NEW f, NEW m, Cache(c, u, f, m), f # <<>>,
           NEW index \in Blocks, \A i \in 1..Len(u) : u[i].index # index,
           NEW v, v = <<[index |-> index, slot |-> Head(f)]>> \o u,
           NEW n, n = [m EXCEPT ![Head(f)] = BlockOn(c, index)]
    PROVE  Cache(c, v, Tail(f), n)
<1> DEFINE e == [index |-> index, slot |-> Head(f)]
           g == Tail(f)
<1>a. /\ f \in Seq(Nat) /\ u \in Seq(Entries) /\ m \in Seq(Pieces) /\ c \in [Places -> Data]
      /\ \A i \in 1..Len(u) : u[i].slot \in 1..Len(m)
      /\ \A i \in 1..Len(f) : f[i] \in 1..Len(m)
  BY Zenon DEF Cache, Held
<1>d. \A i, j \in 1..Len(u) : u[i].index = u[j].index => i = j
  BY Zenon DEF Cache, Distinct
<1>e. \A i, j \in 1..Len(u) : u[i].slot = u[j].slot => i = j
  BY Zenon DEF Cache, Distinct
<1>f. \A i, j \in 1..Len(f) : f[i] = f[j] => i = j
  BY Zenon DEF Cache, Distinct
<1>g. \A i \in 1..Len(u), j \in 1..Len(f) : u[i].slot # f[j]
  BY Zenon DEF Cache, Distinct
<1>2. /\ Head(f) = f[1] /\ 1 \in 1..Len(f) /\ g \in Seq(Nat)
      /\ Len(f) \in Nat /\ Len(g) = Len(f) - 1
      /\ \A i \in 1..Len(g) : g[i] = f[i + 1] /\ i + 1 \in 1..Len(f)
  BY <1>a, Left, Zenon
<1> HIDE DEF g
<1>c. Head(f) \in 1..Len(m) /\ Head(f) \in Nat
  <2>1. Head(f) \in 1..Len(m)
    BY <1>a, <1>2, Zenon
  <2> QED BY <1>a, <2>1
<1>3. BlockOn(c, index) \in Pieces
  <2>1. \A k \in Sectors : index * SECTORS + k \in Places
    BY SectorsOnCard, Zenon
  <2> QED BY <1>a, <2>1, Zenon DEF BlockOn, Contents, Pieces
<1>4. n \in Seq(Pieces) /\ Len(n) = Len(m) /\ n[Head(f)] = BlockOn(c, index)
      /\ \A i \in 1..Len(m) : i # Head(f) => n[i] = m[i]
  BY <1>a, <1>c, <1>3
<1>5. e \in Entries /\ e.index = index /\ e.slot = Head(f)
  BY <1>c, Zenon DEF Entries
<1> HIDE DEF e
<1>6. v \in Seq(Entries) /\ FrontOf(v, e, u)
  <2>1. v = <<e>> \o u
    BY Zenon DEF e
  <2>2. u \in Seq(Entries)
    BY <1>a, Zenon
  <2> QED BY <1>5, <2>1, <2>2, InFront, Zenon
<1>h. v[1] = e /\ Len(v) = Len(u) + 1 /\ Len(u) \in Nat
  BY <1>6, Zenon DEF FrontOf
<1>i. ASSUME NEW i \in 1..Len(v), i # 1 PROVE i - 1 \in 1..Len(u) /\ v[i] = u[i - 1]
  BY <1>6, <1>i, Zenon DEF FrontOf
<1>j. \A i \in 1..Len(u) : u[i].slot # Head(f)
  BY <1>g, <1>2, Zenon
<1>k. ASSUME NEW i \in 1..Len(g) PROVE g[i] = f[i + 1] /\ i + 1 \in 1..Len(f) /\ i + 1 # 1
  <2>1. g[i] = f[i + 1] /\ i + 1 \in 1..Len(f)
    BY <1>2, Zenon
  <2> QED BY <1>2, <2>1
<1>7. Held(c, v, g, n)
  <2>1. ASSUME NEW i \in 1..Len(v) PROVE v[i].slot \in 1..Len(n)
    <3>1. CASE i = 1
      BY <1>c, <1>4, <1>5, <1>h, <3>1, Zenon
    <3>2. CASE i # 1
      BY <1>a, <1>4, <1>i, <3>2, Zenon
    <3> QED BY <3>1, <3>2, Zenon
  <2>2. ASSUME NEW i \in 1..Len(g) PROVE g[i] \in 1..Len(n)
    BY <1>a, <1>k, <1>4, Zenon
  <2> QED BY <1>a, <1>2, <1>4, <1>6, <2>1, <2>2, Zenon DEF Held
<1>8. Distinct(v, g)
  <2>0. ASSUME NEW i \in 1..Len(v), NEW j \in 1..Len(v), i - 1 = j - 1 PROVE i = j
    BY <1>h, <2>0
  <2>1. ASSUME NEW i \in 1..Len(v), NEW j \in 1..Len(v), v[i].index = v[j].index PROVE i = j
    <3>1. \A l \in 1..Len(v) : l # 1 => v[l].index # index
      BY <1>i, Zenon
    <3>2. v[1].index = index
      BY <1>5, <1>h, Zenon
    <3>3. CASE i = 1 \/ j = 1
      BY <2>1, <3>1, <3>2, <3>3, Zenon
    <3>4. CASE i # 1 /\ j # 1
      <4>1. /\ i - 1 \in 1..Len(u) /\ v[i] = u[i - 1] /\ j - 1 \in 1..Len(u) /\ v[j] = u[j - 1]
        BY <1>i, <3>4, Zenon
      <4>2. i - 1 = j - 1
        BY <1>d, <2>1, <4>1, Zenon
      <4> QED BY <2>0, <4>2, Zenon
    <3> QED BY <3>3, <3>4, Zenon
  <2>3. ASSUME NEW i \in 1..Len(v), NEW j \in 1..Len(v), v[i].slot = v[j].slot PROVE i = j
    <3>1. \A l \in 1..Len(v) : l # 1 => v[l].slot # Head(f)
      BY <1>i, <1>j, Zenon
    <3>2. v[1].slot = Head(f)
      BY <1>5, <1>h, Zenon
    <3>3. CASE i = 1 \/ j = 1
      BY <2>3, <3>1, <3>2, <3>3, ZenonT(60)
    <3>4. CASE i # 1 /\ j # 1
      <4>1. /\ i - 1 \in 1..Len(u) /\ v[i] = u[i - 1] /\ j - 1 \in 1..Len(u) /\ v[j] = u[j - 1]
        BY <1>i, <3>4, Zenon
      <4>2. i - 1 = j - 1
        BY <1>e, <2>3, <4>1, Zenon
      <4> QED BY <2>0, <4>2, Zenon
    <3> QED BY <3>3, <3>4, Zenon
  <2>4. ASSUME NEW i \in 1..Len(g), NEW j \in 1..Len(g), g[i] = g[j] PROVE i = j
    <3>1. i + 1 = j + 1
      BY <1>f, <1>k, <2>4, ZenonT(60)
    <3> QED BY <1>2, <3>1
  <2>5. ASSUME NEW i \in 1..Len(v), NEW j \in 1..Len(g) PROVE v[i].slot # g[j]
    <3>1. g[j] = f[j + 1] /\ j + 1 \in 1..Len(f) /\ j + 1 # 1
      BY <1>k, Zenon
    <3>2. Head(f) = f[1] /\ 1 \in 1..Len(f)
      BY <1>2, Zenon
    <3>3. CASE i = 1
      BY <1>f, <1>5, <1>h, <3>1, <3>2, <3>3, Zenon
    <3>4. CASE i # 1
      BY <1>g, <1>i, <3>1, <3>4, Zenon
    <3> QED BY <3>3, <3>4, Zenon
  <2> QED BY <2>1, <2>3, <2>4, <2>5, Zenon DEF Distinct
<1>9. Coherent(c, v, n)
  <2> SUFFICES ASSUME NEW i \in 1..Len(v) PROVE n[v[i].slot] = BlockOn(c, v[i].index)
    BY Zenon DEF Coherent
  <2>1. CASE i = 1
    BY <1>4, <1>5, <1>h, <2>1, Zenon
  <2>2. CASE i # 1
    <3>1. i - 1 \in 1..Len(u) /\ v[i] = u[i - 1]
      BY <1>i, <2>2, Zenon
    <3>2. u[i - 1].slot # Head(f) /\ u[i - 1].slot \in 1..Len(m)
      BY <1>a, <1>j, <3>1, Zenon
    <3>3. m[u[i - 1].slot] = BlockOn(c, u[i - 1].index)
      BY <3>1, Zenon DEF Cache, Coherent
    <3> QED BY <1>4, <3>1, <3>2, <3>3, Zenon
  <2> QED BY <2>1, <2>2, Zenon
<1> QED
  BY <1>7, <1>8, <1>9, Zenon DEF Cache, g

\* A block with its first n sectors new and its last ones old.
Torn(old, d, n) == [k \in Sectors |-> IF k < n THEN d[k] ELSE old[k]]

\* The card e has block b at index, and else the blocks of c.
OnlyBlock(c, e, index, b) ==
    \A j \in Blocks : BlockOn(e, j) = IF j = index THEN b ELSE BlockOn(c, j)

\* The blocks of the card after the first n sectors of a block are written.
LEMMA OnCard ==
    ASSUME NEW c \in [Places -> Data], NEW index \in Blocks, NEW d \in Contents,
           NEW n \in 0..SECTORS
    PROVE  OnlyBlock(c, Laid(c, index * SECTORS, d, n), index, Torn(BlockOn(c, index), d, n))
<1> SUFFICES ASSUME NEW j \in Blocks
             PROVE  BlockOn(Laid(c, index * SECTORS, d, n), j)
                      = IF j = index THEN Torn(BlockOn(c, index), d, n) ELSE BlockOn(c, j)
  BY Zenon DEF OnlyBlock
<1> DEFINE base == index * SECTORS
           e == Laid(c, base, d, n)
<1>1. ASSUME NEW k \in Sectors
      PROVE  e[j * SECTORS + k] = IF j * SECTORS + k \in base..(base + n - 1)
                                  THEN d[(j * SECTORS + k) - base] ELSE c[j * SECTORS + k]
  <2>1. j * SECTORS + k \in Places
    BY SectorsOnCard, Zenon
  <2> QED BY <2>1, Zenon DEF Laid
<1>2. CASE j # index
  <2>1. ASSUME NEW k \in Sectors PROVE j * SECTORS + k \notin base..(base + n - 1)
    BY <1>2, SectorsApart, Zenon
  <2> HIDE DEF e
  <2>2. \A k \in Sectors : e[j * SECTORS + k] = c[j * SECTORS + k]
    BY <1>1, <2>1, Zenon
  <2>3. BlockOn(e, j) = BlockOn(c, j)
    BY <2>2, Zenon DEF BlockOn
  <2> QED BY <1>2, <2>3, Zenon DEF e
<1>3. CASE j = index
  <2>1. ASSUME NEW k \in Sectors
        PROVE  e[j * SECTORS + k] = IF k < n THEN d[k] ELSE BlockOn(c, index)[k]
    <3>1. base \in Nat /\ k \in Nat /\ n \in Nat
      BY <1>3, SectorsOnCard, BlockAssumption DEF Sectors
    <3> HIDE DEF base, e
    <3>2. (base + k \in base..(base + n - 1) <=> k < n) /\ (base + k) - base = k
      BY <3>1
    <3>3. j * SECTORS + k = base + k
      BY <1>3, Zenon DEF base
    <3>4. BlockOn(c, index)[k] = c[base + k]
      BY Zenon DEF BlockOn, base
    <3> QED BY <1>1, <3>2, <3>3, <3>4, Zenon
  <2> HIDE DEF e
  <2>2. BlockOn(e, j) = Torn(BlockOn(c, index), d, n)
    BY <2>1, Zenon DEF BlockOn, Torn
  <2> QED BY <1>3, <2>2, Zenon DEF e
<1> QED
  BY <1>2, <1>3, Zenon

\* What is laid on the card are sectors.
LEMMA LaidType ==
    ASSUME NEW c \in [Places -> Data], NEW index \in Blocks, NEW d \in Contents,
           NEW n \in 0..SECTORS
    PROVE  Laid(c, index * SECTORS, d, n) \in [Places -> Data]
<1> DEFINE base == index * SECTORS
<1>1. base \in Nat /\ n \in Nat /\ n <= SECTORS /\ SECTORS \in Nat
  <2>1. 0 \in Sectors
    BY BlockAssumption DEF Sectors
  <2> QED BY <2>1, SectorsOnCard, BlockAssumption
<1>2. ASSUME NEW a \in Places, a \in base..(base + n - 1) PROVE d[a - base] \in Data
  <2>1. a - base \in Sectors
    <3> HIDE DEF base
    <3> QED BY <1>1, <1>2 DEF Sectors, Places
  <2> QED BY <2>1, Zenon DEF Contents
<1>3. ASSUME NEW a \in Places
      PROVE  (IF a \in base..(base + n - 1) THEN d[a - base] ELSE c[a]) \in Data
  BY <1>2, Zenon
<1> QED
  BY <1>3, Zenon DEF Laid

\* The first SECTORS sectors are the whole block.
LEMMA WholeBlock ==
    ASSUME NEW c \in [Places -> Data], NEW index \in Blocks, NEW d \in Contents
    PROVE  OnlyBlock(c, Laid(c, index * SECTORS, d, SECTORS), index, d)
<1>1. SECTORS \in 0..SECTORS /\ \A k \in Sectors : k < SECTORS
  BY BlockAssumption DEF Sectors
<1>2. OnlyBlock(c, Laid(c, index * SECTORS, d, SECTORS), index, Torn(BlockOn(c, index), d, SECTORS))
  BY <1>1, OnCard, Zenon
<1>3. Torn(BlockOn(c, index), d, SECTORS) = d
  BY <1>1, Zenon DEF Contents, Torn
<1> QED
  BY <1>2, <1>3, Zenon

\* The memory n has d in slot s, and else what m has.
OnlySlot(m, n, s, d) ==
    Len(n) = Len(m) /\ n[s] = d /\ \A x \in 1..Len(m) : x # s => n[x] = m[x]

\* An assignment to a slot is that.
LEMMA SetSlot ==
    ASSUME NEW S, NEW m \in Seq(S), NEW s \in 1..Len(m), NEW d \in S,
           NEW n, n = [m EXCEPT ![s] = d]
    PROVE  n \in Seq(S) /\ OnlySlot(m, n, s, d)
  BY DEF OnlySlot

\* memcpy into slot s.
SlotSet(m, n, s, d) == n = [m EXCEPT ![s] = d]

\* block_write: the cache and the card get the same block.
LEMMA WrittenThrough ==
    ASSUME NEW c, NEW u, NEW f, NEW m, Cache(c, u, f, m),
           NEW i \in 1..Len(u), NEW d \in Contents,
           NEW e, e = Laid(c, u[i].index * SECTORS, d, SECTORS),
           NEW n, SlotSet(m, n, u[i].slot, d)
    PROVE  Cache(e, u, f, n)
<1>1. /\ c \in [Places -> Data] /\ m \in Seq(Pieces) /\ u \in Seq(Entries)
      /\ \A x \in 1..Len(u) : u[x].slot \in 1..Len(m)
  BY Zenon DEF Cache, Held
<1>2. \A x \in 1..Len(u) : u[x].index \in Blocks
  <2>1. \A x \in 1..Len(u) : u[x] \in Entries
    BY <1>1
  <2> QED BY <2>1, Zenon DEF Entries
<1>3. e \in [Places -> Data]
  <2>1. SECTORS \in 0..SECTORS
    BY BlockAssumption
  <2> QED BY <1>1, <1>2, <2>1, LaidType, Zenon
<1> DEFINE s == u[i].slot
<1>4. n \in Seq(Pieces) /\ Len(n) = Len(m) /\ n[s] = d /\ \A x \in 1..Len(m) : x # s => n[x] = m[x]
  <2>1. s \in 1..Len(m) /\ d \in Pieces /\ n = [m EXCEPT ![s] = d]
    BY <1>1, Zenon DEF Pieces, SlotSet
  <2> HIDE DEF s
  <2>2. m \in Seq(Pieces)
    BY <1>1, Zenon
  <2>3. n \in Seq(Pieces) /\ OnlySlot(m, n, s, d)
    BY <2>1, <2>2, SetSlot, Zenon
  <2> QED BY <2>3, Zenon DEF OnlySlot
<1>5. Held(e, u, f, n)
  BY <1>3, <1>4, Zenon DEF Cache, Held
<1>6. Coherent(e, u, n)
  <2> SUFFICES ASSUME NEW x \in 1..Len(u) PROVE n[u[x].slot] = BlockOn(e, u[x].index)
    BY Zenon DEF Coherent
  <2>0. c \in [Places -> Data] /\ u[i].index \in Blocks /\ u[x].index \in Blocks
    BY <1>1, <1>2, Zenon
  <2>1. BlockOn(e, u[x].index) = IF u[x].index = u[i].index THEN d ELSE BlockOn(c, u[x].index)
    <3>1. OnlyBlock(c, e, u[i].index, d)
      BY <2>0, WholeBlock, Zenon
    <3> QED BY <2>0, <3>1, Zenon DEF OnlyBlock
  <2>2. CASE x = i
    BY <1>4, <2>1, <2>2, Zenon
  <2>3. CASE x # i
    <3>1. u[x].index # u[i].index /\ u[x].slot # u[i].slot
      BY <2>3, Zenon DEF Cache, Distinct
    <3>2. m[u[x].slot] = BlockOn(c, u[x].index)
      BY Zenon DEF Cache, Coherent
    <3> QED BY <1>1, <1>4, <2>1, <3>1, <3>2, Zenon
  <2> QED BY <2>2, <2>3, Zenon
<1> QED
  BY <1>5, <1>6, Zenon DEF Cache

-----------------------------------------------------------------------------
(* get_block *)

\* The state of the block layer as the functions of Block pass it.
States ==
    [card : [Places -> Data], used : Seq(Entries), free : Seq(Nat), memory : Seq(Pieces), at : Nat]

\* Its fields are these.
Fields(t, c, u, f, m, a) ==
    t \in States /\ t.card = c /\ t.used = u /\ t.free = f /\ t.memory = m /\ t.at = a

\* get_block has found or fetched block index: the card is c and the cache is
\* sound.
Got(t, c, index) ==
    /\ t \in States /\ t.card = c /\ Cache(t.card, t.used, t.free, t.memory)
    /\ \E i \in 1..Len(t.used) : t.used[i].index = index /\ t.used[i].slot = t.at

\* The assignments of get_block, one by one.
LEMMA SetPlace ==
    ASSUME NEW t, NEW c, NEW u, NEW f, NEW m, NEW a, Fields(t, c, u, f, m, a), NEW b \in Nat
    PROVE  \A r : r = [t EXCEPT !.at = b] => Fields(r, c, u, f, m, b)
<1> DEFINE r == [t EXCEPT !.at = b]
<1>1. t \in States /\ t.card = c /\ t.used = u /\ t.free = f /\ t.memory = m
  BY Zenon DEF Fields
<1>2. r.card = c /\ r.used = u /\ r.free = f /\ r.memory = m /\ r.at = b
  BY <1>1, Zenon DEF States
<1>3. r \in States
  BY <1>1, Zenon DEF States
<1> QED
  BY <1>2, <1>3, Zenon DEF Fields

\* The first free block becomes a used one ...
LEMMA TakeFree ==
    ASSUME NEW t, NEW c, NEW u, NEW f, NEW m, NEW a, Fields(t, c, u, f, m, a), NEW e,
           <<e>> \o u \in Seq(Entries), Tail(f) \in Seq(Nat)
    PROVE  Fields([t EXCEPT !.free = Tail(@), !.used = <<e>> \o @], c, <<e>> \o u, Tail(f), m, a)
<1> DEFINE r == [t EXCEPT !.free = Tail(@), !.used = <<e>> \o @]
<1>1. t \in States /\ t.card = c /\ t.used = u /\ t.free = f /\ t.memory = m /\ t.at = a
  BY Zenon DEF Fields
<1>2. r.card = c /\ r.used = <<e>> \o u /\ r.free = Tail(f) /\ r.memory = m /\ r.at = a
  BY <1>1, Zenon DEF States
<1>3. r \in States
  BY <1>1, Zenon DEF States
<1> QED
  BY <1>2, <1>3, Zenon DEF Fields

\* ... and gets its sectors from the card.
LEMMA FetchInto ==
    ASSUME NEW t, NEW c, NEW u, NEW f, NEW m, NEW a, Fields(t, c, u, f, m, a),
           NEW index, NEW x, NEW n, n = [m EXCEPT ![x] = BlockOn(c, index)], n \in Seq(Pieces)
    PROVE  Fields(fetched(t, index, x), c, u, f, n, a)
<1> DEFINE r == fetched(t, index, x)
<1>1. t \in States /\ t.card = c /\ t.used = u /\ t.free = f /\ t.memory = m /\ t.at = a
  BY Zenon DEF Fields
<1>2. mmc_read(t, index * SECTORS) = BlockOn(c, index)
  BY <1>1, Zenon DEF mmc_read, mmc_read_block, BlockOn
<1>3. r.memory = [m EXCEPT ![x] = BlockOn(c, index)]
  BY <1>1, <1>2, Zenon DEF States, fetched
<1>4. r.card = c /\ r.used = u /\ r.free = f /\ r.at = a
  BY <1>1, Zenon DEF States, fetched
<1>5. r \in States
  BY <1>1, <1>3, Zenon DEF States, fetched
<1> QED
  BY <1>3, <1>4, <1>5, Zenon DEF Fields

\* Before that, a new page if no block is free.
LEMMA GrowBy ==
    ASSUME NEW t, NEW c, NEW u, NEW m, NEW a, Fields(t, c, u, <<>>, m, a),
           NEW f \in Seq(Nat), f = [k \in 1..BLOCKS_PER_PAGE |-> Len(m) + BLOCKS_PER_PAGE + 1 - k],
           NEW n \in Seq(Pieces), n = m \o [k \in 1..BLOCKS_PER_PAGE |-> <<>>]
    PROVE  Fields(prepare_blocks(t), c, u, f, n, a)
<1> DEFINE r == prepare_blocks(t)
<1>1. t \in States /\ t.card = c /\ t.used = u /\ t.free = <<>> /\ t.memory = m /\ t.at = a
  BY Zenon DEF Fields
<1>2. f \o <<>> = f
  OBVIOUS
<1>3. r.memory = n
  BY <1>1, Zenon DEF States, prepare_blocks
<1>4. r.free = f \o <<>>
  BY <1>1, Zenon DEF States, prepare_blocks
<1>5. r.card = c /\ r.used = u /\ r.at = a
  BY <1>1, Zenon DEF States, prepare_blocks
<1>6. r \in States
  BY <1>1, <1>2, <1>3, <1>4, Zenon DEF States, prepare_blocks
<1> QED
  BY <1>2, <1>3, <1>4, <1>5, <1>6, Zenon DEF Fields

\* A block is fetched into the first free one.
LEMMA Missed ==
    ASSUME NEW c, NEW u, NEW f, NEW m, NEW a, NEW t, Fields(t, c, u, f, m, a),
           Cache(c, u, f, m), f # <<>>, NEW index \in Blocks,
           \A i \in 1..Len(u) : u[i].index # index,
           NEW o, o = [fetched([t EXCEPT !.free = Tail(@),
                                         !.used = <<[index |-> index, slot |-> Head(t.free)]>> \o @],
                               index, Head(t.free)) EXCEPT !.at = Head(t.free)]
    PROVE  Got(o, c, index)
<1> DEFINE e == [index |-> index, slot |-> Head(t.free)]
           q == [t EXCEPT !.free = Tail(@), !.used = <<e>> \o @]
           v == <<e>> \o u
           n == [m EXCEPT ![Head(f)] = BlockOn(c, index)]
           w == fetched(q, index, Head(t.free))
           r == [w EXCEPT !.at = Head(t.free)]
<1>1. t.free = f
  BY Zenon DEF Fields
<1>2. Cache(c, v, Tail(f), n)
  BY <1>1, Fetched, Zenon
<1>3. v \in Seq(Entries) /\ Tail(f) \in Seq(Nat) /\ n \in Seq(Pieces)
  BY <1>2, Zenon DEF Cache, Held
<1>4. e.index = index /\ e.slot = Head(f)
  BY <1>1, Zenon
<1>5. Head(f) \in Nat /\ u \in Seq(Entries)
  <2>1. f \in Seq(Nat) /\ u \in Seq(Entries)
    BY Zenon DEF Cache, Held
  <2> QED BY <2>1
<1> HIDE DEF e
<1>6. Fields(q, c, v, Tail(f), m, a)
  BY <1>3, TakeFree, Zenon
<1> HIDE DEF q, v
<1>7. Fields(w, c, v, Tail(f), n, a)
  BY <1>1, <1>3, <1>6, FetchInto, Zenon
<1> HIDE DEF w, n
<1>8. Fields(r, c, v, Tail(f), n, Head(f))
  BY <1>1, <1>5, <1>7, SetPlace, ZenonT(60)
<1> HIDE DEF r
<1>9. \E i \in 1..Len(v) : v[i].index = index /\ v[i].slot = Head(f)
  <2>1. v[1] = e /\ 1 \in 1..Len(v)
    BY <1>5 DEF v
  <2> QED BY <1>4, <2>1, Zenon
<1>10. Got(r, c, index)
  BY <1>2, <1>8, <1>9, Zenon DEF Got, Fields
<1>11. o = r
  BY Zenon DEF r, w, q, e
<1> QED BY <1>10, <1>11, Zenon

\* get_block finds the block, or fetches it.
LEMMA GetBlock ==
    ASSUME NEW c, NEW u, NEW f, NEW m, NEW a, NEW s, Fields(s, c, u, f, m, a),
           Cache(c, u, f, m), NEW index \in Blocks
    PROVE  Got(get_block(s, index), c, index)
<1> DEFINE E == entries(s, index)
           t == get_block(s, index)
<1>1. s.used = u /\ s.free = f /\ s.memory = m
  BY Zenon DEF Fields
<1>2. E = {i \in 1..Len(u) : u[i].index = index}
  BY <1>1, Zenon DEF entries
<1>3. CASE E # {}
  <2> DEFINE k == Min(E)
  <2>1. k \in E
    <3>1. Len(u) \in Nat
      BY DEF Cache, Held
    <3>2. E \subseteq Nat
      <4>1. 1..Len(u) \subseteq Nat
        BY <3>1
      <4> QED BY <1>2, <4>1, Zenon
    <3> HIDE DEF E
    <3>3. \E x \in E : \A y \in E : x <= y
      BY <1>3, <3>2, LeastNumber, Zenon
    <3> QED BY <3>3, Zenon DEF Min
  <2>2. t = [s EXCEPT !.at = u[k].slot]
    BY <1>1, <1>3, Zenon DEF get_block
  <2> HIDE DEF k, E
  <2>3. k \in 1..Len(u) /\ u[k].index = index
    BY <1>2, <2>1, Zenon
  <2>4. u[k].slot \in Nat
    <3>1. u[k].slot \in 1..Len(m) /\ m \in Seq(Pieces)
      BY <2>3, Zenon DEF Cache, Held
    <3> DEFINE x == u[k].slot
    <3> HIDE DEF x
    <3>2. x \in 1..Len(m)
      BY <3>1, Zenon DEF x
    <3>3. x \in Nat
      BY <3>1, <3>2
    <3> QED BY <3>3, Zenon DEF x
  <2> HIDE DEF t
  <2>5. Fields(t, c, u, f, m, u[k].slot)
    BY <2>2, <2>4, SetPlace, Zenon
  <2>6. Got(t, c, index)
    BY <2>3, <2>5, Zenon DEF Got, Fields
  <2> QED BY <2>6, Zenon DEF t
<1>4. CASE E = {}
  <2>1. \A i \in 1..Len(u) : u[i].index # index
    BY <1>2, <1>4, Zenon
  <2>2. CASE f # <<>>
    <3>1. t = [fetched([s EXCEPT !.free = Tail(@),
                                 !.used = <<[index |-> index, slot |-> Head(s.free)]>> \o @],
                       index, Head(s.free)) EXCEPT !.at = Head(s.free)]
      BY <1>1, <1>4, <2>2, Zenon DEF get_block
    <3> HIDE DEF t
    <3>2. Got(t, c, index)
      BY <2>1, <2>2, <3>1, Missed, Zenon
    <3> QED BY <3>2, Zenon DEF t
  <2>3. CASE f = <<>>
    <3> DEFINE g == [k \in 1..BLOCKS_PER_PAGE |-> Len(m) + BLOCKS_PER_PAGE + 1 - k]
               n == m \o [k \in 1..BLOCKS_PER_PAGE |-> <<>>]
               r == prepare_blocks(s)
    <3>1. Cache(c, u, g, n) /\ g # <<>>
      BY <2>3, Prepared, Zenon
    <3>2. g \in Seq(Nat) /\ n \in Seq(Pieces)
      BY <3>1, Zenon DEF Cache, Held
    <3>3. Fields(r, c, u, g, n, a)
      BY <2>3, <3>2, GrowBy, Zenon
    <3>4. t = [fetched([r EXCEPT !.free = Tail(@),
                                 !.used = <<[index |-> index, slot |-> Head(r.free)]>> \o @],
                       index, Head(r.free)) EXCEPT !.at = Head(r.free)]
      BY <1>1, <1>4, <2>3, Zenon DEF get_block
    <3> HIDE DEF g, n, r, t
    <3>5. Got(t, c, index)
      BY <2>1, <3>1, <3>3, <3>4, Missed, Zenon
    <3> QED BY <3>5, Zenon DEF t
  <2> QED BY <2>2, <2>3, Zenon
<1> QED
  BY <1>3, <1>4, Zenon

\* w is t after the write of d, with the card c.
Wrote(t, w, c, d) ==
    /\ w.card = c /\ w.used = t.used /\ w.free = t.free
    /\ w.memory = [t.memory EXCEPT ![t.at] = d]

\* block_write after get_block.
LEMMA WrittenFields ==
    ASSUME NEW c, NEW index \in Blocks, NEW t, Got(t, c, index),
           NEW d \in Contents, NEW n \in 0..SECTORS
    PROVE  Wrote(t, written(t, index, d, n), Laid(c, index * SECTORS, d, n), d)
<1> DEFINE w == written(t, index, d, n)
           r == [t EXCEPT !.memory[t.at] = d]
           base == index * SECTORS
<1>1. t \in States /\ t.card = c
  BY Zenon DEF Got
<1>2. DOMAIN r = {"card", "used", "free", "memory", "at"}
  BY <1>1, Zenon DEF States
<1>3. r.card = c /\ r.used = t.used /\ r.free = t.free /\ r.memory = [t.memory EXCEPT ![t.at] = d]
  BY <1>1, Zenon DEF States
<1>4. base \in Nat /\ n \in Nat
  <2>1. 0 \in Sectors
    BY BlockAssumption DEF Sectors
  <2> QED BY <2>1, SectorsOnCard
<1>5. r.card \in [Places -> Data]
  BY <1>1, <1>3, Zenon DEF States
<1>6. w = mmc_write(r, base, d, n)
  BY Zenon DEF written
<1> HIDE DEF r, base, w
<1>7. OnlyCard(r, w, Laid(c, base, d, n))
  <2>1. OnlyCard(r, mmc_write(r, base, d, n), Laid(r.card, base, d, n))
    BY <1>4, <1>5, Transfer, Zenon
  <2> QED BY <1>3, <1>6, <2>1, Zenon
<1>8. w.card = Laid(c, base, d, n)
  BY <1>2, <1>7, Zenon DEF OnlyCard
<1>9. w.used = r.used /\ w.free = r.free /\ w.memory = r.memory
  BY <1>2, <1>7, Zenon DEF OnlyCard
<1>10. Wrote(t, w, Laid(c, base, d, n), d)
  BY <1>3, <1>8, <1>9, Zenon DEF Wrote
<1> QED
  BY <1>10, Zenon DEF base, w

-----------------------------------------------------------------------------
(* The volume is a disk *)

\* The inductive invariant: the cache is sound, and holds what the card holds.
CacheInv == Cache(card, used_blocks, free_blocks, memory)

\* The blocks of the disk.
LEMMA DiskIs == \A i \in Blocks : Disk[i] = BlockOn(card, i)
  BY Zenon DEF Disk, BlockOn

\* The state the kernel is in has that shape.
LEMMA StateFields == CacheInv => Fields(State, card, used_blocks, free_blocks, memory, 0)
<1> SUFFICES ASSUME CacheInv PROVE Fields(State, card, used_blocks, free_blocks, memory, 0)
  OBVIOUS
<1>1. card \in [Places -> Data] /\ used_blocks \in Seq(Entries) /\ free_blocks \in Seq(Nat) /\ memory \in Seq(Pieces)
  BY Zenon DEF CacheInv, Cache, Held
<1>2. 0 \in Nat
  OBVIOUS
<1> QED
  BY <1>1, <1>2, Zenon DEF Fields, State, States

\* get_block from the state the kernel is in.
LEMMA GotNow ==
    ASSUME CacheInv, NEW index \in Blocks
    PROVE  Got(get_block(State, index), card, index)
<1>1. Fields(State, card, used_blocks, free_blocks, memory, 0)
  BY StateFields, Zenon
<1>2. Cache(card, used_blocks, free_blocks, memory)
  BY Zenon DEF CacheInv
<1> QED
  BY <1>1, <1>2, GetBlock, Zenon

\* What it found is what the disk holds.
LEMMA FoundRight ==
    ASSUME NEW t, NEW c, NEW index \in Blocks, Got(t, c, index)
    PROVE  t.memory[t.at] = BlockOn(c, index)
<1>1. PICK i \in 1..Len(t.used) : t.used[i].index = index /\ t.used[i].slot = t.at
  BY Zenon DEF Got
<1>2. t.memory[t.used[i].slot] = BlockOn(c, t.used[i].index)
  BY Zenon DEF Got, Cache, Coherent
<1> QED
  BY <1>1, <1>2, Zenon

\* A read, of a program or of superblock_init, is a read of the disk.
LEMMA ReadStep ==
    ASSUME CacheInv, NEW index \in Blocks,
           Commit(get_block(State, index)),
           result' = get_block(State, index).memory[get_block(State, index).at]
    PROVE  CacheInv' /\ Device!Read(index)
<1> DEFINE t == get_block(State, index)
<1>1. Got(t, card, index)
  BY GotNow, Zenon
<1>2. card' = t.card /\ used_blocks' = t.used /\ free_blocks' = t.free /\ memory' = t.memory
  BY Zenon DEF Commit
<1>3. result' = t.memory[t.at]
  OBVIOUS
<1> HIDE DEF t
<1>4. CacheInv' /\ card' = card
  BY <1>1, <1>2, Zenon DEF CacheInv, Got
<1>5. result' = Disk[index]
  BY <1>1, <1>3, FoundRight, DiskIs, Zenon
<1>6. Disk' = Disk
  BY <1>4, Zenon DEF Disk
<1> QED
  BY <1>4, <1>5, <1>6, Zenon DEF Device!Read

\* The disk after the card became e, when that changes one block.
LEMMA DiskBecomes ==
    ASSUME NEW index \in Blocks, NEW b, OnlyBlock(card, card', index, b)
    PROVE  Disk' = [Disk EXCEPT ![index] = b]
<1>1. \A j \in Blocks : BlockOn(card', j) = IF j = index THEN b ELSE BlockOn(card, j)
  BY Zenon DEF OnlyBlock
<1>2. Disk' = [j \in Blocks |-> BlockOn(card', j)] /\ Disk = [j \in Blocks |-> BlockOn(card, j)]
  BY Zenon DEF Disk, BlockOn
<1> QED
  BY <1>1, <1>2, Zenon

\* block_write is a write of the disk.
LEMMA WriteStep ==
    ASSUME CacheInv, NEW index \in Blocks, NEW d \in Contents, block_write(index, d)
    PROVE  CacheInv' /\ Device!Write(index, d)
<1> DEFINE t == get_block(State, index)
           w == written(t, index, d, SECTORS)
<1>1. Got(t, card, index)
  BY GotNow, Zenon
<1>2. card' = w.card /\ used_blocks' = w.used /\ free_blocks' = w.free /\ memory' = w.memory /\ result' = result
  BY Zenon DEF Commit, block_write
<1>3. SECTORS \in 0..SECTORS
  BY BlockAssumption
<1> HIDE DEF t
<1>4. /\ w.card = Laid(card, index * SECTORS, d, SECTORS)
      /\ w.used = t.used /\ w.free = t.free /\ w.memory = [t.memory EXCEPT ![t.at] = d]
  <2>1. Wrote(t, w, Laid(card, index * SECTORS, d, SECTORS), d)
    BY <1>1, <1>3, WrittenFields, Zenon
  <2> HIDE DEF w
  <2> QED BY <2>1, Zenon DEF Wrote
<1> HIDE DEF w
<1>5. PICK i \in 1..Len(t.used) : t.used[i].index = index /\ t.used[i].slot = t.at
  BY <1>1, Zenon DEF Got
<1>6. Cache(card, t.used, t.free, t.memory) /\ card \in [Places -> Data]
  BY <1>1, Zenon DEF Got, Cache, Held
<1>7. Cache(w.card, t.used, t.free, w.memory)
  <2>1. /\ w.card = Laid(card, t.used[i].index * SECTORS, d, SECTORS)
        /\ SlotSet(t.memory, w.memory, t.used[i].slot, d)
    BY <1>4, <1>5, Zenon DEF SlotSet
  <2> QED BY <1>6, <2>1, WrittenThrough, Zenon
<1>8. CacheInv'
  BY <1>2, <1>4, <1>7, Zenon DEF CacheInv
<1>9. OnlyBlock(card, card', index, d)
  <2>1. OnlyBlock(card, Laid(card, index * SECTORS, d, SECTORS), index, d)
    BY <1>6, WholeBlock, Zenon
  <2> QED BY <1>2, <1>4, <2>1, Zenon
<1>10. Disk' = [Disk EXCEPT ![index] = d]
  BY <1>9, DiskBecomes, Zenon
<1> QED
  BY <1>2, <1>8, <1>10, Zenon DEF Device!Write

\* A power failure tears one block.
LEMMA FailStep ==
    ASSUME CacheInv, NEW index \in Blocks, NEW d \in Contents, NEW n \in Sectors,
           power_fails(index, d, n)
    PROVE  CacheInv' /\ Device!Fail(index, d, n)
<1> DEFINE t == get_block(State, index)
           w == written(t, index, d, n)
<1>1. Got(t, card, index)
  BY GotNow, Zenon
<1>2. card' = w.card /\ used_blocks' = <<>> /\ free_blocks' = <<>> /\ memory' = <<>> /\ result' = <<>>
  BY Zenon DEF power_fails
<1>3. n \in 0..SECTORS
  BY BlockAssumption DEF Sectors
<1> HIDE DEF t
<1>4. w.card = Laid(card, index * SECTORS, d, n)
  <2>1. Wrote(t, w, Laid(card, index * SECTORS, d, n), d)
    BY <1>1, <1>3, WrittenFields, Zenon
  <2> HIDE DEF w
  <2> QED BY <2>1, Zenon DEF Wrote
<1> HIDE DEF w
<1>5. card \in [Places -> Data]
  BY Zenon DEF CacheInv, Cache, Held
<1>6. card' \in [Places -> Data]
  <2>1. Laid(card, index * SECTORS, d, n) \in [Places -> Data]
    BY <1>3, <1>5, LaidType, Zenon
  <2> QED BY <1>2, <1>4, <2>1, Zenon
<1>7. OnlyBlock(card, card', index, Torn(BlockOn(card, index), d, n))
  BY <1>2, <1>3, <1>4, <1>5, OnCard, Zenon
<1>8. Disk' = [Disk EXCEPT ![index] = Torn(BlockOn(card, index), d, n)]
  BY <1>7, DiskBecomes, Zenon
<1>9. BlockOn(card, index) = Disk[index]
  BY DiskIs, Zenon
<1>10. CacheInv'
  BY <1>2, <1>6 DEF CacheInv, Cache, Held, Distinct, Coherent
<1> QED
  BY <1>2, <1>8, <1>9, <1>10, Zenon DEF Device!Fail, Torn

\* One step of the block layer is one step of the disk.
LEMMA DeviceStep ==
    ASSUME CacheInv, BlockNext
    PROVE  CacheInv' /\ Device!Next
<1>1. CASE superblock_init
  <2>1. 0 \in Blocks
    BY BlockAssumption DEF Blocks
  <2>2. CacheInv' /\ Device!Read(0)
    BY <1>1, <2>1, ReadStep, Zenon DEF superblock_init
  <2> QED BY <2>1, <2>2, Zenon DEF Device!Next
<1>2. ASSUME NEW index \in Blocks, block_read(index) PROVE CacheInv' /\ Device!Next
  <2>1. CacheInv' /\ Device!Read(index)
    BY <1>2, ReadStep, Zenon DEF block_read
  <2> QED BY <2>1, Zenon DEF Device!Next
<1>3. ASSUME NEW index \in Blocks, NEW d \in Contents, block_write(index, d)
      PROVE  CacheInv' /\ Device!Next
  <2>1. CacheInv' /\ Device!Write(index, d)
    BY <1>3, WriteStep, Zenon
  <2> QED BY <2>1, Zenon DEF Device!Next, Device!Contents, Contents
<1>4. ASSUME NEW index \in Blocks, NEW d \in Contents, NEW n \in Sectors, power_fails(index, d, n)
      PROVE  CacheInv' /\ Device!Next
  <2>1. CacheInv' /\ Device!Fail(index, d, n)
    BY <1>4, FailStep, Zenon
  <2> QED BY <2>1, Zenon DEF Device!Next, Device!Contents, Contents
<1> QED
  BY <1>1, <1>2, <1>3, <1>4, Zenon DEF BlockNext

\* Through the cache, the pages it grows by and the sectors under it, the
\* volume is a plain disk: a block reads as it was last written, also after a
\* power failure and a new boot, and a failure damages no block but the one
\* being written (get_block, block_write, mmc_write).
THEOREM VolumeIsDisk == BlockSpec => DeviceSpec
<1>1. BlockInit => CacheInv /\ Device!Init
  <2> SUFFICES ASSUME BlockInit PROVE CacheInv /\ Device!Init
    OBVIOUS
  <2>1. card \in [Places -> Data] /\ used_blocks = <<>> /\ free_blocks = <<>> /\ memory = <<>> /\ result = <<>>
    BY Zenon DEF BlockInit, Places
  <2>2. CacheInv
    BY <2>1 DEF CacheInv, Cache, Held, Distinct, Coherent
  <2>3. ASSUME NEW i \in Blocks, NEW k \in Sectors PROVE card[i * SECTORS + k] \in Data
    BY <2>1, SectorsOnCard, Zenon
  <2>4. Disk \in [Blocks -> Contents]
    BY <2>3, Zenon DEF Disk, Contents
  <2> QED BY <2>1, <2>2, <2>4, Zenon DEF Device!Init, Device!Contents, Contents
<1>2. CacheInv /\ [BlockNext]_block_vars => CacheInv' /\ [Device!Next]_<<Disk, result>>
  <2> SUFFICES ASSUME CacheInv, [BlockNext]_block_vars
               PROVE  CacheInv' /\ (Device!Next \/ UNCHANGED <<Disk, result>>)
    OBVIOUS
  <2>1. CASE BlockNext
    BY <2>1, DeviceStep, Zenon
  <2>2. CASE UNCHANGED block_vars
    BY <2>2, Zenon DEF block_vars, CacheInv, Disk
  <2> QED BY <2>1, <2>2, Zenon
<1> QED
  BY <1>1, <1>2, PTL DEF BlockSpec, DeviceSpec, Device!Spec
=============================================================================
