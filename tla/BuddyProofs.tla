----------------------------- MODULE BuddyProofs ------------------------------
(***************************************************************************)
(* What the buddy allocator keeps, for any amount of memory and any        *)
(* largest order: the blocks tile memory (Tiling), the free list of every  *)
(* order is a sequence of the free blocks of that order (Listed), pages    *)
(* inside blocks point nowhere (Unlinked), so buddy_pull_block may make    *)
(* list heads of them as they are, and no two buddies are free (Merged).   *)
(* From these follow the invariants of the page allocator and that it      *)
(* keeps the promise of PageAllocator.                                     *)
(***************************************************************************)
EXTENDS Buddy, Sequences, FiniteSetTheorems, TLAPS

-----------------------------------------------------------------------------
(* Sizes of blocks *)

\* A set of numbers has a least one.
LEMMA LeastNumber ==
    ASSUME NEW T, T \subseteq Nat, T # {}
    PROVE  \E x \in T : \A y \in T : x <= y
<1>1. IsWellFoundedOn(OpToRel(<, Nat), Nat)
  BY NatLessThanWellFounded, Zenon
<1>2. PICK x \in T : \A y \in T : ~ (<<y, x>> \in OpToRel(<, Nat))
  BY <1>1, WFMin, Zenon
<1>3. \A y \in T : ~ (y < x)
  BY <1>2, Zenon DEF OpToRel
<1> QED
  BY <1>3

\* g doubles from 1 up to n.
Doubles(g, n) ==
    /\ g[0] = 1
    /\ \A k \in 0..n : g[k] \in Nat \ {0} /\ (k + 1 \in 0..n => g[k + 1] = 2 * g[k])

\* There is such a function for every n.
LEMMA Doubling == ASSUME NEW n \in Nat PROVE \E g : Doubles(g, n)
<1> DEFINE T == {m \in Nat : ~ \E g : Doubles(g, m)}
<1> SUFFICES ASSUME T # {} PROVE FALSE
  BY Zenon
<1>1. T \subseteq Nat
  BY Zenon
<1>2. PICK x \in T : \A y \in T : x <= y
  BY <1>1, LeastNumber, Zenon
<1>3. CASE x = 0
  <2> DEFINE g == [k \in 0..0 |-> 1]
  <2>1. Doubles(g, 0)
    BY DEF Doubles
  <2> QED BY <1>2, <1>3, <2>1, Zenon
<1>4. CASE x # 0
  <2>1. x \in Nat /\ x - 1 \in Nat /\ ~ (x <= x - 1)
    BY <1>2, <1>4
  <2>2. PICK h : Doubles(h, x - 1)
    BY <1>2, <2>1, Zenon
  <2> DEFINE g == [k \in 0..x |-> IF k = x THEN 2 * h[x - 1] ELSE h[k]]
  <2>3. h[0] = 1 /\ \A k \in 0..(x - 1) : h[k] \in Nat \ {0} /\ (k + 1 \in 0..(x - 1) => h[k + 1] = 2 * h[k])
    BY <2>2, Zenon DEF Doubles
  <2>4. g[x] = 2 * h[x - 1] /\ \A k \in 0..x : k # x => g[k] = h[k]
    BY <2>1
  <2> HIDE DEF g
  <2>5. g[0] = 1
    BY <1>4, <2>1, <2>3, <2>4
  <2>6. ASSUME NEW k \in 0..x PROVE g[k] \in Nat \ {0} /\ (k + 1 \in 0..x => g[k + 1] = 2 * g[k])
    <3>1. CASE k = x
      BY <2>1, <2>3, <2>4, <3>1
    <3>2. CASE k # x
      <4>1. k \in 0..(x - 1) /\ g[k] = h[k]
        BY <2>1, <2>4, <3>2
      <4>2. h[k] \in Nat \ {0} /\ (k + 1 \in 0..(x - 1) => h[k + 1] = 2 * h[k])
        BY <2>3, <4>1, Zenon
      <4>3. CASE k + 1 = x
        <5>1. k = x - 1
          BY <2>1, <4>3
        <5> QED BY <2>4, <4>1, <4>2, <4>3, <5>1, Zenon
      <4>4. CASE k + 1 # x
        <5>1. k + 1 \in 0..(x - 1) /\ k + 1 \in 0..x
          BY <2>1, <4>1, <4>4
        <5>2. g[k + 1] = h[k + 1]
          BY <2>4, <4>4, <5>1, Zenon
        <5> QED BY <4>1, <4>2, <5>1, <5>2, Zenon
      <4> QED BY <4>3, <4>4, Zenon
    <3> QED BY <3>1, <3>2, Zenon
  <2>7. Doubles(g, x)
    BY <2>5, <2>6, Zenon DEF Doubles
  <2> QED BY <1>2, <2>7, Zenon
<1> QED
  BY <1>3, <1>4, Zenon

\* pages_in is one of them.
LEMMA Sizes == Doubles(pages_in, PAGE_MAX_ORDER)
<1> DEFINE M == PAGE_MAX_ORDER
           Eq(f) == f = [o \in 0..M |-> IF o = 0 THEN 1 ELSE 2 * f[o - 1]]
<1>1. M \in Nat
  BY BuddyAssumption
<1>2. PICK g : Doubles(g, M)
  BY <1>1, Doubling, Zenon
<1>3. \E f : Eq(f)
  <2> DEFINE f == [o \in 0..M |-> g[o]]
  <2>1. ASSUME NEW o \in 0..M PROVE f[o] = IF o = 0 THEN 1 ELSE 2 * f[o - 1]
    <3>1. CASE o = 0
      BY <1>2, <3>1, Zenon DEF Doubles
    <3>2. CASE o # 0
      <4>1. o - 1 \in 0..M /\ (o - 1) + 1 = o
        BY <1>1, <3>2
      <4>2. g[o] = 2 * g[o - 1]
        BY <1>2, <4>1, Zenon DEF Doubles
      <4> QED BY <3>2, <4>1, <4>2, Zenon
    <3> QED BY <3>1, <3>2, Zenon
  <2>2. Eq(f)
    BY <2>1, Zenon
  <2> QED BY <2>2, Zenon
<1>4. shifted = CHOOSE f : Eq(f)
  BY Zenon DEF shifted, Orders
<1>5. Eq(shifted)
  BY <1>3, <1>4, Zenon
<1> DEFINE p == pages_in
<1> HIDE DEF p
<1>6. ASSUME NEW o \in 0..M PROVE p[o] = IF o = 0 THEN 1 ELSE 2 * p[o - 1]
  <2>1. \A i \in 0..M : shifted[i] = IF i = 0 THEN 1 ELSE 2 * shifted[i - 1]
    BY <1>5, Zenon
  <2>2. \A i \in 0..M : p[i] = shifted[i]
    BY Zenon DEF p, pages_in, Orders
  <2>3. o # 0 => o - 1 \in 0..M
    BY <1>1
  <2> QED BY <2>1, <2>2, <2>3, Zenon
<1>7. p[0] = 1
  BY <1>1, <1>6
<1>8. ASSUME NEW k \in 0..M, k + 1 \in 0..M PROVE p[k + 1] = 2 * p[k]
  <2>1. k + 1 # 0 /\ (k + 1) - 1 = k
    BY <1>1
  <2> QED BY <1>6, <1>8, <2>1, Zenon
<1>9. \A k \in 0..M : p[k] \in Nat \ {0}
  <2> DEFINE T == {k \in 0..M : p[k] \notin Nat \ {0}}
  <2> SUFFICES ASSUME T # {} PROVE FALSE
    BY Zenon
  <2>1. T \subseteq Nat
    BY <1>1
  <2>2. PICK x \in T : \A y \in T : x <= y
    BY <2>1, LeastNumber, Zenon
  <2>3. x # 0
    BY <1>7, <2>2
  <2>4. x \in 0..M /\ x - 1 \in 0..M /\ ~ (x <= x - 1) /\ (x - 1) + 1 = x
    BY <1>1, <2>2, <2>3
  <2>5. p[x - 1] \in Nat \ {0}
    BY <2>2, <2>4, Zenon
  <2>6. p[x] = 2 * p[x - 1]
    BY <1>8, <2>4, Zenon
  <2>7. p[x] \in Nat \ {0}
    BY <2>5, <2>6
  <2> QED BY <2>2, <2>7, Zenon
<1>10. Doubles(p, M)
  BY <1>7, <1>8, <1>9, Zenon DEF Doubles
<1> QED
  BY <1>10, Zenon DEF p

\* A block of any order has pages.
LEMMA Size == ASSUME NEW o \in Orders PROVE pages_in[o] \in Nat /\ pages_in[o] > 0
<1>1. pages_in[o] \in Nat \ {0}
  BY Sizes, Zenon DEF Doubles, Orders
<1> QED
  BY <1>1

\* The next order has twice the pages.
LEMMA NextSize ==
    ASSUME NEW o \in Orders, o + 1 \in Orders
    PROVE  pages_in[o + 1] = 2 * pages_in[o]
  BY Sizes, Zenon DEF Doubles, Orders

\* The pages of a larger order are a multiple, at least twice as many.
LEMMA SizesGrow ==
    ASSUME NEW o \in Orders, NEW p \in Orders, o < p
    PROVE  \E k \in Nat : k > 1 /\ pages_in[p] = k * pages_in[o]
<1> DEFINE Good(q) == \E k \in Nat : k > 1 /\ pages_in[q] = k * pages_in[o]
           T == {q \in Orders : o < q /\ ~Good(q)}
<1> SUFFICES ASSUME T # {} PROVE FALSE
  BY Zenon
<1>1. PAGE_MAX_ORDER \in Nat
  BY BuddyAssumption
<1>2. T \subseteq Nat
  BY <1>1 DEF Orders
<1>3. PICK x \in T : \A y \in T : x <= y
  BY <1>2, LeastNumber, Zenon
<1>4. /\ x \in Orders /\ x - 1 \in Orders /\ (x - 1) + 1 = x /\ ~ (x <= x - 1)
      /\ x - 1 = o \/ o < x - 1
  BY <1>1, <1>3 DEF Orders
<1>5. pages_in[x] = 2 * pages_in[x - 1]
  BY <1>4, NextSize, Zenon
<1>6. pages_in[o] \in Nat
  BY Size, Zenon
<1>7. CASE x - 1 = o
  <2>1. 2 \in Nat /\ 2 > 1
    OBVIOUS
  <2> QED BY <1>3, <1>5, <1>7, <2>1, Zenon
<1>8. CASE o < x - 1
  <2>1. PICK k \in Nat : k > 1 /\ pages_in[x - 1] = k * pages_in[o]
    BY <1>3, <1>4, <1>8, Zenon
  <2>2. 2 * k \in Nat /\ 2 * k > 1 /\ pages_in[x] = (2 * k) * pages_in[o]
    BY <1>5, <1>6, <2>1
  <2> QED BY <1>3, <2>2, Zenon
<1> QED
  BY <1>4, <1>7, <1>8, Zenon

\* A larger order has at least twice the pages.
LEMMA SizesLess ==
    ASSUME NEW o \in Orders, NEW p \in Orders, o < p
    PROVE  2 * pages_in[o] <= pages_in[p]
<1>1. PICK k \in Nat : k > 1 /\ pages_in[p] = k * pages_in[o]
  BY SizesGrow, Zenon
<1>2. pages_in[o] \in Nat
  BY Size, Zenon
<1> QED
  BY <1>1, <1>2

\* q begins a block of order o.
Aligned(q, o) == \E k \in Nat : q = k * pages_in[o]

\* That is: q is a multiple of the size.
LEMMA AlignedMod ==
    ASSUME NEW q \in Nat, NEW o \in Orders
    PROVE  Aligned(q, o) <=> q % pages_in[o] = 0
<1> DEFINE n == pages_in[o]
<1>1. n \in Nat /\ n > 0
  BY Size, Zenon
<1> HIDE DEF n
<1>2. ASSUME NEW k \in Nat, q = k * n PROVE q % n = 0
  BY <1>1, <1>2
<1>3. ASSUME q % n = 0 PROVE \E k \in Nat : q = k * n
  BY <1>1, <1>3
<1> QED
  BY <1>2, <1>3, Zenon DEF Aligned, n

\* What begins a large block begins a smaller one.
LEMMA AlignedBelow ==
    ASSUME NEW q \in Nat, NEW p \in Orders, Aligned(q, p), NEW o \in Orders, o <= p
    PROVE  Aligned(q, o)
<1>1. PICK k \in Nat : q = k * pages_in[p]
  BY Zenon DEF Aligned
<1>2. CASE o = p
  BY <1>2, Zenon
<1>3. CASE o < p
  <2>1. PICK j \in Nat : pages_in[p] = j * pages_in[o]
    BY <1>3, SizesGrow, Zenon
  <2>2. pages_in[o] \in Nat
    BY Size, Zenon
  <2>3. k * j \in Nat /\ q = (k * j) * pages_in[o]
    BY <1>1, <2>1, <2>2
  <2> QED BY <2>3, Zenon DEF Aligned
<1>4. o = p \/ o < p
  BY BuddyAssumption DEF Orders
<1> QED
  BY <1>2, <1>3, <1>4, Zenon

\* A larger order has no fewer pages.
LEMMA SizesUp ==
    ASSUME NEW o \in Orders, NEW p \in Orders, o <= p
    PROVE  pages_in[o] <= pages_in[p]
<1>1. pages_in[o] \in Nat /\ pages_in[p] \in Nat
  BY Size, Zenon
<1>2. CASE o = p
  BY <1>1, <1>2
<1>3. CASE o < p
  <2>1. 2 * pages_in[o] <= pages_in[p]
    BY <1>3, SizesLess, Zenon
  <2> QED BY <1>1, <2>1
<1>4. o = p \/ o < p
  BY BuddyAssumption DEF Orders
<1> QED
  BY <1>2, <1>3, <1>4, Zenon

-----------------------------------------------------------------------------
(* Memory tiled with blocks *)

\* A block of order o may begin at page q; it holds page x.
Tile(q, o) == q \in Nat /\ o \in Orders /\ Aligned(q, o) /\ q + pages_in[o] <= PAGE_NUM
Holds(q, o, x) == q <= x /\ x < q + pages_in[o]

\* The blocks that begin at the pages of T hold every page once.
Tiling(T, ord) ==
    /\ \A q \in T : Tile(q, ord[q])
    /\ \A x \in Pages : \E q \in T : Holds(q, ord[q], x)
    /\ \A x \in Pages : \A q, r \in T : Holds(q, ord[q], x) /\ Holds(r, ord[r], x) => q = r

\* A block lies in memory and holds its first page.
LEMMA TileHolds ==
    ASSUME NEW q, NEW o, Tile(q, o)
    PROVE  q \in Pages /\ Holds(q, o, q)
<1>1. q \in Nat /\ o \in Orders /\ q + pages_in[o] <= PAGE_NUM
  BY Zenon DEF Tile
<1>2. pages_in[o] \in Nat /\ pages_in[o] > 0
  BY <1>1, Size, Zenon
<1>3. PAGE_NUM \in Nat
  BY BuddyAssumption
<1> QED
  BY <1>1, <1>2, <1>3 DEF Pages, Holds

\* What c blocks of order o, c being 1 or 2, before the end of a larger block
\* begins.
LEMMA Inside ==
    ASSUME NEW page, NEW t, Tile(page, t), NEW o \in Orders, o < t, NEW c \in 1..2
    PROVE  LET q == page + pages_in[t] - c * pages_in[o]
           IN  q >= page /\ Tile(q, o)
<1> DEFINE n == pages_in[o]
           q == page + pages_in[t] - c * n
<1>1. page \in Nat /\ t \in Orders /\ Aligned(page, t) /\ page + pages_in[t] <= PAGE_NUM
  BY Zenon DEF Tile
<1>2. PICK k \in Nat : k > 1 /\ pages_in[t] = k * n
  BY <1>1, SizesGrow, Zenon
<1>3. o <= t
  BY <1>1, BuddyAssumption DEF Orders
<1>4. PICK j \in Nat : page = j * n
  BY <1>1, <1>3, AlignedBelow, Zenon DEF Aligned
<1>5. n \in Nat /\ n > 0 /\ PAGE_NUM \in Nat
  BY Size, BuddyAssumption
<1> HIDE DEF n
<1>6. j + k - c \in Nat /\ q = (j + k - c) * n
  BY <1>2, <1>4, <1>5
<1>7. c * n <= k * n
  BY <1>2, <1>5
<1>8. c * n \in Nat /\ k * n \in Nat /\ n <= c * n
  BY <1>2, <1>5
<1>9. q >= page /\ q \in Nat /\ q + n <= PAGE_NUM
  BY <1>1, <1>2, <1>5, <1>7, <1>8
<1>10. Aligned(q, o)
  BY <1>6, Zenon DEF Aligned, n
<1> QED
  BY <1>9, <1>10, Zenon DEF Tile, n

\* What is left behind the pieces of buddy_pull_block.
rear(page, to, from) == page + pages_in[to + 1] - pages_in[from]

\* Where the pieces lie, counted from the end of the block.
LEMMA Pieces ==
    ASSUME NEW from \in Orders, NEW to \in from..(PAGE_MAX_ORDER - 1), NEW page, Tile(page, to + 1)
    PROVE  /\ to + 1 \in Orders
           /\ Tile(rear(page, to, from), from)
           /\ rear(page, to, from) > page
           /\ \A i \in from..to : /\ i \in Orders /\ i + 1 \in Orders
                                  /\ Tile(piece(page, to, i), i)
                                  /\ piece(page, to, i) >= page
<1>1. PAGE_MAX_ORDER \in Nat
  BY BuddyAssumption
<1>2. from \in Nat /\ to \in Nat /\ to + 1 \in Orders /\ from < to + 1
  BY <1>1 DEF Orders
<1>3. page \in Nat
  BY Zenon DEF Tile
<1>4. ASSUME NEW o \in Orders, o < to + 1
      PROVE  /\ page + pages_in[to + 1] - 1 * pages_in[o] >= page
             /\ Tile(page + pages_in[to + 1] - 1 * pages_in[o], o)
             /\ page + pages_in[to + 1] - 2 * pages_in[o] >= page
             /\ Tile(page + pages_in[to + 1] - 2 * pages_in[o], o)
  <2>1. 1 \in 1..2 /\ 2 \in 1..2
    BY SMT
  <2> QED BY <1>4, <2>1, Inside, Zenon
<1>5. Tile(rear(page, to, from), from) /\ rear(page, to, from) > page
  <2>1. pages_in[from] \in Nat /\ pages_in[to + 1] \in Nat /\ pages_in[from] > 0
    BY <1>2, Size, Zenon
  <2>2. rear(page, to, from) = page + pages_in[to + 1] - 1 * pages_in[from]
    BY <1>3, <2>1 DEF rear
  <2>3. 2 * pages_in[from] <= pages_in[to + 1]
    BY <1>2, SizesLess, Zenon
  <2>4. rear(page, to, from) > page
    BY <1>3, <2>1, <2>3 DEF rear
  <2> QED BY <1>2, <1>4, <2>2, <2>4, Zenon
<1>6. ASSUME NEW i \in from..to
      PROVE  i \in Orders /\ i + 1 \in Orders /\ Tile(piece(page, to, i), i) /\ piece(page, to, i) >= page
  <2>1. i \in Orders /\ i + 1 \in Orders /\ i < to + 1
    BY <1>1, <1>2 DEF Orders
  <2>2. pages_in[i + 1] = 2 * pages_in[i]
    BY <2>1, NextSize, Zenon
  <2>3. piece(page, to, i) = page + pages_in[to + 1] - 2 * pages_in[i]
    BY <2>2, Zenon DEF piece
  <2> QED BY <1>4, <2>1, <2>3, Zenon
<1> QED
  BY <1>2, <1>5, <1>6, Zenon

\* A page of the block is in one of the pieces or in the rear.
LEMMA PiecesCover ==
    ASSUME NEW from \in Orders, NEW to \in from..(PAGE_MAX_ORDER - 1), NEW page, Tile(page, to + 1),
           NEW x \in Nat, Holds(page, to + 1, x)
    PROVE  \/ Holds(rear(page, to, from), from, x)
           \/ \E i \in from..to : Holds(piece(page, to, i), i, x)
<1> DEFINE e == page + pages_in[to + 1]
           T == {i \in from..to : e <= x + pages_in[i + 1]}
<1>1. PAGE_MAX_ORDER \in Nat /\ page \in Nat
  BY BuddyAssumption DEF Tile
<1>2. from \in Nat /\ to \in Nat /\ to \in from..to /\ from..to \subseteq Nat
  BY <1>1 DEF Orders
<1>3. \A i \in from..to : i \in Orders /\ i + 1 \in Orders
  BY Pieces, Zenon
<1>4. to + 1 \in Orders
  BY Pieces, Zenon
<1>5. pages_in[to + 1] \in Nat /\ pages_in[from] \in Nat
  BY <1>4, Size, Zenon
<1>6. e \in Nat /\ page <= x /\ x < e
  BY <1>1, <1>5 DEF Holds
<1>7. e <= x + pages_in[to + 1]
  BY <1>1, <1>5, <1>6
<1>8. T \subseteq Nat /\ T # {}
  BY <1>2, <1>7, Zenon
<1>9. PICK i \in T : \A j \in T : i <= j
  BY <1>8, LeastNumber, Zenon
<1>10. i \in from..to /\ e <= x + pages_in[i + 1] /\ i \in Orders /\ i + 1 \in Orders
  BY <1>3, <1>9, Zenon
<1>11. pages_in[i] \in Nat /\ pages_in[i + 1] = 2 * pages_in[i]
  BY <1>10, Size, NextSize, Zenon
<1>12. CASE x + pages_in[i] < e
  <2>1. Holds(piece(page, to, i), i, x)
    <3>1. piece(page, to, i) = e - pages_in[i + 1]
      BY <1>1, <1>5, <1>11 DEF piece
    <3> HIDE DEF e
    <3> QED BY <1>6, <1>10, <1>11, <1>12, <3>1 DEF Holds
  <2> QED BY <1>10, <2>1, Zenon
<1>13. CASE e <= x + pages_in[i]
  <2>1. CASE i = from
    <3>1. rear(page, to, from) = e - pages_in[from]
      BY <1>1, <1>5 DEF rear
    <3> HIDE DEF e
    <3>2. Holds(rear(page, to, from), from, x)
      BY <1>5, <1>6, <1>13, <2>1, <3>1 DEF Holds
    <3> QED BY <3>2, Zenon
  <2>2. CASE i # from
    <3>1. i - 1 \in from..to /\ (i - 1) + 1 = i /\ ~ (i <= i - 1)
      BY <1>2, <1>10, <2>2
    <3>2. i - 1 \in T
      BY <1>13, <3>1, Zenon
    <3> QED BY <1>9, <3>1, <3>2, Zenon
  <2> QED BY <2>1, <2>2, Zenon
<1>14. x + pages_in[i] < e \/ e <= x + pages_in[i]
  BY <1>6, <1>11
<1> QED
  BY <1>12, <1>13, <1>14, Zenon

\* It is in one of them only, and pages of them are pages of the block.
LEMMA PiecesApart ==
    ASSUME NEW from \in Orders, NEW to \in from..(PAGE_MAX_ORDER - 1), NEW page, Tile(page, to + 1),
           NEW x \in Nat
    PROVE  /\ Holds(rear(page, to, from), from, x) => Holds(page, to + 1, x)
           /\ \A i \in from..to :
                Holds(piece(page, to, i), i, x) =>
                    /\ Holds(page, to + 1, x)
                    /\ ~ Holds(rear(page, to, from), from, x)
                    /\ \A j \in from..to : Holds(piece(page, to, j), j, x) => i = j
<1> DEFINE e == page + pages_in[to + 1]
<1>1. PAGE_MAX_ORDER \in Nat /\ page \in Nat
  BY BuddyAssumption DEF Tile
<1>2. from \in Nat /\ to \in Nat /\ from..to \subseteq Nat
  BY <1>1 DEF Orders
<1>3. \A i \in from..to : i \in Orders /\ i + 1 \in Orders
  BY Pieces, Zenon
<1>4. to + 1 \in Orders /\ rear(page, to, from) > page /\ \A i \in from..to : piece(page, to, i) >= page
  BY Pieces, Zenon
<1>5. pages_in[to + 1] \in Nat /\ pages_in[from] \in Nat
  BY <1>4, Size, Zenon
<1>6. e \in Nat /\ rear(page, to, from) = e - pages_in[from] /\ \A i \in from..to : piece(page, to, i) = e - pages_in[i + 1]
  <2>1. ASSUME NEW i \in from..to PROVE piece(page, to, i) = e - pages_in[i + 1]
    <3>1. pages_in[i + 1] \in Nat
      BY <1>3, Size, Zenon
    <3> QED BY <1>1, <1>5, <3>1 DEF piece
  <2>2. e \in Nat /\ rear(page, to, from) = e - pages_in[from]
    BY <1>1, <1>5 DEF rear
  <2> QED BY <2>1, <2>2, Zenon
<1>7. Holds(page, to + 1, x) <=> page <= x /\ x < e
  BY Zenon DEF Holds
<1> HIDE DEF e
<1>8. Holds(rear(page, to, from), from, x) <=> e <= x + pages_in[from] /\ x < e
  BY <1>5, <1>6 DEF Holds
<1>9. ASSUME NEW i \in from..to
      PROVE  Holds(piece(page, to, i), i, x) <=> e <= x + pages_in[i + 1] /\ x + pages_in[i] < e
  <2>1. pages_in[i] \in Nat /\ pages_in[i + 1] = 2 * pages_in[i]
    BY <1>3, Size, NextSize, Zenon
  <2>2. piece(page, to, i) = e - pages_in[i + 1]
    BY <1>6, Zenon
  <2> QED BY <1>6, <2>1, <2>2 DEF Holds
<1>10. Holds(rear(page, to, from), from, x) => Holds(page, to + 1, x)
  BY <1>1, <1>4, <1>5, <1>6, <1>7, <1>8
<1>11. ASSUME NEW i \in from..to, Holds(piece(page, to, i), i, x)
       PROVE  Holds(page, to + 1, x)
  <2>1. piece(page, to, i) >= page /\ piece(page, to, i) = e - pages_in[i + 1]
    BY <1>4, <1>6, Zenon
  <2>2. e <= x + pages_in[i + 1] /\ x + pages_in[i] < e
    BY <1>9, <1>11, Zenon
  <2>3. pages_in[i] \in Nat /\ pages_in[i + 1] \in Nat
    BY <1>3, Size, Zenon
  <2>4. page <= x /\ x < e
    BY <1>1, <1>6, <2>1, <2>2, <2>3
  <2> QED BY <1>7, <2>4, Zenon
<1>12. ASSUME NEW i \in from..to, Holds(piece(page, to, i), i, x)
       PROVE  ~ Holds(rear(page, to, from), from, x)
  <2>1. x + pages_in[i] < e
    BY <1>9, <1>12, Zenon
  <2>2. from <= i
    BY <1>2
  <2>3. pages_in[from] <= pages_in[i] /\ pages_in[i] \in Nat
    BY <1>3, <2>2, SizesUp, Size, Zenon
  <2>4. ~ (e <= x + pages_in[from])
    BY <1>5, <1>6, <2>1, <2>3
  <2> QED BY <1>8, <2>4, Zenon
<1>13. ASSUME NEW i \in from..to, NEW j \in from..to, i < j,
              Holds(piece(page, to, i), i, x), Holds(piece(page, to, j), j, x)
       PROVE  FALSE
  <2>1. e <= x + pages_in[i + 1] /\ x + pages_in[j] < e
    BY <1>9, <1>13, Zenon
  <2>2. i + 1 <= j
    BY <1>2, <1>13
  <2>3. pages_in[i + 1] <= pages_in[j] /\ pages_in[i + 1] \in Nat /\ pages_in[j] \in Nat
    BY <1>3, <2>2, SizesUp, Size, Zenon
  <2> QED BY <1>6, <2>1, <2>3
<1>14. \A i, j \in from..to : i < j \/ j < i \/ i = j
  BY <1>2
<1> QED
  BY <1>10, <1>11, <1>12, <1>13, <1>14, Zenon

\* In a tiling the first page of a block is in no other block.
LEMMA OwnTile ==
    ASSUME NEW T, NEW ord, Tiling(T, ord), NEW q \in T, NEW r \in T, Holds(r, ord[r], q)
    PROVE  q = r
<1>1. q \in Pages /\ Holds(q, ord[q], q)
  BY TileHolds, Zenon DEF Tiling
<1> QED
  BY <1>1, Zenon DEF Tiling

\* What the block of T at page becomes, and its orders in new.
Parts(page, to, from) == {piece(page, to, i) : i \in from..to} \cup {rear(page, to, from)}
Pulled(T, ord, page, to, from, new) ==
    /\ page \in T /\ from \in Orders /\ to \in from..(PAGE_MAX_ORDER - 1) /\ ord[page] = to + 1
    /\ new[rear(page, to, from)] = from
    /\ \A i \in from..to : new[piece(page, to, i)] = i
    /\ \A q \in T \ {page} : new[q] = ord[q]

\* The pieces of buddy_pull_block, in place of the block they come from, tile
\* memory again.
LEMMA SplitTiling ==
    ASSUME NEW T, NEW ord, Tiling(T, ord),
           NEW page, NEW to, NEW from, NEW new, Pulled(T, ord, page, to, from, new)
    PROVE  Tiling((T \ {page}) \cup Parts(page, to, from), new)
<1> DEFINE R == (T \ {page}) \cup Parts(page, to, from)
<1>0. /\ page \in T /\ from \in Orders /\ to \in from..(PAGE_MAX_ORDER - 1) /\ ord[page] = to + 1
      /\ new[rear(page, to, from)] = from /\ \A i \in from..to : new[piece(page, to, i)] = i
      /\ \A q \in T \ {page} : new[q] = ord[q]
  BY Zenon DEF Pulled
<1> USE <1>0
<1> DEFINE N == Parts(page, to, from)
<1>1. Tile(page, to + 1)
  BY Zenon DEF Tiling
<1>2. \A x \in Pages : x \in Nat
  BY BuddyAssumption DEF Pages
<1> DEFINE rr == rear(page, to, from)
           pp(i) == piece(page, to, i)
<1>a. Tile(rr, from) /\ \A i \in from..to : Tile(pp(i), i)
  BY <1>1, Pieces, Zenon
<1>b. ASSUME NEW x \in Pages
      PROVE  /\ Holds(rr, from, x) => Holds(page, to + 1, x)
             /\ \A i \in from..to : Holds(pp(i), i, x) =>
                  Holds(page, to + 1, x) /\ ~ Holds(rr, from, x) /\ \A j \in from..to : Holds(pp(j), j, x) => i = j
  <2>1. x \in Nat
    BY <1>2, Zenon
  <2> QED BY <1>1, <2>1, PiecesApart
<1>c. new[rr] = from /\ \A i \in from..to : new[pp(i)] = i
  BY Zenon
<1>d. \A q : q \in N <=> q = rr \/ \E i \in from..to : q = pp(i)
  BY Zenon DEF Parts
<1> HIDE DEF rr, pp, N
<1>3. ASSUME NEW q \in N PROVE Tile(q, new[q])
  BY <1>a, <1>c, <1>d
<1>4. ASSUME NEW q \in N, NEW x \in Pages, Holds(q, new[q], x) PROVE Holds(page, to + 1, x)
  BY <1>4, <1>b, <1>c, <1>d
<1>5. ASSUME NEW q \in N, NEW r \in N, NEW x \in Pages, Holds(q, new[q], x), Holds(r, new[r], x) PROVE q = r
  <2>1. CASE q = rr
    BY <1>5, <1>b, <1>c, <1>d, <2>1
  <2>2. CASE r = rr
    BY <1>5, <1>b, <1>c, <1>d, <2>2
  <2>3. ASSUME NEW i \in from..to, NEW j \in from..to, q = pp(i), r = pp(j) PROVE q = r
    <3>1. Holds(pp(i), i, x) /\ Holds(pp(j), j, x)
      BY <1>5, <1>c, <2>3, Zenon
    <3>2. i = j
      BY <1>b, <3>1, Zenon
    <3> QED BY <2>3, <3>2, Zenon
  <2> QED BY <1>d, <2>1, <2>2, <2>3
<1>7. R = (T \ {page}) \cup N
  BY Zenon DEF N, rr, pp
<1>6. ASSUME NEW x \in Pages PROVE \E q \in R : Holds(q, new[q], x)
  <2>1. PICK q \in T : Holds(q, ord[q], x)
    BY Zenon DEF Tiling
  <2>2. CASE q = page
    <3>1. Holds(page, to + 1, x) /\ x \in Nat
      BY <1>2, <2>1, <2>2, Zenon
    <3>2. Holds(rr, from, x) \/ \E i \in from..to : Holds(pp(i), i, x)
      BY <1>1, <3>1, PiecesCover, Zenon DEF rr, pp
    <3> QED BY <1>7, <1>c, <1>d, <3>2
  <2>3. CASE q # page
    BY <1>7, <2>1, <2>3, Zenon
  <2> QED BY <2>2, <2>3, Zenon
<1>8. ASSUME NEW q \in N, NEW r \in T \ {page}, NEW x \in Pages, Holds(q, new[q], x), Holds(r, new[r], x) PROVE FALSE
  <2>1. Holds(page, ord[page], x) /\ Holds(r, ord[r], x)
    BY <1>4, <1>8, Zenon
  <2> QED BY <2>1, Zenon DEF Tiling
<1>9. ASSUME NEW q \in T \ {page}, NEW r \in T \ {page}, NEW x \in Pages, Holds(q, new[q], x), Holds(r, new[r], x) PROVE q = r
  BY <1>9, Zenon DEF Tiling
<1>10. ASSUME NEW x \in Pages, NEW q \in R, NEW r \in R, Holds(q, new[q], x), Holds(r, new[r], x) PROVE q = r
  BY <1>5, <1>7, <1>8, <1>9, <1>10, Zenon
<1>11. ASSUME NEW q \in R PROVE Tile(q, new[q])
  BY <1>3, <1>7, Zenon DEF Tiling
<1> QED
  BY <1>6, <1>10, <1>11, Zenon DEF Tiling

\* The buddy of a block: an even one is followed by its buddy, an odd one
\* follows it, and the lower of the two begins a block of the next order.
LEMMA Buddies ==
    ASSUME NEW q, NEW o, Tile(q, o), o + 1 \in Orders,
           NEW b, b = buddy_find_buddy_index(q, o)
    PROVE  /\ b = q + pages_in[o] \/ q = b + pages_in[o]
           /\ b = q + pages_in[o] => Aligned(q, o + 1)
           /\ q = b + pages_in[o] => Aligned(b, o + 1)
           /\ b \in Nat /\ buddy_find_buddy_index(b, o) = q
<1> DEFINE n == pages_in[o]
<1>1. q \in Nat /\ o \in Orders
  BY Zenon DEF Tile
<1>2. PICK k \in Nat : q = k * n
  BY Zenon DEF Tile, Aligned
<1>3. n \in Nat /\ n > 0 /\ pages_in[o + 1] = 2 * n
  BY <1>1, Size, NextSize, Zenon
<1>4. \A i : buddy_find_buddy_index(i, o) = IF (i \div n) % 2 = 1 THEN i - n ELSE i + n
  BY Zenon DEF buddy_find_buddy_index
<1> HIDE DEF n
<1>5. \A i \in Nat, j \in Nat : i = j * n => i \div n = j
  BY <1>3
<1>6. q \div n = k
  BY <1>1, <1>2, <1>5, Zenon
<1>7. CASE k % 2 = 1
  <2>1. PICK m \in Nat : k = 2 * m + 1
    BY <1>2, <1>7
  <2>2. b = q - n
    BY <1>4, <1>6, <1>7, Zenon
  <2>3. b = (2 * m) * n /\ b \in Nat /\ 2 * m \in Nat /\ q = b + n /\ b = m * (2 * n)
    BY <1>2, <1>3, <2>1, <2>2
  <2>4. b \div n = 2 * m
    BY <1>5, <2>3, Zenon
  <2>5. (2 * m) % 2 # 1
    BY <2>1
  <2>6. buddy_find_buddy_index(b, o) = q
    BY <1>4, <2>3, <2>4, <2>5, Zenon
  <2>7. Aligned(b, o + 1)
    BY <1>3, <2>1, <2>3, Zenon DEF Aligned
  <2>8. b # q + n
    BY <1>1, <1>3, <2>3
  <2> QED BY <2>3, <2>6, <2>7, <2>8, Zenon DEF n
<1>8. CASE k % 2 # 1
  <2>1. PICK m \in Nat : k = 2 * m
    BY <1>2, <1>8
  <2>2. b = q + n
    BY <1>4, <1>6, <1>8, Zenon
  <2>3. b = (2 * m + 1) * n /\ b \in Nat /\ 2 * m + 1 \in Nat /\ q = b - n /\ q = m * (2 * n)
    BY <1>1, <1>2, <1>3, <2>1, <2>2
  <2>4. b \div n = 2 * m + 1
    BY <1>5, <2>3, Zenon
  <2>5. (2 * m + 1) % 2 = 1
    BY <2>1
  <2>6. buddy_find_buddy_index(b, o) = q
    BY <1>4, <2>3, <2>4, <2>5, Zenon
  <2>7. Aligned(q, o + 1)
    BY <1>3, <2>1, <2>3, Zenon DEF Aligned
  <2>8. q # b + n
    BY <1>1, <1>3, <2>2
  <2> QED BY <2>2, <2>3, <2>6, <2>7, <2>8, Zenon DEF n
<1> QED
  BY <1>7, <1>8, Zenon

\* A block and its buddy are a block of the next order.
LEMMA Halves ==
    ASSUME NEW o \in Orders, o + 1 \in Orders, NEW low \in Nat, NEW high, high = low + pages_in[o], NEW x \in Nat
    PROVE  Holds(low, o + 1, x) <=> Holds(low, o, x) \/ Holds(high, o, x)
<1>1. pages_in[o] \in Nat /\ pages_in[o + 1] = 2 * pages_in[o]
  BY Size, NextSize, Zenon
<1> QED
  BY <1>1 DEF Holds

\* The blocks of order o at low and high are one, at low, in new.
Fused(T, ord, low, high, o, new) ==
    /\ low \in T /\ high \in T /\ o \in Orders /\ o + 1 \in Orders /\ ord[low] = o /\ ord[high] = o
    /\ high = low + pages_in[o] /\ Aligned(low, o + 1)
    /\ new[low] = o + 1
    /\ \A q \in T \ {low, high} : new[q] = ord[q]

\* In place of the two it tiles memory again.
LEMMA MergeTiling ==
    ASSUME NEW T, NEW ord, Tiling(T, ord),
           NEW low, NEW high, NEW o, NEW new, Fused(T, ord, low, high, o, new)
    PROVE  Tiling(T \ {high}, new)
<1> DEFINE R == T \ {high}
<1>0. /\ low \in T /\ high \in T /\ o \in Orders /\ o + 1 \in Orders /\ ord[low] = o /\ ord[high] = o
      /\ high = low + pages_in[o] /\ Aligned(low, o + 1) /\ new[low] = o + 1
      /\ \A q \in T \ {low, high} : new[q] = ord[q]
  BY Zenon DEF Fused
<1> USE <1>0
<1>1. Tile(low, o) /\ Tile(high, o)
  BY Zenon DEF Tiling
<1>2. low \in Nat /\ high \in Nat /\ high + pages_in[o] <= PAGE_NUM
  BY <1>1, Zenon DEF Tile
<1>3. pages_in[o] \in Nat /\ pages_in[o] > 0 /\ pages_in[o + 1] = 2 * pages_in[o]
  BY Size, NextSize, Zenon
<1>4. low # high /\ low + pages_in[o + 1] <= PAGE_NUM
  <2>1. PAGE_NUM \in Nat
    BY BuddyAssumption
  <2> QED BY <1>2, <1>3, <2>1
<1>5. Tile(low, o + 1)
  BY <1>2, <1>4, Zenon DEF Tile
<1>6. \A x \in Pages : x \in Nat
  BY BuddyAssumption DEF Pages
<1>7. \A x \in Pages : Holds(low, new[low], x) <=> Holds(low, ord[low], x) \/ Holds(high, ord[high], x)
  <2>1. ASSUME NEW x \in Pages PROVE Holds(low, o + 1, x) <=> Holds(low, o, x) \/ Holds(high, o, x)
    <3>1. x \in Nat
      BY <1>6, ZenonT(60)
    <3> QED BY <1>2, <3>1, Halves, Zenon
  <2> QED BY <2>1, Zenon
<1>8. ASSUME NEW q \in R PROVE Tile(q, new[q])
  BY <1>5, Zenon DEF Tiling
<1>9. \A q \in R : q # low => q \in T \ {low, high} /\ new[q] = ord[q]
  BY Zenon
<1>10. ASSUME NEW x \in Pages PROVE \E q \in R : Holds(q, new[q], x)
  <2>1. PICK q \in T : Holds(q, ord[q], x)
    BY Zenon DEF Tiling
  <2>2. CASE q = low \/ q = high
    BY <1>4, <1>7, <2>1, <2>2, Zenon
  <2>3. CASE q # low /\ q # high
    BY <2>1, <2>3, Zenon
  <2> QED BY <2>2, <2>3, Zenon
<1>11. ASSUME NEW x \in Pages, NEW q \in R, q # low, Holds(low, new[low], x), Holds(q, new[q], x) PROVE FALSE
  <2>1. Holds(q, ord[q], x) /\ q \in T /\ q # high
    BY <1>9, <1>11, Zenon
  <2>2. Holds(low, ord[low], x) \/ Holds(high, ord[high], x)
    BY <1>7, <1>11, Zenon
  <2> QED BY <1>11, <2>1, <2>2, Zenon DEF Tiling
<1>12. ASSUME NEW x \in Pages, NEW q \in R, NEW r \in R, q # low, r # low,
              Holds(q, new[q], x), Holds(r, new[r], x)
       PROVE  q = r
  BY <1>9, <1>12, Zenon DEF Tiling
<1>13. ASSUME NEW x \in Pages, NEW q \in R, NEW r \in R, Holds(q, new[q], x), Holds(r, new[r], x)
       PROVE  q = r
  BY <1>11, <1>12, <1>13, Zenon
<1> QED
  BY <1>8, <1>10, <1>13, ZenonT(60) DEF Tiling

-----------------------------------------------------------------------------
(* Free lists *)

\* The pages of s are linked from h on by the pointers n, each once,
Linked(s, h, n) ==
    /\ h = IF Len(s) = 0 THEN NULL ELSE s[1]
    /\ \A i \in 1..Len(s) : n[s[i]] = IF i = Len(s) THEN NULL ELSE s[i + 1]
    /\ \A i, j \in 1..Len(s) : s[i] = s[j] => i = j

\* and they are the pages of F that have order o.
Lists(s, F, ord, o) ==
    /\ \A i \in 1..Len(s) : s[i] \in F /\ ord[s[i]] = o
    /\ \A q \in F : ord[q] = o => \E i \in 1..Len(s) : s[i] = q

\* So the list of order o, from h on, is the one of the free pages.
List(h, n, F, ord, o) == \E s \in Seq(Pages) : Linked(s, h, n) /\ Lists(s, F, ord, o)

\* Pages of order o and their pointers are the same.
Same(n, F, ord, n2, F2, ord2, o) ==
    /\ \A q \in F : ord[q] = o => q \in F2 /\ ord2[q] = o /\ n2[q] = n[q]
    /\ \A q \in F2 : ord2[q] = o => q \in F /\ ord[q] = o

\* A list stays when its pages and their pointers do.
LEMMA ListKept ==
    ASSUME NEW h, NEW n, NEW F, NEW ord, NEW o, List(h, n, F, ord, o),
           NEW n2, NEW F2, NEW ord2, Same(n, F, ord, n2, F2, ord2, o)
    PROVE  List(h, n2, F2, ord2, o)
<1>1. PICK s \in Seq(Pages) : Linked(s, h, n) /\ Lists(s, F, ord, o)
  BY Zenon DEF List
<1>2. \A i \in 1..Len(s) : s[i] \in F2 /\ ord2[s[i]] = o /\ n2[s[i]] = n[s[i]]
  BY <1>1, Zenon DEF Lists, Same
<1>3. Linked(s, h, n2)
  BY <1>1, <1>2, Zenon DEF Linked
<1>4. Lists(s, F2, ord2, o)
  BY <1>1, <1>2, ZenonT(60) DEF Lists, Same
<1> QED
  BY <1>3, <1>4, Zenon DEF List

\* A list whose head is NULL is empty,
LEMMA ListEmpty ==
    ASSUME NEW n, NEW F, NEW ord, NEW o, List(NULL, n, F, ord, o)
    PROVE  \A q \in F : ord[q] # o
<1>1. PICK s \in Seq(Pages) : Linked(s, NULL, n) /\ Lists(s, F, ord, o)
  BY Zenon DEF List
<1>2. \A p \in Pages : p # NULL
  BY BuddyAssumption DEF Pages, NULL
<1>3. Len(s) \in Nat
  OBVIOUS
<1>4. Len(s) # 0 => 1 \in 1..Len(s) /\ s[1] \in Pages
  BY <1>3
<1>5. Len(s) = 0
  BY <1>1, <1>2, <1>4, Zenon DEF Linked
<1>6. 1..Len(s) = {}
  BY <1>5
<1> QED
  BY <1>1, <1>6, Zenon DEF Lists

\* another begins with a free page,
LEMMA ListHead ==
    ASSUME NEW h, h # NULL, NEW n, NEW F, NEW ord, NEW o, List(h, n, F, ord, o)
    PROVE  h \in F /\ ord[h] = o
<1>1. PICK s \in Seq(Pages) : Linked(s, h, n) /\ Lists(s, F, ord, o)
  BY Zenon DEF List
<1>2. Len(s) \in Nat
  OBVIOUS
<1>3. Len(s) # 0
  BY <1>1, Zenon DEF Linked
<1>4. 1 \in 1..Len(s)
  BY <1>2, <1>3
<1>5. h = s[1]
  BY <1>1, <1>3, Zenon DEF Linked
<1> QED
  BY <1>1, <1>4, <1>5, Zenon DEF Lists

\* and one page alone is a list.
LEMMA ListOne ==
    ASSUME NEW h \in Pages, NEW n, n[h] = NULL, NEW F, NEW ord, NEW o, h \in F, ord[h] = o,
           \A q \in F : ord[q] = o => q = h
    PROVE  List(h, n, F, ord, o)
<1> DEFINE s == <<h>>
<1>1. s \in Seq(Pages) /\ Len(s) = 1 /\ Len(s) # 0 /\ s[1] = h /\ 1..Len(s) = {1}
  OBVIOUS
<1> HIDE DEF s
<1>2. Linked(s, h, n)
  BY <1>1, Zenon DEF Linked
<1>3. Lists(s, F, ord, o)
  BY <1>1, Zenon DEF Lists
<1> QED
  BY <1>1, <1>2, <1>3, Zenon DEF List

\* r is the sequence s without its k-th element.
Without(r, s, k) ==
    /\ Len(r) = Len(s) - 1
    /\ \A i \in 1..Len(r) : r[i] = IF i < k THEN s[i] ELSE s[i + 1]

\* There is one.
LEMMA DropOne ==
    ASSUME NEW s \in Seq(Pages), NEW k \in 1..Len(s)
    PROVE  \E r \in Seq(Pages) : Without(r, s, k)
<1> DEFINE m == Len(s) - 1
           r == [i \in 1..m |-> IF i < k THEN s[i] ELSE s[i + 1]]
<1>1. m \in Nat /\ Len(s) \in Nat
  OBVIOUS
<1>2. \A i \in 1..m : s[i] \in Pages /\ s[i + 1] \in Pages
  BY <1>1
<1>3. r \in [1..m -> Pages]
  BY <1>2
<1>4. r \in Seq(Pages)
  BY <1>1, <1>3
<1>5. Len(r) = m
  BY <1>1
<1>6. Without(r, s, k)
  BY <1>5 DEF Without
<1> QED
  BY <1>4, <1>6, Zenon

\* Its elements are the others of s, in their order.
LEMMA DropIndices ==
    ASSUME NEW s \in Seq(Pages), NEW k \in 1..Len(s), NEW r \in Seq(Pages), Without(r, s, k)
    PROVE  /\ \A i \in 1..Len(r) : \E j \in 1..Len(s) : j # k /\ r[i] = s[j] /\ j = IF i < k THEN i ELSE i + 1
           /\ \A j \in 1..Len(s) : j # k => \E i \in 1..Len(r) : r[i] = s[j]
<1>1. Len(s) \in Nat /\ Len(r) = Len(s) - 1 /\ \A i \in 1..Len(r) : r[i] = IF i < k THEN s[i] ELSE s[i + 1]
  BY DEF Without
<1>2. ASSUME NEW i \in 1..Len(r)
      PROVE  \E j \in 1..Len(s) : j # k /\ r[i] = s[j] /\ j = IF i < k THEN i ELSE i + 1
  BY <1>1
<1>3. ASSUME NEW j \in 1..Len(s), j # k
      PROVE  \E i \in 1..Len(r) : r[i] = s[j]
  <2>1. CASE j < k
    <3>1. j \in 1..Len(r)
      BY <1>1, <2>1
    <3> QED BY <1>1, <2>1, <3>1, Zenon
  <2>2. CASE j > k
    <3>1. j - 1 \in 1..Len(r) /\ ~ (j - 1 < k) /\ (j - 1) + 1 = j
      BY <1>1, <2>2
    <3> QED BY <1>1, <3>1, Zenon
  <2> QED BY <1>1, <1>3, <2>1, <2>2
<1> QED
  BY <1>2, <1>3, Zenon

\* Of the pages of order o the page b is gone, and what pointed at it points
\* behind it.
Unhooked(n, F, ord, n2, F2, ord2, o, b) ==
    /\ \A q \in F : q # b /\ ord[q] = o => n2[q] = IF n[q] = b THEN n[b] ELSE n[q]
    /\ \A q \in F : q # b /\ ord[q] = o => q \in F2 /\ ord2[q] = o
    /\ \A q \in F2 : ord2[q] = o => q \in F /\ ord[q] = o /\ q # b

\* What a list looks like when the page b has been taken out of it: the head
\* or the page before b points at the one behind it (buddy_list_pop,
\* buddy_list_remove).
LEMMA ListWithout ==
    ASSUME NEW h, NEW n, NEW F, NEW ord, NEW o, List(h, n, F, ord, o),
           NEW b \in F, ord[b] = o,
           NEW h2, h2 = IF h = b THEN n[b] ELSE h,
           NEW n2, NEW F2, NEW ord2, Unhooked(n, F, ord, n2, F2, ord2, o, b)
    PROVE  List(h2, n2, F2, ord2, o)
<1>0. /\ \A q \in F : q # b /\ ord[q] = o => n2[q] = IF n[q] = b THEN n[b] ELSE n[q]
      /\ \A q \in F : q # b /\ ord[q] = o => q \in F2 /\ ord2[q] = o
      /\ \A q \in F2 : ord2[q] = o => q \in F /\ ord[q] = o /\ q # b
  BY Zenon DEF Unhooked
<1>1. PICK s \in Seq(Pages) : Linked(s, h, n) /\ Lists(s, F, ord, o)
  BY Zenon DEF List
<1>2. PICK k \in 1..Len(s) : s[k] = b
  BY <1>1, Zenon DEF Lists
<1>3. PICK r \in Seq(Pages) : Without(r, s, k)
  BY DropOne, Zenon
<1>4. \A i, j \in 1..Len(s) : s[i] = s[j] => i = j
  BY <1>1, Zenon DEF Linked
<1>5. \A i \in 1..Len(s) : n[s[i]] = IF i = Len(s) THEN NULL ELSE s[i + 1]
  BY <1>1, Zenon DEF Linked
<1>6. h = IF Len(s) = 0 THEN NULL ELSE s[1]
  BY <1>1, Zenon DEF Linked
<1>7. /\ \A i \in 1..Len(r) : \E j \in 1..Len(s) : j # k /\ r[i] = s[j] /\ j = IF i < k THEN i ELSE i + 1
      /\ \A j \in 1..Len(s) : j # k => \E i \in 1..Len(r) : r[i] = s[j]
  BY <1>3, DropIndices, ZenonT(60)
<1>8. Lists(r, F2, ord2, o)
  <2>1. ASSUME NEW i \in 1..Len(r) PROVE r[i] \in F2 /\ ord2[r[i]] = o
    <3>1. PICK j \in 1..Len(s) : j # k /\ r[i] = s[j]
      BY <1>7, Zenon
    <3>2. s[j] \in F /\ ord[s[j]] = o /\ s[j] # b
      BY <1>1, <1>2, <1>4, <3>1, Zenon DEF Lists
    <3> QED BY <1>0, <3>1, <3>2, Zenon
  <2>2. ASSUME NEW q \in F2, ord2[q] = o PROVE \E i \in 1..Len(r) : r[i] = q
    <3>1. q \in F /\ ord[q] = o /\ q # b
      BY <1>0, <2>2, Zenon
    <3>2. PICK j \in 1..Len(s) : s[j] = q
      BY <1>1, <3>1, Zenon DEF Lists
    <3>3. j # k
      BY <1>2, <3>1, <3>2, Zenon
    <3> QED BY <1>7, <3>2, <3>3, Zenon
  <2> QED BY <2>1, <2>2, Zenon DEF Lists
<1>9. Len(s) \in Nat /\ Len(r) = Len(s) - 1 /\ \A i \in 1..Len(r) : r[i] = IF i < k THEN s[i] ELSE s[i + 1]
  BY <1>3 DEF Without
<1>10. \A p \in Pages : p # NULL
  BY BuddyAssumption DEF Pages, NULL
<1>11. \A i \in 1..Len(s) : s[i] \in Pages
  OBVIOUS
<1>12. h2 = IF Len(r) = 0 THEN NULL ELSE r[1]
  <2>1. h = s[1] /\ 1 \in 1..Len(s)
    <3>1. Len(s) # 0 /\ 1 \in 1..Len(s)
      BY <1>9
    <3> QED BY <1>6, <3>1, Zenon
  <2>2. CASE k = 1
    <3>1. h2 = IF 1 = Len(s) THEN NULL ELSE s[1 + 1]
      BY <1>2, <1>5, <2>1, <2>2, Zenon
    <3>2. CASE Len(s) = 1
      BY <1>9, <3>1, <3>2
    <3>3. CASE Len(s) # 1
      <4>1. 1 \in 1..Len(r) /\ ~ (1 < k) /\ Len(r) # 0
        BY <1>9, <2>2, <3>3
      <4>2. r[1] = s[1 + 1]
        BY <1>9, <4>1, Zenon
      <4> QED BY <3>1, <3>3, <4>1, <4>2, Zenon
    <3> QED BY <3>2, <3>3, Zenon
  <2>3. CASE k # 1
    <3>1. h # b
      BY <1>2, <1>4, <2>1, <2>3, Zenon
    <3>2. 1 \in 1..Len(r) /\ 1 < k /\ Len(r) # 0
      BY <1>9, <2>3
    <3> QED BY <1>9, <2>1, <3>1, <3>2, Zenon
  <2> QED BY <2>2, <2>3, Zenon
<1>13. ASSUME NEW i \in 1..Len(r) PROVE n2[r[i]] = IF i = Len(r) THEN NULL ELSE r[i + 1]
  <2>1. PICK j \in 1..Len(s) : j # k /\ r[i] = s[j] /\ j = IF i < k THEN i ELSE i + 1
    BY <1>7, Zenon
  <2>2. s[j] \in F /\ ord[s[j]] = o /\ s[j] # b
    BY <1>1, <1>2, <1>4, <2>1, Zenon DEF Lists
  <2>3. n2[r[i]] = IF n[s[j]] = b THEN n[b] ELSE n[s[j]]
    BY <1>0, <2>1, <2>2, Zenon
  <2>4. n[s[j]] = IF j = Len(s) THEN NULL ELSE s[j + 1]
    BY <1>5, Zenon
  <2>5. n[b] = IF k = Len(s) THEN NULL ELSE s[k + 1]
    BY <1>2, <1>5, Zenon
  <2>6. CASE j = Len(s)
    <3>1. n[s[j]] = NULL /\ b # NULL
      BY <1>2, <1>10, <1>11, <2>4, <2>6, Zenon
    <3>2. i = Len(r)
      BY <1>9, <2>1, <2>6
    <3> QED BY <2>3, <3>1, <3>2, Zenon
  <2>7. CASE j # Len(s)
    <3>1. j + 1 \in 1..Len(s) /\ n[s[j]] = s[j + 1]
      <4>1. j + 1 \in 1..Len(s)
        BY <1>9, <2>7
      <4> QED BY <2>4, <2>7, <4>1, Zenon
    <3>2. CASE j + 1 = k
      <4>1. n2[r[i]] = n[b]
        BY <1>2, <2>3, <3>1, <3>2, Zenon
      <4>2. i = j /\ i + 1 = k
        BY <1>9, <2>1, <3>2
      <4>3. CASE k = Len(s)
        <5>1. i = Len(r)
          BY <1>9, <4>2, <4>3
        <5> QED BY <2>5, <4>1, <4>3, <5>1, Zenon
      <4>4. CASE k # Len(s)
        <5>1. i # Len(r) /\ i + 1 \in 1..Len(r) /\ ~ (i + 1 < k)
          BY <1>9, <4>2, <4>4
        <5>2. r[i + 1] = s[(i + 1) + 1]
          BY <1>9, <5>1, Zenon
        <5>3. r[i + 1] = s[k + 1]
          BY <4>2, <5>2, Zenon
        <5> QED BY <2>5, <4>1, <4>4, <5>1, <5>3, Zenon
      <4> QED BY <4>3, <4>4, Zenon
    <3>3. CASE j + 1 # k
      <4>1. n2[r[i]] = s[j + 1]
        BY <1>2, <1>4, <2>3, <3>1, <3>3, Zenon
      <4>2. i # Len(r) /\ i + 1 \in 1..Len(r)
        BY <1>9, <2>1, <2>7, <3>3
      <4>3. r[i + 1] = s[j + 1]
        <5>1. CASE i < k
          <6>1. j = i /\ i + 1 < k
            BY <1>9, <2>1, <3>3, <5>1
          <6> QED BY <1>9, <4>2, <6>1, Zenon
        <5>2. CASE ~ (i < k)
          <6>1. j = i + 1 /\ ~ (i + 1 < k)
            BY <1>9, <2>1, <5>2
          <6> QED BY <1>9, <4>2, <6>1, Zenon
        <5> QED BY <5>1, <5>2, Zenon
      <4> QED BY <4>1, <4>2, <4>3, Zenon
    <3> QED BY <3>2, <3>3, Zenon
  <2> QED BY <2>6, <2>7, Zenon
<1>14. ASSUME NEW i \in 1..Len(r), NEW j \in 1..Len(r), r[i] = r[j] PROVE i = j
  <2>1. PICK x \in 1..Len(s) : r[i] = s[x] /\ x = IF i < k THEN i ELSE i + 1
    BY <1>7, Zenon
  <2>2. PICK y \in 1..Len(s) : r[j] = s[y] /\ y = IF j < k THEN j ELSE j + 1
    BY <1>7, Zenon
  <2>3. x = y
    BY <1>4, <1>14, <2>1, <2>2, Zenon
  <2> QED BY <1>9, <2>1, <2>2, <2>3
<1>15. Linked(r, h2, n2)
  BY <1>12, <1>13, <1>14, ZenonT(60) DEF Linked
<1> QED
  BY <1>8, <1>15, Zenon DEF List

\* No page of a list points at its head.
LEMMA ListFirst ==
    ASSUME NEW h, h # NULL, NEW n, NEW F, NEW ord, NEW o, List(h, n, F, ord, o), NEW q \in F, ord[q] = o
    PROVE  n[q] # h
<1>1. PICK s \in Seq(Pages) : Linked(s, h, n) /\ Lists(s, F, ord, o)
  BY Zenon DEF List
<1>2. PICK k \in 1..Len(s) : s[k] = q
  BY <1>1, Zenon DEF Lists
<1>3. n[q] = IF k = Len(s) THEN NULL ELSE s[k + 1]
  BY <1>1, <1>2, Zenon DEF Linked
<1>4. CASE k = Len(s)
  BY <1>3, <1>4, Zenon
<1>5. CASE k # Len(s)
  <2>1. Len(s) # 0 /\ 1 \in 1..Len(s) /\ k + 1 \in 1..Len(s) /\ k + 1 # 1
    BY <1>5
  <2>2. h = s[1]
    BY <1>1, <2>1, Zenon DEF Linked
  <2>3. s[k + 1] # s[1]
    BY <1>1, <2>1, Zenon DEF Linked
  <2> QED BY <1>3, <1>5, <2>2, <2>3, Zenon
<1> QED
  BY <1>4, <1>5, Zenon

\* A page in front of a list makes a list (buddy_list_push).
LEMMA ListWith ==
    ASSUME NEW h, NEW n, NEW F, NEW ord, NEW o, List(h, n, F, ord, o),
           NEW b \in Pages, b \notin F,
           NEW n2, n2[b] = h, \A q \in F : ord[q] = o => n2[q] = n[q],
           NEW F2, F2 = F \cup {b}, ord[b] = o
    PROVE  List(b, n2, F2, ord, o)
<1>1. PICK s \in Seq(Pages) : Linked(s, h, n) /\ Lists(s, F, ord, o)
  BY Zenon DEF List
<1> DEFINE r == <<b>> \o s
<1>2. /\ r \in Seq(Pages) /\ Len(s) \in Nat /\ Len(r) = Len(s) + 1 /\ r[1] = b
      /\ \A i \in 1..Len(r) : i # 1 => i - 1 \in 1..Len(s) /\ r[i] = s[i - 1]
  OBVIOUS
<1> HIDE DEF r
<1>3. \A i \in 1..Len(s) : s[i] \in F /\ ord[s[i]] = o /\ s[i] # b
  BY <1>1, Zenon DEF Lists
<1>4. Lists(r, F2, ord, o)
  <2>1. ASSUME NEW i \in 1..Len(r) PROVE r[i] \in F2 /\ ord[r[i]] = o
    <3>1. CASE i = 1
      BY <1>2, <3>1, Zenon
    <3>2. CASE i # 1
      <4>1. i - 1 \in 1..Len(s) /\ r[i] = s[i - 1]
        BY <1>2, <3>2, Zenon
      <4>2. s[i - 1] \in F /\ ord[s[i - 1]] = o
        BY <1>3, <4>1, Zenon
      <4> QED BY <4>1, <4>2, Zenon
    <3> QED BY <3>1, <3>2, Zenon
  <2>2. ASSUME NEW q \in F2, ord[q] = o PROVE \E i \in 1..Len(r) : r[i] = q
    <3>1. CASE q = b
      <4>1. 1 \in 1..Len(r)
        BY <1>2
      <4> QED BY <1>2, <3>1, <4>1, Zenon
    <3>2. CASE q # b
      <4>1. PICK k \in 1..Len(s) : s[k] = q
        BY <1>1, <2>2, <3>2, Zenon DEF Lists
      <4>2. k + 1 \in 1..Len(r) /\ k + 1 # 1 /\ (k + 1) - 1 = k
        BY <1>2
      <4> QED BY <1>2, <4>1, <4>2, Zenon
    <3> QED BY <3>1, <3>2, Zenon
  <2> QED BY <2>1, <2>2, Zenon DEF Lists
<1>5. Len(r) # 0
  BY <1>2
<1>6. ASSUME NEW i \in 1..Len(r) PROVE n2[r[i]] = IF i = Len(r) THEN NULL ELSE r[i + 1]
  <2>1. CASE i = 1
    <3>1. n2[r[i]] = IF Len(s) = 0 THEN NULL ELSE s[1]
      BY <1>1, <1>2, <2>1, Zenon DEF Linked
    <3>2. CASE Len(s) = 0
      <4>1. i = Len(r)
        BY <1>2, <2>1, <3>2
      <4> QED BY <3>1, <3>2, <4>1, Zenon
    <3>3. CASE Len(s) # 0
      <4>1. i # Len(r) /\ i + 1 \in 1..Len(r) /\ i + 1 # 1 /\ (i + 1) - 1 = 1
        BY <1>2, <2>1, <3>3
      <4>2. r[i + 1] = s[1]
        BY <1>2, <4>1, Zenon
      <4> QED BY <3>1, <3>3, <4>1, <4>2, Zenon
    <3> QED BY <3>2, <3>3, Zenon
  <2>2. CASE i # 1
    <3>1. i - 1 \in 1..Len(s) /\ r[i] = s[i - 1]
      BY <1>2, <2>2, Zenon
    <3>2. n2[r[i]] = n[s[i - 1]]
      BY <1>3, <3>1, Zenon
    <3>3. n[s[i - 1]] = IF i - 1 = Len(s) THEN NULL ELSE s[(i - 1) + 1]
      BY <1>1, <3>1, Zenon DEF Linked
    <3>4. (i - 1 = Len(s)) <=> (i = Len(r))
      BY <1>2
    <3>5. CASE i = Len(r)
      BY <3>2, <3>3, <3>4, <3>5, Zenon
    <3>6. CASE i # Len(r)
      <4>1. i + 1 \in 1..Len(r) /\ i + 1 # 1 /\ (i + 1) - 1 = (i - 1) + 1
        BY <1>2, <3>6
      <4>2. r[i + 1] = s[(i - 1) + 1]
        BY <1>2, <4>1, Zenon
      <4> QED BY <3>2, <3>3, <3>4, <3>6, <4>2, Zenon
    <3> QED BY <3>5, <3>6, Zenon
  <2> QED BY <2>1, <2>2, Zenon
<1>7. ASSUME NEW i \in 1..Len(r), NEW j \in 1..Len(r), r[i] = r[j] PROVE i = j
  <2>1. CASE i = 1
    BY <1>2, <1>3, <1>7, <2>1, ZenonT(60)
  <2>2. CASE j = 1
    BY <1>2, <1>3, <1>7, <2>2, ZenonT(60)
  <2>3. CASE i # 1 /\ j # 1
    <3>1. i - 1 \in 1..Len(s) /\ j - 1 \in 1..Len(s) /\ s[i - 1] = s[j - 1]
      BY <1>2, <1>7, <2>3, Zenon
    <3>2. i - 1 = j - 1
      BY <1>1, <3>1, Zenon DEF Linked
    <3> QED BY <1>2, <3>2
  <2> QED BY <2>1, <2>2, <2>3, Zenon
<1>8. Linked(r, b, n2)
  BY <1>2, <1>5, <1>6, <1>7, Zenon DEF Linked
<1> QED
  BY <1>2, <1>4, <1>8, Zenon DEF List

\* A sequence of different pages is no longer than there are pages.
LEMMA ListShort ==
    ASSUME NEW s \in Seq(Pages), \A i, j \in 1..Len(s) : s[i] = s[j] => i = j
    PROVE  Len(s) <= PAGE_NUM /\ IsFiniteSet(Pages)
<1>1. PAGE_NUM \in Nat
  BY BuddyAssumption
<1>2. IsFiniteSet(Pages) /\ Cardinality(Pages) = PAGE_NUM
  <2>1. 0 \in Int /\ PAGE_NUM - 1 \in Int
    BY <1>1
  <2>2. IsFiniteSet(0..(PAGE_NUM - 1)) /\ Cardinality(0..(PAGE_NUM - 1)) = IF 0 > PAGE_NUM - 1 THEN 0 ELSE (PAGE_NUM - 1) - 0 + 1
    BY <2>1, FS_Interval
  <2> QED BY <1>1, <2>2 DEF Pages
<1>3. Len(s) \in Nat
  OBVIOUS
<1>4. IsFiniteSet(1..Len(s)) /\ Cardinality(1..Len(s)) = Len(s)
  <2>1. 1 \in Int /\ Len(s) \in Int
    BY <1>3
  <2>2. IsFiniteSet(1..Len(s)) /\ Cardinality(1..Len(s)) = IF 1 > Len(s) THEN 0 ELSE Len(s) - 1 + 1
    BY <2>1, FS_Interval
  <2> QED BY <1>3, <2>2
<1> DEFINE f == [i \in 1..Len(s) |-> s[i]]
<1>5. f \in Injection(1..Len(s), Pages)
  BY DEF Injection, IsInjective
<1>6. Cardinality(1..Len(s)) <= Cardinality(Pages)
  BY <1>2, <1>4, <1>5, FS_Injection, ZenonT(60)
<1> QED
  BY <1>2, <1>4, <1>6

\* Following next from the head meets the pages of the list, in their order.
LEMMA ChainIs ==
    ASSUME NEW o \in Orders, NEW s \in Seq(Pages), Linked(s, head[o], next)
    PROVE  Chain(o) = {s[i] : i \in 1..Len(s)}
<1> DEFINE after(page) == IF page = NULL THEN NULL ELSE next[page]
           Run(g) == g = [k \in 0..PAGE_NUM |-> IF k = 0 THEN head[o] ELSE after(g[k - 1])]
           node == CHOOSE g : Run(g)
           At(k) == IF k < Len(s) THEN s[k + 1] ELSE NULL
<1>1. PAGE_NUM \in Nat /\ Len(s) \in Nat /\ Len(s) <= PAGE_NUM
  <2>1. \A i, j \in 1..Len(s) : s[i] = s[j] => i = j
    BY Zenon DEF Linked
  <2>2. Len(s) <= PAGE_NUM
    BY <2>1, ListShort, Zenon
  <2> QED BY <2>2, BuddyAssumption
<1>2. \A p \in Pages : p # NULL
  BY BuddyAssumption DEF Pages, NULL
<1>3. head[o] = At(0)
  <2>1. head[o] = IF Len(s) = 0 THEN NULL ELSE s[1]
    BY Zenon DEF Linked
  <2>2. 0 < Len(s) <=> Len(s) # 0
    BY <1>1
  <2> QED BY <2>1, <2>2
<1>4. ASSUME NEW k \in 1..PAGE_NUM PROVE after(At(k - 1)) = At(k)
  <2>1. CASE k - 1 < Len(s)
    <3>1. k \in 1..Len(s) /\ (k - 1) + 1 = k
      BY <1>1, <2>1
    <3>2. At(k - 1) = s[k]
      BY <2>1, <3>1, Zenon
    <3>3. s[k] # NULL
      BY <1>2, <3>1
    <3>4. next[s[k]] = IF k = Len(s) THEN NULL ELSE s[k + 1]
      BY <3>1, Zenon DEF Linked
    <3>5. k = Len(s) <=> ~ (k < Len(s))
      BY <1>1, <3>1
    <3> HIDE DEF At
    <3>6. after(At(k - 1)) = IF k = Len(s) THEN NULL ELSE s[k + 1]
      BY <3>2, <3>3, <3>4, Zenon
    <3> QED BY <3>5, <3>6, Zenon DEF At
  <2>2. CASE ~ (k - 1 < Len(s))
    <3>1. ~ (k < Len(s))
      BY <1>1, <2>2
    <3> QED BY <2>2, <3>1, Zenon
  <2> QED BY <2>1, <2>2, Zenon
<1> HIDE DEF At
<1>5. \E g : Run(g)
  <2> DEFINE g == [k \in 0..PAGE_NUM |-> At(k)]
  <2>1. ASSUME NEW k \in 0..PAGE_NUM PROVE g[k] = IF k = 0 THEN head[o] ELSE after(g[k - 1])
    <3>1. CASE k = 0
      BY <1>3, <3>1, Zenon
    <3>2. CASE k # 0
      <4>1. k \in 1..PAGE_NUM /\ k - 1 \in 0..PAGE_NUM
        BY <1>1, <3>2
      <4>2. g[k - 1] = At(k - 1) /\ g[k] = At(k)
        BY <4>1, Zenon
      <4> QED BY <1>4, <3>2, <4>1, <4>2, Zenon
    <3> QED BY <3>1, <3>2, Zenon
  <2>2. Run(g)
    BY <2>1, Zenon
  <2> QED BY <2>2, Zenon
<1>6. Run(node)
  BY <1>5, Zenon
<1>7. Chain(o) = {node[k] : k \in 0..PAGE_NUM} \ {NULL}
  BY Zenon DEF Chain
<1>8. \A k \in 0..PAGE_NUM : node[k] = IF k = 0 THEN head[o] ELSE after(node[k - 1])
  BY <1>6, Zenon
<1> HIDE DEF node
<1>9. \A k \in 0..PAGE_NUM : node[k] = At(k)
  <2> DEFINE T == {k \in 0..PAGE_NUM : node[k] # At(k)}
  <2> SUFFICES ASSUME T # {} PROVE FALSE
    BY Zenon
  <2>1. T \subseteq Nat
    BY <1>1
  <2>2. PICK x \in T : \A y \in T : x <= y
    BY <2>1, LeastNumber, Zenon
  <2>3. x \in 0..PAGE_NUM /\ node[x] # At(x)
    BY <2>2, Zenon
  <2>4. x # 0
    BY <1>3, <1>8, <2>3, Zenon
  <2>5. x \in 1..PAGE_NUM /\ x - 1 \in 0..PAGE_NUM /\ ~ (x <= x - 1)
    BY <1>1, <2>3, <2>4
  <2>6. node[x - 1] = At(x - 1)
    BY <2>2, <2>5, Zenon
  <2>7. node[x] = after(node[x - 1])
    BY <1>8, <2>3, <2>4, Zenon
  <2> QED BY <1>4, <2>3, <2>5, <2>6, <2>7, Zenon
<1>10. Chain(o) = {At(k) : k \in 0..PAGE_NUM} \ {NULL}
  BY <1>7, <1>9, Zenon
<1>11. ASSUME NEW q \in Chain(o) PROVE \E i \in 1..Len(s) : q = s[i]
  <2>1. PICK k \in 0..PAGE_NUM : q = At(k) /\ q # NULL
    BY <1>10, Zenon
  <2>2. k < Len(s) /\ q = s[k + 1]
    BY <2>1, Zenon DEF At
  <2>3. k + 1 \in 1..Len(s)
    BY <1>1, <2>1, <2>2
  <2> QED BY <2>2, <2>3, Zenon
<1>12. ASSUME NEW i \in 1..Len(s) PROVE s[i] \in Chain(o)
  <2>1. i - 1 \in 0..PAGE_NUM /\ i - 1 < Len(s) /\ (i - 1) + 1 = i /\ s[i] \in Pages
    BY <1>1
  <2>2. At(i - 1) = s[i] /\ s[i] # NULL
    BY <1>2, <2>1, Zenon DEF At
  <2> QED BY <1>10, <2>1, <2>2, Zenon
<1> QED
  BY <1>11, <1>12, Zenon

\* What ListsSound says of one list, from its sequence.
LEMMA ListSound ==
    ASSUME NEW o \in Orders, List(head[o], next, free_list, order, o)
    PROVE  /\ Chain(o) = {i \in free_list : order[i] = o}
           /\ Cardinality({i \in Pages : next[i] \in Chain(o) /\ i \in Chain(o)})
                = Cardinality(Chain(o)) - (IF head[o] = NULL THEN 0 ELSE 1)
<1>1. PICK s \in Seq(Pages) : Linked(s, head[o], next) /\ Lists(s, free_list, order, o)
  BY Zenon DEF List
<1> DEFINE C == {s[i] : i \in 1..Len(s)}
           D == {i \in Pages : next[i] \in C /\ i \in C}
<1>2. Chain(o) = C
  BY <1>1, ChainIs, Zenon
<1>3. C = {i \in free_list : order[i] = o}
  BY <1>1, Zenon DEF Lists
<1>4. \A i \in 1..Len(s) : s[i] \in Pages
  OBVIOUS
<1>5. IsFiniteSet(Pages) /\ C \subseteq Pages
  <2>1. \A i, j \in 1..Len(s) : s[i] = s[j] => i = j
    BY <1>1, Zenon DEF Linked
  <2> QED BY <1>4, <2>1, ListShort, Zenon
<1>6. IsFiniteSet(C)
  BY <1>5, FS_Subset, Zenon
<1>7. \A p \in Pages : p # NULL
  BY BuddyAssumption DEF Pages, NULL
<1>8. head[o] = IF Len(s) = 0 THEN NULL ELSE s[1]
  BY <1>1, Zenon DEF Linked
<1>9. \A i \in 1..Len(s) : next[s[i]] = IF i = Len(s) THEN NULL ELSE s[i + 1]
  BY <1>1, Zenon DEF Linked
<1>10. Cardinality(D) = Cardinality(C) - (IF head[o] = NULL THEN 0 ELSE 1)
  <2>1. CASE Len(s) = 0
    <3>1. 1..Len(s) = {}
      BY <2>1
    <3>2. C = {} /\ head[o] = NULL
      BY <1>8, <2>1, <3>1, Zenon
    <3>3. D = {}
      BY <3>2, Zenon
    <3>4. Cardinality({}) = 0
      BY FS_EmptySet, Zenon
    <3>5. Cardinality(C) = 0 /\ Cardinality(D) = 0 /\ head[o] = NULL
      BY <3>2, <3>3, <3>4, Zenon
    <3> HIDE DEF C, D
    <3> QED BY <3>5
  <2>2. CASE Len(s) # 0
    <3>1. Len(s) \in 1..Len(s) /\ 1 \in 1..Len(s)
      BY <2>2
    <3>2. head[o] # NULL
      BY <1>4, <1>7, <1>8, <2>2, <3>1, Zenon
    <3>3. ASSUME NEW i \in 1..Len(s) PROVE next[s[i]] \in C <=> s[i] # s[Len(s)]
      <4>1. CASE i = Len(s)
        <5>1. next[s[i]] = NULL
          BY <1>9, <4>1, Zenon
        <5> QED BY <1>5, <1>7, <4>1, <5>1, Zenon
      <4>2. CASE i # Len(s)
        <5>1. i + 1 \in 1..Len(s) /\ next[s[i]] = s[i + 1]
          BY <1>9, <4>2
        <5>2. s[i] # s[Len(s)]
          BY <1>1, <3>1, <4>2, Zenon DEF Linked
        <5> QED BY <5>1, <5>2, Zenon
      <4> QED BY <4>1, <4>2, Zenon
    <3>4. D = C \ {s[Len(s)]}
      BY <1>4, <3>3, Zenon
    <3>5. s[Len(s)] \in C
      BY <3>1, Zenon
    <3> HIDE DEF C, D
    <3>6. Cardinality(C \ {s[Len(s)]}) = Cardinality(C) - 1
      BY <1>6, <3>5, FS_RemoveElement, Zenon
    <3> QED BY <3>2, <3>4, <3>6, Zenon
  <2> QED BY <2>1, <2>2, Zenon
<1> QED
  BY <1>2, <1>3, <1>10, Zenon


-----------------------------------------------------------------------------
(* The inductive invariant *)

\* The first pages of the blocks in use, of the block being freed and of all.
Held == {b[1] : b \in blocks}
Loose == {freeing} \ {NULL}
Tiles == free_list \cup (Held \cup Loose)

\* A block is free, in use or being freed, and its order is in its first page.
Parted ==
    /\ \A q \in free_list : q \notin Held /\ q # freeing
    /\ freeing \notin Held
    /\ \A b \in blocks : b = <<b[1], order[b[1]]>>

\* PF_FIRST_PAGE is on the blocks in use; buddy_free has yet to clear one.
Flagged == Held \subseteq first_page /\ first_page \subseteq Held \cup Loose

\* Pages inside blocks point nowhere.
Unlinked == \A q \in Pages \ Tiles : next[q] = NULL

\* No two buddies are free.
Merged ==
    \A i \in free_list :
        order[i] # PAGE_MAX_ORDER => ~ buddy_is_free_buddy(i, buddy_find_buddy_index(i, order[i]))

\* The free lists.
Listed == \A o \in Orders : List(head[o], next, free_list, order, o)

IInv ==
    /\ TypeOK /\ Tiling(Tiles, order) /\ Parted /\ Flagged /\ Unlinked /\ Merged /\ Listed
    /\ halted # "broken"

\* Memory is a number of blocks of the largest order.
LEMMA Blocks ==
    LET size == pages_in[PAGE_MAX_ORDER]
    IN  /\ PAGE_MAX_ORDER \in Orders /\ size \in Nat /\ size > 0 /\ PAGE_NUM \in Nat /\ PAGE_NUM > 0
        /\ \E m \in Nat : PAGE_NUM = m * size
<1>1. PAGE_MAX_ORDER \in Orders /\ PAGE_NUM \in Nat /\ PAGE_NUM > 0
  BY BuddyAssumption DEF Orders
<1> DEFINE size == pages_in[PAGE_MAX_ORDER]
<1>2. size \in Nat /\ size > 0
  BY <1>1, Size, Zenon
<1>3. PAGE_NUM % size = 0
  BY BuddyAssumption, Zenon
<1> HIDE DEF size
<1>4. \E m \in Nat : PAGE_NUM = m * size
  BY <1>1, <1>2, <1>3
<1> QED
  BY <1>1, <1>2, <1>4, Zenon DEF size

\* Every number lies between two multiples of n,
LEMMA Rounded ==
    ASSUME NEW n \in Nat, n > 0, NEW x \in Nat
    PROVE  \E j \in Nat : j * n <= x /\ x < j * n + n
<1> DEFINE T == {j \in Nat : x < j * n + n}
<1>1. x \in T
  <2>1. x <= x * n
    BY SMT
  <2> QED BY <2>1, SMT
<1>2. T \subseteq Nat /\ T # {}
  BY <1>1, Zenon
<1>3. PICK j \in T : \A y \in T : j <= y
  BY <1>2, LeastNumber, Zenon
<1>4. j \in Nat /\ x < j * n + n
  BY <1>3, Zenon
<1>5. CASE j = 0
  BY <1>4, <1>5, SMT
<1>6. CASE j # 0
  <2>1. j - 1 \in Nat /\ ~ (j <= j - 1) /\ (j - 1) * n + n = j * n
    BY <1>4, <1>6, SMT
  <2>2. ~ (x < (j - 1) * n + n)
    BY <1>3, <2>1, Zenon
  <2>3. j * n <= x
    BY <1>4, <2>1, <2>2, SMT
  <2> QED BY <1>4, <2>3, Zenon
<1> QED
  BY <1>4, <1>5, <1>6, Zenon

\* and is a multiple when its remainder is 0.
LEMMA Remainder ==
    ASSUME NEW n \in Nat, n > 0, NEW x \in Nat
    PROVE  x % n = 0 <=> \E k \in Nat : x = k * n
<1>1. ASSUME NEW k \in Nat, x = k * n PROVE x % n = 0
  BY <1>1, SMT
<1>2. ASSUME x % n = 0 PROVE \E k \in Nat : x = k * n
  BY <1>2, SMTT(60)
<1> QED
  BY <1>1, <1>2, Zenon

\* Multiples of n below m * n lie n apart.
LEMMA Multiples ==
    ASSUME NEW n \in Nat, n > 0, NEW k \in Nat, NEW m \in Nat
    PROVE  k * n < m * n => k * n + n <= m * n
<1>1. CASE k < m
  <2>1. PICK d \in Nat : m = k + 1 + d
    BY <1>1, SMT
  <2>2. m * n = k * n + n + d * n /\ d * n >= 0 /\ k * n \in Nat
    BY <2>1, SMT
  <2> QED BY <2>2, SMT
<1>2. CASE m <= k
  <2>1. PICK d \in Nat : k = m + d
    BY <1>2, SMT
  <2>2. k * n = m * n + d * n /\ d * n >= 0 /\ m * n \in Nat
    BY <2>1, SMT
  <2> QED BY <2>2, SMT
<1> QED
  BY <1>1, <1>2, SMT

\* buddy_init tiles memory with blocks of the largest order.
LEMMA FirstTiling ==
    ASSUME NEW T, NEW ord, T = {i \in Pages : i % pages_in[PAGE_MAX_ORDER] = 0},
           \A i \in T : ord[i] = PAGE_MAX_ORDER
    PROVE  Tiling(T, ord)
<1> DEFINE n == pages_in[PAGE_MAX_ORDER]
<1>1. PAGE_MAX_ORDER \in Orders /\ n \in Nat /\ n > 0 /\ PAGE_NUM \in Nat /\ PAGE_NUM > 0
  BY Blocks, Zenon
<1>2. PICK m \in Nat : PAGE_NUM = m * n
  BY Blocks, Zenon
<1>3. \A x \in Pages : x \in Nat /\ x < PAGE_NUM
  BY <1>1 DEF Pages
<1>4. \A x, q : Holds(q, PAGE_MAX_ORDER, x) <=> q <= x /\ x < q + n
  BY Zenon DEF Holds
<1>5. \A q \in T : q \in Pages /\ q % n = 0 /\ ord[q] = PAGE_MAX_ORDER
  BY Zenon
<1>6. \A q \in Pages : q % n = 0 => q \in T
  BY Zenon
<1>7. \A q \in Nat : Aligned(q, PAGE_MAX_ORDER) <=> \E k \in Nat : q = k * n
  BY Zenon DEF Aligned
<1> HIDE DEF n
<1>8. \A q \in T : \E k \in Nat : q = k * n
  <2> SUFFICES ASSUME NEW q \in T PROVE \E k \in Nat : q = k * n
    BY Zenon
  <2>1. q \in Nat /\ q % n = 0
    BY <1>3, <1>5, Zenon
  <2> QED BY <1>1, <2>1, Remainder, Zenon
<1>9. ASSUME NEW q \in T PROVE Tile(q, ord[q])
  <2>1. PICK k \in Nat : q = k * n
    BY <1>8, Zenon
  <2>2. q \in Nat /\ q < PAGE_NUM
    BY <1>3, <1>5, Zenon
  <2>3. q + n <= PAGE_NUM
    BY <1>1, <1>2, <2>1, <2>2, Multiples, Zenon
  <2> QED BY <1>1, <1>5, <1>7, <2>1, <2>2, <2>3, Zenon DEF Tile, n
<1>10. ASSUME NEW x \in Pages PROVE \E q \in T : Holds(q, ord[q], x)
  <2>1. x \in Nat /\ x < PAGE_NUM
    BY <1>3, Zenon
  <2>2. PICK j \in Nat : j * n <= x /\ x < j * n + n
    BY <1>1, <2>1, Rounded, Zenon
  <2>4. j * n \in Nat /\ j * n <= x /\ x < j * n + n
    BY <1>1, <2>2
  <2>5. j * n \in Pages
    BY <1>1, <2>1, <2>4 DEF Pages
  <2>6. (j * n) % n = 0
    BY <1>1, <2>4, Remainder, ZenonT(60)
  <2> QED BY <1>4, <1>5, <1>6, <2>4, <2>5, <2>6, Zenon
<1>11. ASSUME NEW x \in Pages, NEW q \in T, NEW r \in T, Holds(q, ord[q], x), Holds(r, ord[r], x)
       PROVE  q = r
  <2>1. q <= x /\ x < q + n /\ r <= x /\ x < r + n
    BY <1>4, <1>5, <1>11, Zenon
  <2>2. PICK k \in Nat : q = k * n
    BY <1>8, Zenon
  <2>3. PICK j \in Nat : r = j * n
    BY <1>8, Zenon
  <2>4. q \in Nat /\ r \in Nat /\ x \in Nat
    BY <1>3, <1>5, Zenon
  <2>5. q < r => q + n <= r
    BY <1>1, <2>2, <2>3, Multiples, Zenon
  <2>6. r < q => r + n <= q
    BY <1>1, <2>2, <2>3, Multiples, Zenon
  <2> QED BY <1>1, <2>1, <2>4, <2>5, <2>6
<1> QED
  BY <1>9, <1>10, <1>11, Zenon DEF Tiling

\* buddy_init links them in the order of their addresses.
LEMMA FirstList ==
    ASSUME NEW h, h = 0, NEW F, F = {i \in Pages : i % pages_in[PAGE_MAX_ORDER] = 0},
           NEW ord, \A i \in F : ord[i] = PAGE_MAX_ORDER,
           NEW n, \A i \in F : n[i] = IF i + pages_in[PAGE_MAX_ORDER] < PAGE_NUM
                                      THEN i + pages_in[PAGE_MAX_ORDER] ELSE NULL
    PROVE  List(h, n, F, ord, PAGE_MAX_ORDER)
<1> DEFINE z == pages_in[PAGE_MAX_ORDER]
<1>1. PAGE_MAX_ORDER \in Orders /\ z \in Nat /\ z > 0 /\ PAGE_NUM \in Nat /\ PAGE_NUM > 0
  BY Blocks, Zenon
<1>2. PICK m \in Nat : PAGE_NUM = m * z
  BY Blocks, Zenon
<1>3. \A i \in F : n[i] = IF i + z < PAGE_NUM THEN i + z ELSE NULL
  BY Zenon
<1>4. \A i : i \in F <=> i \in Pages /\ i % z = 0
  BY Zenon
<1> HIDE DEF z
<1>5. m > 0
  BY <1>1, <1>2
<1> DEFINE s == [i \in 1..m |-> (i - 1) * z]
<1>6. ASSUME NEW i \in 1..m PROVE (i - 1) * z \in Nat /\ (i - 1) * z + z = i * z /\ (i - 1) * z + z <= PAGE_NUM
  <2>1. i - 1 \in Nat /\ i - 1 < m
    BY <1>2
  <2>2. (i - 1) * z < m * z
    <3>1. PICK d \in Nat : m = i + d
      BY <1>2, SMT
    <3>2. m * z = (i - 1) * z + z + d * z /\ d * z >= 0
      BY <1>1, <3>1
    <3> QED BY <1>1, <2>1, <3>2
  <2>3. (i - 1) * z + z <= m * z
    BY <1>1, <1>2, <2>1, <2>2, Multiples, Zenon
  <2>4. (i - 1) * z + z = i * z /\ (i - 1) * z \in Nat
    BY <1>1, <2>1
  <2> QED BY <1>2, <2>3, <2>4, Zenon
<1>7. \A i \in 1..m : (i - 1) * z \in Pages
  <2> SUFFICES ASSUME NEW i \in 1..m PROVE (i - 1) * z \in Pages
    BY Zenon
  <2> DEFINE a == (i - 1) * z
  <2>1. a \in Nat /\ a + z <= PAGE_NUM
    BY <1>6, Zenon
  <2> HIDE DEF a
  <2>2. a \in Pages
    BY <1>1, <2>1 DEF Pages
  <2> QED BY <2>2, Zenon DEF a
<1>8. s \in Seq(Pages) /\ Len(s) = m
  <2>1. s \in [1..m -> Pages]
    BY <1>7, Zenon
  <2> QED BY <1>2, <2>1
<1>9. \A i \in 1..m : s[i] = (i - 1) * z
  BY Zenon
<1> HIDE DEF s
<1>10. ASSUME NEW i \in 1..m PROVE s[i] \in F /\ ord[s[i]] = PAGE_MAX_ORDER
  <2>1. i - 1 \in Nat /\ (i - 1) * z \in Nat
    BY <1>2, <1>6
  <2>2. ((i - 1) * z) % z = 0
    BY <1>1, <2>1, Remainder, Zenon
  <2>3. s[i] \in F
    BY <1>4, <1>7, <1>9, <2>2, Zenon
  <2> QED BY <2>3, Zenon
<1>11. ASSUME NEW q \in F PROVE \E i \in 1..m : s[i] = q
  <2>1. q \in Nat /\ q < PAGE_NUM /\ q % z = 0
    BY <1>1, <1>4 DEF Pages
  <2>2. PICK k \in Nat : q = k * z
    BY <1>1, <2>1, Remainder, Zenon
  <2>3. k < m
    <3>1. CASE m <= k
      <4>1. PICK d \in Nat : k = m + d
        BY <3>1, SMT
      <4>2. k * z = m * z + d * z /\ d * z >= 0
        BY <1>1, <4>1
      <4> QED BY <1>1, <1>2, <2>1, <2>2, <4>2
    <3> QED BY <3>1, SMT
  <2>4. k + 1 \in 1..m /\ (k + 1) - 1 = k
    BY <2>3
  <2>5. s[k + 1] = k * z
    BY <1>9, <2>4, Zenon
  <2> QED BY <2>2, <2>4, <2>5, Zenon
<1>12. ASSUME NEW i \in 1..m PROVE n[s[i]] = IF i = m THEN NULL ELSE s[i + 1]
  <2>1. (i - 1) * z + z = i * z /\ (i - 1) * z + z <= PAGE_NUM /\ s[i] = (i - 1) * z /\ s[i] \in F
    BY <1>6, <1>9, <1>10, Zenon
  <2>2. n[s[i]] = IF i * z < PAGE_NUM THEN i * z ELSE NULL
    BY <1>3, <2>1, Zenon
  <2>3. CASE i = m
    <3>1. ~ (i * z < PAGE_NUM)
      BY <1>1, <1>2, <2>3
    <3> QED BY <2>2, <2>3, <3>1, Zenon
  <2>4. CASE i # m
    <3>1. i + 1 \in 1..m /\ (i + 1) - 1 = i
      BY <1>2, <2>4
    <3>2. s[i + 1] = i * z /\ ((i + 1) - 1) * z + z <= PAGE_NUM
      BY <1>6, <1>9, <3>1, Zenon
    <3>3. i * z + z <= PAGE_NUM /\ i * z \in Int
      BY <1>1, <3>1, <3>2
    <3>4. i * z < PAGE_NUM
      BY <1>1, <3>3
    <3> QED BY <2>2, <2>4, <3>2, <3>4, Zenon
  <2> QED BY <2>3, <2>4, Zenon
<1>13. ASSUME NEW i \in 1..m, NEW j \in 1..m, s[i] = s[j] PROVE i = j
  <2>1. (i - 1) * z = (j - 1) * z
    BY <1>9, <1>13, Zenon
  <2>2. i \in Nat /\ j \in Nat
    BY <1>2
  <2> QED BY <1>1, <2>1, <2>2
<1>14. Linked(s, h, n)
  <2>1. m # 0 /\ 1 \in 1..m
    BY <1>2, <1>5
  <2>2. s[1] = 0
    <3>1. s[1] = (1 - 1) * z
      BY <1>9, <2>1, Zenon
    <3> QED BY <1>1, <3>1
  <2> QED BY <1>8, <1>12, <1>13, <2>1, <2>2, Zenon DEF Linked
<1>15. Lists(s, F, ord, PAGE_MAX_ORDER)
  BY <1>8, <1>10, <1>11, Zenon DEF Lists
<1> QED
  BY <1>8, <1>14, <1>15, Zenon DEF List

\* An empty list.
LEMMA ListNone ==
    ASSUME NEW n, NEW F, NEW ord, NEW o, \A q \in F : ord[q] # o
    PROVE  List(NULL, n, F, ord, o)
<1> DEFINE s == <<>>
<1>1. s \in Seq(Pages) /\ Len(s) = 0 /\ 1..Len(s) = {}
  OBVIOUS
<1> HIDE DEF s
<1>2. Linked(s, NULL, n)
  BY <1>1, Zenon DEF Linked
<1>3. Lists(s, F, ord, o)
  BY <1>1, Zenon DEF Lists
<1> QED
  BY <1>1, <1>2, <1>3, Zenon DEF List

\* The state buddy_init leaves.
LEMMA InitIInv == Init => IInv
<1> SUFFICES ASSUME Init PROVE IInv
  OBVIOUS
<1> DEFINE size == pages_in[PAGE_MAX_ORDER]
           F == {i \in Pages : i % size = 0}
<1>1. /\ head = [o \in Orders |-> IF o = PAGE_MAX_ORDER THEN 0 ELSE NULL]
      /\ next = [i \in Pages |-> IF i % size = 0 /\ i + size < PAGE_NUM THEN i + size ELSE NULL]
      /\ order = [i \in Pages |-> IF i % size = 0 THEN PAGE_MAX_ORDER ELSE 0]
      /\ free_list = F /\ first_page = {} /\ freeing = NULL /\ halted = "no" /\ blocks = {}
  BY Zenon DEF Init
<1>2. PAGE_MAX_ORDER \in Orders /\ size \in Nat /\ size > 0 /\ PAGE_NUM \in Nat /\ PAGE_NUM > 0
  BY Blocks, Zenon
<1> HIDE DEF size
<1>3. 0 \in Pages /\ 0 \in Orders /\ PAGE_MAX_ORDER \in Nat
  BY <1>2 DEF Pages, Orders
<1>4. \A i \in Pages : i + size < PAGE_NUM => i + size \in Pages
  BY <1>2 DEF Pages
<1>5. TypeOK
  <2>1. head \in [Orders -> Pages \cup {NULL}]
    BY <1>1, <1>3, Zenon
  <2>2. next \in [Pages -> Pages \cup {NULL}]
    BY <1>1, <1>4, Zenon
  <2>3. order \in [Pages -> Orders]
    BY <1>1, <1>2, <1>3, Zenon
  <2> QED BY <1>1, <2>1, <2>2, <2>3, Zenon DEF TypeOK
<1>6. Held = {} /\ Loose = {} /\ Tiles = F
  BY <1>1, Zenon DEF Held, Loose, Tiles
<1>7. \A i \in F : order[i] = PAGE_MAX_ORDER
  BY <1>1, Zenon
<1>8. Tiling(Tiles, order)
  BY <1>6, <1>7, FirstTiling, Zenon DEF size
<1>9. Parted /\ Flagged
  <2>1. NULL \notin Pages
    BY <1>2 DEF Pages, NULL
  <2> QED BY <1>1, <1>6, <2>1, Zenon DEF Parted, Flagged
<1>10. Unlinked
  BY <1>1, <1>6, Zenon DEF Unlinked
<1>11. Merged
  BY <1>1, <1>7, Zenon DEF Merged
<1>12. Listed
  <2> SUFFICES ASSUME NEW o \in Orders PROVE List(head[o], next, free_list, order, o)
    BY Zenon DEF Listed
  <2>1. CASE o = PAGE_MAX_ORDER
    <3>1. head[o] = 0
      BY <1>1, <2>1, Zenon
    <3>2. \A i \in F : next[i] = IF i + size < PAGE_NUM THEN i + size ELSE NULL
      BY <1>1, Zenon
    <3>3. free_list = {i \in Pages : i % pages_in[PAGE_MAX_ORDER] = 0}
      BY <1>1, Zenon DEF size
    <3>4. \A i \in free_list : order[i] = PAGE_MAX_ORDER
      BY <1>1, <1>7, Zenon
    <3>5. \A i \in free_list : next[i] = IF i + pages_in[PAGE_MAX_ORDER] < PAGE_NUM
                                          THEN i + pages_in[PAGE_MAX_ORDER] ELSE NULL
      BY <1>1, <3>2, Zenon DEF size
    <3> HIDE DEF F
    <3> QED BY <2>1, <3>1, <3>3, <3>4, <3>5, FirstList, Zenon
  <2>2. CASE o # PAGE_MAX_ORDER
    <3>1. head[o] = NULL
      BY <1>1, <2>2, Zenon
    <3>2. \A q \in free_list : order[q] # o
      BY <1>1, <1>7, <2>2, Zenon
    <3> QED BY <3>1, <3>2, ListNone, Zenon
  <2> QED BY <2>1, <2>2, Zenon
<1> QED
  BY <1>1, <1>5, <1>8, <1>9, <1>10, <1>11, <1>12, Zenon DEF IInv


-----------------------------------------------------------------------------
(* The steps *)

\* Types, one by one.
LEMMA Types ==
    ASSUME TypeOK
    PROVE  /\ head \in [Orders -> Pages \cup {NULL}] /\ next \in [Pages -> Pages \cup {NULL}]
           /\ order \in [Pages -> Orders] /\ free_list \subseteq Pages /\ first_page \subseteq Pages
           /\ freeing \in Pages \cup {NULL} /\ halted \in {"no", "oom", "broken"}
           /\ blocks \subseteq Pages \X Orders
  BY Zenon DEF TypeOK

\* The first pages of blocks are pages, and no page is NULL.
LEMMA TilesArePages ==
    ASSUME TypeOK
    PROVE  Held \subseteq Pages /\ Tiles \subseteq Pages /\ NULL \notin Pages
<1>1. NULL \notin Pages
  BY BuddyAssumption DEF Pages, NULL
<1>2. ASSUME NEW b \in blocks PROVE b[1] \in Pages
  <2>1. b \in Pages \X Orders
    BY Types, Zenon
  <2> QED BY <2>1
<1>3. Held \subseteq Pages
  BY <1>2, Zenon DEF Held
<1> QED
  BY <1>1, <1>3, Types, Zenon DEF Tiles, Loose

\* Fewer free pages with the same orders have no free buddies either.
LEMMA MergedFewer ==
    ASSUME Merged, free_list' \subseteq free_list, \A q \in free_list' : order'[q] = order[q]
    PROVE  Merged'
<1> SUFFICES ASSUME NEW i \in free_list', order'[i] # PAGE_MAX_ORDER,
                    buddy_find_buddy_index(i, order'[i]) \in free_list',
                    order'[buddy_find_buddy_index(i, order'[i])] = order'[i]
             PROVE  FALSE
  BY Zenon DEF Merged, buddy_is_free_buddy
<1> DEFINE b == buddy_find_buddy_index(i, order[i])
<1>1. order'[i] = order[i] /\ i \in free_list
  BY Zenon
<1>2. b \in free_list' /\ order'[b] = order[i] /\ order[i] # PAGE_MAX_ORDER
  BY <1>1, Zenon
<1>3. b \in free_list /\ order[b] = order[i]
  BY <1>2, Zenon
<1> QED
  BY <1>1, <1>2, <1>3, Zenon DEF Merged, buddy_is_free_buddy

\* A page of the right order is popped off its list.
LEMMA PopStep ==
    ASSUME IInv, freeing = NULL, NEW o \in Orders, alloc_pop(o)
    PROVE  /\ IInv'
           /\ \E p \in Pages : p \notin Held /\ blocks' = blocks \cup {<<p, order'[p]>>}
<1> DEFINE page == head[o]
<1>1. /\ page # NULL /\ head' = [head EXCEPT ![o] = next[page]] /\ next' = [next EXCEPT ![page] = NULL]
      /\ free_list' = free_list \ {page} /\ order' = order
      /\ first_page' = first_page \cup {page} /\ blocks' = blocks \cup {<<page, order[page]>>}
      /\ freeing' = freeing /\ halted' = halted
  BY Zenon DEF alloc_pop, HandOut
<1>2. TypeOK /\ Tiling(Tiles, order) /\ Parted /\ Flagged /\ Unlinked /\ Merged /\ Listed /\ halted # "broken"
  BY Zenon DEF IInv
<1>3. List(page, next, free_list, order, o)
  BY <1>2, Zenon DEF Listed
<1> HIDE DEF page
<1>4. page \in free_list /\ order[page] = o
  BY <1>1, <1>3, ListHead, Zenon
<1>5. /\ head \in [Orders -> Pages \cup {NULL}] /\ next \in [Pages -> Pages \cup {NULL}]
      /\ order \in [Pages -> Orders] /\ free_list \subseteq Pages /\ first_page \subseteq Pages
      /\ halted \in {"no", "oom", "broken"} /\ blocks \subseteq Pages \X Orders
      /\ freeing \in Pages \cup {NULL}
  BY <1>2, Types, Zenon
<1>6. page \in Pages /\ NULL \notin Pages
  BY <1>2, <1>4, <1>5, TilesArePages, Zenon
<1>7. TypeOK'
  <2>1. head' \in [Orders -> Pages \cup {NULL}]
    BY <1>1, <1>5, <1>6, Zenon
  <2>2. next' \in [Pages -> Pages \cup {NULL}]
    BY <1>1, <1>5, Zenon
  <2>3. blocks' \subseteq Pages \X Orders
    <3>1. <<page, order[page]>> \in Pages \X Orders
      BY <1>5, <1>6
    <3> QED BY <1>1, <1>5, <3>1, Zenon
  <2>4. free_list' \subseteq Pages /\ first_page' \subseteq Pages
    BY <1>1, <1>5, <1>6, Zenon
  <2> QED BY <1>1, <1>5, <2>1, <2>2, <2>3, <2>4, Zenon DEF TypeOK
<1>8. Held' = Held \cup {page}
  <2>1. <<page, order[page]>>[1] = page
    OBVIOUS
  <2> QED BY <1>1, <2>1, Zenon DEF Held
<1>9. Tiles' = Tiles /\ Loose' = Loose
  <2>1. Loose' = Loose
    BY <1>1, Zenon DEF Loose
  <2> QED BY <1>1, <1>4, <1>8, <2>1, Zenon DEF Tiles
<1>10. Tiling(Tiles, order)'
  BY <1>1, <1>2, <1>9, Zenon
<1>11. Parted'
  <2>1. \A q \in free_list' : q \notin Held' /\ q # freeing'
    BY <1>1, <1>2, <1>8, Zenon DEF Parted
  <2>2. freeing' \notin Held'
    BY <1>1, <1>2, <1>6, <1>8, Zenon DEF Parted
  <2>3. ASSUME NEW b \in blocks' PROVE b = <<b[1], order'[b[1]]>>
    <3>1. CASE b \in blocks
      BY <1>1, <1>2, <3>1, Zenon DEF Parted
    <3>2. CASE b = <<page, order[page]>>
      <4>1. b[1] = page
        BY <3>2
      <4> QED BY <1>1, <3>2, <4>1, Zenon
    <3> QED BY <1>1, <3>1, <3>2, Zenon
  <2> QED BY <2>1, <2>2, <2>3, Zenon DEF Parted
<1>12. Flagged'
  BY <1>1, <1>2, <1>8, <1>9, Zenon DEF Flagged
<1>13. Unlinked'
  <2> SUFFICES ASSUME NEW q \in Pages \ Tiles' PROVE next'[q] = NULL
    BY Zenon DEF Unlinked
  <2>1. next[q] = NULL
    BY <1>2, <1>9, Zenon DEF Unlinked
  <2> QED BY <1>1, <1>5, <2>1, Zenon
<1>14. Merged'
  <2>1. free_list' \subseteq free_list /\ \A q \in free_list' : order'[q] = order[q]
    BY <1>1, Zenon
  <2> QED BY <1>2, <2>1, MergedFewer, Zenon
<1>15. Listed'
  <2> SUFFICES ASSUME NEW x \in Orders PROVE List(head'[x], next', free_list', order', x)
    BY Zenon DEF Listed
  <2>1. \A q \in free_list : q # page => next'[q] = next[q]
    BY <1>1, <1>5, Zenon
  <2>2. CASE x = o
    <3>1. head'[x] = next[page]
      BY <1>1, <1>5, <2>2, Zenon
    <3>2. \A q \in free_list : order[q] = o => next[q] # page
      BY <1>1, <1>3, ListFirst, Zenon
    <3>3. head'[x] = IF page = page THEN next[page] ELSE page
      BY <3>1, Zenon
    <3>4. \A q \in free_list : q # page /\ order[q] = o => next'[q] = IF next[q] = page THEN next[page] ELSE next[q]
      BY <2>1, <3>2, Zenon
    <3>5. \A q \in free_list : q # page /\ order[q] = o => q \in free_list' /\ order'[q] = o
      BY <1>1, Zenon
    <3>6. \A q \in free_list' : order'[q] = o => q \in free_list /\ order[q] = o /\ q # page
      BY <1>1, Zenon
    <3>8. Unhooked(next, free_list, order, next', free_list', order', o, page)
      BY <3>4, <3>5, <3>6, Zenon DEF Unhooked
    <3>7. List(head'[x], next', free_list', order', o)
      BY <1>3, <1>4, <3>3, <3>8, ListWithout, ZenonT(60)
    <3> QED BY <2>2, <3>7, Zenon
  <2>3. CASE x # o
    <3>1. head'[x] = head[x] /\ List(head[x], next, free_list, order, x)
      BY <1>1, <1>2, <1>5, <2>3, Zenon DEF Listed
    <3>2. \A q \in free_list : order[q] = x => q \in free_list' /\ order'[q] = x /\ next'[q] = next[q]
      BY <1>1, <1>4, <2>1, <2>3, Zenon
    <3>3. \A q \in free_list' : order'[q] = x => q \in free_list /\ order[q] = x
      BY <1>1, Zenon
    <3>5. Same(next, free_list, order, next', free_list', order', x)
      BY <3>2, <3>3, Zenon DEF Same
    <3>4. List(head[x], next', free_list', order', x)
      BY <3>1, <3>5, ListKept, Zenon
    <3> QED BY <3>1, <3>4, Zenon
  <2> QED BY <2>2, <2>3, Zenon
<1>16. IInv'
  BY <1>1, <1>2, <1>7, <1>10, <1>11, <1>12, <1>13, <1>14, <1>15, Zenon DEF IInv
<1>17. page \notin Held
  BY <1>2, <1>4, Zenon DEF Parted
<1> QED
  BY <1>1, <1>6, <1>16, <1>17, Zenon

\* buddy_free begins.
LEMMA FreeStep ==
    ASSUME IInv, NEW b \in blocks, buddy_free(b)
    PROVE  IInv'
<1>1. /\ freeing = NULL /\ freeing' = b[1] /\ blocks' = blocks \ {b}
      /\ head' = head /\ next' = next /\ order' = order /\ free_list' = free_list
      /\ first_page' = first_page /\ halted' = halted
  BY Zenon DEF buddy_free, lists, Running
<1>2. TypeOK /\ Tiling(Tiles, order) /\ Parted /\ Flagged /\ Unlinked /\ Merged /\ Listed /\ halted # "broken"
  BY Zenon DEF IInv
<1>3. b[1] \in Held /\ Held \subseteq Pages /\ NULL \notin Pages
  BY <1>2, TilesArePages, Zenon DEF Held
<1>4. TypeOK'
  <2>1. blocks' \subseteq Pages \X Orders /\ freeing' \in Pages \cup {NULL}
    BY <1>1, <1>2, <1>3, Types, Zenon
  <2> QED BY <1>1, <1>2, <2>1, Types, Zenon DEF TypeOK
<1>5. Held' = Held \ {b[1]}
  <2>1. ASSUME NEW c \in blocks, c # b PROVE c[1] # b[1]
    <3>1. c = <<c[1], order[c[1]]>> /\ b = <<b[1], order[b[1]]>>
      BY <1>2, Zenon DEF Parted
    <3> QED BY <2>1, <3>1, Zenon
  <2> QED BY <1>1, <2>1, Zenon DEF Held
<1>6. Loose' = {b[1]} /\ Loose = {}
  BY <1>1, <1>3, Zenon DEF Loose
<1>7. Tiles' = Tiles
  BY <1>1, <1>3, <1>5, <1>6, Zenon DEF Tiles
<1>8. Tiling(Tiles, order)'
  BY <1>1, <1>2, <1>7, Zenon
<1>9. Parted'
  <2>1. \A q \in free_list' : q \notin Held' /\ q # freeing'
    BY <1>1, <1>2, <1>3, <1>5, Zenon DEF Parted
  <2>2. freeing' \notin Held'
    BY <1>1, <1>5, Zenon
  <2>3. \A c \in blocks' : c = <<c[1], order'[c[1]]>>
    BY <1>1, <1>2, Zenon DEF Parted
  <2> QED BY <2>1, <2>2, <2>3, Zenon DEF Parted
<1>10. Flagged'
  BY <1>1, <1>2, <1>5, <1>6, Zenon DEF Flagged
<1>11. Unlinked' /\ Merged' /\ Listed'
  <2>1. Unlinked'
    BY <1>1, <1>2, <1>7, Zenon DEF Unlinked
  <2>2. Merged'
    BY <1>1, <1>2, Zenon DEF Merged, buddy_is_free_buddy
  <2>3. Listed'
    BY <1>1, <1>2, Zenon DEF Listed
  <2> QED BY <2>1, <2>2, <2>3, Zenon
<1> QED
  BY <1>1, <1>2, <1>4, <1>8, <1>9, <1>10, <1>11, Zenon DEF IInv

\* A holder links its block.
LEMMA LinkStep ==
    ASSUME IInv, NEW b \in blocks, NEW other \in LinkTargets, add_page(b[1], other)
    PROVE  IInv'
<1>1. /\ freeing = NULL /\ next' = [next EXCEPT ![b[1]] = other]
      /\ head' = head /\ order' = order /\ free_list' = free_list /\ freeing' = freeing
      /\ first_page' = first_page /\ halted' = halted /\ blocks' = blocks
  BY Zenon DEF add_page, Running
<1>2. TypeOK /\ Tiling(Tiles, order) /\ Parted /\ Flagged /\ Unlinked /\ Merged /\ Listed /\ halted # "broken"
  BY Zenon DEF IInv
<1>3. b[1] \in Held /\ Held \subseteq Pages /\ NULL \notin Pages
  BY <1>2, TilesArePages, Zenon DEF Held
<1>4. next \in [Pages -> Pages \cup {NULL}] /\ other \in Pages
  BY <1>2, Types, BuddyAssumption, Zenon
<1>5. next' \in [Pages -> Pages \cup {NULL}] /\ \A q \in Pages : q \notin Held => next'[q] = next[q]
  BY <1>1, <1>3, <1>4, Zenon
<1>6. TypeOK'
  BY <1>1, <1>2, <1>5, Types, Zenon DEF TypeOK
<1>7. Held' = Held /\ Loose' = Loose
  BY <1>1, Zenon DEF Held, Loose
<1>8. Tiles' = Tiles
  BY <1>1, <1>7, Zenon DEF Tiles
<1>9. Tiling(Tiles, order)'
  BY <1>1, <1>2, <1>8, Zenon
<1>10. Parted' /\ Flagged'
  BY <1>1, <1>2, <1>7, Zenon DEF Parted, Flagged
<1>11. Unlinked'
  <2> SUFFICES ASSUME NEW q \in Pages \ Tiles PROVE next'[q] = NULL
    BY <1>8, Zenon DEF Unlinked
  <2>1. q \notin Held /\ next[q] = NULL
    BY <1>2, Zenon DEF Unlinked, Tiles
  <2> QED BY <1>5, <2>1, Zenon
<1>12. Merged'
  BY <1>1, <1>2, Zenon DEF Merged, buddy_is_free_buddy
<1>13. Listed'
  <2> SUFFICES ASSUME NEW x \in Orders PROVE List(head'[x], next', free_list', order', x)
    BY Zenon DEF Listed
  <2>1. head'[x] = head[x] /\ List(head[x], next, free_list, order, x)
    BY <1>1, <1>2, Zenon DEF Listed
  <2>2. \A q \in free_list : next'[q] = next[q]
    BY <1>2, <1>5, Types, Zenon DEF Parted
  <2>3. Same(next, free_list, order, next', free_list', order', x)
    BY <1>1, <2>2, Zenon DEF Same
  <2>4. List(head[x], next', free_list', order', x)
    BY <2>1, <2>3, ListKept, Zenon
  <2> QED BY <2>1, <2>4, Zenon
<1> QED
  BY <1>1, <1>2, <1>6, <1>9, <1>10, <1>11, <1>12, <1>13, Zenon DEF IInv

\* A step that leaves the allocator alone, unless it stops it.
LEMMA SameStep ==
    ASSUME IInv, UNCHANGED <<lists, first_page, freeing, blocks>>, halted' \in {halted, "oom"}
    PROVE  IInv'
<1>1. /\ head' = head /\ next' = next /\ order' = order /\ free_list' = free_list
      /\ first_page' = first_page /\ freeing' = freeing /\ blocks' = blocks
  BY Zenon DEF lists
<1>2. TypeOK /\ Tiling(Tiles, order) /\ Parted /\ Flagged /\ Unlinked /\ Merged /\ Listed /\ halted # "broken"
  BY Zenon DEF IInv
<1>3. TypeOK' /\ halted' # "broken"
  BY <1>1, <1>2, Types, Zenon DEF TypeOK
<1>4. Held' = Held /\ Loose' = Loose
  BY <1>1, Zenon DEF Held, Loose
<1>5. Tiles' = Tiles
  BY <1>1, <1>4, Zenon DEF Tiles
<1>6. Tiling(Tiles, order)'
  BY <1>1, <1>2, <1>5, Zenon
<1>7. Parted' /\ Flagged'
  BY <1>1, <1>2, <1>4, Zenon DEF Parted, Flagged
<1>8. Unlinked' /\ Listed'
  BY <1>1, <1>2, <1>5, Zenon DEF Unlinked, Listed
<1>9. Merged'
  BY <1>1, <1>2, Zenon DEF Merged, buddy_is_free_buddy
<1> QED
  BY <1>3, <1>6, <1>7, <1>8, <1>9, Zenon DEF IInv

\* The buddy of the block being freed: another page.
LEMMA TheBuddy ==
    ASSUME IInv, NEW q \in Tiles, order[q] # PAGE_MAX_ORDER, NEW b, b = buddy_find_buddy_index(q, order[q])
    PROVE  /\ q \in Pages /\ order[q] \in Orders /\ order[q] + 1 \in Orders /\ b \in Nat /\ b # q
           /\ buddy_find_buddy_index(b, order[q]) = q
           /\ b < q => q = b + pages_in[order[q]] /\ Aligned(b, order[q] + 1)
           /\ ~ b < q => b = q + pages_in[order[q]] /\ Aligned(q, order[q] + 1)
<1>1. Tile(q, order[q]) /\ q \in Pages /\ order[q] \in Orders
  BY TilesArePages, Types, Zenon DEF IInv, Tiling
<1>2. order[q] + 1 \in Orders
  BY <1>1, BuddyAssumption DEF Orders
<1>3. pages_in[order[q]] \in Nat /\ pages_in[order[q]] > 0
  BY <1>1, Size, Zenon
<1>4. q \in Nat
  BY <1>1, Zenon DEF Tile
<1>5. /\ b = q + pages_in[order[q]] \/ q = b + pages_in[order[q]]
      /\ b = q + pages_in[order[q]] => Aligned(q, order[q] + 1)
      /\ q = b + pages_in[order[q]] => Aligned(b, order[q] + 1)
      /\ b \in Nat /\ buddy_find_buddy_index(b, order[q]) = q
  BY <1>1, <1>2, Buddies
<1>6. b # q
  BY <1>3, <1>4, <1>5
<1>7. b < q => q = b + pages_in[order[q]]
  BY <1>3, <1>4, <1>5
<1>8. ~ b < q => b = q + pages_in[order[q]]
  BY <1>3, <1>4, <1>5
<1> QED BY <1>1, <1>2, <1>5, <1>6, <1>7, <1>8, Zenon

\* The block is pushed on the list of its order.
LEMMA PushStep ==
    ASSUME IInv, free_push
    PROVE  IInv'
<1> DEFINE f == freeing
<1>1. /\ f # NULL /\ ~CanMerge /\ first_page' = first_page \ {f} /\ next' = [next EXCEPT ![f] = head[order[f]]]
      /\ head' = [head EXCEPT ![order[f]] = f] /\ free_list' = free_list \cup {f} /\ freeing' = NULL
      /\ order' = order /\ halted' = halted /\ blocks' = blocks
  BY Zenon DEF free_push
<1>2. TypeOK /\ Tiling(Tiles, order) /\ Parted /\ Flagged /\ Unlinked /\ Merged /\ Listed /\ halted # "broken"
  BY Zenon DEF IInv
<1>3. f \in Pages /\ f \notin free_list /\ f \notin Held /\ Loose = {f} /\ f \in Tiles /\ order[f] \in Orders
      /\ head[order[f]] \in Pages \cup {NULL} /\ NULL \notin Pages
  <2>1. f \in Pages /\ NULL \notin Pages
    BY <1>1, <1>2, Types, TilesArePages, Zenon
  <2>2. f \notin free_list /\ f \notin Held
    BY <1>2, Zenon DEF Parted
  <2>3. Loose = {f} /\ f \in Tiles
    BY <1>1, Zenon DEF Loose, Tiles
  <2>4. order[f] \in Orders
    BY <1>2, <2>1, Types, Zenon
  <2>5. head[order[f]] \in Pages \cup {NULL}
    BY <1>2, <2>4, Types, Zenon
  <2> QED BY <2>1, <2>2, <2>3, <2>4, <2>5, Zenon
<1>4. /\ next' \in [Pages -> Pages \cup {NULL}] /\ next'[f] = head[order[f]]
      /\ \A q \in Pages : q # f => next'[q] = next[q]
  BY <1>1, <1>2, <1>3, Types, Zenon
<1>5. /\ head' \in [Orders -> Pages \cup {NULL}] /\ head'[order[f]] = f
      /\ \A x \in Orders : x # order[f] => head'[x] = head[x]
  BY <1>1, <1>2, <1>3, Types, Zenon
<1>6. TypeOK'
  <2>1. free_list' \subseteq Pages /\ first_page' \subseteq Pages
    BY <1>1, <1>2, <1>3, Types, Zenon
  <2> QED BY <1>1, <1>2, <1>4, <1>5, <2>1, Types, Zenon DEF TypeOK
<1>7. Held' = Held /\ Loose' = {}
  BY <1>1, Zenon DEF Held, Loose
<1>8. Tiles' = Tiles
  BY <1>1, <1>3, <1>7, Zenon DEF Tiles
<1>9. Tiling(Tiles, order)'
  BY <1>1, <1>2, <1>8, Zenon
<1>10. Parted'
  <2>1. \A q \in free_list' : q \notin Held' /\ q # freeing'
    BY <1>1, <1>2, <1>3, <1>6, <1>7, Types, Zenon DEF Parted
  <2>2. freeing' \notin Held'
    BY <1>1, <1>2, <1>7, TilesArePages, Zenon
  <2>3. \A b \in blocks' : b = <<b[1], order'[b[1]]>>
    BY <1>1, <1>2, Zenon DEF Parted
  <2> QED BY <2>1, <2>2, <2>3, Zenon DEF Parted
<1>11. Flagged'
  BY <1>1, <1>2, <1>3, <1>7, Zenon DEF Flagged
<1>12. Unlinked'
  BY <1>2, <1>3, <1>4, <1>8, Zenon DEF Unlinked
<1>13. Merged'
  <2> SUFFICES ASSUME NEW i \in free_list', order[i] # PAGE_MAX_ORDER,
                      NEW b, b = buddy_find_buddy_index(i, order[i]), b \in free_list', order[b] = order[i]
               PROVE  FALSE
    BY <1>1, Zenon DEF Merged, buddy_is_free_buddy
  <2>1. i \in Tiles /\ i \in Pages
    BY <1>1, <1>2, <1>3, TilesArePages, Zenon DEF Tiles
  <2>2. b # i /\ buddy_find_buddy_index(b, order[i]) = i
    BY <2>1, TheBuddy, Zenon
  <2>3. CASE i = f
    BY <1>1, <2>2, <2>3, Zenon DEF CanMerge, buddy_is_free_buddy
  <2>4. CASE b = f
    BY <1>1, <2>2, <2>4, Zenon DEF CanMerge, buddy_is_free_buddy
  <2>5. CASE i # f /\ b # f
    BY <1>1, <1>2, <2>5, Zenon DEF Merged, buddy_is_free_buddy
  <2> QED BY <2>3, <2>4, <2>5, Zenon
<1>14. Listed'
  <2> SUFFICES ASSUME NEW x \in Orders PROVE List(head'[x], next', free_list', order', x)
    BY Zenon DEF Listed
  <2>1. List(head[x], next, free_list, order, x)
    BY <1>2, Zenon DEF Listed
  <2>2. \A q \in free_list : next'[q] = next[q]
    BY <1>2, <1>3, <1>4, Types, Zenon
  <2>3. CASE x = order[f]
    <3>1. next'[f] = head[x] /\ head'[x] = f
      BY <1>4, <1>5, <2>3, Zenon
    <3>3. f \in Pages /\ f \notin free_list /\ free_list' = free_list \cup {f} /\ order[f] = x
      BY <1>1, <1>3, <2>3, Zenon
    <3>4. \A q \in free_list : order[q] = x => next'[q] = next[q]
      BY <2>2, Zenon
    <3> HIDE DEF f
    <3>2. List(f, next', free_list', order, x)
      BY <2>1, <3>1, <3>3, <3>4, ListWith
    <3> QED BY <1>1, <3>1, <3>2, Zenon
  <2>4. CASE x # order[f]
    <3>1. Same(next, free_list, order, next', free_list', order', x)
      BY <1>1, <2>2, <2>4, Zenon DEF Same
    <3>2. List(head[x], next', free_list', order', x)
      BY <2>1, <3>1, ListKept, Zenon
    <3> QED BY <1>5, <2>4, <3>2, Zenon
  <2> QED BY <2>3, <2>4, Zenon
<1> QED
  BY <1>1, <1>2, <1>6, <1>9, <1>10, <1>11, <1>12, <1>13, <1>14, Zenon DEF IInv

\* A free buddy is taken off its list, and the two become a block of the next
\* order; the list has it, so "broken page" is never reached.
LEMMA MergeStep ==
    ASSUME IInv, free_merge
    PROVE  IInv'
<1> DEFINE f == freeing
           o == order[freeing]
           bi == buddy_find_buddy_index(freeing, order[freeing])
           low == IF bi < f THEN bi ELSE f
           high == IF bi < f THEN f ELSE bi
<1>1. TypeOK /\ Tiling(Tiles, order) /\ Parted /\ Flagged /\ Unlinked /\ Merged /\ Listed /\ halted # "broken"
  BY Zenon DEF IInv
<1>2. f # NULL /\ o # PAGE_MAX_ORDER /\ bi \in free_list /\ order[bi] = o
  BY Zenon DEF free_merge, CanMerge, buddy_is_free_buddy
<1>3. f \in Pages /\ f \notin free_list /\ f \notin Held /\ Loose = {f} /\ f \in Tiles
  <2>1. f \in Pages
    BY <1>1, <1>2, Types, Zenon
  <2>2. f \notin free_list /\ f \notin Held
    BY <1>1, Zenon DEF Parted
  <2>3. Loose = {f} /\ f \in Tiles
    BY <1>2, Zenon DEF Loose, Tiles
  <2> QED BY <2>1, <2>2, <2>3, Zenon
<1>4. bi \in Pages /\ bi \notin Held /\ bi \in Tiles /\ NULL \notin Pages
  BY <1>1, <1>2, Types, TilesArePages, Zenon DEF Parted, Tiles
<1>5. /\ o \in Orders /\ o + 1 \in Orders /\ bi # f
      /\ bi < f => f = bi + pages_in[o] /\ Aligned(bi, o + 1)
      /\ ~ bi < f => bi = f + pages_in[o] /\ Aligned(f, o + 1)
  BY <1>2, <1>3, TheBuddy, Zenon
<1>6. List(head[o], next, free_list, order, o)
  BY <1>1, <1>5, Zenon DEF Listed
<1>7. Chain(o) = {i \in free_list : order[i] = o}
  BY <1>5, <1>6, ListSound, Zenon
<1>8. bi \in Chain(o)
  BY <1>2, <1>7, Zenon
<1>9. /\ head' = [head EXCEPT ![o] = IF @ = bi THEN next[bi] ELSE @]
      /\ next' = [q \in Pages |-> IF q = bi THEN NULL
                                  ELSE IF q \in Chain(o) /\ next[q] = bi THEN next[bi]
                                  ELSE [next EXCEPT ![f] = NULL][q]]
      /\ free_list' = free_list \ {f, bi}
      /\ order' = [order EXCEPT ![high] = 0, ![low] = o + 1]
      /\ freeing' = low /\ halted' = halted /\ blocks' = blocks /\ first_page' = first_page \ {f}
  BY <1>8, Zenon DEF free_merge, list_remove
<1>10. (low = f /\ high = bi) \/ (low = bi /\ high = f)
  BY Zenon
<1>11. high = low + pages_in[o] /\ Aligned(low, o + 1)
  BY <1>5, Zenon
<1> HIDE DEF low, high, bi, o
<1>12. low \in Tiles /\ high \in Tiles /\ low # high /\ {low, high} = {f, bi} /\ low \in Pages /\ high \in Pages
  BY <1>3, <1>4, <1>5, <1>10, Zenon
<1>13. /\ order \in [Pages -> Orders] /\ next \in [Pages -> Pages \cup {NULL}]
       /\ head \in [Orders -> Pages \cup {NULL}] /\ free_list \subseteq Pages
  BY <1>1, Types, Zenon
<1>14. /\ order' \in [Pages -> Orders] /\ order'[low] = o + 1
       /\ \A q \in Pages : q # f /\ q # bi => order'[q] = order[q]
  <2>1. 0 \in Orders
    BY BuddyAssumption DEF Orders
  <2>2. order' \in [Pages -> Orders]
    BY <1>5, <1>9, <1>12, <1>13, <2>1, Zenon
  <2>3. order'[low] = o + 1
    BY <1>9, <1>12, <1>13, Zenon
  <2>4. \A q \in Pages : q # low /\ q # high => order'[q] = order[q]
    BY <1>9, <1>12, <1>13, Zenon
  <2> QED BY <1>10, <2>2, <2>3, <2>4, Zenon
<1>15. /\ next' \in [Pages -> Pages \cup {NULL}] /\ next'[bi] = NULL /\ next'[f] = NULL
       /\ \A q \in Pages : q # f /\ q # bi /\ q \notin Chain(o) => next'[q] = next[q]
       /\ \A q \in Pages : q # f /\ q # bi /\ q \in Chain(o) =>
            next'[q] = IF next[q] = bi THEN next[bi] ELSE next[q]
  <2>1. [next EXCEPT ![f] = NULL] \in [Pages -> Pages \cup {NULL}] /\ [next EXCEPT ![f] = NULL][f] = NULL
        /\ \A q \in Pages : q # f => [next EXCEPT ![f] = NULL][q] = next[q]
    BY <1>3, <1>13, Zenon
  <2> DEFINE n1 == [next EXCEPT ![f] = NULL]
  <2>2. next' = [q \in Pages |-> IF q = bi THEN NULL
                                 ELSE IF q \in Chain(o) /\ next[q] = bi THEN next[bi] ELSE n1[q]]
    BY <1>9, Zenon
  <2>3. n1 \in [Pages -> Pages \cup {NULL}] /\ n1[f] = NULL /\ \A q \in Pages : q # f => n1[q] = next[q]
    BY <2>1, Zenon
  <2> HIDE DEF n1
  <2>4. next[bi] \in Pages \cup {NULL} /\ f \notin Chain(o)
    BY <1>3, <1>4, <1>7, <1>13, Zenon
  <2>5. next' \in [Pages -> Pages \cup {NULL}]
    <3>1. \A q \in Pages : (IF q = bi THEN NULL
                            ELSE IF q \in Chain(o) /\ next[q] = bi THEN next[bi] ELSE n1[q]) \in Pages \cup {NULL}
      BY <2>3, <2>4, Zenon
    <3> QED BY <2>2, <3>1, Zenon
  <2>6. \A q \in Pages : next'[q] = IF q = bi THEN NULL
                                    ELSE IF q \in Chain(o) /\ next[q] = bi THEN next[bi] ELSE n1[q]
    BY <2>2, Zenon
  <2>7. next'[bi] = NULL
    BY <1>4, <2>6, Zenon
  <2>8. next'[f] = NULL
    BY <1>3, <1>5, <2>3, <2>4, <2>6, Zenon
  <2>9. \A q \in Pages : q # f /\ q # bi /\ q \notin Chain(o) => next'[q] = next[q]
    BY <2>3, <2>6, Zenon
  <2>10. \A q \in Pages : q # f /\ q # bi /\ q \in Chain(o) =>
            next'[q] = IF next[q] = bi THEN next[bi] ELSE next[q]
    BY <2>3, <2>6, Zenon
  <2> QED BY <2>5, <2>7, <2>8, <2>9, <2>10, Zenon
<1>16. /\ head' \in [Orders -> Pages \cup {NULL}] /\ head'[o] = IF head[o] = bi THEN next[bi] ELSE head[o]
       /\ \A x \in Orders : x # o => head'[x] = head[x]
  <2>1. next[bi] \in Pages \cup {NULL}
    BY <1>4, <1>13, Zenon
  <2> QED BY <1>5, <1>9, <1>13, <2>1, Zenon
<1>17. TypeOK'
  <2>1. free_list' \subseteq Pages /\ first_page' \subseteq Pages /\ freeing' \in Pages \cup {NULL}
        /\ halted' \in {"no", "oom", "broken"} /\ blocks' \subseteq Pages \X Orders
    BY <1>1, <1>9, <1>12, Types, Zenon
  <2> QED BY <1>14, <1>15, <1>16, <2>1, Zenon DEF TypeOK
<1>18. Held' = Held /\ Loose' = {low}
  <2>1. low # NULL
    BY <1>4, <1>12, Zenon
  <2> QED BY <1>9, <2>1, Zenon DEF Held, Loose
<1>19. Tiles' = Tiles \ {high}
  <2>1. Tiles = free_list \cup (Held \cup {f})
    BY <1>3, Zenon DEF Tiles
  <2>2. Tiles' = (free_list \ {f, bi}) \cup (Held \cup {low})
    BY <1>9, <1>18, Zenon DEF Tiles
  <2> QED BY <1>2, <1>3, <1>4, <1>5, <1>10, <2>1, <2>2, ZenonT(60)
<1>20. Tiling(Tiles, order)'
  <2>1. order[low] = o /\ order[high] = o
    <3>1. order[f] = o
      BY Zenon DEF o
    <3> QED BY <1>2, <1>10, <3>1, Zenon
  <2>2. \A q \in Tiles \ {low, high} : order'[q] = order[q]
    BY <1>1, <1>12, <1>14, TilesArePages, Zenon
  <2>3. Fused(Tiles, order, low, high, o, order')
    BY <1>5, <1>11, <1>12, <1>14, <2>1, <2>2, Zenon DEF Fused
  <2>4. Tiling(Tiles', order')
    BY <1>1, <1>19, <2>3, MergeTiling, Zenon
  <2> QED BY <2>4, Zenon
<1>21. Parted'
  <2>1. \A q \in free_list' : q \notin Held' /\ q # freeing'
    BY <1>1, <1>9, <1>10, <1>18, Zenon DEF Parted
  <2>2. freeing' \notin Held'
    BY <1>3, <1>4, <1>9, <1>10, <1>18, Zenon
  <2>3. ASSUME NEW b \in blocks' PROVE b = <<b[1], order'[b[1]]>>
    <3>1. b \in blocks /\ b[1] \in Held /\ b = <<b[1], order[b[1]]>>
      BY <1>1, <1>9, Zenon DEF Parted, Held
    <3>2. b[1] \in Pages /\ b[1] # f /\ b[1] # bi
      BY <1>1, <1>3, <1>4, <3>1, TilesArePages, Zenon
    <3> QED BY <1>14, <3>1, <3>2, Zenon
  <2> QED BY <2>1, <2>2, <2>3, Zenon DEF Parted
<1>22. Flagged'
  BY <1>1, <1>3, <1>9, <1>18, Zenon DEF Flagged
<1>23. Unlinked'
  <2> SUFFICES ASSUME NEW q \in Pages, q \notin Tiles' PROVE next'[q] = NULL
    BY Zenon DEF Unlinked
  <2>1. CASE q = high
    BY <1>10, <1>15, <2>1, Zenon
  <2>2. CASE q \notin Tiles
    <3>1. q # f /\ q # bi /\ q \notin Chain(o) /\ next[q] = NULL
      BY <1>1, <1>3, <1>4, <1>7, <2>2, Zenon DEF Tiles, Unlinked
    <3> QED BY <1>15, <3>1, Zenon
  <2> QED BY <1>19, <2>1, <2>2, Zenon
<1>24. Merged'
  <2>1. free_list' \subseteq free_list /\ \A q \in free_list' : order'[q] = order[q]
    BY <1>9, <1>13, <1>14, Zenon
  <2> QED BY <1>1, <2>1, MergedFewer, Zenon
<1>25. Listed'
  <2> SUFFICES ASSUME NEW x \in Orders PROVE List(head'[x], next', free_list', order', x)
    BY Zenon DEF Listed
  <2>1. \A q \in free_list : q # bi => q \in free_list' /\ order'[q] = order[q] /\ q # f
    BY <1>3, <1>9, <1>13, <1>14, Zenon
  <2>2. \A q \in free_list' : q \in free_list /\ q # bi /\ order'[q] = order[q]
    BY <1>9, <2>1, Zenon
  <2>3. CASE x = o
    <3>1. \A q \in free_list : q # bi /\ order[q] = o => next'[q] = IF next[q] = bi THEN next[bi] ELSE next[q]
      BY <1>7, <1>13, <1>15, <2>1, Zenon
    <3>2. Unhooked(next, free_list, order, next', free_list', order', o, bi)
      BY <2>1, <2>2, <3>1, Zenon DEF Unhooked
    <3>3. List(head'[o], next', free_list', order', o)
      BY <1>2, <1>6, <1>16, <3>2, ListWithout, ZenonT(60)
    <3> QED BY <2>3, <3>3, Zenon
  <2>4. CASE x # o
    <3>1. head'[x] = head[x] /\ List(head[x], next, free_list, order, x)
      BY <1>1, <1>16, <2>4, Zenon DEF Listed
    <3>2. \A q \in free_list : order[q] = x => q # bi /\ q \notin Chain(o) /\ q \in Pages
      BY <1>2, <1>7, <1>13, <2>4, Zenon
    <3>3. \A q \in free_list : order[q] = x => next'[q] = next[q]
      BY <1>15, <2>1, <3>2, Zenon
    <3>4. Same(next, free_list, order, next', free_list', order', x)
      BY <2>1, <2>2, <3>2, <3>3, Zenon DEF Same
    <3>5. List(head[x], next', free_list', order', x)
      BY <3>1, <3>4, ListKept, Zenon
    <3> QED BY <3>1, <3>5, Zenon
  <2> QED BY <2>3, <2>4, Zenon
<1> QED
  BY <1>1, <1>9, <1>17, <1>20, <1>21, <1>22, <1>23, <1>24, <1>25, ZenonT(60) DEF IInv

\* The pieces of a block are pages apart from each other and from the other
\* blocks, and the last one cut off is where the block began.
LEMMA PartsFresh ==
    ASSUME NEW T, NEW ord, Tiling(T, ord), NEW page \in T,
           NEW from \in Orders, NEW to \in from..(PAGE_MAX_ORDER - 1), ord[page] = to + 1
    PROVE  /\ rear(page, to, from) \in Pages /\ rear(page, to, from) \notin T
           /\ piece(page, to, to) = page
           /\ \A i \in from..to :
                /\ i \in Orders /\ piece(page, to, i) \in Pages /\ piece(page, to, i) # rear(page, to, from)
                /\ piece(page, to, i) \in T => piece(page, to, i) = page /\ i = to
                /\ \A j \in from..to : piece(page, to, i) = piece(page, to, j) => i = j
<1> DEFINE rr == rear(page, to, from)
           pp(i) == piece(page, to, i)
<1>1. Tile(page, to + 1)
  BY Zenon DEF Tiling
<1>2. to + 1 \in Orders /\ Tile(rr, from) /\ rr > page /\ \A i \in from..to : i \in Orders /\ Tile(pp(i), i)
  BY <1>1, Pieces, Zenon
<1>3. \A x \in Pages : x \in Nat
  BY BuddyAssumption DEF Pages
<1>4. rr \in Pages /\ Holds(rr, from, rr) /\ \A i \in from..to : pp(i) \in Pages /\ Holds(pp(i), i, pp(i))
  BY <1>2, TileHolds, Zenon
<1>5. ASSUME NEW x \in Pages
      PROVE  /\ Holds(rr, from, x) => Holds(page, to + 1, x)
             /\ \A i \in from..to : Holds(pp(i), i, x) =>
                  Holds(page, to + 1, x) /\ ~ Holds(rr, from, x) /\ \A j \in from..to : Holds(pp(j), j, x) => i = j
  <2>1. x \in Nat
    BY <1>3, Zenon
  <2> QED BY <1>1, <2>1, PiecesApart
<1>6. pp(to) = page
  <2>1. pages_in[to + 1] \in Nat /\ page \in Nat
    BY <1>1, <1>2, Size, Zenon DEF Tile
  <2> QED BY <2>1 DEF piece
<1>7. to \in from..to
  BY DEF Orders
<1>12. rr # page
  <2>1. page \in Nat /\ rr \in Nat
    BY <1>1, <1>2, Zenon DEF Tile
  <2> HIDE DEF rr
  <2> QED BY <1>2, <2>1
<1> HIDE DEF rr, pp
<1>8. rr \notin T
  <2>1. Holds(page, ord[page], rr)
    BY <1>4, <1>5, Zenon
  <2>2. rr \in T => rr = page
    BY <2>1, OwnTile, Zenon
  <2> QED BY <1>12, <2>2, Zenon
<1>9. ASSUME NEW i \in from..to PROVE pp(i) # rr /\ \A j \in from..to : pp(i) = pp(j) => i = j
  BY <1>4, <1>5, Zenon
<1>10. ASSUME NEW i \in from..to, pp(i) \in T PROVE pp(i) = page /\ i = to
  <2>1. Holds(page, ord[page], pp(i))
    BY <1>4, <1>5, ZenonT(60)
  <2>2. pp(i) = page
    BY <1>10, <2>1, OwnTile, Zenon
  <2> QED BY <1>6, <1>7, <1>9, <2>2, Zenon
<1>11. /\ rr \in Pages /\ rr \notin T /\ pp(to) = page
       /\ \A i \in from..to : /\ i \in Orders /\ pp(i) \in Pages /\ pp(i) # rr
                              /\ pp(i) \in T => pp(i) = page /\ i = to
                              /\ \A j \in from..to : pp(i) = pp(j) => i = j
  BY <1>2, <1>4, <1>6, <1>8, <1>9, <1>10, Zenon
<1> QED BY <1>11, Zenon DEF rr, pp

\* What begins a block of the next order is followed by its buddy.
LEMMA EvenBuddy ==
    ASSUME NEW q \in Nat, NEW o \in Orders, o + 1 \in Orders, Aligned(q, o + 1)
    PROVE  buddy_find_buddy_index(q, o) = q + pages_in[o]
<1> DEFINE n == pages_in[o]
<1>1. n \in Nat /\ n > 0 /\ pages_in[o + 1] = 2 * n
  BY Size, NextSize, Zenon
<1>2. PICK k \in Nat : q = k * pages_in[o + 1]
  BY Zenon DEF Aligned
<1> HIDE DEF n
<1>3. q = (2 * k) * n
  BY <1>1, <1>2
<1>4. q \div n = 2 * k
  BY <1>1, <1>3
<1>5. (q \div n) % 2 # 1
  BY <1>4
<1> QED BY <1>5, Zenon DEF buddy_find_buddy_index, n

\* The buddy of a piece is the next one, or what is left behind them.
LEMMA PieceBuddy ==
    ASSUME NEW from \in Orders, NEW to \in from..(PAGE_MAX_ORDER - 1), NEW page, Tile(page, to + 1),
           NEW j \in from..to
    PROVE  \/ j = from /\ buddy_find_buddy_index(piece(page, to, j), j) = rear(page, to, from)
           \/ j - 1 \in from..to /\ buddy_find_buddy_index(piece(page, to, j), j) = piece(page, to, j - 1)
<1> DEFINE p == piece(page, to, j)
<1>1. /\ to + 1 \in Orders /\ j \in Orders /\ j + 1 \in Orders /\ Tile(p, j)
  BY Pieces, Zenon
<1>2. p \in Nat /\ page \in Nat
  BY <1>1, Zenon DEF Tile
<1>3. pages_in[j] \in Nat /\ pages_in[to + 1] \in Nat /\ pages_in[j + 1] = 2 * pages_in[j]
  BY <1>1, Size, NextSize, Zenon
<1>4. Aligned(p, j + 1)
  <2>1. CASE j = to
    <3>1. p = page
      BY <1>2, <1>3, <1>1, <2>1, Size DEF piece
    <3> QED BY <2>1, <3>1, Zenon DEF Tile
  <2>2. CASE j # to
    <3>1. j + 1 < to + 1 /\ 1 \in 1..2
      BY <2>2 DEF Orders
    <3>2. Tile(page + pages_in[to + 1] - 1 * pages_in[j + 1], j + 1)
      BY <1>1, <3>1, Inside, Zenon
    <3>3. page + pages_in[to + 1] - 1 * pages_in[j + 1] = p
      BY <1>1, <1>2, <1>3 DEF piece
    <3> QED BY <3>2, <3>3, Zenon DEF Tile
  <2> QED BY <2>1, <2>2, Zenon
<1>5. buddy_find_buddy_index(p, j) = p + pages_in[j]
  BY <1>1, <1>2, <1>4, EvenBuddy, Zenon
<1>6. p + pages_in[j] = page + pages_in[to + 1] - pages_in[j]
  BY <1>2, <1>3 DEF piece
<1>7. CASE j = from
  BY <1>5, <1>6, <1>7, Zenon DEF rear
<1>8. CASE j # from
  <2>1. j - 1 \in from..to /\ (j - 1) + 1 = j
    BY <1>8 DEF Orders
  <2>2. piece(page, to, j - 1) = page + pages_in[to + 1] - pages_in[j]
    BY <2>1, Zenon DEF piece
  <2> QED BY <1>5, <1>6, <2>1, <2>2, Zenon
<1> QED BY <1>7, <1>8, Zenon

\* A larger block is split: buddy_pull_block.
LEMMA PullStep ==
    ASSUME IInv, freeing = NULL, NEW from \in Orders, alloc_pull(from)
    PROVE  /\ IInv'
           /\ \E p \in Pages : p \notin Held /\ blocks' = blocks \cup {<<p, order'[p]>>}
<1>1. TypeOK /\ Tiling(Tiles, order) /\ Parted /\ Flagged /\ Unlinked /\ Merged /\ Listed /\ halted # "broken"
  BY Zenon DEF IInv
<1>2. PICK to \in from..(PAGE_MAX_ORDER - 1) :
        LET page == head[to + 1]
            last == page + pages_in[to + 1] - pages_in[from]
        IN  /\ page # NULL
            /\ \A i \in (from + 1)..to : head[i] = NULL
            /\ head' = [o \in Orders |-> IF o \in from..to THEN piece(page, to, o)
                                         ELSE IF o = to + 1 THEN next[page] ELSE head[o]]
            /\ next' = [next EXCEPT ![page] = NULL]
            /\ order' = [q \in Pages |->
                           IF q = last THEN from
                           ELSE IF \E i \in from..to : q = piece(page, to, i)
                           THEN CHOOSE i \in from..to : q = piece(page, to, i)
                           ELSE order[q]]
            /\ free_list' = (free_list \ {page}) \cup {piece(page, to, i) : i \in from..to}
            /\ HandOut(last, from)
  BY Zenon DEF alloc_pull
<1> DEFINE page == head[to + 1]
           last == rear(page, to, from)
           pp(i) == piece(page, to, i)
<1>3. /\ page # NULL /\ head[from] = NULL
      /\ \A i \in (from + 1)..to : head[i] = NULL
      /\ head' = [o \in Orders |-> IF o \in from..to THEN pp(o)
                                   ELSE IF o = to + 1 THEN next[page] ELSE head[o]]
      /\ next' = [next EXCEPT ![page] = NULL]
      /\ order' = [q \in Pages |-> IF q = last THEN from
                                   ELSE IF \E i \in from..to : q = pp(i)
                                   THEN CHOOSE i \in from..to : q = pp(i)
                                   ELSE order[q]]
      /\ free_list' = (free_list \ {page}) \cup {pp(i) : i \in from..to}
      /\ first_page' = first_page \cup {last} /\ blocks' = blocks \cup {<<last, from>>}
      /\ freeing' = freeing /\ halted' = halted
  BY <1>2, Zenon DEF alloc_pull, HandOut, rear
<1>4. to + 1 \in Orders /\ to + 1 \notin from..to
  BY BuddyAssumption DEF Orders
<1>5. List(page, next, free_list, order, to + 1)
  BY <1>1, <1>4, Zenon DEF Listed
<1>6. Parts(page, to, from) = {pp(i) : i \in from..to} \cup {last}
  BY Zenon DEF Parts
<1> HIDE DEF page
<1>7. page \in free_list /\ order[page] = to + 1
  BY <1>3, <1>5, ListHead, Zenon
<1>8. /\ head \in [Orders -> Pages \cup {NULL}] /\ next \in [Pages -> Pages \cup {NULL}]
      /\ order \in [Pages -> Orders] /\ free_list \subseteq Pages /\ first_page \subseteq Pages
      /\ halted \in {"no", "oom", "broken"} /\ blocks \subseteq Pages \X Orders
      /\ NULL \notin Pages /\ Tiles \subseteq Pages
  BY <1>1, Types, TilesArePages, Zenon
<1>9. page \in Pages /\ page \in Tiles /\ page \notin Held /\ next[page] \in Pages \cup {NULL}
  BY <1>1, <1>7, <1>8, Zenon DEF Tiles, Parted
<1>10. /\ last \in Pages /\ last \notin Tiles /\ pp(to) = page
       /\ \A i \in from..to : /\ i \in Orders /\ pp(i) \in Pages /\ pp(i) # last
                              /\ pp(i) \in Tiles => pp(i) = page /\ i = to
                              /\ \A j \in from..to : pp(i) = pp(j) => i = j
  BY <1>1, <1>7, <1>9, PartsFresh
<1>11. to \in from..to
  BY DEF Orders
<1>12. \A j \in from..to : \/ j = from /\ buddy_find_buddy_index(pp(j), j) = last
                           \/ j - 1 \in from..to /\ buddy_find_buddy_index(pp(j), j) = pp(j - 1) /\ j - 1 # j
  <2>1. Tile(page, to + 1)
    BY <1>1, <1>7, <1>9, Zenon DEF Tiling
  <2>2. \A j \in from..to : j - 1 # j
    BY DEF Orders
  <2> QED BY <2>1, <2>2, PieceBuddy
<1> HIDE DEF last, pp
<1>13. /\ order' \in [Pages -> Orders] /\ order'[last] = from
       /\ \A i \in from..to : order'[pp(i)] = i
       /\ \A q \in Tiles : q # page => order'[q] = order[q]
  <2>1. \A q \in Pages : order'[q] = IF q = last THEN from
                                     ELSE IF \E i \in from..to : q = pp(i)
                                     THEN CHOOSE i \in from..to : q = pp(i)
                                     ELSE order[q]
    BY <1>3, Zenon
  <2>2. order'[last] = from
    BY <1>10, <2>1, Zenon
  <2>3. ASSUME NEW i \in from..to PROVE order'[pp(i)] = i
    <3>1. order'[pp(i)] = CHOOSE j \in from..to : pp(i) = pp(j)
      BY <1>10, <2>1, Zenon
    <3>2. order'[pp(i)] \in from..to /\ pp(i) = pp(order'[pp(i)])
      BY <3>1, Zenon
    <3> QED BY <1>10, <3>2, Zenon
  <2>4. ASSUME NEW q \in Pages, q # last, \A i \in from..to : q # pp(i) PROVE order'[q] = order[q]
    BY <2>1, <2>4, Zenon
  <2>5. ASSUME NEW q \in Pages PROVE order'[q] \in Orders
    <3>1. CASE q = last
      BY <2>2, <3>1, Zenon
    <3>2. ASSUME NEW i \in from..to, q = pp(i) PROVE order'[q] \in Orders
      BY <1>10, <2>3, <3>2, Zenon
    <3>3. CASE q # last /\ \A i \in from..to : q # pp(i)
      BY <1>8, <2>4, <3>3, Zenon
    <3> QED BY <3>1, <3>2, <3>3, Zenon
  <2>6. order' \in [Pages -> Orders]
    BY <1>3, <2>5, Zenon
  <2>7. ASSUME NEW q \in Tiles, q # page PROVE order'[q] = order[q]
    BY <1>8, <1>10, <2>4, <2>7, ZenonT(60)
  <2> QED BY <2>2, <2>3, <2>6, <2>7, Zenon
<1>14. /\ next' \in [Pages -> Pages \cup {NULL}] /\ next'[page] = NULL
       /\ \A q \in Pages : q # page => next'[q] = next[q]
  BY <1>3, <1>8, <1>9, Zenon
<1>15. /\ head' \in [Orders -> Pages \cup {NULL}] /\ head'[to + 1] = next[page]
       /\ \A x \in from..to : head'[x] = pp(x)
       /\ \A x \in Orders : x \notin from..to /\ x # to + 1 => head'[x] = head[x]
  <2>1. \A x \in Orders : head'[x] = IF x \in from..to THEN pp(x)
                                     ELSE IF x = to + 1 THEN next[page] ELSE head[x]
    BY <1>3, Zenon
  <2>2. \A x \in Orders : (IF x \in from..to THEN pp(x)
                           ELSE IF x = to + 1 THEN next[page] ELSE head[x]) \in Pages \cup {NULL}
    BY <1>8, <1>9, <1>10, Zenon
  <2>3. head' \in [Orders -> Pages \cup {NULL}]
    BY <1>3, <2>2, Zenon
  <2>4. head'[to + 1] = next[page]
    BY <1>4, <2>1, Zenon
  <2>5. \A x \in from..to : head'[x] = pp(x)
    BY <1>10, <2>1, Zenon
  <2>6. \A x \in Orders : x \notin from..to /\ x # to + 1 => head'[x] = head[x]
    BY <2>1, Zenon
  <2> QED BY <2>3, <2>4, <2>5, <2>6, Zenon
<1>16. /\ \A q \in free_list' : (q \in free_list /\ q # page) \/ \E i \in from..to : q = pp(i)
       /\ \A q \in free_list : q # page => q \in free_list'
       /\ \A i \in from..to : pp(i) \in free_list'
  BY <1>3, Zenon
<1>17. TypeOK'
  <2>1. ASSUME NEW q \in free_list' PROVE q \in Pages
    <3>1. CASE q \in free_list
      BY <1>8, <3>1, Zenon
    <3>2. ASSUME NEW i \in from..to, q = pp(i) PROVE q \in Pages
      BY <1>10, <3>2, Zenon
    <3> QED BY <1>16, <3>1, <3>2, Zenon
  <2>2. first_page' \subseteq Pages
    BY <1>3, <1>8, <1>10, Zenon
  <2>3. blocks' \subseteq Pages \X Orders
    <3>1. <<last, from>> \in Pages \X Orders
      BY <1>10
    <3> QED BY <1>3, <1>8, <3>1, Zenon
  <2>4. freeing' \in Pages \cup {NULL} /\ halted' \in {"no", "oom", "broken"}
    BY <1>3, <1>8, Zenon
  <2> QED BY <1>13, <1>14, <1>15, <2>1, <2>2, <2>3, <2>4, ZenonT(60) DEF TypeOK
<1>18. Held' = Held \cup {last} /\ Loose' = {} /\ Loose = {}
  <2>1. <<last, from>>[1] = last
    OBVIOUS
  <2> QED BY <1>3, <2>1, Zenon DEF Held, Loose
<1>19. Tiles' = (Tiles \ {page}) \cup Parts(page, to, from)
  <2>1. Tiles = free_list \cup Held
    BY <1>18, Zenon DEF Tiles
  <2>2. Tiles' = ((free_list \ {page}) \cup {pp(i) : i \in from..to}) \cup (Held \cup {last})
    BY <1>3, <1>18, Zenon DEF Tiles
  <2> DEFINE N == {pp(i) : i \in from..to}
  <2>3. Tiles' = ((free_list \ {page}) \cup N) \cup (Held \cup {last}) /\ Parts(page, to, from) = N \cup {last}
    BY <1>6, <2>2, Zenon
  <2> HIDE DEF N
  <2> QED BY <1>9, <2>1, <2>3, Zenon
<1>20. Tiling(Tiles, order)'
  <2>1. Pulled(Tiles, order, page, to, from, order')
    <3>1. /\ order'[rear(page, to, from)] = from /\ \A i \in from..to : order'[piece(page, to, i)] = i
      BY <1>13, Zenon DEF last, pp
    <3> QED BY <1>7, <1>9, <1>13, <3>1, Zenon DEF Pulled
  <2>2. Tiling(Tiles', order')
    BY <1>1, <1>19, <2>1, SplitTiling, Zenon
  <2> QED BY <2>2, Zenon
<1>21. Parted'
  <2>1. ASSUME NEW q \in free_list' PROVE q \notin Held' /\ q # freeing'
    <3>1. CASE q \in free_list
      <4>1. q \in Pages /\ q # last /\ q \notin Held
        BY <1>1, <1>8, <1>10, <3>1, ZenonT(60) DEF Tiles, Parted
      <4> QED BY <1>3, <1>8, <1>18, <4>1, ZenonT(60)
    <3>2. ASSUME NEW i \in from..to, q = pp(i) PROVE q \notin Held' /\ q # freeing'
      <4>1. q \in Pages /\ q # last /\ (q \in Tiles => q = page)
        BY <1>10, <3>2, Zenon
      <4>2. q \notin Held
        BY <1>9, <4>1, Zenon DEF Tiles
      <4> QED BY <1>3, <1>8, <1>18, <4>1, <4>2, ZenonT(60)
    <3> QED BY <1>16, <3>1, <3>2, Zenon
  <2>2. freeing' \notin Held'
    BY <1>1, <1>3, <1>8, <1>10, <1>18, Zenon DEF Parted
  <2>3. ASSUME NEW b \in blocks' PROVE b = <<b[1], order'[b[1]]>>
    <3>1. CASE b \in blocks
      <4>1. b[1] \in Held
        BY <3>1, Zenon DEF Held
      <4>2. b[1] \in Tiles /\ b[1] # page
        BY <1>9, <4>1, Zenon DEF Tiles
      <4> QED BY <1>1, <1>13, <3>1, <4>2, Zenon DEF Parted
    <3>2. CASE b = <<last, from>>
      <4>1. b[1] = last
        BY <3>2
      <4> QED BY <1>13, <3>2, <4>1, Zenon
    <3> QED BY <1>3, <3>1, <3>2, Zenon
  <2> QED BY <2>1, <2>2, <2>3, Zenon DEF Parted
<1>22. Flagged'
  BY <1>1, <1>3, <1>18, Zenon DEF Flagged
<1>23. Unlinked'
  <2> SUFFICES ASSUME NEW q \in Pages, q \notin Tiles' PROVE next'[q] = NULL
    BY Zenon DEF Unlinked
  <2>1. page \in Tiles'
    BY <1>10, <1>11, <1>16, Zenon DEF Tiles
  <2>2. q \notin Tiles /\ q # page
    BY <1>19, <2>1, Zenon
  <2> QED BY <1>1, <1>14, <2>2, Zenon DEF Unlinked
<1>24. Merged'
  <2> SUFFICES ASSUME NEW i \in free_list', order'[i] # PAGE_MAX_ORDER,
                      NEW b, b = buddy_find_buddy_index(i, order'[i]), b \in free_list', order'[b] = order'[i]
               PROVE  FALSE
    BY Zenon DEF Merged, buddy_is_free_buddy
  <2>1. ASSUME NEW j \in from..to, NEW c, c = buddy_find_buddy_index(pp(j), j)
        PROVE  c = last \/ (c \in free_list' /\ order'[c] # j /\ \E k \in from..to : k # j /\ c = pp(k))
    BY <1>12, <1>13, <1>16, <2>1, ZenonT(60)
  <2>2. last \notin free_list'
    BY <1>10, <1>16, Zenon DEF Tiles
  <2>3. ASSUME NEW j \in from..to, i = pp(j) PROVE FALSE
    <3>1. order'[i] = j /\ b = buddy_find_buddy_index(pp(j), j)
      BY <1>13, <2>3, Zenon
    <3> QED BY <2>1, <2>2, <3>1, Zenon
  <2>4. CASE i \in free_list /\ i # page
    <3>1. i \in Tiles
      BY <2>4, Zenon DEF Tiles
    <3>2. order'[i] = order[i]
      BY <1>13, <2>4, <3>1, Zenon
    <3>3. b \in Nat /\ buddy_find_buddy_index(b, order[i]) = i
      BY <3>1, <3>2, TheBuddy, Zenon
    <3>4. ASSUME NEW j \in from..to, b = pp(j) PROVE FALSE
      <4>1. order[i] = j /\ i = buddy_find_buddy_index(pp(j), j)
        BY <1>13, <3>2, <3>3, <3>4, Zenon
      <4>2. PICK k \in from..to : k # j /\ i = pp(k)
        BY <1>10, <2>1, <3>1, <4>1, Zenon
      <4> QED BY <1>10, <2>4, <3>1, <4>2, Zenon
    <3>5. CASE b \in free_list /\ b # page
      <4>1. b \in Tiles
        BY <3>5, Zenon DEF Tiles
      <4>2. order'[b] = order[b]
        BY <1>13, <3>5, <4>1, Zenon
      <4> QED BY <1>1, <2>4, <3>2, <3>5, <4>2, Zenon DEF Merged, buddy_is_free_buddy
    <3> QED BY <1>16, <3>4, <3>5, Zenon
  <2> QED BY <1>16, <2>3, <2>4, Zenon
<1>25. Listed'
  <2> SUFFICES ASSUME NEW x \in Orders PROVE List(head'[x], next', free_list', order', x)
    BY Zenon DEF Listed
  <2>1. \A q \in free_list : q # page => q \in free_list' /\ order'[q] = order[q] /\ next'[q] = next[q]
    BY <1>8, <1>13, <1>14, <1>16, Zenon DEF Tiles
  <2>2. CASE x \in from..to
    <3>1. head[x] = NULL
      <4>1. x = from \/ x \in (from + 1)..to
        BY <2>2 DEF Orders
      <4> QED BY <1>3, <4>1, Zenon
    <3>2. \A q \in free_list : order[q] # x
      BY <1>1, <3>1, ListEmpty, Zenon DEF Listed
    <3>3. pp(x) \in Pages /\ pp(x) \in free_list' /\ order'[pp(x)] = x
      BY <1>10, <1>13, <1>16, <2>2, Zenon
    <3>4. ASSUME NEW q \in free_list', order'[q] = x PROVE q = pp(x)
      <4>1. CASE q \in free_list /\ q # page
        BY <2>1, <3>2, <3>4, <4>1, Zenon
      <4>2. ASSUME NEW i \in from..to, q = pp(i) PROVE q = pp(x)
        BY <1>13, <3>4, <4>2, Zenon
      <4> QED BY <1>16, <4>1, <4>2, Zenon
    <3>5. next'[pp(x)] = NULL
      <4>1. CASE pp(x) = page
        BY <1>14, <4>1, Zenon
      <4>2. CASE pp(x) # page
        <5>1. pp(x) \notin Tiles
          BY <1>10, <2>2, <4>2, Zenon
        <5> QED BY <1>1, <1>14, <3>3, <4>2, <5>1, ZenonT(60) DEF Unlinked
      <4> QED BY <4>1, <4>2, Zenon
    <3>6. List(pp(x), next', free_list', order', x)
      BY <3>3, <3>4, <3>5, ListOne, ZenonT(60)
    <3> QED BY <1>15, <2>2, <3>6, Zenon
  <2>3. CASE x = to + 1
    <3>1. \A q \in free_list : order[q] = to + 1 => next[q] # page
      BY <1>3, <1>5, ListFirst, ZenonT(60)
    <3>2. \A q \in free_list : q # page /\ order[q] = to + 1 => next'[q] = IF next[q] = page THEN next[page] ELSE next[q]
      BY <2>1, <3>1, Zenon
    <3>3. \A q \in free_list' : order'[q] = to + 1 => q \in free_list /\ order[q] = to + 1 /\ q # page
      BY <1>4, <1>13, <1>16, <2>1, ZenonT(60)
    <3>4. Unhooked(next, free_list, order, next', free_list', order', to + 1, page)
      BY <2>1, <3>2, <3>3, Zenon DEF Unhooked
    <3>5. head'[to + 1] = IF page = page THEN next[page] ELSE page
      BY <1>15, Zenon
    <3>6. List(head'[to + 1], next', free_list', order', to + 1)
      BY <1>5, <1>7, <3>4, <3>5, ListWithout, ZenonT(60)
    <3> QED BY <2>3, <3>6, Zenon
  <2>4. CASE x \notin from..to /\ x # to + 1
    <3>1. head'[x] = head[x] /\ List(head[x], next, free_list, order, x)
      BY <1>1, <1>15, <2>4, Zenon DEF Listed
    <3>2. \A q \in free_list : order[q] = x => q # page
      BY <1>7, <2>4, Zenon
    <3>3. \A q \in free_list' : order'[q] = x => q \in free_list /\ order[q] = x
      BY <1>13, <1>16, <2>1, <2>4, ZenonT(60)
    <3>4. Same(next, free_list, order, next', free_list', order', x)
      BY <2>1, <3>2, <3>3, Zenon DEF Same
    <3>5. List(head[x], next', free_list', order', x)
      BY <3>1, <3>4, ListKept, Zenon
    <3> QED BY <3>1, <3>5, Zenon
  <2> QED BY <2>2, <2>3, <2>4, Zenon
<1>26. IInv'
  BY <1>1, <1>3, <1>17, <1>20, <1>21, <1>22, <1>23, <1>24, <1>25, ZenonT(60) DEF IInv
<1>27. last \notin Held
  BY <1>10, Zenon DEF Tiles
<1> QED
  BY <1>3, <1>10, <1>13, <1>26, <1>27, ZenonT(60)

\* Every step keeps the invariant; buddy_alloc adds one block to those in use
\* or none, and the other steps add none.
LEMMA NextIInv ==
    ASSUME IInv, [Next]_vars
    PROVE  /\ IInv'
           /\ \/ blocks' = blocks
              \/ \E b \in blocks : blocks' = blocks \ {b}
              \/ \E p \in Pages : p \notin Held /\ blocks' = blocks \cup {<<p, order'[p]>>}
<1>1. ASSUME NEW size \in 0..(pages_in[PAGE_MAX_ORDER] + 1), buddy_alloc(size)
      PROVE  /\ IInv'
             /\ \/ blocks' = blocks
                \/ \E p \in Pages : p \notin Held /\ blocks' = blocks \cup {<<p, order'[p]>>}
  <2>1. freeing = NULL
    BY <1>1, Zenon DEF buddy_alloc, Running
  <2>2. ASSUME NEW o \in Orders, alloc_pop(o) \/ alloc_pull(o)
        PROVE  IInv' /\ \E p \in Pages : p \notin Held /\ blocks' = blocks \cup {<<p, order'[p]>>}
    <3>1. CASE alloc_pop(o)
      BY <2>1, <3>1, PopStep, Zenon
    <3>2. CASE alloc_pull(o)
      BY <2>1, <3>2, PullStep, Zenon
    <3> QED BY <2>2, <3>1, <3>2, Zenon
  <2>3. CASE alloc_halt(order_for(size))
    <3>1. UNCHANGED <<lists, first_page, freeing, blocks>> /\ halted' = "oom"
      BY <2>3, Zenon DEF alloc_halt
    <3>2. IInv'
      BY <3>1, SameStep, Zenon
    <3> QED BY <3>1, <3>2, Zenon
  <2> QED BY <1>1, <2>2, <2>3, Zenon DEF buddy_alloc, order_for
<1>2. ASSUME NEW b \in blocks, buddy_free(b) PROVE IInv' /\ blocks' = blocks \ {b}
  <2>1. IInv'
    BY <1>2, FreeStep, Zenon
  <2> QED BY <1>2, <2>1, Zenon DEF buddy_free
<1>3. ASSUME NEW b \in blocks, NEW other \in LinkTargets, add_page(b[1], other)
      PROVE  IInv' /\ blocks' = blocks
  <2>1. IInv'
    BY <1>3, LinkStep, Zenon
  <2> QED BY <1>3, <2>1, Zenon DEF add_page
<1>4. CASE free_push
  <2>1. IInv'
    BY <1>4, PushStep, Zenon
  <2> QED BY <1>4, <2>1, Zenon DEF free_push
<1>5. CASE free_merge
  <2>1. IInv'
    BY <1>5, MergeStep, Zenon
  <2> QED BY <1>5, <2>1, Zenon DEF free_merge
<1>6. CASE UNCHANGED vars
  <2>1. UNCHANGED <<lists, first_page, freeing, blocks>> /\ halted' = halted
    BY <1>6, Zenon DEF vars
  <2>2. IInv'
    BY <2>1, SameStep, Zenon
  <2> QED BY <2>1, <2>2, Zenon
<1> QED
  BY <1>1, <1>2, <1>3, <1>4, <1>5, <1>6, Zenon DEF Next

-----------------------------------------------------------------------------
(* What the invariant says *)

\* The pages of a block are the ones it holds.
LEMMA ExtentHolds ==
    ASSUME NEW q, NEW o, Tile(q, o), NEW x \in Pages
    PROVE  x \in Extent(q, o) <=> Holds(q, o, x)
<1>1. q \in Nat /\ pages_in[o] \in Nat /\ x \in Nat
  <2>1. x \in Nat
    BY BuddyAssumption DEF Pages
  <2> QED BY <2>1, Size, Zenon DEF Tile
<1> QED BY <1>1 DEF Extent, Holds

\* A page is in the blocks of a set that begin at t and in no others.
LEMMA OneBlock ==
    ASSUME IInv, NEW q \in Pages
    PROVE  \E t \in Tiles : \A s \in Tiles : q \in Extent(s, order[s]) <=> s = t
<1>1. PICK t \in Tiles : Holds(t, order[t], q)
  BY Zenon DEF IInv, Tiling
<1>2. \A s \in Tiles : Holds(s, order[s], q) <=> s = t
  BY <1>1, Zenon DEF IInv, Tiling
<1>3. \A s \in Tiles : q \in Extent(s, order[s]) <=> Holds(s, order[s], q)
  BY ExtentHolds, Zenon DEF IInv, Tiling
<1> QED BY <1>2, <1>3, Zenon

\* Every page is in one block.
LEMMA Accounted == ASSUME IInv PROVE PagesAccounted
<1> SUFFICES ASSUME NEW q \in Pages
             PROVE  Cardinality({i \in free_list : q \in Extent(i, order[i])})
                      + Cardinality({b \in blocks : q \in Extent(b[1], b[2])})
                      + (IF freeing # NULL /\ q \in Extent(freeing, order[freeing]) THEN 1 ELSE 0) = 1
  BY Zenon DEF PagesAccounted
<1> DEFINE A == {i \in free_list : q \in Extent(i, order[i])}
           B == {b \in blocks : q \in Extent(b[1], b[2])}
           c == IF freeing # NULL /\ q \in Extent(freeing, order[freeing]) THEN 1 ELSE 0
<1>1. PICK t \in Tiles : \A s \in Tiles : q \in Extent(s, order[s]) <=> s = t
  BY OneBlock, Zenon
<1>2. Parted
  BY Zenon DEF IInv
<1>3. \A b \in blocks : b[1] \in Held /\ b[1] \in Tiles /\ b = <<b[1], order[b[1]]>>
  BY <1>2, Zenon DEF Parted, Held, Tiles
<1>4. \A b \in blocks : b[2] = order[b[1]]
  <2>1. ASSUME NEW b \in blocks PROVE b[2] = order[b[1]]
    <3>1. b = <<b[1], order[b[1]]>>
      BY <1>3, Zenon
    <3>2. <<b[1], order[b[1]]>>[2] = order[b[1]]
      OBVIOUS
    <3> QED BY <3>1, <3>2, Zenon
  <2> QED BY <2>1, Zenon
<1>5. /\ \A i : i \in A <=> i \in free_list /\ i = t
      /\ \A b : b \in B <=> b \in blocks /\ b[1] = t
      /\ c = IF freeing # NULL /\ freeing = t THEN 1 ELSE 0
  <2>1. \A i : i \in A <=> i \in free_list /\ i = t
    BY <1>1, Zenon DEF Tiles
  <2>2. ASSUME NEW b \in blocks PROVE q \in Extent(b[1], b[2]) <=> b[1] = t
    BY <1>1, <1>3, <1>4, Zenon
  <2>3. \A b : b \in B <=> b \in blocks /\ b[1] = t
    BY <2>2, Zenon
  <2>4. freeing # NULL => (q \in Extent(freeing, order[freeing]) <=> freeing = t)
    BY <1>1, Zenon DEF Tiles, Loose
  <2>5. c = IF freeing # NULL /\ freeing = t THEN 1 ELSE 0
    BY <2>4, Zenon
  <2> QED BY <2>1, <2>3, <2>5, Zenon
<1> HIDE DEF A, B, c
<1>6. CASE t \in free_list
  <2>1. A = {t} /\ B = {} /\ c = 0
    BY <1>2, <1>3, <1>5, <1>6, Zenon DEF Parted
  <2>2. Cardinality(A) = 1 /\ Cardinality(B) = 0
    BY <2>1, FS_EmptySet, FS_Singleton, Zenon
  <2> QED BY <2>1, <2>2 DEF A, B, c
<1>7. CASE t \in Held
  <2>1. PICK b \in blocks : b[1] = t
    BY <1>7, Zenon DEF Held
  <2>2. A = {} /\ c = 0
    BY <1>2, <1>5, <1>7, Zenon DEF Parted
  <2>3. B = {b}
    <3>1. ASSUME NEW d \in B PROVE d = b
      BY <1>3, <1>5, <2>1, <3>1, Zenon
    <3>2. b \in B
      BY <1>5, <2>1, Zenon
    <3> QED BY <3>1, <3>2, Zenon
  <2>4. Cardinality(A) = 0 /\ Cardinality(B) = 1
    BY <2>2, <2>3, FS_EmptySet, FS_Singleton, Zenon
  <2> QED BY <2>2, <2>4 DEF A, B, c
<1>8. CASE t \in Loose
  <2>1. t = freeing /\ freeing # NULL
    BY <1>8, Zenon DEF Loose
  <2>2. A = {} /\ B = {} /\ c = 1
    <3>1. A = {}
      BY <1>2, <1>5, <2>1, Zenon DEF Parted
    <3>2. B = {}
      <4> SUFFICES ASSUME NEW b \in B PROVE FALSE
        BY Zenon
      <4>1. b[1] \in Held /\ b[1] = freeing
        BY <1>3, <1>5, <2>1, Zenon
      <4> QED BY <1>2, <4>1, Zenon DEF Parted
    <3>3. c = 1
      BY <1>5, <2>1, Zenon
    <3> QED BY <3>1, <3>2, <3>3, Zenon
  <2>3. Cardinality(A) = 0 /\ Cardinality(B) = 0
    BY <2>2, FS_EmptySet, Zenon
  <2> QED BY <2>2, <2>3 DEF A, B, c
<1> QED BY <1>6, <1>7, <1>8, Zenon DEF Tiles

\* The last first page at or below a page of a block in use is the block's.
LEMMA Found == ASSUME IInv PROVE FindHead
<1> SUFFICES ASSUME freeing = NULL, NEW b \in blocks, NEW q \in Extent(b[1], b[2])
             PROVE  (\E i \in 0..q : i \in first_page) /\ page_find_head(q) = b[1]
  BY Zenon DEF FindHead
<1> DEFINE p == b[1]
           n == pages_in[b[2]]
<1>1. TypeOK /\ Tiling(Tiles, order) /\ Parted /\ Flagged
  BY Zenon DEF IInv
<1>2. first_page = Held /\ p \in Held /\ Held \subseteq Tiles
  BY <1>1, Zenon DEF Flagged, Loose, Held, Tiles
<1>3. b = <<p, order[p]>> /\ p \in Tiles
  BY <1>1, <1>2, Zenon DEF Parted
<1>4. b[2] = order[p]
  <2>1. <<p, order[p]>>[2] = order[p]
    OBVIOUS
  <2> QED BY <1>3, <2>1, Zenon
<1>5. Tile(p, b[2])
  BY <1>1, <1>3, <1>4, Zenon DEF Tiling
<1>6. p \in Nat /\ n \in Nat /\ PAGE_NUM \in Nat /\ p + n <= PAGE_NUM
  BY <1>5, Size, BuddyAssumption, Zenon DEF Tile
<1>7. q \in Nat /\ p <= q /\ q < p + n
  <2>1. q \in p..(p + n - 1)
    BY Zenon DEF Extent
  <2> HIDE DEF p, n
  <2> QED BY <1>6, <2>1
<1>8. ASSUME NEW j \in (p + 1)..q PROVE j \notin first_page
  <2> HIDE DEF p, n
  <2>1. p <= j /\ j < p + n /\ j # p
    BY <1>6, <1>7
  <2>2. Holds(p, order[p], j)
    BY <1>4, <2>1, Zenon DEF Holds, n
  <2> QED BY <1>1, <1>2, <1>3, <2>1, <2>2, OwnTile, Zenon
<1> DEFINE FirstOf(i) == i \in first_page /\ \A j \in (i + 1)..q : j \notin first_page
<1> HIDE DEF p, n
<1>9. p \in 0..q /\ FirstOf(p)
  <2>1. p \in 0..q
    BY <1>6, <1>7
  <2> QED BY <1>2, <1>8, <2>1, Zenon
<1>10. ASSUME NEW i \in 0..q, FirstOf(i) PROVE i = p
  <2>1. CASE i < p
    <3>1. p \in (i + 1)..q
      BY <1>6, <1>7, <2>1
    <3> QED BY <1>2, <1>10, <3>1, Zenon
  <2>2. CASE p < i
    <3>1. i \in (p + 1)..q
      BY <1>6, <1>7, <2>2
    <3> QED BY <1>8, <1>10, <3>1, Zenon
  <2>3. i < p \/ p < i \/ i = p
    BY <1>6, <1>7
  <2> QED BY <2>1, <2>2, <2>3, Zenon
<1>11. page_find_head(q) = CHOOSE i \in 0..q : FirstOf(i)
  BY Zenon DEF page_find_head
<1> HIDE DEF FirstOf
<1>12. page_find_head(q) = p
  <2>1. page_find_head(q) \in 0..q /\ FirstOf(page_find_head(q))
    BY <1>9, <1>11, Zenon
  <2> QED BY <1>10, <2>1, Zenon
<1> QED BY <1>9, <1>12, Zenon DEF FirstOf, p

\* The free lists, from the sequences of their pages.
LEMMA ListsAreSound == ASSUME IInv PROVE ListsSound /\ Coalesced
<1>1. ListsSound
  <2>1. ASSUME NEW o \in Orders PROVE List(head[o], next, free_list, order, o)
    BY Zenon DEF IInv, Listed
  <2> QED BY <2>1, ListSound, Zenon DEF ListsSound, IInv
<1>2. ASSUME NEW i \in free_list, order[i] < PAGE_MAX_ORDER
      PROVE  ~ buddy_is_free_buddy(i, buddy_find_buddy_index(i, order[i]))
  <2>1. order[i] # PAGE_MAX_ORDER
    BY <1>2, BuddyAssumption
  <2> QED BY <2>1, Zenon DEF IInv, Merged
<1> QED BY <1>1, <1>2, Zenon DEF Coalesced

\* The invariant of the allocator.
LEMMA Inductive == Spec => []IInv
<1>1. Init => IInv
  BY InitIInv
<1>2. IInv /\ [Next]_vars => IInv'
  BY NextIInv, Zenon
<1> QED
  BY <1>1, <1>2, PTL DEF Spec

\* For any amount of memory and any largest order every page is always in
\* exactly one block, free, in use or being freed, and page_find_head finds the
\* first page of a block in use from any of its pages (buddy_alloc, buddy_free,
\* page_find_head).
THEOREM PagesAreAccounted == Spec => []BlocksSound
<1>1. IInv => BlocksSound
  <2> SUFFICES ASSUME IInv PROVE BlocksSound
    OBVIOUS
  <2>1. TypeOK
    BY Zenon DEF IInv
  <2> QED BY <2>1, Accounted, Found, Zenon DEF BlocksSound
<1> QED
  BY <1>1, Inductive, PTL

\* The list of every order holds exactly the free blocks of that order, once
\* each; buddy_free never stops with "broken page"; and between calls no two
\* buddies are both free (buddy_list_push, buddy_list_pop, buddy_list_remove,
\* buddy_pull_block).
THEOREM FreeListsAreSound == Spec => []FreeListsSound
<1>1. IInv => FreeListsSound
  BY ListsAreSound, Zenon DEF FreeListsSound
<1> QED
  BY <1>1, Inductive, PTL

\* Different blocks of a tiling share no page.
LEMMA ApartExtents ==
    ASSUME NEW T, NEW ord, Tiling(T, ord), NEW p \in T, NEW r \in T, p # r
    PROVE  Extent(p, ord[p]) \cap Extent(r, ord[r]) = {}
<1> SUFFICES ASSUME NEW x, x \in Extent(p, ord[p]), x \in Extent(r, ord[r]) PROVE FALSE
  BY Zenon
<1>1. Tile(p, ord[p]) /\ Tile(r, ord[r])
  BY Zenon DEF Tiling
<1>2. x \in Pages
  <2>1. p \in Nat /\ ord[p] \in Orders /\ p + pages_in[ord[p]] <= PAGE_NUM
    BY <1>1, Zenon DEF Tile
  <2>2. pages_in[ord[p]] \in Nat /\ PAGE_NUM \in Nat
    BY <2>1, Size, BuddyAssumption, Zenon
  <2> QED BY <2>1, <2>2 DEF Extent, Pages
<1>3. Holds(p, ord[p], x) /\ Holds(r, ord[r], x)
  BY <1>1, <1>2, ExtentHolds, Zenon
<1> QED BY <1>2, <1>3, Zenon DEF Tiling

\* One step of the allocator is one of what it promises, or none.
LEMMA AllocatorStep ==
    ASSUME IInv, [Next]_vars
    PROVE  Allocator!Next \/ blocks' = blocks
<1>1. IInv'
  BY NextIInv, Zenon
<1>2. CASE blocks' = blocks
  BY <1>2, Zenon
<1>3. ASSUME NEW b \in blocks, blocks' = blocks \ {b} PROVE Allocator!Next
  BY <1>3, Zenon DEF Allocator!Next, Allocator!Free
<1>4. ASSUME NEW p \in Pages, p \notin Held, blocks' = blocks \cup {<<p, order'[p]>>} PROVE Allocator!Next
  <2> DEFINE T == Tiles'
             ord == order'
             b == <<p, order'[p]>>
  <2>1. Tiling(T, ord) /\ \A c \in blocks' : c = <<c[1], ord[c[1]]>> /\ c[1] \in T
    BY <1>1, Zenon DEF IInv, Parted, Tiles, Held
  <2>2. b \in blocks' /\ \A c \in blocks : c \in blocks' /\ c[1] # p
    BY <1>4, Zenon DEF Held
  <2>3. b[1] = p /\ b[2] = ord[p]
    OBVIOUS
  <2> HIDE DEF T, ord, b
  <2>4. ASSUME NEW c \in blocks' PROVE c[2] = ord[c[1]]
    <3>1. <<c[1], ord[c[1]]>>[2] = ord[c[1]]
      OBVIOUS
    <3> QED BY <2>1, <3>1, Zenon
  <2>5. p \in T
    BY <2>1, <2>2, <2>3, Zenon
  <2>7. \A c : Allocator!Extent(c) = Extent(c[1], c[2])
    BY Zenon DEF Allocator!Extent, Extent
  <2>8. ASSUME NEW c \in blocks PROVE Allocator!Extent(b) \cap Allocator!Extent(c) = {}
    <3>1. c[1] \in T /\ c[1] # p /\ c[2] = ord[c[1]]
      BY <2>1, <2>2, <2>4, Zenon
    <3>2. Extent(p, ord[p]) \cap Extent(c[1], ord[c[1]]) = {}
      BY <2>1, <2>5, <3>1, ApartExtents, Zenon
    <3> QED BY <2>3, <2>7, <3>1, <3>2, Zenon
  <2>9. b \in Allocator!Block
    <3>1. Tile(p, ord[p])
      BY <2>1, <2>5, Zenon DEF Tiling
    <3>2. p \in Nat /\ ord[p] \in Orders /\ p % pages_in[ord[p]] = 0 /\ p + pages_in[ord[p]] <= PAGE_NUM
      BY <3>1, AlignedMod, Zenon DEF Tile
    <3>3. b \in Pages \X Orders
      BY <3>2 DEF b, ord
    <3> QED BY <2>3, <3>2, <3>3, Zenon DEF Allocator!Block, Pages, Orders
  <2>10. Allocator!Alloc(b)
    BY <1>4, <2>8, Zenon DEF Allocator!Alloc, b
  <2> QED BY <2>9, <2>10, Zenon DEF Allocator!Next
<1> QED BY <1>2, <1>3, <1>4, NextIInv, Zenon

\* Through every split and merge the allocator keeps what PageAllocator
\* promises: a block handed out is aligned, inside memory and apart from every
\* block in use, and only its own holder's call takes it back.
THEOREM BuddyAllocates == Spec => AllocatorSpec
<1>1. Init => Allocator!Init
  BY Zenon DEF Init, Allocator!Init
<1>2. IInv /\ [Next]_vars => [Allocator!Next]_blocks
  BY AllocatorStep, Zenon
<1> QED
  BY <1>1, <1>2, Inductive, PTL DEF Spec, AllocatorSpec, Allocator!Spec
=============================================================================
