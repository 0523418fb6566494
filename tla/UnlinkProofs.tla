----------------------------- MODULE UnlinkProofs -----------------------------
(***************************************************************************)
(* Proofs about Dentry, continued: what dentry_unlink makes of the tree of *)
(* names (UnlinkName, and UnlinkDot for the dots of a directory that is    *)
(* being removed), what a lookup leaves a call with (FoundGrew), and which *)
(* entries a directory can still have when its count of entries says that  *)
(* it is empty (EmptyDots).  DentryProofs has the definitions.             *)
(***************************************************************************)
EXTENDS DentryProofs

-----------------------------------------------------------------------------
(* Removing a name *)

\* list_remove takes one name out of a list that has it once.
LEMMA ListRemove ==
    ASSUME NEW S, NEW c \in Seq(S), NEW n \in Range(c), Inj(c)
    PROVE  list_remove(c, n) \in Seq(S) /\ Dropped(c, n, list_remove(c, n))
<1> DEFINE m == CHOOSE k \in 1..Len(c) : c[k] = n
           r == list_remove(c, n)
<1>1. Len(c) \in Nat /\ DOMAIN c = 1..Len(c)
  BY LenIs, Zenon
<1>2. m \in 1..Len(c) /\ c[m] = n
  <2>1. \E k \in 1..Len(c) : c[k] = n
    BY <1>1, Zenon DEF Range
  <2> QED BY <2>1, Zenon
<1>3. r = SubSeq(c, 1, m - 1) \o SubSeq(c, m + 1, Len(c))
  BY Zenon DEF list_remove
<1> HIDE DEF m, r
<1> DEFINE a == SubSeq(c, 1, m - 1)
           b == SubSeq(c, m + 1, Len(c))
<1>a. a \in Seq(S) /\ Len(a) = m - 1 /\ \A k \in 1..(m - 1) : a[k] = c[k]
  <2>0. 1 \in 1..(Len(c) + 1) /\ m - 1 \in 0..Len(c) /\ \A k \in 1..(m - 1) : c[k] \in S
    BY <1>1, <1>2
  <2>1. a \in Seq(S) /\ Len(a) = IF 1 <= m - 1 THEN (m - 1) - 1 + 1 ELSE 0
    BY <1>1, <1>2, <2>0, SubSeqIs
  <2>2. \A k \in 1..((m - 1) - 1 + 1) : a[k] = c[1 + k - 1]
    BY <1>1, <1>2, <2>0, SubSeqIs
  <2> HIDE DEF a
  <2> QED BY <1>1, <1>2, <2>1, <2>2
<1>b. b \in Seq(S) /\ Len(b) = Len(c) - m /\ \A k \in 1..(Len(c) - m) : b[k] = c[m + k]
  <2>0. m + 1 \in 1..(Len(c) + 1) /\ Len(c) \in 0..Len(c) /\ \A k \in (m + 1)..Len(c) : c[k] \in S
    BY <1>1, <1>2
  <2>1. b \in Seq(S) /\ Len(b) = IF m + 1 <= Len(c) THEN Len(c) - (m + 1) + 1 ELSE 0
    BY <1>1, <1>2, <2>0, SubSeqIs
  <2>2. \A k \in 1..(Len(c) - (m + 1) + 1) : b[k] = c[(m + 1) + k - 1]
    BY <1>1, <1>2, <2>0, SubSeqIs
  <2> HIDE DEF b
  <2>3. \A k \in 1..(Len(c) - m) : k \in 1..(Len(c) - (m + 1) + 1) /\ (m + 1) + k - 1 = m + k
    BY <1>1, <1>2
  <2>4. Len(b) = Len(c) - m
    <3>1. m + 1 <= Len(c) => Len(c) - (m + 1) + 1 = Len(c) - m
      BY <1>1, <1>2
    <3>0. m \in Int /\ m <= Len(c) /\ Len(c) \in Int
      BY <1>1, <1>2
    <3>2. ~(m + 1 <= Len(c)) => 0 = Len(c) - m
      <4> DEFINE x == Len(c)
      <4>1. m \in Int /\ m <= x /\ x \in Int
        BY <3>0
      <4> HIDE DEF x
      <4>2. ~(m + 1 <= x) => 0 = x - m
        BY <4>1
      <4> QED BY <4>2, Zenon DEF x
    <3> QED BY <2>1, <3>1, <3>2, Zenon
  <2> QED BY <2>1, <2>2, <2>3, <2>4, Zenon
<1>c. r = a \o b
  BY <1>3, Zenon
<1> HIDE DEF a, b
<1>d. /\ r \in Seq(S) /\ Len(r) = Len(a) + Len(b)
      /\ \A k \in 1..(Len(a) + Len(b)) : r[k] = IF k <= Len(a) THEN a[k] ELSE b[k - Len(a)]
  BY <1>a, <1>b, <1>c, ConcatIs, Zenon
<1>4. r \in Seq(S) /\ Len(r) = Len(c) - 1
  BY <1>1, <1>2, <1>a, <1>b, <1>d
<1>5. \A k \in 1..(Len(c) - 1) : r[k] = IF k < m THEN c[k] ELSE c[k + 1]
  <2> SUFFICES ASSUME NEW k \in 1..(Len(c) - 1)
               PROVE  r[k] = IF k < m THEN c[k] ELSE c[k + 1]
    BY Zenon
  <2>0. k \in 1..(Len(a) + Len(b)) /\ (k < m <=> k <= Len(a))
    BY <1>1, <1>2, <1>a, <1>b
  <2>1. CASE k < m
    <3>1. k \in 1..(m - 1)
      BY <1>2, <2>1
    <3> QED BY <1>a, <1>d, <2>0, <2>1, <3>1, Zenon
  <2>2. CASE ~(k < m)
    <3>1. k - Len(a) \in 1..(Len(c) - m) /\ m + (k - Len(a)) = k + 1
      BY <1>1, <1>2, <1>a, <2>2
    <3> QED BY <1>b, <1>d, <2>0, <2>2, <3>1, Zenon
  <2> QED BY <2>1, <2>2, Zenon
<1>6. DOMAIN r = 1..(Len(c) - 1)
  BY <1>4, LenIs, Zenon
<1>7. ASSUME NEW k \in 1..(Len(c) - 1)
      PROVE  \E l \in 1..Len(c) : l # m /\ r[k] = c[l] /\ (l = k \/ l = k + 1)
  <2>1. CASE k < m
    <3>1. k \in 1..Len(c) /\ k # m
      BY <1>1, <1>2, <2>1
    <3> QED BY <1>5, <2>1, <3>1, Zenon
  <2>2. CASE ~(k < m)
    <3>1. k + 1 \in 1..Len(c) /\ k + 1 # m
      BY <1>1, <1>2, <2>2
    <3> QED BY <1>5, <2>2, <3>1, Zenon
  <2> QED BY <2>1, <2>2, Zenon
<1>8. ASSUME NEW l \in 1..Len(c), l # m
      PROVE  \E k \in 1..(Len(c) - 1) : r[k] = c[l]
  <2>1. CASE l < m
    <3>1. l \in 1..(Len(c) - 1)
      BY <1>1, <1>2, <2>1
    <3> QED BY <1>5, <2>1, <3>1, Zenon
  <2>2. CASE ~(l < m)
    <3> DEFINE k == l - 1
    <3>1. k \in 1..(Len(c) - 1) /\ ~(k < m) /\ k + 1 = l
      BY <1>1, <1>2, <1>8, <2>2
    <3> HIDE DEF k
    <3> QED BY <1>5, <3>1, Zenon
  <2> QED BY <2>1, <2>2, Zenon
<1>9. \A k, l \in 1..Len(c) : c[k] = c[l] => k = l
  BY Zenon DEF Inj
<1>10. \A x : x \in Range(r) <=> x \in Range(c) \ {n}
  <2>1. ASSUME NEW x \in Range(r) PROVE x \in Range(c) \ {n}
    <3>1. PICK k \in 1..(Len(c) - 1) : x = r[k]
      BY <1>6, Zenon DEF Range
    <3>2. PICK l \in 1..Len(c) : l # m /\ r[k] = c[l]
      BY <1>7, Zenon
    <3> QED BY <1>1, <1>2, <1>9, <3>1, <3>2, Zenon DEF Range
  <2>2. ASSUME NEW x \in Range(c), x # n PROVE x \in Range(r)
    <3>1. PICK l \in 1..Len(c) : x = c[l]
      BY <1>1, Zenon DEF Range
    <3>2. l # m
      BY <1>2, <2>2, <3>1, Zenon
    <3>3. PICK k \in 1..(Len(c) - 1) : r[k] = c[l]
      BY <1>8, <3>2, Zenon
    <3> QED BY <1>6, <3>1, <3>3, Zenon DEF Range
  <2> QED BY <2>1, <2>2, Zenon
<1>11. Inj(r)
  <2> SUFFICES ASSUME NEW k \in 1..(Len(c) - 1), NEW l \in 1..(Len(c) - 1), r[k] = r[l]
               PROVE  k = l
    BY <1>4, Zenon DEF Inj
  <2>1. r[k] = (IF k < m THEN c[k] ELSE c[k + 1]) /\ r[l] = (IF l < m THEN c[l] ELSE c[l + 1])
    BY <1>5, Zenon
  <2>2. k \in 1..Len(c) /\ k + 1 \in 1..Len(c) /\ l \in 1..Len(c) /\ l + 1 \in 1..Len(c)
    BY <1>1
  <2>3. CASE k < m /\ l < m
    BY <1>9, <2>1, <2>2, <2>3, Zenon
  <2>4. CASE ~(k < m) /\ ~(l < m)
    <3>1. k + 1 = l + 1
      BY <1>9, <2>1, <2>2, <2>4, Zenon
    <3> QED BY <3>1
  <2>5. CASE k < m /\ ~(l < m)
    <3>1. k = l + 1
      BY <1>9, <2>1, <2>2, <2>5, Zenon
    <3> QED BY <1>2, <2>5, <3>1
  <2>6. CASE ~(k < m) /\ l < m
    <3>1. k + 1 = l
      BY <1>9, <2>1, <2>2, <2>6, Zenon
    <3> QED BY <1>2, <2>6, <3>1
  <2> QED BY <2>3, <2>4, <2>5, <2>6, Zenon
<1>12. Len(c) >= 1
  BY <1>1, <1>2
<1> QED
  BY <1>4, <1>10, <1>11, <1>12, Zenon DEF Dropped, r

\* Clearing an entry is the reverse of appending one.
LEMMA ClearSlot ==
    ASSUME NEW K \in Volume, NEW dir \in Inodes, NEW n \in Live(K, dir)
    PROVE  /\ Cleared(K, dir, n) \in Volume
           /\ Gains(Cleared(K, dir, n), dir, n, Name(K, dir, n), Ino(K, dir, n), K)
<1> DEFINE V == Cleared(K, dir, n)
           q == K[dir].slots
           e == [q[n] EXCEPT !.ino = 0]
           w == [q EXCEPT ![n] = e]
           r == [K[dir] EXCEPT !.slots = w]
<1>1. K[dir] \in InodeSet /\ q \in Seq(Slot) /\ Len(q) \in Nat /\ n \in 1..Len(q) /\ q[n] \in Slot
  BY OneInode, LiveType, Zenon
<1>2. V = [K EXCEPT ![dir] = r]
  BY <1>1, Zenon DEF Cleared
<1>3. e \in Slot /\ e.ino = 0 /\ e.name = q[n].name
  <2>1. 0 \in 0..InodeNum
    BY Bounds
  <2> DEFINE x == q[n]
  <2>2. x \in Slot
    BY <1>1, Zenon
  <2> HIDE DEF x
  <2>3. [x EXCEPT !.ino = 0] \in Slot
    BY <2>1, <2>2, Zenon DEF Slot
  <2>4. [x EXCEPT !.ino = 0].ino = 0 /\ [x EXCEPT !.ino = 0].name = x.name
    BY <2>2 DEF Slot
  <2> QED BY <2>3, <2>4, Zenon DEF x
<1> HIDE DEF e
<1>4. w \in Seq(Slot) /\ Len(w) = Len(q) /\ w[n] = e /\ \A k \in 1..Len(q) : k # n => w[k] = q[k]
  <2> HIDE DEF q
  <2> QED BY <1>1, <1>3
<1> HIDE DEF w
<1>5. r \in InodeSet /\ r.slots = w /\ r.mode = K[dir].mode /\ r.nlinks = K[dir].nlinks
  <2> DEFINE x == K[dir]
  <2>1. x \in InodeSet
    BY <1>1, Zenon
  <2> HIDE DEF x
  <2>2. [x EXCEPT !.slots = w] \in InodeSet
    BY <1>4, <2>1, Zenon DEF InodeSet
  <2>3. [x EXCEPT !.slots = w].slots = w /\ [x EXCEPT !.slots = w].mode = x.mode /\ [x EXCEPT !.slots = w].nlinks = x.nlinks
    BY <2>1 DEF InodeSet
  <2> QED BY <2>2, <2>3, Zenon DEF x
<1> HIDE DEF r, V
<1>6. Put(K, dir, r, V)
  BY <1>2, <1>5, PutInode, Zenon
<1>7. V \in Volume /\ V[dir] = r /\ \A j \in Inodes : j # dir => V[j] = K[j]
  BY <1>6, Zenon DEF Put
<1>8. V[dir].slots = w
  BY <1>5, <1>7, Zenon
<1>9. \A k : k \in Live(V, dir) <=> k \in Live(K, dir) /\ k # n
  <2>1. \A k : k \in Live(V, dir) <=> k \in 1..Len(w) /\ w[k].ino # 0
    BY <1>8, Zenon DEF Live
  <2>2. \A k : k \in Live(K, dir) <=> k \in 1..Len(q) /\ q[k].ino # 0
    BY Zenon DEF Live
  <2> HIDE DEF q
  <2>3. w[n].ino = 0
    BY <1>3, <1>4, Zenon
  <2>4. \A k \in 1..Len(q) : k # n => (w[k].ino # 0 <=> q[k].ino # 0)
    BY <1>4, Zenon
  <2>5. \A k : k \in 1..Len(w) <=> k \in 1..Len(q)
    BY <1>4, Zenon
  <2>6. ASSUME NEW k, k \in Live(V, dir)
        PROVE  k \in Live(K, dir) /\ k # n
    <3>1. k \in 1..Len(q) /\ w[k].ino # 0
      BY <2>1, <2>5, <2>6, Zenon
    <3>2. k # n
      BY <2>3, <3>1, Zenon
    <3> QED
      BY <2>2, <2>4, <3>1, <3>2, Zenon
  <2>7. ASSUME NEW k, k \in Live(K, dir), k # n
        PROVE  k \in Live(V, dir)
    <3>1. k \in 1..Len(q) /\ q[k].ino # 0
      BY <2>2, <2>7, Zenon
    <3> QED
      BY <2>1, <2>4, <2>5, <2>7, <3>1, Zenon
  <2> QED BY <2>6, <2>7, Zenon
<1>10. Live(K, dir) = Live(V, dir) \cup {n} /\ n \notin Live(V, dir)
  BY <1>9, Zenon
<1>11. \A k \in Live(V, dir) : Name(K, dir, k) = Name(V, dir, k) /\ Ino(K, dir, k) = Ino(V, dir, k)
  <2>1. \A k \in Live(V, dir) : k # n /\ k \in 1..Len(q)
    BY <1>9, Zenon DEF Live
  <2> QED BY <1>4, <1>8, <2>1, Zenon DEF Name, Ino
<1>12. \A j \in Inodes : K[j].mode = V[j].mode /\ K[j].nlinks = V[j].nlinks /\ (j # dir => K[j] = V[j])
  BY <1>5, <1>7, Zenon
<1> QED
  BY <1>7, <1>10, <1>11, <1>12, Zenon DEF Gains, V

\* What is left when an entry is cleared.
LEMMA FewerLive ==
    ASSUME NEW K, NEW dir \in Inodes, NEW n, NEW name, NEW i, NEW V, Gains(V, dir, n, name, i, K)
    PROVE  Fewer(K, dir, n, V)
<1> SUFFICES ASSUME NEW j \in Inodes
             PROVE  /\ V[j].mode = K[j].mode
                    /\ \A k : k \in Live(V, j) <=> k \in Live(K, j) /\ ~(j = dir /\ k = n)
                    /\ \A k \in Live(V, j) : Name(V, j, k) = Name(K, j, k) /\ Ino(V, j, k) = Ino(K, j, k)
  BY Zenon DEF Fewer
<1>1. CASE j = dir
  BY <1>1, Zenon DEF Gains
<1>2. CASE j # dir
  <2>1. V[j] = K[j]
    BY <1>2, Zenon DEF Gains
  <2> QED BY <1>2, <2>1, Zenon DEF Live, Name, Ino
<1> QED BY <1>1, <1>2, Zenon

\* Tree U describes the volume with one entry less.
LEMMA LoseVol ==
    ASSUME NEW T, NEW K, Vol(T, K), NEW dir \in Inodes, NEW n, NEW V, Fewer(K, dir, n, V),
           NEW U, Extends(U, T), Tree(U), Named(U, V), Rooted(V),
           \A q \in DOMAIN U : \A k \in Live(V, T[q]) : Leads(U, q, Name(K, T[q], k), Ino(K, T[q], k)),
           \A q \in DOMAIN T : q \in DOMAIN U \/ Live(K, T[q]) = {}
    PROVE  Vol(U, V)
<1>0. Modes(T, K) /\ Distinct(K) /\ Bare(T, K)
  BY Zenon DEF Vol
<1>1. ASSUME NEW q \in DOMAIN U PROVE q \in DOMAIN T /\ U[q] = T[q] /\ T[q] \in Inodes
  BY Zenon DEF Extends, Tree
<1>2. Modes(U, V)
  <2> SUFFICES ASSUME NEW q \in DOMAIN U
               PROVE  /\ V[U[q]].mode # "free"
                      /\ V[U[q]].mode = "file" => q \in FilePaths /\ Live(V, U[q]) = {}
    BY Zenon DEF Modes
  <2>1. q \in DOMAIN T /\ U[q] = T[q] /\ T[q] \in Inodes
    BY <1>1, Zenon
  <2>2. V[T[q]].mode = K[T[q]].mode /\ \A k : k \in Live(V, T[q]) => k \in Live(K, T[q])
    BY <2>1, Zenon DEF Fewer
  <2>3. K[T[q]].mode # "free" /\ (K[T[q]].mode = "file" => q \in FilePaths /\ Live(K, T[q]) = {})
    BY <1>0, <2>1, Zenon DEF Modes
  <2> QED BY <2>1, <2>2, <2>3, Zenon
<1>3. Led(U, V)
  <2> SUFFICES ASSUME NEW q \in DOMAIN U, NEW k \in Live(V, U[q])
               PROVE  Leads(U, q, Name(V, U[q], k), Ino(V, U[q], k))
    BY Zenon DEF Led
  <2>1. q \in DOMAIN T /\ U[q] = T[q] /\ T[q] \in Inodes
    BY <1>1, Zenon
  <2>2. Name(V, T[q], k) = Name(K, T[q], k) /\ Ino(V, T[q], k) = Ino(K, T[q], k)
    BY <2>1, Zenon DEF Fewer
  <2>3. Leads(U, q, Name(K, T[q], k), Ino(K, T[q], k))
    BY <2>1, Zenon
  <2> QED BY <2>1, <2>2, <2>3, Zenon
<1>4. Distinct(V)
  <2> SUFFICES ASSUME NEW i \in Inodes, NEW k \in Live(V, i), NEW l \in Live(V, i), Name(V, i, k) = Name(V, i, l)
               PROVE  k = l
    BY Zenon DEF Distinct
  <2>1. k \in Live(K, i) /\ l \in Live(K, i) /\ Name(K, i, k) = Name(K, i, l)
    BY Zenon DEF Fewer
  <2> QED BY <1>0, <2>1, Zenon DEF Distinct
<1>5. Bare(U, V)
  <2> SUFFICES ASSUME NEW i \in Inodes, \A p \in DOMAIN U : U[p] # i
               PROVE  Live(V, i) = {}
    BY Zenon DEF Bare
  <2>1. Live(K, i) = {}
    <3>1. CASE \A p \in DOMAIN T : T[p] # i
      BY <1>0, <3>1, Zenon DEF Bare
    <3>2. ASSUME NEW p \in DOMAIN T, T[p] = i PROVE Live(K, i) = {}
      <4>1. p \notin DOMAIN U
        BY <1>1, <3>2, Zenon
      <4> QED BY <3>2, <4>1, Zenon
    <3> QED BY <3>1, <3>2, Zenon
  <2>2. \A k : k \notin Live(V, i)
    BY <2>1, Zenon DEF Fewer
  <2> QED BY <2>2, Zenon
<1> QED
  BY <1>2, <1>3, <1>4, <1>5, Zenon DEF Vol

\* A dot is removed: the tree stays.
LEMMA LoseDot ==
    ASSUME NEW T, NEW K, Vol(T, K), NEW dir \in Inodes, dir # 1, NEW n, NEW V, Fewer(K, dir, n, V),
           Name(K, dir, n) \in Dots
    PROVE  Vol(T, V)
<1>0. Tree(T) /\ Named(T, K) /\ Led(T, K) /\ Rooted(K)
  BY Zenon DEF Vol
<1>1. 1 \in Inodes
  BY <1>0, Zenon DEF Tree
<1>2. Extends(T, T)
  BY Zenon DEF Extends
<1>3. Named(T, V)
  <2> SUFFICES ASSUME NEW p \in DOMAIN T \ {ROOT}
               PROVE  \E q \in DOMAIN T : \E k \in Live(V, T[q]) :
                         p = Append(q, Name(V, T[q], k)) /\ Name(V, T[q], k) \notin Dots
    BY Zenon DEF Named
  <2>1. PICK q \in DOMAIN T : \E k \in Live(K, T[q]) : p = Append(q, Name(K, T[q], k)) /\ Name(K, T[q], k) \notin Dots
    BY <1>0, Zenon DEF Named
  <2>2. PICK k \in Live(K, T[q]) : p = Append(q, Name(K, T[q], k)) /\ Name(K, T[q], k) \notin Dots
    BY <2>1, Zenon
  <2>3. T[q] \in Inodes /\ ~(T[q] = dir /\ k = n)
    BY <1>0, <2>2, Zenon DEF Tree
  <2>4. k \in Live(V, T[q]) /\ Name(V, T[q], k) = Name(K, T[q], k)
    BY <2>2, <2>3, Zenon DEF Fewer
  <2> QED BY <2>2, <2>4, Zenon
<1>4. Rooted(V)
  <2>1. PICK k \in Live(K, 1) : Name(K, 1, k) = "."
    BY <1>0, Zenon DEF Rooted
  <2>2. k \in Live(V, 1) /\ Name(V, 1, k) = "."
    BY <1>1, <2>1, Zenon DEF Fewer
  <2> QED BY <2>2, Zenon DEF Rooted
<1>5. \A q \in DOMAIN T : \A k \in Live(V, T[q]) : Leads(T, q, Name(K, T[q], k), Ino(K, T[q], k))
  <2> SUFFICES ASSUME NEW q \in DOMAIN T, NEW k \in Live(V, T[q]) PROVE Leads(T, q, Name(K, T[q], k), Ino(K, T[q], k))
    BY Zenon
  <2>1. k \in Live(K, T[q])
    BY <1>0, Zenon DEF Tree, Fewer
  <2> QED BY <1>0, <2>1, Zenon DEF Led
<1>6. \A q \in DOMAIN T : q \in DOMAIN T \/ Live(K, T[q]) = {}
  OBVIOUS
<1> QED
  BY <1>0, <1>2, <1>3, <1>4, <1>5, <1>6, LoseVol, Zenon

\* A name is removed, and the inode it led to has no entries: so has the tree.
LEMMA LoseName ==
    ASSUME NEW T, NEW K \in Volume, Vol(T, K), NEW dir \in Inodes, NEW n \in Live(K, dir), NEW V, Fewer(K, dir, n, V),
           Name(K, dir, n) \notin Dots, NEW p \in DOMAIN T, T[p] = dir,
           NEW c, c = Append(p, Name(K, dir, n)), c \in DOMAIN T, Live(K, T[c]) = {}
    PROVE  Vol(Cut(T, c), V)
<1> DEFINE U == Cut(T, c)
<1>0. Tree(T) /\ Named(T, K) /\ Led(T, K) /\ Rooted(K) /\ Distinct(K)
  BY Zenon DEF Vol
<1>1. 1 \in Inodes /\ DOMAIN T \subseteq Seq(Text) /\ \A q \in DOMAIN T : T[q] \in Inodes
  BY <1>0, Zenon DEF Tree
<1>2. DOMAIN U = DOMAIN T \ {c} /\ \A q \in DOMAIN U : U[q] = T[q]
  BY Zenon DEF Cut
<1> HIDE DEF U
<1>3. Extends(U, T)
  BY <1>2, Zenon DEF Extends
<1>4. Name(K, dir, n) \in Text /\ p \in Seq(Text) /\ c # ROOT
  <2>1. Name(K, dir, n) \in Text /\ p \in Seq(Text)
    BY <1>1, LiveType, Zenon
  <2> QED BY <2>1, Child, Zenon
<1>5. Tree(U)
  BY <1>0, <1>2, <1>4, Zenon DEF Tree
<1>6. ASSUME NEW x \in DOMAIN T \ {ROOT}
      PROVE  \E q \in DOMAIN U : \E k \in Live(K, T[q]) : x = Append(q, Name(K, T[q], k)) /\ Name(K, T[q], k) \notin Dots
  <2>1. PICK q \in DOMAIN T : \E k \in Live(K, T[q]) : x = Append(q, Name(K, T[q], k)) /\ Name(K, T[q], k) \notin Dots
    BY <1>0, Zenon DEF Named
  <2>2. q # c
    BY <2>1, Zenon
  <2> QED BY <1>2, <2>1, <2>2, Zenon
<1>7. ASSUME NEW q \in DOMAIN T, NEW k \in Live(K, T[q]), Append(q, Name(K, T[q], k)) = c
      PROVE  T[q] = dir /\ k = n
  <2>1. T[q] \in Inodes /\ q \in Seq(Text) /\ Name(K, T[q], k) \in Text
    BY <1>1, LiveType, Zenon
  <2>2. Append(q, Name(K, T[q], k)) = Append(p, Name(K, dir, n))
    BY <1>7, Zenon
  <2>3. q = p /\ Name(K, T[q], k) = Name(K, dir, n)
    <3> DEFINE a == Name(K, T[q], k)
               b == Name(K, dir, n)
    <3>1. a \in Text /\ b \in Text /\ q \in Seq(Text) /\ p \in Seq(Text) /\ Append(q, a) = Append(p, b)
      BY <1>4, <2>1, <2>2, Zenon
    <3> HIDE DEF a, b
    <3>2. q = p /\ a = b
      <4>1. Up(Append(q, a)) = q /\ Leaf(Append(q, a)) = a
        BY <3>1, Child, Zenon
      <4>2. Up(Append(p, b)) = p /\ Leaf(Append(p, b)) = b
        BY <3>1, Child, Zenon
      <4> QED BY <3>1, <4>1, <4>2, Zenon
    <3> QED BY <3>2, Zenon DEF a, b
  <2> QED BY <1>0, <2>3, Zenon DEF Distinct
<1>8. Named(U, V)
  <2> SUFFICES ASSUME NEW x \in DOMAIN U \ {ROOT}
               PROVE  \E q \in DOMAIN U : \E k \in Live(V, U[q]) :
                         x = Append(q, Name(V, U[q], k)) /\ Name(V, U[q], k) \notin Dots
    BY Zenon DEF Named
  <2>1. x \in DOMAIN T \ {ROOT} /\ x # c
    BY <1>2, Zenon
  <2>2. PICK q \in DOMAIN U : \E k \in Live(K, T[q]) : x = Append(q, Name(K, T[q], k)) /\ Name(K, T[q], k) \notin Dots
    BY <1>6, <2>1, Zenon
  <2>3. PICK k \in Live(K, T[q]) : x = Append(q, Name(K, T[q], k)) /\ Name(K, T[q], k) \notin Dots
    BY <2>2, Zenon
  <2>4. q \in DOMAIN T /\ U[q] = T[q] /\ T[q] \in Inodes
    BY <1>1, <1>2, Zenon
  <2>5. ~(T[q] = dir /\ k = n)
    <3>1. SUFFICES ASSUME T[q] = dir, k = n PROVE FALSE
      BY Zenon
    <3>2. q = p
      BY <1>0, <2>4, <3>1, Zenon DEF Tree
    <3> QED BY <2>1, <2>3, <3>1, <3>2, Zenon
  <2>6. k \in Live(V, T[q]) /\ Name(V, T[q], k) = Name(K, T[q], k)
    BY <2>3, <2>4, <2>5, Zenon DEF Fewer
  <2> QED BY <2>3, <2>4, <2>6, Zenon
<1>9. Rooted(V)
  <2>1. PICK k \in Live(K, 1) : Name(K, 1, k) = "."
    BY <1>0, Zenon DEF Rooted
  <2>2. ~(1 = dir /\ k = n)
    BY <2>1, Zenon DEF Dots
  <2>3. k \in Live(V, 1) /\ Name(V, 1, k) = "."
    BY <1>1, <2>1, <2>2, ZenonT(60) DEF Fewer
  <2> QED BY <2>3, Zenon DEF Rooted
<1>10. ASSUME NEW q \in DOMAIN U, NEW k \in Live(V, T[q])
       PROVE  Leads(U, q, Name(K, T[q], k), Ino(K, T[q], k))
  <2> DEFINE nm == Name(K, T[q], k)
             i == Ino(K, T[q], k)
  <2>1. q \in DOMAIN T /\ U[q] = T[q] /\ T[q] \in Inodes
    BY <1>1, <1>2, Zenon
  <2>2. k \in Live(K, T[q]) /\ ~(T[q] = dir /\ k = n)
    BY <2>1, Zenon DEF Fewer
  <2>3. Leads(T, q, nm, i)
    BY <1>0, <2>1, <2>2, Zenon DEF Led
  <2>4. Append(q, nm) # c
    BY <1>7, <2>1, <2>2, Zenon
  <2> HIDE DEF nm, i
  <2>5. ASSUME nm = "." /\ i = T[q] PROVE Leads(U, q, nm, i)
    BY <2>1, <2>5, Zenon DEF Leads
  <2>6. ASSUME nm = ".." /\ q = ROOT /\ i = 1 PROVE Leads(U, q, nm, i)
    BY <2>6, Zenon DEF Leads
  <2>7. ASSUME nm = "..", NEW x \in DOMAIN T, i = T[x], NEW m \in Text, q = Append(x, m)
        PROVE  Leads(U, q, nm, i)
    <3>1. x \in Seq(Text) /\ q \in DOMAIN T \ {ROOT}
      <4>1. x \in Seq(Text)
        BY <1>1, Zenon
      <4>2. q # ROOT
        BY <2>7, <4>1, Child, Zenon
      <4> QED BY <2>1, <4>1, <4>2, Zenon
    <3>2. PICK y \in DOMAIN U : \E l \in Live(K, T[y]) : q = Append(y, Name(K, T[y], l)) /\ Name(K, T[y], l) \notin Dots
      BY <1>6, <3>1, Zenon
    <3>3. PICK l \in Live(K, T[y]) : q = Append(y, Name(K, T[y], l))
      BY <3>2, Zenon
    <3>4. y \in DOMAIN T /\ y \in Seq(Text) /\ Name(K, T[y], l) \in Text
      BY <1>1, <1>2, LiveType, Zenon
    <3>5. Append(y, Name(K, T[y], l)) = Append(x, m)
      BY <2>7, <3>3, Zenon
    <3>6. y = x
      BY <2>7, <3>1, <3>4, <3>5, OneChild, Zenon
    <3>7. x \in DOMAIN U /\ i = U[x]
      BY <1>2, <2>7, <3>6, Zenon
    <3> QED BY <2>7, <3>7, Zenon DEF Leads
  <2>8. ASSUME nm \notin Dots /\ Append(q, nm) \in DOMAIN T /\ i = T[Append(q, nm)] PROVE Leads(U, q, nm, i)
    <3>1. Append(q, nm) \in DOMAIN U /\ i = U[Append(q, nm)]
      BY <1>2, <2>4, <2>8, Zenon
    <3> QED BY <2>8, <3>1, Zenon DEF Leads
  <2>9. Leads(U, q, nm, i)
    BY <2>3, <2>5, <2>6, <2>7, <2>8, Zenon DEF Leads
  <2> QED BY <2>9, Zenon DEF nm, i
<1>11. \A q \in DOMAIN T : q \in DOMAIN U \/ Live(K, T[q]) = {}
  BY <1>2, Zenon
<1>12. Vol(U, V)
  BY <1>3, <1>5, <1>8, <1>9, <1>10, <1>11, LoseVol, Zenon
<1> QED
  BY <1>12, Zenon DEF U

\* The links are counted right after one was given up.
LEMMA UnlinkCounts ==
    ASSUME Library, NEW K \in Volume, Counted(K), NEW dir \in Inodes, NEW n, NEW name, NEW i \in Inodes,
           NEW V \in Volume, Gains(V, dir, n, name, i, K), NEW T, Vol(T, K),
           NEW L, Relinked(V, i, -1, L)
    PROVE  Counted(L)
<1>1. /\ Refs(K, i) = Refs(V, i) \cup {<<dir, n>>} /\ <<dir, n>> \notin Refs(V, i)
      /\ \A j : j # i => Refs(K, j) = Refs(V, j)
  <2>1. OneMore(V, K, i, <<dir, n>>)
    BY GainRefs, Zenon
  <2> QED BY <2>1, Zenon DEF OneMore
<1>2. ASSUME NEW j \in Inodes
      PROVE  L[j].nlinks = Cardinality(Refs(L, j))
  <2>1. Refs(L, j) = Refs(V, j)
    BY SameRefs, Zenon DEF Relinked
  <2>2. K[j].nlinks = Cardinality(Refs(K, j)) /\ V[j].nlinks = K[j].nlinks
    BY Zenon DEF Counted, Gains
  <2>3. CASE j # i
    BY <1>1, <2>1, <2>2, <2>3, Zenon DEF Relinked
  <2>4. CASE j = i
    <3> DEFINE R == Refs(V, i)
               e == <<dir, n>>
    <3>1. /\ IsFiniteSet(Refs(K, i)) /\ Cardinality(Refs(K, i)) \in Nat
          /\ Cardinality(Refs(K, i)) <= LINKS - 1
      BY RefsFew, Zenon
    <3>2. Refs(K, i) = R \cup {e} /\ e \notin R
      BY <1>1, Zenon
    <3> HIDE DEF R, e
    <3>3. IsFiniteSet(R)
      <4>1. R \subseteq Refs(K, i)
        BY <3>2, Zenon
      <4> QED BY <3>1, <4>1, Zenon DEF Library
    <3>4. Cardinality(R \cup {e}) = Cardinality(R) + 1 /\ Cardinality(R) \in Nat
      BY <3>2, <3>3, Zenon DEF Library
    <3>5. Cardinality(Refs(K, i)) = Cardinality(R) + 1
      BY <3>2, <3>4, Zenon
    <3>6. L[i].nlinks = (V[i].nlinks + (-1)) % LINKS
      BY Zenon DEF Relinked
    <3>7. V[i].nlinks = Cardinality(R) + 1
      BY <2>2, <2>4, <3>5, Zenon
    <3>8. L[i].nlinks = Cardinality(R)
      <4> DEFINE x == Cardinality(R)
                 y == V[i].nlinks
                 z == L[i].nlinks
      <4>1. x \in Nat /\ x + 1 <= LINKS - 1 /\ y = x + 1 /\ z = (y + (-1)) % LINKS
        BY <3>1, <3>4, <3>5, <3>6, <3>7
      <4> HIDE DEF x, y, z
      <4>2. z = x
        BY <4>1, LinksNat
      <4> QED BY <4>2, Zenon DEF x, z
    <3> QED BY <2>1, <2>4, <3>8, Zenon DEF R
  <2> QED BY <2>3, <2>4, Zenon
<1> QED
  BY <1>2, Zenon DEF Counted

\* The dentries without one that has no children.
LEMMA RemovedShape ==
    ASSUME NEW dn, Shape(dn), NEW p \in DOMAIN dn, dn[p].load, NEW name \in Text, Append(p, name) \in DOMAIN dn,
           dn[Append(p, name)].children = <<>>, NEW e, Removed(dn, p, name, e)
    PROVE  Shape(e)
<1> DEFINE c == Append(p, name)
<1>1. p \in Seq(Text) /\ c # p /\ c # ROOT /\ ROOT \in DOMAIN dn
  <2>1. p \in Seq(Text) /\ ROOT \in DOMAIN dn
    BY Zenon DEF Shape
  <2> QED BY <2>1, NotOwnChild, Child, Zenon
<1>2. /\ DOMAIN e = DOMAIN dn \ {c} /\ e[p] \in Node /\ e[p].load = dn[p].load
      /\ Range(e[p].children) = Range(dn[p].children) \ {name}
      /\ \A q \in DOMAIN dn : q # p /\ q # c => e[q] = dn[q]
  BY Zenon DEF Removed, Dropped
<1>3. ASSUME NEW d \in DOMAIN e
      PROVE  /\ d \in DOMAIN dn /\ d # c /\ d \in Seq(Text) /\ e[d] \in Node
             /\ \A m : m \in Range(e[d].children) <=> m \in Range(dn[d].children) /\ Append(d, m) # c
  <2>1. d \in DOMAIN dn /\ d # c
    BY <1>2, Zenon
  <2>2. d \in Seq(Text) /\ dn[d] \in Node /\ \A m \in Range(dn[d].children) : m \in Text
    BY <2>1, ChildNames, Zenon
  <2>3. CASE d = p
    <3>1. ASSUME NEW m \in Range(dn[p].children) PROVE Append(p, m) # c <=> m # name
      <4>1. m \in Text
        BY <2>2, <2>3, Zenon
      <4>2. Leaf(Append(p, m)) = m /\ Leaf(c) = name
        BY <1>1, <4>1, Child, Zenon
      <4> QED BY <4>2, Zenon
    <3> QED BY <1>2, <2>1, <2>2, <2>3, <3>1, Zenon
  <2>4. CASE d # p
    <3>1. e[d] = dn[d]
      BY <1>2, <2>1, <2>4, Zenon
    <3>2. ASSUME NEW m \in Range(dn[d].children) PROVE Append(d, m) # c
      <4>1. m \in Text
        BY <2>2, Zenon
      <4>2. Up(Append(d, m)) = d /\ Up(c) = p
        BY <1>1, <2>2, <4>1, Child, Zenon
      <4> QED BY <2>4, <4>2, Zenon
    <3> QED BY <2>1, <2>2, <3>1, <3>2, Zenon
  <2> QED BY <2>3, <2>4, Zenon
<1>4. DOMAIN e \subseteq Seq(Text) /\ ROOT \in DOMAIN e /\ \A d \in DOMAIN e : e[d] \in Node
  BY <1>1, <1>2, <1>3, Zenon
<1>5. \A d \in DOMAIN e : \A n \in Range(e[d].children) : Append(d, n) \in DOMAIN e
  BY <1>2, <1>3, Zenon DEF Shape
<1>6. ASSUME NEW d \in DOMAIN e, d # ROOT
      PROVE  \E q \in DOMAIN e : \E n \in Range(e[q].children) : d = Append(q, n)
  <2>1. d \in DOMAIN dn /\ d # c
    BY <1>3, Zenon
  <2>2. PICK q \in DOMAIN dn : \E n \in Range(dn[q].children) : d = Append(q, n)
    BY <1>6, <2>1, Zenon DEF Shape
  <2>3. q # c
    BY <2>2, EmptyRange, Zenon
  <2>4. q \in DOMAIN e
    BY <1>2, <2>3, Zenon
  <2> QED BY <1>3, <2>1, <2>2, <2>4, Zenon
<1>7. \A d \in DOMAIN e : ~e[d].load => e[d].children = <<>> /\ e[d].nentries = 0
  <2> SUFFICES ASSUME NEW d \in DOMAIN e, ~e[d].load PROVE e[d].children = <<>> /\ e[d].nentries = 0
    BY Zenon
  <2>1. d # p /\ d # c /\ d \in DOMAIN dn
    BY <1>2, Zenon
  <2>2. e[d] = dn[d]
    BY <1>2, <2>1, Zenon
  <2> QED BY <2>1, <2>2, Zenon DEF Shape
<1> QED
  BY <1>4, <1>5, <1>6, <1>7, Zenon DEF Shape

\* The dentries still agree with the volume.
LEMMA LoseMem ==
    ASSUME NEW dn, Shape(dn), NEW T, NEW K \in Volume, Vol(T, K), Mem(T, dn, K),
           NEW p \in DOMAIN dn, dn[p].load, NEW name \in Text, Append(p, name) \in DOMAIN dn,
           NEW e, Removed(dn, p, name, e),
           NEW n \in Live(K, dn[p].inode), Name(K, dn[p].inode, n) = name,
           NEW i, NEW V, Gains(V, dn[p].inode, n, name, i, K),
           NEW U, Extends(U, T), \A q \in DOMAIN T : q # Append(p, name) => q \in DOMAIN U
    PROVE  Mem(U, e, V)
<1> DEFINE c == Append(p, name)
           dir == dn[p].inode
<1>1. p \in Seq(Text) /\ c # p /\ dir \in Inodes /\ Plain(p) /\ Tree(T) /\ Distinct(K) /\ T[p] = dir /\ p \in DOMAIN T
  <2>1. p \in Seq(Text) /\ dir \in Inodes
    BY ChildNames, Zenon
  <2>2. Plain(p) /\ Tree(T) /\ Distinct(K)
    BY Zenon DEF Vol, Mem
  <2>3. T[p] = dir /\ p \in DOMAIN T
    BY <2>2, Zenon DEF Mem
  <2> QED BY <2>1, <2>2, <2>3, NotOwnChild, Zenon
<1>2. /\ DOMAIN e = DOMAIN dn \ {c} /\ e[p] \in Node /\ e[p].load = dn[p].load /\ e[p].inode = dir
      /\ e[p].nentries = dn[p].nentries - 1
      /\ Len(e[p].children) = Len(dn[p].children) - 1 /\ Inj(e[p].children)
      /\ Range(e[p].children) = Range(dn[p].children) \ {name}
      /\ \A q \in DOMAIN dn : q # p /\ q # c => e[q] = dn[q]
  BY Zenon DEF Removed, Dropped
<1>3. Fewer(K, dir, n, V)
  <2> HIDE DEF dir
  <2>1. Gains(V, dir, n, name, i, K)
    BY Zenon DEF dir
  <2> QED BY <1>1, <2>1, FewerLive, Zenon
<1>4. ASSUME NEW d \in DOMAIN e
      PROVE  d \in DOMAIN dn /\ d # c /\ e[d].inode = dn[d].inode /\ e[d].load = dn[d].load /\ (d # p => e[d] = dn[d])
  BY <1>2, Zenon
<1>5. ASSUME NEW d \in DOMAIN e, Plain(d) PROVE d \in DOMAIN U /\ e[d].inode = U[d]
  <2>1. d \in DOMAIN dn /\ d # c /\ e[d].inode = dn[d].inode
    BY <1>4, Zenon
  <2>2. d \in DOMAIN T /\ dn[d].inode = T[d]
    BY <1>5, <2>1, Zenon DEF Mem
  <2>3. d \in DOMAIN U
    BY <2>1, <2>2, Zenon
  <2> QED BY <2>1, <2>2, <2>3, Zenon DEF Extends
<1>6. ASSUME NEW d \in DOMAIN e, e[d].load PROVE Plain(d) /\ Matches(e, V, d)
  <2> DEFINE j == dn[d].inode
  <2>1. d \in DOMAIN dn /\ d # c /\ e[d].inode = j /\ dn[d].load /\ (d # p => e[d] = dn[d])
    BY <1>4, <1>6, Zenon
  <2>2. Plain(d) /\ Matches(dn, K, d)
    BY <2>1, Zenon DEF Mem
  <2>3. /\ dn[d].nentries = Len(dn[d].children) /\ Inj(dn[d].children)
        /\ Range(dn[d].children) = Names(K, j, Live(K, j))
        /\ \A k \in Live(K, j) : dn[Append(d, Name(K, j, k))].inode = Ino(K, j, k)
    BY <2>2, Zenon DEF Matches
  <2>4. d \in DOMAIN T /\ T[d] = j /\ j \in Inodes /\ d \in Seq(Text)
    BY <1>1, <2>1, <2>2, Zenon DEF Mem, Tree
  <2> HIDE DEF j
  <2>5. /\ \A k : k \in Live(V, j) <=> k \in Live(K, j) /\ ~(j = dir /\ k = n)
        /\ \A k \in Live(V, j) : Name(V, j, k) = Name(K, j, k) /\ Ino(V, j, k) = Ino(K, j, k)
    BY <1>3, <2>4, Zenon DEF Fewer
  <2>6. j = dir <=> d = p
    BY <1>1, <2>4, Zenon DEF Tree
  <2>7. ASSUME NEW k \in Live(V, j)
        PROVE  e[Append(d, Name(V, j, k))].inode = Ino(V, j, k)
    <3> DEFINE m == Name(K, j, k)
               x == Append(d, m)
    <3>1. k \in Live(K, j) /\ Name(V, j, k) = m /\ Ino(V, j, k) = Ino(K, j, k) /\ ~(j = dir /\ k = n)
      BY <2>5, Zenon
    <3>2. m \in Text
      BY <2>4, <3>1, LiveType, Zenon
    <3>3. x # c
      <4>1. Up(x) = d /\ Leaf(x) = m /\ Up(c) = p /\ Leaf(c) = name
        BY <1>1, <2>4, <3>2, Child, Zenon
      <4>2. ASSUME d = p PROVE m # name
        <5>1. k # n /\ k \in Live(K, dir) /\ m = Name(K, dir, k) /\ Name(K, dir, n) = name /\ n \in Live(K, dir)
          BY <2>6, <3>1, <4>2, Zenon
        <5> QED BY <1>1, <5>1, Zenon DEF Distinct
      <4> QED BY <4>1, <4>2, Zenon
    <3>4. x \in DOMAIN dn
      <4>1. m \in Range(dn[d].children)
        BY <2>3, <3>1, Zenon DEF Names
      <4> QED BY <2>1, <4>1, ChildNames, Zenon
    <3>5. e[x].inode = dn[x].inode
      BY <1>2, <1>4, <3>3, <3>4, Zenon
    <3>6. dn[x].inode = Ino(K, j, k)
      BY <2>3, <3>1, Zenon
    <3> QED BY <3>1, <3>5, <3>6, Zenon
  <2>8. /\ e[d].nentries = Len(e[d].children) /\ Inj(e[d].children)
        /\ Range(e[d].children) = Names(V, j, Live(V, j))
    <3>1. CASE d = p
      <4>1. e[d].nentries = Len(e[d].children) /\ Inj(e[d].children)
        BY <1>2, <2>3, <3>1, Zenon
      <4>2. \A m : m \in Names(V, j, Live(V, j)) <=> m \in Names(K, j, Live(K, j)) \ {name}
        <5>0. n \in Live(K, j) /\ Name(K, j, n) = name /\ j = dir
          BY <2>6, <3>1, Zenon
        <5>1. ASSUME NEW k \in Live(V, j) PROVE Name(V, j, k) \in Names(K, j, Live(K, j)) \ {name}
          <6>1. k \in Live(K, j) /\ k # n /\ Name(V, j, k) = Name(K, j, k)
            BY <2>5, <5>0, Zenon
          <6>2. Name(K, j, k) # name
            BY <1>1, <2>4, <5>0, <6>1, Zenon DEF Distinct
          <6> QED BY <6>1, <6>2, Zenon DEF Names
        <5>2. ASSUME NEW k \in Live(K, j), Name(K, j, k) # name PROVE Name(K, j, k) \in Names(V, j, Live(V, j))
          <6>1. k \in Live(V, j) /\ Name(V, j, k) = Name(K, j, k)
            BY <2>5, <5>0, <5>2, Zenon
          <6> QED BY <6>1, Zenon DEF Names
        <5> QED BY <5>1, <5>2, Zenon DEF Names
      <4>3. Range(e[d].children) = Range(dn[d].children) \ {name}
        BY <1>2, <3>1, Zenon
      <4> QED BY <2>3, <4>1, <4>2, <4>3, Zenon
    <3>2. CASE d # p
      <4>1. \A k : k \in Live(V, j) <=> k \in Live(K, j)
        BY <2>5, <2>6, <3>2, Zenon
      <4>2. \A m : m \in Names(V, j, Live(V, j)) <=> m \in Names(K, j, Live(K, j))
        BY <2>5, <4>1, Zenon DEF Names
      <4> QED BY <2>1, <2>3, <3>2, <4>2, Zenon
    <3> QED BY <3>1, <3>2, Zenon
  <2>9. Matches(e, V, d)
    BY <2>1, <2>7, <2>8, Zenon DEF Matches
  <2> QED BY <2>2, <2>9, Zenon
<1> QED
  BY <1>5, <1>6, Zenon DEF Mem

\* The entry that remove_child finds.
LEMMA OneEntry ==
    ASSUME NEW s, Formed(s), NEW T, Vol(T, s.disk), Mem(T, s.dent, s.disk), NEW p \in DOMAIN s.dent, s.dent[p].load,
           NEW name \in Text, Append(p, name) \in DOMAIN s.dent
    PROVE  HasEntry(s, p, name)
<1> DEFINE K == s.disk
           dir == s.dent[p].inode
           H == matching(s, dir, name)
<1>1. Shape(s.dent) /\ Matches(s.dent, K, p) /\ Distinct(K)
  BY Zenon DEF Formed, Mem, Vol
<1>2. dir \in Inodes /\ name \in Range(s.dent[p].children)
  BY <1>1, ChildNames, Zenon
<1>3. name \in Names(K, dir, Live(K, dir)) /\ \A k \in Live(K, dir) : s.dent[Append(p, Name(K, dir, k))].inode = Ino(K, dir, k)
  BY <1>1, <1>2, Zenon DEF Matches
<1>4. PICK n \in Live(K, dir) : Name(K, dir, n) = name
  BY <1>3, Zenon DEF Names
<1>5. \A k : k \in H <=> k \in Live(K, dir) /\ Name(K, dir, k) = name
  BY Zenon DEF matching, Live, Name
<1> HIDE DEF H
<1>6. \A k : k \in H <=> k = n
  BY <1>1, <1>2, <1>4, <1>5, Zenon DEF Distinct
<1>7. H = {n}
  BY <1>6, Zenon
<1>8. Ino(K, dir, n) = s.dent[Append(p, name)].inode
  BY <1>3, <1>4, Zenon
<1> QED
  BY <1>4, <1>7, <1>8, Zenon DEF H, HasEntry

\* dentry_unlink of a dentry that the volume knows.
LEMMA DentryUnlink ==
    ASSUME NEW s, Formed(s), NEW T, Vol(T, s.disk), Mem(T, s.dent, s.disk), NEW p \in DOMAIN s.dent, s.dent[p].load,
           NEW name \in Text, Append(p, name) \in DOMAIN s.dent
    PROVE  \E n : Unlinking(s, p, name, n, s.dent[Append(p, name)].inode, dentry_unlink(s, Append(p, name)))
<1> DEFINE K == s.disk
           dir == s.dent[p].inode
           c == Append(p, name)
           i == s.dent[c].inode
           t == dentry_unlink(s, c)
<1>1. /\ Shape(s.dent) /\ Matches(s.dent, K, p) /\ DOMAIN s = Fields
      /\ p \in Seq(Text) /\ s.dent[p] \in Node /\ c # p /\ Up(c) = p /\ Leaf(c) = name
  <2>1. Shape(s.dent) /\ Matches(s.dent, K, p) /\ DOMAIN s = Fields
    BY Zenon DEF Formed, Mem
  <2>2. p \in Seq(Text) /\ s.dent[p] \in Node
    BY <2>1, ChildNames, Zenon
  <2> QED BY <2>1, <2>2, NotOwnChild, Child, Zenon
<1>2. PICK n \in Live(K, dir) : matching(s, dir, name) = {n} /\ Name(K, dir, n) = name /\ Ino(K, dir, n) = i
  <2>1. HasEntry(s, p, name)
    BY OneEntry, Zenon
  <2> QED BY <2>1, Zenon DEF HasEntry
<1>3. Min({n}) = n
  <2>1. n <= n /\ n \in {n}
    BY <1>2 DEF Live
  <2>2. \E x \in {n} : \A y \in {n} : x <= y
    BY <2>1, Zenon
  <2> QED BY <2>2, ZenonT(60) DEF Min
<1> DEFINE V == Cleared(K, dir, n)
           w == Write(s, V)
           L == Links(w.disk, i, -1)
           u == Write(w, L)
           x == [u.dent[p] EXCEPT !.nentries = @ - 1, !.children = list_remove(@, name)]
           e == [u.dent EXCEPT ![p] = x]
           f == [q \in DOMAIN e \ {c} |-> e[q]]
<1>4. /\ DOMAIN w = Fields /\ w.dent = s.dent /\ w.disk = V /\ w.at = s.at /\ w.ino = s.ino
      /\ w.err = s.err /\ w.room = s.room /\ w.lost = s.lost /\ w.trace = Append(s.trace, V)
  <2>1. Wrote(s, V, w)
    BY <1>1, WriteFields, Zenon
  <2> QED BY <2>1, Zenon DEF Wrote
<1>5. /\ DOMAIN u = Fields /\ u.dent = s.dent /\ u.disk = L /\ u.at = s.at /\ u.ino = s.ino
      /\ u.err = s.err /\ u.room = s.room /\ u.lost = s.lost /\ u.trace = Append(Append(s.trace, V), L)
  <2> HIDE DEF w
  <2>1. Wrote(w, L, u)
    BY <1>4, WriteFields, Zenon
  <2> HIDE DEF u, L
  <2> QED BY <1>4, <2>1, Zenon DEF Wrote
<1> DEFINE g == [u EXCEPT !.dent[p].nentries = @ - 1, !.dent[p].children = list_remove(@, name)]
<1>6. t = [g EXCEPT !.dent = Restrict(@, DOMAIN @ \ {c})]
  <2> DEFINE H == matching(s, s.dent[Up(c)].inode, Leaf(c))
             v == inode_links(Write(s, [s.disk EXCEPT ![s.dent[Up(c)].inode].slots[Min(H)].ino = 0]), s.dent[c].inode, -1)
  <2>1. H = {n} /\ H # {} /\ Min(H) = n
    BY <1>1, <1>2, <1>3, Zenon
  <2>2. t = IF H = {} THEN Fail(s, "EPERM") ELSE drop_child(v, c)
    <3> HIDE DEF c
    <3> QED BY Zenon DEF dentry_unlink
  <2>3. v = u
    <3>1. [s.disk EXCEPT ![s.dent[Up(c)].inode].slots[Min(H)].ino = 0] = V
      <4> HIDE DEF H, c
      <4> QED BY <1>1, <2>1, Zenon DEF Cleared
    <3> HIDE DEF V, H
    <3>2. v = inode_links(w, i, -1)
      BY <3>1, Zenon
    <3> HIDE DEF v, w
    <3> QED BY <3>2, Zenon DEF inode_links, Links
  <2> HIDE DEF v, u, H, c, t
  <2>4. t = drop_child(u, c)
    BY <2>1, <2>2, <2>3, Zenon
  <2> QED BY <1>1, <2>4, Zenon DEF drop_child
<1> HIDE DEF u, t, L, w, V
<1>7. g = [u EXCEPT !.dent = e]
  <2>1. p \in DOMAIN u.dent /\ u.dent[p] \in Node
    BY <1>1, <1>5, Zenon
  <2> HIDE DEF c
  <2> QED BY <1>5, <2>1, Zenon DEF Fields
<1>b. t = [u EXCEPT !.dent = f]
  <2> HIDE DEF g, e, c
  <2>1. DOMAIN g = Fields /\ g.dent = e
    BY <1>5, <1>7, Zenon DEF Fields
  <2>2. t = [g EXCEPT !.dent = f]
    BY <1>6, <2>1, Zenon DEF Restrict, Fields
  <2> HIDE DEF f
  <2> QED BY <1>5, <1>7, <2>2, Zenon DEF Fields
<1>8. /\ DOMAIN t = Fields /\ t.dent = f /\ t.disk = L /\ t.at = s.at /\ t.ino = s.ino
      /\ t.err = s.err /\ t.room = s.room /\ t.lost = s.lost /\ t.trace = Append(Append(s.trace, V), L)
  <2> HIDE DEF f
  <2> QED BY <1>5, <1>b, Zenon DEF Fields
<1>9. x \in Node /\ x.inode = dir /\ x.load = s.dent[p].load /\ x.nentries = s.dent[p].nentries - 1
      /\ Dropped(s.dent[p].children, name, x.children)
  <2> DEFINE y == s.dent[p]
             k == list_remove(y.children, name)
             m == y.nentries - 1
  <2>1. y.children \in Seq(Text) /\ Inj(y.children) /\ name \in Range(y.children) /\ y.nentries = Len(y.children) /\ y \in Node
    BY <1>1, ChildNames, Zenon DEF Matches
  <2>2. k \in Seq(Text) /\ Dropped(y.children, name, k)
    <3> DEFINE z == y.children
    <3>1. z \in Seq(Text) /\ Inj(z) /\ name \in Range(z)
      BY <2>1, Zenon
    <3> HIDE DEF z
    <3>2. list_remove(z, name) \in Seq(Text) /\ Dropped(z, name, list_remove(z, name))
      BY <3>1, ListRemove, Zenon
    <3> QED BY <3>2, Zenon DEF z
  <2>3. m \in Nat
    <3>1. Len(y.children) >= 1
      BY <2>2, Zenon DEF Dropped
    <3>2. Len(y.children) \in Nat
      BY <2>1, LenIs, Zenon
    <3> DEFINE l == Len(y.children)
    <3>3. l >= 1 /\ l \in Nat /\ m = l - 1
      BY <2>1, <3>1, <3>2, Zenon
    <3> HIDE DEF l, m
    <3> QED BY <3>3
  <2>4. x = [y EXCEPT !.nentries = m, !.children = k]
    BY <1>5, <2>1, Zenon DEF Node
  <2>5. y \in Node
    BY <2>1, Zenon
  <2> HIDE DEF x, y, k, m
  <2>6. x \in Node
    BY <2>2, <2>3, <2>4, <2>5, Zenon DEF Node
  <2>7. x.inode = y.inode /\ x.load = y.load /\ x.nentries = m /\ x.children = k
    BY <2>4, <2>5 DEF Node
  <2> QED BY <2>2, <2>6, <2>7, Zenon DEF y, m
<1> HIDE DEF x
<1>10. /\ DOMAIN f = DOMAIN s.dent \ {c} /\ f[p] = x
       /\ \A q \in DOMAIN s.dent : q # p /\ q # c => f[q] = s.dent[q]
  <2>1. DOMAIN e = DOMAIN s.dent /\ e[p] = x /\ \A q \in DOMAIN s.dent : q # p => e[q] = s.dent[q]
    BY <1>5, Zenon
  <2> HIDE DEF e, c
  <2> QED BY <1>1, <2>1, Zenon
<1>11. Removed(s.dent, p, name, t.dent)
  <2> HIDE DEF f
  <2> QED BY <1>8, <1>9, <1>10, Zenon DEF Removed
<1>12. L = Links(V, i, -1)
  BY <1>4, Zenon DEF L
<1>13. Unlinking(s, p, name, n, i, t)
  <2> HIDE DEF c, i, f
  <2> QED BY <1>2, <1>8, <1>11, <1>12, Zenon DEF Unlinking, V
<1> QED
  BY <1>13, Zenon DEF t

\* An entry is removed: the tree T has become U.
LEMMA UnlinkGood ==
    ASSUME Library,
           NEW C, NEW T, NEW X, NEW s, Good(C, T, X, s), ~s.lost, NEW p \in DOMAIN s.dent, s.dent[p].load,
           NEW name \in Text, Append(p, name) \in DOMAIN s.dent, s.dent[Append(p, name)].children = <<>>,
           NEW n, NEW i, NEW t, Unlinking(s, p, name, n, i, t),
           NEW U, Extends(U, T), Vol(U, Cleared(s.disk, s.dent[p].inode, n)),
           \A q \in DOMAIN T : q # Append(p, name) => q \in DOMAIN U,
           NEW Y, \A j \in X : j \in Y, \A q \in DOMAIN T : q \in DOMAIN U \/ T[q] \in Y
    PROVE  Good(C, U, Y, t)
<1> DEFINE K == s.disk
           dir == s.dent[p].inode
           V == Cleared(K, dir, n)
           L == t.disk
<1>1. /\ Formed(s) /\ Sane(C, T, X, K) /\ Vol(T, K) /\ Mem(T, s.dent, K) /\ Traced(s) /\ K \in Volume
      /\ s.trace \in Seq(Volume) /\ dir \in Inodes /\ Shape(s.dent)
  BY ChildNames, Zenon DEF Good, Sane, Formed
<1>2. /\ n \in Live(K, dir) /\ Name(K, dir, n) = name /\ Ino(K, dir, n) = i
      /\ DOMAIN t = Fields /\ t.ino = s.ino /\ t.room = s.room /\ t.lost = s.lost
      /\ Removed(s.dent, p, name, t.dent)
      /\ L = Links(V, i, -1) /\ t.trace = Append(Append(s.trace, V), L)
  BY Zenon DEF Unlinking
<1> HIDE DEF K, dir
<1>3. V \in Volume /\ Gains(V, dir, n, name, i, K) /\ i \in Inodes
  <2>1. V \in Volume /\ Gains(V, dir, n, Name(K, dir, n), Ino(K, dir, n), K)
    BY <1>1, <1>2, ClearSlot, Zenon
  <2> QED BY <1>1, <1>2, <2>1, LiveType, Zenon
<1> HIDE DEF V
<1>4. Relinked(V, i, -1, L)
  <2> DEFINE m == -1
  <2>1. m \in Int
    OBVIOUS
  <2>2. L = Links(V, i, m)
    BY <1>2, Zenon
  <2> HIDE DEF L, m
  <2>3. Relinked(V, i, m, L)
    BY <1>3, <2>1, <2>2, ChangeLinks, Zenon
  <2> QED BY <2>3, Zenon DEF m
<1> HIDE DEF L
<1>5. Vol(U, V) /\ Vol(U, L) /\ L \in Volume
  <2>1. Vol(U, V)
    BY Zenon DEF V, K, dir
  <2> DEFINE m == -1
  <2>2. Relinked(V, i, m, L)
    BY <1>4, Zenon
  <2> HIDE DEF m
  <2>3. Vol(U, L)
    BY <1>3, <2>1, <2>2, RelinkVol, Zenon
  <2>4. L \in Volume
    BY <2>2, Zenon DEF Relinked
  <2> QED BY <2>1, <2>3, <2>4, Zenon
<1>6. Shape(t.dent)
  BY <1>1, <1>2, RemovedShape, Zenon
<1>7. Mem(U, t.dent, L)
  <2>0. n \in Live(K, s.dent[p].inode) /\ Name(K, s.dent[p].inode, n) = name /\ Gains(V, s.dent[p].inode, n, name, i, K)
    BY <1>2, <1>3, Zenon DEF dir
  <2>1. Mem(U, t.dent, V)
    <3> DEFINE dn == s.dent
               e == t.dent
    <3>1. /\ Shape(dn) /\ K \in Volume /\ Vol(T, K) /\ Mem(T, dn, K) /\ p \in DOMAIN dn /\ dn[p].load
          /\ Append(p, name) \in DOMAIN dn /\ Removed(dn, p, name, e) /\ n \in Live(K, dn[p].inode)
          /\ Name(K, dn[p].inode, n) = name /\ Gains(V, dn[p].inode, n, name, i, K)
      BY <1>1, <1>2, <2>0, Zenon
    <3> HIDE DEF dn, e
    <3>2. Mem(U, e, V)
      BY <3>1, LoseMem, Zenon
    <3> QED BY <3>2, Zenon DEF e
  <2>2. SameNames(V, L)
    BY <1>4, Zenon DEF Relinked
  <2> QED BY <1>6, <2>1, <2>2, SameMem, Zenon
<1>8. ASSUME C PROVE Whole(U, Y, L) /\ Counted(L)
  <2>1. Whole(T, X, K) /\ Counted(K)
    BY <1>1, <1>8, Zenon DEF Sane
  <2>2. ASSUME NEW j \in Inodes, L[j].mode # "free" PROVE j \in Y \/ \E q \in DOMAIN U : U[q] = j
    <3>1. L[j].mode = V[j].mode /\ V[j].mode = K[j].mode
      BY <1>3, <1>4, Zenon DEF Relinked, Gains
    <3>2. j \in X \/ \E q \in DOMAIN T : T[q] = j
      BY <2>1, <2>2, <3>1, Zenon DEF Whole
    <3>3. ASSUME NEW q \in DOMAIN T, T[q] = j PROVE j \in Y \/ \E r \in DOMAIN U : U[r] = j
      <4>1. q \in DOMAIN U => U[q] = T[q]
        BY Zenon DEF Extends
      <4> QED BY <3>3, <4>1, Zenon
    <3> QED BY <3>2, <3>3, Zenon
  <2>3. Counted(L)
    BY <1>1, <1>3, <1>4, <2>1, UnlinkCounts, Zenon
  <2> QED BY <2>2, <2>3, Zenon DEF Whole
<1>9. Traced(t) /\ t.trace \in Seq(Volume)
  <2>1. \A k \in 1..Len(s.trace) : \E W : Vol(W, s.trace[k])
    BY <1>1, Zenon DEF Traced
  <2> DEFINE w == Append(s.trace, V)
  <2>2. w \in Seq(Volume) /\ \A k \in 1..Len(w) : \E W : Vol(W, w[k])
    BY <1>1, <1>3, <1>5, <2>1, TraceMore, AppendIs, Zenon
  <2>3. t.trace = Append(w, L)
    BY <1>2, Zenon
  <2> HIDE DEF w
  <2>4. Append(w, L) \in Seq(Volume) /\ \A k \in 1..Len(Append(w, L)) : \E W : Vol(W, Append(w, L)[k])
    BY <1>5, <2>2, TraceMore, AppendIs, Zenon
  <2> QED BY <2>3, <2>4, Zenon DEF Traced
<1>10. Formed(t)
  BY <1>1, <1>2, <1>5, <1>6, <1>9, Zenon DEF Formed, L
<1>11. Sane(C, U, Y, L)
  BY <1>5, <1>8, Zenon DEF Sane
<1> QED
  BY <1>7, <1>9, <1>10, <1>11, Zenon DEF Good, L

\* The parent of a dentry in memory was read.
LEMMA ParentLoaded ==
    ASSUME NEW dn, Shape(dn), NEW d \in DOMAIN dn, d # ROOT
    PROVE  HasParent(dn, d)
<1>1. PICK p \in DOMAIN dn : \E n \in Range(dn[p].children) : d = Append(p, n)
  BY Zenon DEF Shape
<1>2. PICK n \in Range(dn[p].children) : d = Append(p, n)
  BY <1>1, Zenon
<1>3. n \in Text /\ p \in Seq(Text)
  BY ChildNames, Zenon
<1>4. Up(d) = p /\ Leaf(d) = n /\ d \in Seq(Text)
  BY <1>2, <1>3, Child, Zenon
<1>5. dn[p].load
  BY <1>2, EmptyRange, Zenon DEF Shape
<1> QED
  BY <1>2, <1>3, <1>4, <1>5, Zenon DEF HasParent

\* dentry_unlink of a file, or of an empty directory.
LEMMA UnlinkName ==
    ASSUME Library, NEW C, NEW T, NEW s, Good(C, T, {}, s), ~s.lost, NEW p \in DOMAIN s.dent, s.dent[p].load,
           NEW name \in Text, name \notin Dots, Append(p, name) \in DOMAIN s.dent,
           s.dent[Append(p, name)].children = <<>>, Live(s.disk, s.dent[Append(p, name)].inode) = {}
    PROVE  UnlinkedName(C, T, s, p, name, dentry_unlink(s, Append(p, name)))
<1> DEFINE K == s.disk
           dir == s.dent[p].inode
           c == Append(p, name)
           i == s.dent[c].inode
           t == dentry_unlink(s, c)
           U == Cut(T, c)
<1>1. /\ Formed(s) /\ Vol(T, K) /\ Mem(T, s.dent, K) /\ K \in Volume /\ dir \in Inodes /\ Shape(s.dent)
      /\ Plain(p) /\ p \in Seq(Text) /\ i \in Inodes
  <2>1. Formed(s) /\ Vol(T, K) /\ Mem(T, s.dent, K) /\ K \in Volume /\ Shape(s.dent)
    BY Zenon DEF Good, Sane, Formed
  <2>2. dir \in Inodes /\ p \in Seq(Text) /\ i \in Inodes
    BY <2>1, ChildNames, Zenon
  <2> QED BY <2>1, <2>2, Zenon DEF Mem
<1>2. PICK n : Unlinking(s, p, name, n, i, t)
  BY <1>1, DentryUnlink, Zenon
<1>3. Plain(c)
  BY <1>1, Child, Zenon
<1>4. p \in DOMAIN T /\ T[p] = dir /\ c \in DOMAIN T /\ T[c] = i /\ Tree(T)
  BY <1>1, <1>3, Zenon DEF Mem, Vol
<1> HIDE DEF t
<1>5. n \in Live(K, dir) /\ Name(K, dir, n) = name /\ Ino(K, dir, n) = i
  BY <1>2, Zenon DEF Unlinking
<1> DEFINE V == Cleared(K, dir, n)
<1>6. Vol(U, V)
  <2>0. Live(K, T[c]) = {} /\ c = Append(p, Name(K, dir, n)) /\ Name(K, dir, n) \notin Dots
    BY <1>4, <1>5, Zenon
  <2> HIDE DEF K, dir, c, i
  <2>1. Gains(V, dir, n, Name(K, dir, n), Ino(K, dir, n), K)
    BY <1>1, <1>5, ClearSlot, Zenon
  <2> HIDE DEF V
  <2>2. Fewer(K, dir, n, V)
    BY <1>1, <2>1, FewerLive, Zenon
  <2> QED BY <1>1, <1>4, <1>5, <2>0, <2>2, LoseName, Zenon
<1>7. DOMAIN U = DOMAIN T \ {c} /\ \A q \in DOMAIN U : U[q] = T[q]
  BY Zenon DEF Cut
<1>8. Extends(U, T) /\ \A q \in DOMAIN T : q # c => q \in DOMAIN U
  BY <1>7, Zenon DEF Extends
<1>9. \A q \in DOMAIN U : U[q] # i
  BY <1>4, <1>7, Zenon DEF Tree
<1> DEFINE X == {}
           Y == {i}
<1>10. /\ Good(C, T, X, s) /\ \A j \in X : j \in Y
       /\ \A q \in DOMAIN T : q \in DOMAIN U \/ T[q] \in Y
  BY <1>4, <1>7, Zenon
<1>11. Vol(U, Cleared(s.disk, s.dent[p].inode, n)) /\ \A q \in DOMAIN T : q # Append(p, name) => q \in DOMAIN U
  BY <1>6, <1>8, Zenon
<1>12. Good(C, U, Y, t)
  <2> HIDE DEF X, Y, U, i
  <2> QED BY <1>2, <1>8, <1>10, <1>11, UnlinkGood, Zenon
<1>13. Gone(s, p, name, t)
  BY <1>2, Zenon DEF Unlinking, Gone
<1> QED
  BY <1>1, <1>9, <1>12, <1>13, Zenon DEF UnlinkedName, t

\* dentry_unlink of "." or "..".
LEMMA UnlinkDot ==
    ASSUME Library,
           NEW C, NEW T, NEW s, Good(C, T, {}, s), ~s.lost, NEW p \in DOMAIN s.dent, s.dent[p].load, p # ROOT,
           NEW name \in Dots, Append(p, name) \in DOMAIN s.dent
    PROVE  LET t == dentry_unlink(s, Append(p, name)) IN Gone(s, p, name, t) /\ Good(C, T, {}, t)
<1> DEFINE K == s.disk
           dir == s.dent[p].inode
           c == Append(p, name)
           i == s.dent[c].inode
           t == dentry_unlink(s, c)
<1>0. name \in Text
  BY Zenon DEF Dots, Text
<1>1. /\ Formed(s) /\ Vol(T, K) /\ Mem(T, s.dent, K) /\ K \in Volume /\ dir \in Inodes /\ Shape(s.dent)
      /\ Plain(p) /\ p \in Seq(Text)
  <2>1. Formed(s) /\ Vol(T, K) /\ Mem(T, s.dent, K) /\ K \in Volume /\ Shape(s.dent)
    BY Zenon DEF Good, Sane, Formed
  <2>2. dir \in Inodes /\ p \in Seq(Text)
    BY <2>1, ChildNames, Zenon
  <2> QED BY <2>1, <2>2, Zenon DEF Mem
<1>2. PICK n : Unlinking(s, p, name, n, i, t)
  BY <1>0, <1>1, DentryUnlink, Zenon
<1> HIDE DEF t
<1>3. s.dent[c].children = <<>>
  <2>1. ~Plain(c)
    BY <1>0, <1>1, Child, Zenon
  <2>2. ~s.dent[c].load
    BY <1>1, <2>1, Zenon DEF Mem
  <2> QED BY <1>1, <2>2, Zenon DEF Shape
<1>4. dir # 1
  <2>1. p \in DOMAIN T /\ T[p] = dir /\ Tree(T)
    BY <1>1, Zenon DEF Mem, Vol
  <2> QED BY <2>1, Zenon DEF Tree
<1>5. n \in Live(K, dir) /\ Name(K, dir, n) = name /\ Ino(K, dir, n) = i
  BY <1>2, Zenon DEF Unlinking
<1> DEFINE V == Cleared(K, dir, n)
<1>6. Vol(T, V)
  <2>0. Name(K, dir, n) \in Dots
    BY <1>5, Zenon
  <2> HIDE DEF K, dir, c, i
  <2>1. Gains(V, dir, n, Name(K, dir, n), Ino(K, dir, n), K)
    BY <1>1, <1>5, ClearSlot, Zenon
  <2> HIDE DEF V
  <2>2. Fewer(K, dir, n, V)
    BY <1>1, <2>1, FewerLive, Zenon
  <2> QED BY <1>1, <1>4, <2>0, <2>2, LoseDot, Zenon
<1> DEFINE X == {}
<1>7. Good(C, T, X, s)
  OBVIOUS
<1>8. /\ Extends(T, T) /\ \A q \in DOMAIN T : q # c => q \in DOMAIN T
      /\ \A j \in X : j \in X
      /\ \A q \in DOMAIN T : q \in DOMAIN T \/ T[q] \in X
  BY Zenon DEF Extends
<1>9. Good(C, T, X, t)
  <2> HIDE DEF X
  <2> QED BY <1>0, <1>2, <1>3, <1>6, <1>7, <1>8, UnlinkGood, Zenon
<1>10. Gone(s, p, name, t)
  BY <1>2, Zenon DEF Unlinking, Gone
<1> QED
  BY <1>9, <1>10, Zenon DEF t

-----------------------------------------------------------------------------
(* What a call finds *)

\* Programs pass paths without dots, and no file of theirs is a directory.
LEMMA PathWay ==
    ASSUME NEW path \in Paths
    PROVE  Trail(path)
<1>1. /\ path \in Seq(STRING) /\ path # <<>> /\ Range(path) \cap {".", "..", "/"} = {}
      /\ Up(path) \notin FilePaths
  BY DentryAssumption, Zenon
<1>2. \A k \in 1..Len(path) : path[k] \in Range(path)
  <2>1. DOMAIN path = 1..Len(path)
    BY <1>1, LenIs, Zenon
  <2> QED BY <2>1, Zenon DEF Range
<1>3. \A k \in 1..Len(path) : path[k] \in Text /\ path[k] \notin Dots /\ path[k] # "/"
  BY <1>1, <1>2, Zenon DEF Text, Dots
<1>4. path \in Seq(Text)
  BY <1>1, <1>3
<1>5. Way(path)
  BY <1>3, <1>4, Zenon DEF Way
<1> DEFINE u == Up(path)
           n == Leaf(path)
<1>6. u \in Seq(Text) /\ n \in Text /\ path = Append(u, n)
  BY <1>1, <1>4, Split, Zenon
<1>7. n = path[Len(path)]
  BY Zenon DEF Leaf
<1> HIDE DEF u, n
<1>8. Len(path) = Len(u) + 1 /\ Len(u) \in Nat /\ \A m \in 1..Len(u) : u[m] = path[m]
  BY <1>6, AppendIs, LenIs
<1>9. n \notin Dots
  BY <1>3, <1>7, <1>8
<1>10. Way(u)
  <2>1. \A m \in 1..Len(u) : m \in 1..Len(path)
    BY <1>8
  <2> QED BY <1>3, <1>6, <1>8, <2>1, Zenon DEF Way
<1> QED
  BY <1>1, <1>5, <1>6, <1>9, <1>10, Zenon DEF Trail, ROOT, u, n

\* Kept is transitive.
LEMMA KeptAgain ==
    ASSUME NEW s, NEW t, NEW u, Kept(s, t), Kept(t, u)
    PROVE  Kept(s, u)
BY Zenon DEF Kept

\* dentry_lookup, on a tree that agrees with the volume.
LEMMA FoundGood ==
    ASSUME Library, NEW C, NEW T, NEW X, NEW s, Good(C, T, X, s), NEW path, Way(path)
    PROVE  LookedUp(C, T, X, s, path, dentry_lookup(s, path))
<1> DEFINE t == dentry_lookup(s, path)
<1>1. Formed(s)
  BY Zenon DEF Good
<1>2. Found(s, path, t)
  BY <1>1, Lookup, Zenon
<1> HIDE DEF t
<1>3. Onward(s, t)
  BY <1>2, Zenon DEF Found
<1>4. /\ Formed(t) /\ Grown(s, t) /\ Keeps(s, t)
      /\ t.disk = s.disk /\ t.ino = s.ino /\ t.err = s.err /\ t.lost = s.lost /\ t.trace = s.trace
  BY <1>3, Zenon DEF Onward, Rest
<1>5. Good(C, T, X, t)
  <2>1. CASE s.lost
    BY <1>4, <2>1, Zenon DEF Good
  <2>2. CASE ~s.lost
    <3>1. Sane(C, T, X, s.disk) /\ Mem(T, s.dent, s.disk) /\ Traced(s)
      BY <2>2, Zenon DEF Good
    <3>2. Mem(T, t.dent, s.disk)
      BY <1>4, <3>1, Zenon DEF Keeps, Sane
    <3> QED BY <1>4, <3>1, <3>2, Zenon DEF Good, Traced
  <2> QED BY <2>1, <2>2, Zenon
<1>6. Kept(s, t)
  BY <1>4, Zenon DEF Grown, Kept
<1> QED
  BY <1>2, <1>4, <1>5, <1>6, Zenon DEF LookedUp, t

\* An error changes neither tree nor volume.
LEMMA FailGood ==
    ASSUME NEW C, NEW T, NEW X, NEW s, Good(C, T, X, s), NEW e
    PROVE  Good(C, T, X, Fail(s, e)) /\ Failed(s, e, Fail(s, e)) /\ Kept(s, Fail(s, e))
<1> DEFINE t == Fail(s, e)
<1>1. DOMAIN s = Fields
  BY Zenon DEF Good, Formed
<1>2. Failed(s, e, t)
  BY <1>1, FailFields, Zenon
<1> HIDE DEF t
<1>3. /\ DOMAIN t = Fields /\ t.dent = s.dent /\ t.disk = s.disk /\ t.ino = s.ino
      /\ t.room = s.room /\ t.lost = s.lost /\ t.trace = s.trace
  BY <1>2, Zenon DEF Failed
<1>4. Formed(t)
  BY <1>3, Zenon DEF Good, Formed
<1>5. Good(C, T, X, t)
  BY <1>3, <1>4, Zenon DEF Good, Traced
<1>6. Kept(s, t)
  BY <1>3, Zenon DEF Kept
<1> QED
  BY <1>2, <1>5, <1>6, Zenon DEF t

\* A directory file without slots has no entries.
LEMMA NoSlots ==
    ASSUME NEW K, NEW i, K[i].slots = <<>>
    PROVE  Live(K, i) = {}
<1>1. Len(K[i].slots) = 0
  OBVIOUS
<1>2. 1..Len(K[i].slots) = {}
  BY <1>1
<1> QED
  BY <1>2, Zenon DEF Live

\* A call that fails at once, or after others, leaves names and volume as they are.
LEMMA FailGrew ==
    ASSUME NEW C, NEW T, NEW s, NEW t, Good(C, T, {}, t), Kept(s, t), NEW e
    PROVE  Grew(C, s, Fail(t, e))
<1> DEFINE X == {}
           u == Fail(t, e)
<1>1. Good(C, T, X, t)
  OBVIOUS
<1> HIDE DEF X
<1>2. Good(C, T, X, u) /\ Kept(t, u)
  BY <1>1, FailGood, Zenon
<1> HIDE DEF u
<1>3. Kept(s, u)
  BY <1>2, KeptAgain, Zenon
<1>4. Grew(C, s, u)
  BY <1>2, <1>3, Zenon DEF Grew, X
<1> QED
  BY <1>4, Zenon DEF u

\* A record is kept by itself.
LEMMA KeptSame ==
    ASSUME NEW s
    PROVE  Kept(s, s)
BY Zenon DEF Kept

\* dentry_lookup at the start of a call, or after another.
LEMMA FoundGrew ==
    ASSUME Library, NEW C, NEW T, NEW s, Good(C, T, {}, s), NEW path, Way(path)
    PROVE  LookedUp(C, T, {}, s, path, dentry_lookup(s, path))
<1> DEFINE X == {}
<1>1. Good(C, T, X, s)
  OBVIOUS
<1> HIDE DEF X
<1>2. LookedUp(C, T, X, s, path, dentry_lookup(s, path))
  BY <1>1, FoundGood, Zenon
<1> QED
  BY <1>2, Zenon DEF X

\* Names that are removed below dentries that are kept.
LEMMA KeptSurvive ==
    ASSUME NEW s, NEW t, NEW u, Kept(s, t), Survive(t, u)
    PROVE  Survive(s, u)
BY Zenon DEF Kept, Survive

\* A call that only adds names removes none.
LEMMA GrewEnds ==
    ASSUME NEW C, NEW s, NEW t, Grew(C, s, t)
    PROVE  Ends(C, s, t)
BY Zenon DEF Grew, Ends, Kept, Survive

\* A loaded dentry of an inode without entries has no children.
LEMMA NoEntries ==
    ASSUME NEW T, NEW dn, Shape(dn), NEW K, Mem(T, dn, K), NEW d \in DOMAIN dn, dn[d].load
    PROVE  Live(K, dn[d].inode) = {} <=> dn[d].children = <<>>
<1> DEFINE c == dn[d].children
           L == Live(K, dn[d].inode)
<1>1. c \in Seq(Text)
  BY ChildNames, Zenon
<1>2. Range(c) = Names(K, dn[d].inode, L)
  BY Zenon DEF Mem, Matches
<1> HIDE DEF c, L
<1>3. L = {} => Range(c) = {}
  BY <1>2, Zenon DEF Names
<1>4. Range(c) = {} => L = {}
  BY <1>2, Zenon DEF Names
<1>5. Range(c) = {} => c = <<>>
  BY <1>1, NoElements, Zenon
<1>6. c = <<>> => Range(c) = {}
  BY EmptyRange, Zenon
<1>7. L = {} <=> c = <<>>
  BY <1>3, <1>4, <1>5, <1>6, Zenon
<1> QED
  BY <1>7, Zenon DEF c, L

\* A dentry that was removed is missing, and the others are as they were.
LEMMA GoneSurvive ==
    ASSUME NEW s, NEW p, NEW name, NEW t, Gone(s, p, name, t)
    PROVE  Survive(s, t)
<1> SUFFICES ASSUME NEW q \in DOMAIN s.dent \cap DOMAIN t.dent
             PROVE  t.dent[q].inode = s.dent[q].inode
  BY Zenon DEF Survive
<1>1. Removed(s.dent, p, name, t.dent)
  BY Zenon DEF Gone
<1>2. q # Append(p, name)
  BY <1>1, Zenon DEF Removed
<1>3. CASE q = p
  BY <1>1, <1>3, Zenon DEF Removed
<1>4. CASE q # p
  BY <1>1, <1>2, <1>4, Zenon DEF Removed
<1> QED
  BY <1>3, <1>4, Zenon

\* An inode whose last name is gone has no links.
LEMMA NoLinks ==
    ASSUME Library, NEW C, NEW T, NEW i \in Inodes, NEW s, Good(C, T, {i}, s), ~s.lost,
           \A q \in DOMAIN T : T[q] # i, s.disk[i].nlinks # 0
    PROVE  Good(C, T, {}, s)
<1>1. Sane(C, T, {i}, s.disk) /\ Mem(T, s.dent, s.disk) /\ Traced(s) /\ Formed(s)
  BY Zenon DEF Good
<1>2. Vol(T, s.disk)
  BY <1>1, Zenon DEF Sane
<1>3. Refs(s.disk, i) = {}
  BY <1>2, NoRefs, Zenon
<1>4. ~Counted(s.disk)
  <2>1. Cardinality(Refs(s.disk, i)) = 0
    BY <1>3, Zenon DEF Library
  <2> QED BY <2>1, Zenon DEF Counted
<1>5. ~C
  BY <1>1, <1>4, Zenon DEF Sane
<1>6. Sane(C, T, {}, s.disk)
  BY <1>2, <1>5, Zenon DEF Sane
<1> QED
  BY <1>1, <1>6, Zenon DEF Good

\* The names rmdir finds in a directory it removes.
LEMMA DotsOnly ==
    ASSUME NEW c \in Seq(Text), Inj(c), Len(c) = 2, Range(c) \ {".", ".."} = {}
    PROVE  TwoDots(c)
<1>1. DOMAIN c = 1..2
  BY LenIs
<1>2. 1..2 = {1, 2}
  OBVIOUS
<1>3. Range(c) = {c[1], c[2]}
  BY <1>1, <1>2, Zenon DEF Range
<1>4. c[1] # c[2]
  BY <1>2 DEF Inj
<1> QED
  BY <1>3, <1>4, Zenon DEF TwoDots, Dots

\* The entries of a directory with nothing in it are removed.
LEMMA EmptyDots ==
    ASSUME Library,
           NEW C, NEW T, NEW s, Good(C, T, {}, s), ~s.lost, NEW d \in DOMAIN s.dent, s.dent[d].load, d # ROOT,
           NEW c, c = s.dent[d].children, TwoDots(c)
    PROVE  Emptied(C, T, s, d, dentry_unlink(dentry_unlink(s, Append(d, c[1])), Append(d, c[2])))
<1> DEFINE n == c[1]
           m == c[2]
           t == dentry_unlink(s, Append(d, n))
           u == dentry_unlink(t, Append(d, m))
<1>1. n \in Dots /\ m \in Dots /\ n # m /\ Range(c) = {n, m}
  BY Zenon DEF TwoDots
<1>2. n \in Text /\ m \in Text
  BY <1>1, Zenon DEF Dots, Text
<1>3. Shape(s.dent) /\ d \in Seq(Text)
  BY ChildNames, Zenon DEF Good, Formed
<1> HIDE DEF n, m
<1>4. Append(d, n) \in DOMAIN s.dent /\ Append(d, m) \in DOMAIN s.dent
  BY <1>1, <1>3, ChildNames, Zenon
<1>5. Append(d, n) # Append(d, m) /\ Append(d, n) # d /\ Append(d, m) # d
  <2>1. Leaf(Append(d, n)) = n /\ Leaf(Append(d, m)) = m
    BY <1>2, <1>3, Child, Zenon
  <2>2. Append(d, n) # d /\ Append(d, m) # d
    BY <1>2, <1>3, NotOwnChild, Zenon
  <2> QED BY <1>1, <2>1, <2>2, Zenon
<1>6. Gone(s, d, n, t) /\ Good(C, T, {}, t)
  BY <1>1, <1>4, UnlinkDot, Zenon
<1> HIDE DEF t
<1>7. /\ ~t.lost /\ t.err = s.err /\ Survive(s, t) /\ Removed(s.dent, d, n, t.dent)
  BY <1>6, GoneSurvive, Zenon DEF Gone
<1>8. /\ DOMAIN t.dent = DOMAIN s.dent \ {Append(d, n)}
      /\ t.dent[d].load /\ t.dent[d].inode = s.dent[d].inode
      /\ Dropped(c, n, t.dent[d].children)
  BY <1>7, Zenon DEF Removed
<1>9. d \in DOMAIN t.dent /\ Append(d, m) \in DOMAIN t.dent
  BY <1>4, <1>5, <1>8, Zenon
<1>10. Gone(t, d, m, u) /\ Good(C, T, {}, u)
  BY <1>1, <1>6, <1>7, <1>8, <1>9, UnlinkDot, Zenon
<1> HIDE DEF u
<1>11. ~u.lost /\ u.err = s.err /\ Survive(t, u) /\ Removed(t.dent, d, m, u.dent)
  BY <1>7, <1>10, GoneSurvive, Zenon DEF Gone
<1>12. /\ DOMAIN u.dent = DOMAIN t.dent \ {Append(d, m)}
       /\ u.dent[d].load /\ u.dent[d].inode = s.dent[d].inode
       /\ Dropped(t.dent[d].children, m, u.dent[d].children)
  BY <1>8, <1>11, Zenon DEF Removed
<1>13. d \in DOMAIN u.dent
  BY <1>5, <1>9, <1>12, Zenon
<1>14. Range(u.dent[d].children) = {}
  <2>1. Range(t.dent[d].children) = Range(c) \ {n}
    BY <1>8, Zenon DEF Dropped
  <2>2. Range(u.dent[d].children) = Range(t.dent[d].children) \ {m}
    BY <1>12, Zenon DEF Dropped
  <2> QED BY <1>1, <2>1, <2>2, Zenon
<1>15. u.dent[d].children = <<>>
  <2>1. u.dent[d].children \in Seq(Text)
    BY <1>10, <1>13, ChildNames, Zenon DEF Good, Formed
  <2> QED BY <1>14, <2>1, NoElements, Zenon
<1>16. Survive(s, u)
  BY <1>7, <1>8, <1>11, <1>12, Zenon DEF Survive
<1>17. DOMAIN u.dent \subseteq DOMAIN s.dent
  BY <1>8, <1>12, Zenon
<1>18. Emptied(C, T, s, d, u)
  BY <1>10, <1>11, <1>12, <1>13, <1>15, <1>16, <1>17, Zenon DEF Emptied
<1> QED
  BY <1>18, Zenon DEF u, t, n, m

\* A name that a loaded directory does not have, and that is not too long, is not refused.
LEMMA NotRefused ==
    ASSUME NEW s, NEW d, NEW name, NEW t, Refused(s, d, name, t), s.dent[d].load,
           name \notin LongNames, Append(d, name) \notin DOMAIN s.dent
    PROVE  FALSE
BY Zenon DEF Refused

\* The names of a path are short when those of its front and its last one are.
LEMMA ShortPath ==
    ASSUME NEW path, Trail(path), Short(Up(path)), Leaf(path) \notin LongNames, path \notin LongPaths
    PROVE  Short(path)
<1> DEFINE u == Up(path)
           n == Leaf(path)
<1>1. u \in Seq(Text) /\ n \in Text /\ path = Append(u, n) /\ n \notin LongNames
  BY Zenon DEF Trail, Way
<1>2. \A m \in 1..Len(u) : u[m] \notin LongNames
  BY Zenon DEF Short
<1> HIDE DEF u, n
<1>3. /\ Len(path) = Len(u) + 1 /\ Len(u) \in Nat /\ path[Len(u) + 1] = n
      /\ \A m \in 1..Len(u) : path[m] = u[m]
  BY <1>1, AppendIs, LenIs
<1>4. \A m \in 1..Len(path) : path[m] \notin LongNames
  <2> SUFFICES ASSUME NEW m \in 1..Len(path) PROVE path[m] \notin LongNames
    OBVIOUS
  <2>1. m \in 1..Len(u) \/ m = Len(u) + 1
    BY <1>3
  <2> QED BY <1>1, <1>2, <1>3, <2>1, Zenon
<1> QED
  BY <1>4, Zenon DEF Short

-----------------------------------------------------------------------------
(* An empty volume *)

\* The empty volume: the root directory has its two dots and nothing else.
LEMMA EmptyVolume ==
    ASSUME Library, NEW K, NEW S, S = <<[ino |-> 1, name |-> "."], [ino |-> 1, name |-> ".."]>>,
           K = [i \in Inodes |-> IF i = 1 THEN [mode |-> "dir", nlinks |-> 2, slots |-> S] ELSE NoInode]
    PROVE  K \in Volume /\ \E T : Sane(TRUE, T, {}, K)
<1>0. 1 \in Inodes /\ 1 \in 0..InodeNum /\ LINKS - 1 \in Nat /\ 2 \in 0..(LINKS - 1) /\ 0 \in 0..(LINKS - 1)
  BY Bounds, LinksNat DEF Inodes
<1>1. "." \in Text /\ ".." \in Text /\ "." # ".."
  <2>1. "." # ".."
    OBVIOUS
  <2> QED BY <2>1, Zenon DEF Text
<1> DEFINE a == [ino |-> 1, name |-> "."]
           b == [ino |-> 1, name |-> ".."]
<1>2. a \in Slot /\ b \in Slot
  BY <1>0, <1>1, Zenon DEF Slot
<1>3. S \in Seq(Slot) /\ Len(S) = 2 /\ S[1] = a /\ S[2] = b
  <2> HIDE DEF a, b
  <2>1. S = <<a, b>>
    BY DEF a, b
  <2> QED BY <1>2, <2>1
<1>4. S[1].ino = 1 /\ S[1].name = "." /\ S[2].ino = 1 /\ S[2].name = ".."
  BY <1>3, Zenon
<1> HIDE DEF a, b
<1>5. K[1].mode = "dir" /\ K[1].nlinks = 2 /\ K[1].slots = S
  BY <1>0, Zenon
<1>6. \A i \in Inodes : i # 1 => K[i].mode = "free" /\ K[i].nlinks = 0 /\ K[i].slots = <<>>
  <2>1. \A i \in Inodes : i # 1 => K[i] = NoInode
    BY Zenon
  <2>2. NoInode.mode = "free" /\ NoInode.nlinks = 0 /\ NoInode.slots = <<>>
    BY Zenon DEF NoInode
  <2> QED BY <2>1, <2>2, Zenon
<1>7. K \in Volume
  <2> DEFINE x == [mode |-> "dir", nlinks |-> 2, slots |-> S]
  <2>1. <<>> \in Seq(Slot)
    OBVIOUS
  <2>2. NoInode \in InodeSet
    BY <1>0, <2>1, Zenon DEF NoInode, InodeSet
  <2>3. x \in InodeSet
    BY <1>0, <1>3, Zenon DEF InodeSet
  <2> HIDE DEF x
  <2>4. K = [i \in Inodes |-> IF i = 1 THEN x ELSE NoInode]
    BY Zenon DEF x
  <2>5. K \in [Inodes -> InodeSet]
    BY <2>2, <2>3, <2>4, Zenon
  <2> QED BY <2>5, Zenon DEF Volume, InodeSet
<1>8. Live(K, 1) = {1, 2}
  <2>1. 1..Len(K[1].slots) = {1, 2}
    BY <1>3, <1>5
  <2>2. \A k \in {1, 2} : K[1].slots[k].ino # 0
    BY <1>4, <1>5
  <2> QED BY <2>1, <2>2, Zenon DEF Live
<1>9. \A i \in Inodes : i # 1 => Live(K, i) = {}
  BY <1>6, NoSlots, Zenon
<1>10. /\ Name(K, 1, 1) = "." /\ Name(K, 1, 2) = ".."
       /\ Ino(K, 1, 1) = 1 /\ Ino(K, 1, 2) = 1
  BY <1>4, <1>5, Zenon DEF Name, Ino
<1> DEFINE T == [p \in {ROOT} |-> 1]
<1>11. DOMAIN T = {ROOT} /\ T[ROOT] = 1
  BY Zenon
<1> HIDE DEF T
<1>12. Tree(T)
  <2>1. ROOT \in Seq(Text)
    BY DEF ROOT
  <2> QED BY <1>0, <1>11, <2>1, Zenon DEF Tree
<1>13. Modes(T, K)
  <2>1. K[1].mode # "free" /\ K[1].mode # "file"
    BY <1>5
  <2> QED BY <1>11, <2>1, Zenon DEF Modes
<1>14. Named(T, K)
  BY <1>11, Zenon DEF Named
<1>15. Led(T, K)
  <2> SUFFICES ASSUME NEW k \in Live(K, 1) PROVE Leads(T, ROOT, Name(K, 1, k), Ino(K, 1, k))
    BY <1>11, Zenon DEF Led
  <2>1. k = 1 \/ k = 2
    BY <1>8, Zenon
  <2> QED BY <1>10, <1>11, <2>1, Zenon DEF Leads
<1>16. Distinct(K)
  <2> SUFFICES ASSUME NEW i \in Inodes, NEW k \in Live(K, i), NEW l \in Live(K, i), Name(K, i, k) = Name(K, i, l)
               PROVE  k = l
    BY Zenon DEF Distinct
  <2>1. i = 1
    BY <1>9, Zenon
  <2>2. (k = 1 \/ k = 2) /\ (l = 1 \/ l = 2)
    BY <1>8, <2>1, Zenon
  <2>3. Name(K, 1, 1) # Name(K, 1, 2) /\ Name(K, 1, k) = Name(K, 1, l)
    BY <1>1, <1>10, <2>1, Zenon
  <2>4. ~(k = 1 /\ l = 2) /\ ~(k = 2 /\ l = 1)
    BY <2>3, Zenon
  <2> QED BY <2>2, <2>4, Zenon
<1>17. Bare(T, K)
  BY <1>9, <1>11, Zenon DEF Bare
<1>18. Rooted(K)
  BY <1>8, <1>10, Zenon DEF Rooted
<1>19. Whole(T, {}, K)
  BY <1>6, <1>11, Zenon DEF Whole
<1>20. Counted(K)
  <2> SUFFICES ASSUME NEW i \in Inodes PROVE K[i].nlinks = Cardinality(Refs(K, i))
    BY Zenon DEF Counted
  <2>0. \A r : r \in Refs(K, i) <=> i = 1 /\ (r = <<1, 1>> \/ r = <<1, 2>>)
    <3> TAKE r
    <3>1. r \in Refs(K, i) <=> IsRef(K, i, r)
      BY RefsAre, Zenon
    <3>2. IsRef(K, i, r) => i = 1 /\ (r = <<1, 1>> \/ r = <<1, 2>>)
      <4> SUFFICES ASSUME NEW j \in Inodes, NEW k \in Live(K, j), r = <<j, k>>, Ino(K, j, k) = i
                   PROVE  i = 1 /\ (r = <<1, 1>> \/ r = <<1, 2>>)
        BY Zenon DEF IsRef
      <4>1. j = 1
        BY <1>9, Zenon
      <4>2. k = 1 \/ k = 2
        BY <1>8, <4>1, Zenon
      <4> QED BY <1>10, <4>1, <4>2, Zenon
    <3>3. i = 1 /\ (r = <<1, 1>> \/ r = <<1, 2>>) => IsRef(K, i, r)
      BY <1>0, <1>8, <1>10, Zenon DEF IsRef
    <3> QED BY <3>1, <3>2, <3>3, Zenon
  <2>1. CASE i = 1
    <3>1. Refs(K, i) = {<<1, 1>>, <<1, 2>>}
      BY <2>0, <2>1, Zenon
    <3> DEFINE x == <<1, 1>>
               y == <<1, 2>>
    <3>2. x # y
      OBVIOUS
    <3> HIDE DEF x, y
    <3>3. IsFiniteSet({x}) /\ Cardinality({x}) = 1
      BY SetOfOne, Zenon
    <3>4. Cardinality({x} \cup {y}) = 1 + 1
      BY <3>2, <3>3, OneMoreElement
    <3>5. Refs(K, i) = {x} \cup {y}
      BY <3>1, Zenon DEF x, y
    <3> QED BY <1>5, <2>1, <3>4, <3>5
  <2>2. CASE i # 1
    <3>1. Refs(K, i) = {}
      BY <2>0, <2>2, Zenon
    <3> QED BY <1>6, <2>2, <3>1, Zenon DEF Library
  <2> QED BY <2>1, <2>2, Zenon
<1>21. Vol(T, K)
  BY <1>12, <1>13, <1>14, <1>15, <1>16, <1>17, <1>18, Zenon DEF Vol
<1> QED
  BY <1>7, <1>19, <1>20, <1>21, Zenon DEF Sane

-----------------------------------------------------------------------------
(* Counting entries *)

\* Distinct entries have distinct names, so there are as many of one as of the other.
LEMMA CountNames ==
    ASSUME Library,
           NEW K, NEW i \in Inodes, Distinct(K), NEW c \in Seq(Text), Inj(c), Range(c) = Names(K, i, Live(K, i))
    PROVE  Cardinality(Live(K, i)) = Len(c)
<1> DEFINE L == Live(K, i)
           n == Len(c)
           D == 1..n
           g(k) == CHOOSE l \in L : Name(K, i, l) = c[k]
           f == [k \in D |-> g(k)]
<1>1. n \in Nat /\ DOMAIN c = D
  BY LenIs, Zenon
<1>2. \A k \in D : f[k] \in L /\ Name(K, i, f[k]) = c[k]
  <2> SUFFICES ASSUME NEW k \in D PROVE f[k] \in L /\ Name(K, i, f[k]) = c[k]
    OBVIOUS
  <2>1. c[k] \in Range(c)
    BY <1>1, Zenon DEF Range
  <2>2. \E l \in L : Name(K, i, l) = c[k]
    BY <2>1, Zenon DEF Names
  <2> QED BY <2>2, Zenon
<1> HIDE DEF g, L
<1>3. \A k \in D : f[k] = g(k) /\ g(k) \in L
  BY <1>2, Zenon
<1>4. f \in [D -> L]
  BY <1>3, Zenon
<1> HIDE DEF f
<1>5. \A k, l \in D : f[k] = f[l] => k = l
  BY <1>2, Zenon DEF Inj
<1>6. \A l \in L : \E k \in D : f[k] = l
  <2> SUFFICES ASSUME NEW l \in L PROVE \E k \in D : f[k] = l
    OBVIOUS
  <2>1. Name(K, i, l) \in Range(c)
    BY Zenon DEF Names, L
  <2>2. PICK k \in D : c[k] = Name(K, i, l)
    BY <1>1, <2>1, Zenon DEF Range
  <2>3. f[k] = l
    BY <1>2, <2>2, Zenon DEF Distinct, L
  <2> QED BY <2>3, Zenon
<1>7. Numbers(D, L, f) /\ Onto(D, L, f)
  BY <1>4, <1>5, <1>6, Zenon DEF Numbers, Onto
<1> HIDE DEF n
<1>8. Cardinality(L) = n
  BY <1>1, <1>7, AllNumbered, Zenon
<1> QED
  BY <1>8, Zenon DEF L, n

\* Every path of the tree has an entry that leads to its inode.
LEMMA SomeRef ==
    ASSUME NEW T, NEW K, Vol(T, K), NEW p \in DOMAIN T
    PROVE  Refs(K, T[p]) # {}
<1>0. 1 \in Inodes /\ ROOT \in DOMAIN T /\ T[ROOT] = 1 /\ \A q \in DOMAIN T : T[q] \in Inodes
  BY Bounds DEF Inodes, Vol, Tree
<1>1. CASE p = ROOT
  <2>1. PICK k \in Live(K, 1) : Name(K, 1, k) = "."
    BY Zenon DEF Vol, Rooted
  <2>2. Leads(T, ROOT, Name(K, 1, k), Ino(K, 1, k))
    BY <1>0, <2>1, Zenon DEF Vol, Led
  <2>3. Ino(K, 1, k) = 1
    <3>1. "." \in Dots /\ "." # ".."
      BY DEF Dots
    <3> QED BY <1>0, <2>1, <2>2, <3>1, Zenon DEF Leads
  <2>4. IsRef(K, T[p], <<1, k>>)
    BY <1>0, <1>1, <2>1, <2>3, Zenon DEF IsRef
  <2> QED BY <2>4, RefsAre, Zenon
<1>2. CASE p # ROOT
  <2>1. PICK q \in DOMAIN T : \E k \in Live(K, T[q]) : p = Append(q, Name(K, T[q], k)) /\ Name(K, T[q], k) \notin Dots
    BY <1>2, Zenon DEF Vol, Named
  <2>2. PICK k \in Live(K, T[q]) : p = Append(q, Name(K, T[q], k)) /\ Name(K, T[q], k) \notin Dots
    BY <2>1, Zenon
  <2>3. Leads(T, q, Name(K, T[q], k), Ino(K, T[q], k))
    BY <2>2, Zenon DEF Vol, Led
  <2>4. Ino(K, T[q], k) = T[p]
    BY <2>2, <2>3, Zenon DEF Leads, Dots
  <2>5. T[q] \in Inodes
    BY <1>0, Zenon
  <2>6. IsRef(K, T[p], <<T[q], k>>)
    BY <2>2, <2>4, <2>5, Zenon DEF IsRef
  <2> QED BY <2>6, RefsAre, Zenon
<1> QED
  BY <1>1, <1>2, Zenon
=============================================================================
