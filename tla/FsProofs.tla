------------------------------- MODULE FsProofs -------------------------------
(***************************************************************************)
(* Proofs about Fs: for every set of paths, every number of inodes and     *)
(* open files and every size of a directory, the dentries in memory, the   *)
(* entries of the volume and the open files agree after every call, and    *)
(* the volume a power failure leaves is a tree of names.                   *)
(*                                                                         *)
(* The three properties compare dentries with entries one at a time, and   *)
(* none is inductive.  What is, is that one tree of names explains both    *)
(* (IInv; Vol, Mem and Good are those of DentryProofs).  There is one      *)
(* lemma for each operator of the model, inode_create, the calls of fs.c   *)
(* and the steps of Next, and then the theorems.                           *)
(***************************************************************************)
EXTENDS Fs, UnlinkProofs

\* What inode_create makes.
Made(C, T, s, mode, t) ==
    /\ t.dent = s.dent /\ t.at = s.at /\ t.err = s.err /\ t.lost = s.lost
    /\ \/ t.ino = 0 /\ Good(C, T, {}, t)
       \/ /\ t.ino \in Inodes /\ Good(C, T, {t.ino}, t) /\ \A q \in DOMAIN T : T[q] # t.ino
          /\ t.disk[t.ino].mode = mode /\ t.disk[t.ino].slots = <<>>
\* The loop of remove_dentry_and_children.
Undo(s, d, q, n, g) == g = [k \in 0..n |-> IF k = 0 THEN s ELSE dentry_unlink(g[k - 1], Append(d, q[k]))]
\* What new_name keeps.
Entry(C, T, s, path, mode, t) ==
    /\ Kept(s, t)
    /\ \/ t.err # "ok" /\ Good(C, T, {}, t)
       \/ /\ t.err = "ok" /\ t.ino \in Inodes /\ Good(C, Joined(T, path, t.ino), {}, t)
          /\ path \in DOMAIN t.dent /\ t.dent[path] = NewDentry(t.ino) /\ Leaf(path) \notin LongNames
          /\ t.disk[t.ino].mode = mode /\ Live(t.disk, t.ino) = {}
\* The inductive invariant: the tree dn in memory and the volume K describe
\* one tree T of names (l: an entry was lost, c: a call was cut short), and an
\* open file, of the table F, has a dentry until its name is removed.
Sound(T, dn, K, c) == Sane(~c, T, {}, K) /\ Mem(T, dn, K)
TreeIs(dn, K, l, c) ==
    /\ Shape(dn) /\ K \in Volume /\ l \in BOOLEAN /\ c \in BOOLEAN
    /\ ~l => \E T : Sound(T, dn, K, c)
OpenFile == [dentry : Paths \cup {NULL}, inode : 0..InodeNum, gone : BOOLEAN]
FileIs(r, dn, l) ==
    r # NoFile => /\ r.dentry \in Paths
                  /\ ~l /\ ~r.gone => r.dentry \in DOMAIN dn /\ dn[r.dentry].inode = r.inode
FilesAre(F, dn, l) == F \in [1..FileNum -> OpenFile] /\ \A f \in 1..FileNum : FileIs(F[f], dn, l)
IInv == TreeIs(dent, disk, lost, crashed) /\ FilesAre(files, dent, lost)
\* A call begins.
Begun(C, T, s) == Good(C, T, {}, s) /\ ~s.lost /\ s.err = "ok" /\ s.dent = dent
\* process_open succeeds.
Opens(f, t) ==
    /\ Bounded(t)
    /\ \/ /\ Return(t)
          /\ files' = [files EXCEPT ![f] = [dentry |-> t.at, inode |-> t.dent[t.at].inode, gone |-> FALSE]]
       \/ PowerFails(t)

-----------------------------------------------------------------------------
(* Inodes *)

\* inode_create takes an inode that has no name.
LEMMA InodeCreate ==
    ASSUME Library, NEW C, NEW T, NEW s, Good(C, T, {}, s), ~s.lost, NEW mode \in {"dir", "file"}
    PROVE  Made(C, T, s, mode, inode_create(s, mode))
<1> DEFINE t == inode_create(s, mode)
           unused == {i \in Inodes : s.disk[i].mode = "free"}
           K == s.disk
<1>1. /\ Formed(s) /\ Sane(C, T, {}, K) /\ Vol(T, K) /\ Mem(T, s.dent, K) /\ K \in Volume
      /\ DOMAIN s = Fields /\ s.room \in Int /\ Shape(s.dent)
  BY Zenon DEF Good, Sane, Formed
<1>2. CASE unused = {} \/ s.room = 0
  <2>1. t = [s EXCEPT !.ino = 0]
    BY <1>2, Zenon DEF inode_create
  <2> HIDE DEF t
  <2>2. /\ DOMAIN t = Fields /\ t.dent = s.dent /\ t.disk = K /\ t.at = s.at /\ t.ino = 0
        /\ t.err = s.err /\ t.room = s.room /\ t.lost = s.lost /\ t.trace = s.trace
    BY <1>1, <2>1 DEF Fields
  <2>3. 0 \in 0..InodeNum
    BY Bounds
  <2>4. Good(C, T, {}, t)
    <3>1. Formed(t)
      BY <1>1, <2>2, <2>3, Zenon DEF Formed
    <3>2. Traced(t)
      BY <2>2, Zenon DEF Good, Traced
    <3> QED BY <1>1, <2>2, <3>1, <3>2, Zenon DEF Good
  <2> QED BY <2>2, <2>4, Zenon DEF Made, t
<1>3. CASE ~(unused = {} \/ s.room = 0)
  <2> DEFINE i == Min(unused)
             r == [NoInode EXCEPT !.mode = mode]
             V == [K EXCEPT ![i] = r]
             b == Write(s, V)
  <2>1. i \in unused
    <3>1. unused \subseteq Nat
      BY Bounds DEF Inodes
    <3>2. \E k \in unused : \A y \in unused : k <= y
      <4> HIDE DEF unused
      <4> QED BY <1>3, <3>1, LeastNumber, Zenon
    <3> HIDE DEF unused
    <3> QED BY <3>2, Zenon DEF Min
  <2>2. t = [b EXCEPT !.ino = i, !.room = @ - 1]
    BY <1>3, Zenon DEF inode_create
  <2> HIDE DEF t
  <2>3. i \in Inodes /\ K[i].mode = "free"
    BY <2>1, Zenon
  <2> HIDE DEF i
  <2>4. r \in InodeSet /\ r.mode = mode /\ r.slots = <<>> /\ r.nlinks = 0
    BY FreshInode, Zenon
  <2> HIDE DEF r
  <2>5. \A q \in DOMAIN T : T[q] # i
    BY <1>1, <2>3, Zenon DEF Vol, Modes
  <2> DEFINE Y == {i}
  <2>6. Sane(C, T, Y, V) /\ Mem(T, s.dent, V)
    <3> DEFINE X == {}
    <3>1. Sane(C, T, X, K) /\ i \in Y /\ \A j \in X : j = i \/ j \in Y
      BY <1>1, Zenon
    <3> HIDE DEF X, Y, K
    <3> QED BY <1>1, <2>3, <2>4, <2>5, <3>1, SetInode, Zenon
  <2>7. V \in Volume /\ V[i] = r
    <3> HIDE DEF K
    <3>1. Put(K, i, r, V)
      BY <1>1, <2>3, <2>4, PutInode, Zenon
    <3> QED BY <3>1, Zenon DEF Put
  <2> HIDE DEF V
  <2>8. Wrote(s, V, b)
    BY <1>1, WriteFields, Zenon
  <2> HIDE DEF b, Y
  <2>9. Good(C, T, Y, b)
    <3> DEFINE X == {}
    <3>1. Good(C, T, X, s)
      OBVIOUS
    <3> HIDE DEF X
    <3> QED BY <2>6, <2>7, <2>8, <3>1, WriteGood, Zenon
  <2>10. /\ DOMAIN b = Fields /\ b.dent = s.dent /\ b.disk = V /\ b.at = s.at
         /\ b.err = s.err /\ b.room = s.room /\ b.lost = s.lost
    BY <2>8, Zenon DEF Wrote
  <2>11. /\ DOMAIN t = Fields /\ t.dent = b.dent /\ t.disk = b.disk /\ t.at = b.at /\ t.ino = i
         /\ t.err = b.err /\ t.room = s.room - 1 /\ t.lost = b.lost /\ t.trace = b.trace
    BY <2>2, <2>10 DEF Fields
  <2>12. Good(C, T, Y, t)
    <3>1. i \in 0..InodeNum
      BY <2>3, Bounds DEF Inodes
    <3>2. s.room - 1 \in Int
      BY <1>1
    <3>3. Formed(t)
      BY <2>9, <2>11, <3>1, <3>2, Zenon DEF Good, Formed
    <3>4. Traced(b) => Traced(t)
      BY <2>11, Zenon DEF Traced
    <3> QED BY <2>9, <2>11, <3>3, <3>4, Zenon DEF Good
  <2>13. /\ t.dent = s.dent /\ t.at = s.at /\ t.err = s.err /\ t.lost = s.lost
         /\ t.disk[t.ino].mode = mode /\ t.disk[t.ino].slots = <<>>
    BY <2>4, <2>7, <2>10, <2>11, Zenon
  <2>14. Good(C, T, {t.ino}, t) /\ t.ino = i
    BY <2>11, <2>12, Zenon DEF Y
  <2> QED BY <2>3, <2>5, <2>13, <2>14, Zenon DEF Made, t
<1> QED
  BY <1>2, <1>3, Zenon

\* inode_destroy of an inode without a name.
LEMMA InodeDestroy ==
    ASSUME Library,
           NEW C, NEW T, NEW s, NEW i \in Inodes, Good(C, T, {i}, s), ~s.lost => \A q \in DOMAIN T : T[q] # i
    PROVE  Good(C, T, {}, inode_destroy(s, i)) /\ \E K : Wrote(s, K, inode_destroy(s, i))
<1> DEFINE t == inode_destroy(s, i)
           K == s.disk
           r == NoInode
           V == [K EXCEPT ![i] = r]
<1>1. Formed(s) /\ K \in Volume /\ DOMAIN s = Fields /\ Shape(s.dent)
  BY Zenon DEF Good, Formed
<1>2. r \in InodeSet /\ r.mode = "free" /\ r.slots = <<>> /\ r.nlinks = 0
  <2>1. r = [NoInode EXCEPT !.mode = "free"]
    BY DEF NoInode
  <2> HIDE DEF r
  <2> QED BY <2>1, FreshInode, Zenon
<1>3. t = Write(s, V)
  BY Zenon DEF inode_destroy
<1> HIDE DEF r
<1> DEFINE X == {i}
           Y == {}
<1>4. V \in Volume
  <2> HIDE DEF K
  <2>1. Put(K, i, r, V)
    BY <1>1, <1>2, PutInode, Zenon
  <2> QED BY <2>1, Zenon DEF Put
<1>5. ~s.lost => Sane(C, T, Y, V) /\ Mem(T, s.dent, V)
  <2>1. ASSUME ~s.lost PROVE Sane(C, T, Y, V) /\ Mem(T, s.dent, V)
    <3>1. Sane(C, T, X, K) /\ Mem(T, s.dent, K) /\ \A j \in X : j = i \/ j \in Y
      BY <2>1, Zenon DEF Good
    <3> HIDE DEF X, Y, K
    <3> QED BY <1>1, <1>2, <2>1, <3>1, SetInode, Zenon
  <2> QED BY <2>1, Zenon
<1> HIDE DEF V, t
<1>6. Wrote(s, V, t)
  BY <1>1, <1>3, WriteFields, Zenon
<1>7. Good(C, T, Y, t)
  <2>1. Good(C, T, X, s)
    BY Zenon
  <2> HIDE DEF X, Y
  <2> QED BY <1>4, <1>5, <1>6, <2>1, WriteGood, Zenon
<1> QED
  BY <1>6, <1>7, Zenon DEF t

-----------------------------------------------------------------------------
(* A directory and its dots *)

\* remove_dentry_and_children of a dentry with two children.
LEMMA RemoveTwo ==
    ASSUME NEW s, NEW d, NEW q, q = s.dent[d].children, Len(q) = 2
    PROVE  remove_dentry_and_children(s, d)
             = [dentry_unlink(dentry_unlink(dentry_unlink(s, Append(d, q[1])), Append(d, q[2])), d) EXCEPT !.err = s.err]
<1> DEFINE a == dentry_unlink(s, Append(d, q[1]))
           b == dentry_unlink(a, Append(d, q[2]))
           h == [k \in 0..Len(q) |-> IF k = 0 THEN s ELSE IF k = 1 THEN a ELSE b]
<1>0. 0 \in 0..Len(q) /\ 1 \in 0..Len(q) /\ 2 \in 0..Len(q) /\ 1 # 0 /\ 2 # 0 /\ 2 # 1 /\ 1 - 1 = 0 /\ 2 - 1 = 1
  OBVIOUS
<1>1. \A k \in 0..Len(q) : k = 0 \/ k = 1 \/ k = 2
  OBVIOUS
<1>2. h[0] = s /\ h[1] = a /\ h[2] = b
  BY <1>0, Zenon
<1>3. h = [k \in 0..Len(q) |-> h[k]]
  BY Zenon
<1> HIDE DEF h, a, b
<1>4. ASSUME NEW k \in 0..Len(q)
      PROVE  h[k] = IF k = 0 THEN s ELSE dentry_unlink(h[k - 1], Append(d, q[k]))
  <2>1. CASE k = 0
    BY <1>2, <2>1, Zenon
  <2>2. CASE k = 1
    BY <1>0, <1>2, <2>2, Zenon DEF a
  <2>3. CASE k = 2
    BY <1>0, <1>2, <2>3, Zenon DEF b
  <2> QED BY <1>1, <2>1, <2>2, <2>3, Zenon
<1>6. Undo(s, d, q, Len(q), h)
  BY <1>3, <1>4, Zenon DEF Undo
<1> DEFINE g == CHOOSE g : Undo(s, d, q, Len(q), g)
<1>7. Undo(s, d, q, Len(q), g)
  BY <1>6, Zenon
<1>8. remove_dentry_and_children(s, d) = [dentry_unlink(g[Len(q)], d) EXCEPT !.err = s.err]
  BY Zenon DEF remove_dentry_and_children, Undo
<1> HIDE DEF g
<1>9. g[0] = s /\ g[1] = dentry_unlink(g[1 - 1], Append(d, q[1])) /\ g[2] = dentry_unlink(g[2 - 1], Append(d, q[2]))
  <2> DEFINE y == [k \in 0..Len(q) |-> IF k = 0 THEN s ELSE dentry_unlink(g[k - 1], Append(d, q[k]))]
  <2>1. g = y
    BY <1>7, Zenon DEF Undo
  <2>2. y[0] = s /\ y[1] = dentry_unlink(g[1 - 1], Append(d, q[1])) /\ y[2] = dentry_unlink(g[2 - 1], Append(d, q[2]))
    BY <1>0, Zenon
  <2> HIDE DEF y
  <2> QED BY <2>1, <2>2, Zenon
<1>10. g[2] = b
  <2>1. g[1] = a
    BY <1>0, <1>9, Zenon DEF a
  <2> QED BY <1>0, <1>9, <2>1, Zenon DEF b
<1>11. g[Len(q)] = b
  BY <1>10, Zenon
<1> QED
  BY <1>8, <1>11, Zenon DEF a, b

-----------------------------------------------------------------------------
(* The calls *)

\* A new inode and its name: the name leads to the inode, or there is neither.
LEMMA NewNameKeeps ==
    ASSUME Library, NEW C, NEW T, NEW s, Good(C, T, {}, s), ~s.lost, s.err = "ok",
           NEW path, Trail(path), s.at = Up(path), Up(path) \in DOMAIN s.dent,
           NEW mode \in {"dir", "file"}, mode = "file" => path \in FilePaths
    PROVE  Entry(C, T, s, path, mode, new_name(s, path, mode))
<1> DEFINE d == Up(path)
           n == Leaf(path)
           a == inode_create(s, mode)
           i == a.ino
           t == dentry_link(a, d, n, i)
<1>1. Made(C, T, s, mode, a)
  BY InodeCreate, Zenon
<1>2. new_name(s, path, mode) = IF a.ino = 0 THEN Fail(a, "ENOSPC")
                                ELSE LET l == dentry_link(a, a.at, Leaf(path), a.ino)
                                     IN  IF l.err # "ok" THEN inode_destroy(l, l.ino) ELSE l
  BY Zenon DEF new_name
<1> HIDE DEF a
<1>3. a.dent = s.dent /\ a.at = d /\ a.err = "ok" /\ ~a.lost
  BY <1>1, Zenon DEF Made
<1>4. new_name(s, path, mode) = IF a.ino = 0 THEN Fail(a, "ENOSPC")
                                ELSE IF t.err # "ok" THEN inode_destroy(t, t.ino) ELSE t
  BY <1>2, <1>3, Zenon
<1>5. /\ Way(d) /\ n \in Text /\ n \notin Dots /\ path = Append(d, n) /\ d \notin FilePaths
      /\ Plain(d) /\ d \in Seq(Text)
  BY WayPlain, Zenon DEF Trail
<1>6. Kept(s, a)
  BY <1>3, Zenon DEF Kept
<1>7. 0 \notin Inodes
  BY DEF Inodes
<1> HIDE DEF t, d, n, i
<1>8. CASE a.ino = 0
  <2>1. Good(C, T, {}, a)
    BY <1>1, <1>7, <1>8, Zenon DEF Made
  <2> DEFINE X == {}
  <2> HIDE DEF X
  <2>2. Good(C, T, X, Fail(a, "ENOSPC")) /\ Failed(a, "ENOSPC", Fail(a, "ENOSPC")) /\ Kept(a, Fail(a, "ENOSPC"))
    BY <2>1, FailGood, Zenon DEF X
  <2>3. Kept(s, Fail(a, "ENOSPC")) /\ Fail(a, "ENOSPC").err # "ok"
    BY <1>6, <2>2, KeptAgain, Zenon DEF Failed
  <2> QED BY <1>4, <1>8, <2>2, <2>3, Zenon DEF Entry, X
<1>9. CASE a.ino # 0
  <2>1. /\ i \in Inodes /\ Good(C, T, {i}, a) /\ \A q \in DOMAIN T : T[q] # i
        /\ a.disk[i].mode = mode /\ a.disk[i].slots = <<>>
    BY <1>1, <1>9, Zenon DEF Made, i
  <2>2. a.disk[i].mode # "free" /\ (a.disk[i].mode = "file" => Append(d, n) \in FilePaths)
    BY <1>5, <2>1
  <2>3. d \in DOMAIN a.dent
    BY <1>3, Zenon DEF d
  <2>4. LinkedName(C, T, a, d, n, i, t)
    BY <1>3, <1>5, <2>1, <2>2, <2>3, LinkName, Zenon DEF t
  <2>5. new_name(s, path, mode) = IF t.err # "ok" THEN inode_destroy(t, t.ino) ELSE t
    BY <1>4, <1>9, Zenon
  <2>6. CASE Refused(a, d, n, t) /\ Good(C, T, {i}, t)
    <3>1. t.err # "ok" /\ t.ino = i /\ Kept(a, t)
      BY <2>6, Zenon DEF Refused, i, Grown, Kept
    <3> DEFINE u == inode_destroy(t, i)
               X == {}
    <3>2. Good(C, T, {}, u) /\ \E K : Wrote(t, K, u)
      BY <2>1, <2>6, InodeDestroy, Zenon
    <3>3. new_name(s, path, mode) = u
      BY <2>5, <3>1, Zenon
    <3> HIDE DEF u
    <3>4. u.err = t.err /\ Kept(t, u)
      BY <3>2, Zenon DEF Wrote, Kept
    <3>5. Kept(a, u)
      BY <3>1, <3>4, KeptAgain, Zenon
    <3>6. Kept(s, u)
      BY <1>6, <3>5, KeptAgain, Zenon
    <3> QED BY <3>1, <3>2, <3>3, <3>4, <3>6, Zenon DEF Entry
  <2>7. ASSUME NEW r, Linking(a, d, n, i, r, t), Good(C, Joined(T, Append(d, n), i), {}, t)
        PROVE  Entry(C, T, s, path, mode, new_name(s, path, mode))
    <3>1. t.err = "ok" /\ t.ino = i /\ n \notin LongNames
      BY <1>3, <2>7, Zenon DEF Linking, i
    <3>2. NewName(a, d, n, i, r, t)
      BY <1>5, <2>1, <2>3, <2>7, LinkForm, Zenon DEF Good
    <3>3. /\ Kept(a, t) /\ path \in DOMAIN t.dent /\ t.dent[path] = NewDentry(i)
          /\ t.disk[i].mode = mode /\ (i # a.dent[d].inode => t.disk[i].slots = <<>>)
      BY <1>5, <2>1, <3>2, Zenon DEF NewName
    <3>4. i # a.dent[d].inode
      <4>1. Mem(T, a.dent, a.disk)
        BY <1>3, <2>1, Zenon DEF Good
      <4> QED BY <1>5, <2>1, <2>3, <4>1, Zenon DEF Mem
    <3>5. Live(t.disk, i) = {}
      BY <3>3, <3>4, NoSlots, Zenon
    <3>6. Kept(s, t)
      BY <1>6, <3>3, KeptAgain, Zenon
    <3>7. new_name(s, path, mode) = t
      BY <2>5, <3>1, Zenon
    <3>8. Good(C, Joined(T, path, t.ino), {}, t)
      BY <1>5, <2>7, <3>1, Zenon
    <3> QED BY <2>1, <3>1, <3>3, <3>5, <3>6, <3>7, <3>8, Zenon DEF Entry, n
  <2> QED BY <2>4, <2>6, <2>7, Zenon DEF LinkedName
<1> QED
  BY <1>8, <1>9, Zenon

\* fs_create.
LEMMA CreateKeeps ==
    ASSUME Library, NEW C, NEW T, NEW s, Good(C, T, {}, s), ~s.lost, s.err = "ok",
           NEW path \in FilePaths, NEW excl \in BOOLEAN
    PROVE  Grew(C, s, fs_create(s, path, excl))
<1> DEFINE t == dentry_lookup(s, path)
           u == dentry_lookup(t, Up(path))
           v == new_name(u, path, "file")
<1>1. path \in Paths
  BY Zenon DEF Paths
<1>2. Trail(path)
  BY <1>1, PathWay, Zenon
<1>3. Way(path) /\ Way(Up(path)) /\ Up(path) \in Seq(Text)
  BY <1>2, Zenon DEF Trail, Way
<1>4. LookedUp(C, T, {}, s, path, t)
  BY <1>3, FoundGrew, Zenon
<1>5. fs_create(s, path, excl) =
        IF path \in LongPaths THEN Fail(s, "ENAMETOOLONG")
        ELSE IF t.at = NULL THEN IF u.at = NULL THEN Fail(u, "EEXIST") ELSE v
        ELSE IF excl THEN Fail(t, "EEXIST") ELSE t
  <2>1. CASE excl
    BY <2>1, Zenon DEF fs_create
  <2>2. CASE ~excl
    BY <2>2, Zenon DEF fs_create
  <2> QED BY <2>1, <2>2, Zenon
<1> HIDE DEF t
<1>6. Good(C, T, {}, t) /\ Kept(s, t) /\ ~t.lost /\ t.err = "ok"
  BY <1>4, Zenon DEF LookedUp
<1>7. LookedUp(C, T, {}, t, Up(path), u)
  BY <1>3, <1>6, FoundGrew, Zenon
<1> HIDE DEF u
<1>8. Good(C, T, {}, u) /\ Kept(t, u) /\ ~u.lost /\ u.err = "ok" /\ Found(t, Up(path), u)
  BY <1>6, <1>7, Zenon DEF LookedUp
<1>9. Kept(s, u)
  BY <1>6, <1>8, KeptAgain, Zenon
<1>10. Grew(C, s, Fail(s, "ENAMETOOLONG")) /\ Grew(C, s, Fail(t, "EEXIST")) /\ Grew(C, s, Fail(u, "EEXIST"))
  BY <1>6, <1>8, <1>9, KeptSame, FailGrew, Zenon
<1>11. Grew(C, s, t)
  BY <1>6, Zenon DEF Grew
<1>12. u.at # NULL => Grew(C, s, v)
  <2> SUFFICES ASSUME u.at # NULL PROVE Grew(C, s, v)
    OBVIOUS
  <2>1. u.at = Up(path) /\ Up(path) \in DOMAIN u.dent
    BY <1>8, Zenon DEF Found
  <2>2. Entry(C, T, u, path, "file", v)
    BY <1>2, <1>8, <2>1, NewNameKeeps, Zenon
  <2> HIDE DEF v
  <2>3. Kept(u, v) /\ \E U : Good(C, U, {}, v)
    BY <2>2, Zenon DEF Entry
  <2>4. Kept(s, v)
    BY <1>9, <2>3, KeptAgain, Zenon
  <2> QED BY <2>3, <2>4, Zenon DEF Grew
<1> QED
  BY <1>5, <1>10, <1>11, <1>12, Zenon

\* fs_unlink.
LEMMA UnlinkKeeps ==
    ASSUME Library, NEW C, NEW T, NEW s, Good(C, T, {}, s), ~s.lost, s.err = "ok", NEW path \in FilePaths
    PROVE  Ends(C, s, fs_unlink(s, path))
<1> DEFINE t == dentry_lookup(s, path)
           i == t.dent[path].inode
           u == dentry_unlink(t, path)
<1>1. path \in Paths
  BY Zenon DEF Paths
<1>2. Trail(path)
  BY <1>1, PathWay, Zenon
<1>3. Way(path) /\ path \in Seq(Text) /\ path # ROOT /\ Plain(path) /\ path # NULL
  BY <1>2, WayPlain, Zenon DEF Trail
<1>4. LookedUp(C, T, {}, s, path, t)
  BY <1>3, FoundGrew, Zenon
<1>5. fs_unlink(s, path) =
        IF path \in LongPaths THEN Fail(s, "ENAMETOOLONG")
        ELSE IF t.at = NULL THEN Fail(t, "ENOENT")
        ELSE IF t.disk[t.dent[t.at].inode].mode = "dir" THEN Fail(t, "EISDIR")
        ELSE IF dentry_unlink(t, t.at).err = "ok" /\ dentry_unlink(t, t.at).disk[t.dent[t.at].inode].nlinks = 0
             THEN inode_destroy(dentry_unlink(t, t.at), t.dent[t.at].inode) ELSE dentry_unlink(t, t.at)
  BY Zenon DEF fs_unlink
<1> HIDE DEF t
<1>6. Good(C, T, {}, t) /\ Kept(s, t) /\ ~t.lost /\ t.err = "ok" /\ Found(s, path, t)
  BY <1>4, Zenon DEF LookedUp
<1>7. Ends(C, s, Fail(s, "ENAMETOOLONG")) /\ Ends(C, s, Fail(t, "ENOENT")) /\ Ends(C, s, Fail(t, "EISDIR"))
  BY <1>6, KeptSame, FailGrew, GrewEnds, Zenon
<1>8. ASSUME t.at # NULL, t.disk[i].mode # "dir", path \notin LongPaths
      PROVE  Ends(C, s, fs_unlink(s, path))
  <2>1. t.at = path /\ path \in DOMAIN t.dent /\ t.dent[path].load
    BY <1>6, <1>8, Zenon DEF Found
  <2>2. fs_unlink(s, path) = IF u.err = "ok" /\ u.disk[i].nlinks = 0 THEN inode_destroy(u, i) ELSE u
    BY <1>5, <1>8, <2>1, Zenon
  <2>3. Shape(t.dent) /\ Mem(T, t.dent, t.disk) /\ Vol(T, t.disk) /\ t.disk \in Volume
    BY <1>6, Zenon DEF Good, Formed, Sane
  <2>4. path \in DOMAIN T /\ T[path] = i
    BY <1>3, <2>1, <2>3, Zenon DEF Mem
  <2>5. i \in Inodes
    BY <2>1, <2>3, ChildNames, Zenon
  <2>6. Live(t.disk, i) = {}
    <3>1. t.disk[T[path]].mode # "free" /\ (t.disk[T[path]].mode = "file" => Live(t.disk, T[path]) = {})
      BY <2>3, <2>4, Zenon DEF Vol, Modes
    <3>2. t.disk[i].mode = "free" \/ t.disk[i].mode = "dir" \/ t.disk[i].mode = "file"
      BY <2>3, <2>5, OneInode, Zenon
    <3> QED BY <1>8, <2>4, <3>1, <3>2, Zenon
  <2>7. t.dent[path].children = <<>>
    BY <2>1, <2>3, <2>6, NoEntries, Zenon
  <2> DEFINE p == Up(path)
             n == Leaf(path)
  <2>8. HasParent(t.dent, path)
    BY <1>3, <2>1, <2>3, ParentLoaded, Zenon
  <2>9. p \in DOMAIN t.dent /\ t.dent[p].load /\ n \in Text /\ n \notin Dots /\ path = Append(p, n)
    BY <1>2, <2>8, Zenon DEF HasParent, Trail
  <2> HIDE DEF p, n
  <2>10. UnlinkedName(C, T, t, p, n, u)
    <3>1. UnlinkedName(C, T, t, p, n, dentry_unlink(t, Append(p, n)))
      BY <1>6, <2>1, <2>6, <2>7, <2>9, UnlinkName, Zenon
    <3> QED BY <2>9, <3>1, Zenon
  <2> DEFINE U == Cut(T, path)
  <2>11. Gone(t, p, n, u) /\ Good(C, U, {i}, u) /\ \A q \in DOMAIN U : U[q] # i
    BY <2>9, <2>10, Zenon DEF UnlinkedName
  <2> HIDE DEF u, U, i
  <2>12. u.err = "ok" /\ ~u.lost /\ Survive(t, u)
    BY <1>6, <2>11, GoneSurvive, Zenon DEF Gone
  <2>13. Survive(s, u)
    BY <1>6, <2>12, KeptSurvive, Zenon
  <2>14. CASE u.disk[i].nlinks = 0
    <3> DEFINE v == inode_destroy(u, i)
    <3>1. Good(C, U, {}, v) /\ \E K : Wrote(u, K, v)
      BY <2>5, <2>11, InodeDestroy, Zenon
    <3>2. fs_unlink(s, path) = v
      BY <2>2, <2>12, <2>14, Zenon
    <3> HIDE DEF v
    <3>3. v.dent = u.dent
      BY <3>1, Zenon DEF Wrote
    <3>4. Survive(s, v)
      BY <2>13, <3>3, Zenon DEF Survive
    <3> QED BY <3>1, <3>2, <3>4, Zenon DEF Ends
  <2>15. CASE u.disk[i].nlinks # 0
    <3>1. Good(C, U, {}, u)
      BY <2>5, <2>11, <2>12, <2>15, NoLinks, Zenon
    <3>2. fs_unlink(s, path) = u
      BY <2>2, <2>15, Zenon
    <3> QED BY <2>13, <3>1, <3>2, Zenon DEF Ends
  <2> QED BY <2>14, <2>15, Zenon
<1>9. t.at # NULL => t.at = path
  BY <1>6, Zenon DEF Found
<1> QED
  BY <1>5, <1>7, <1>8, <1>9, Zenon

\* remove_dentry_and_children and inode_destroy, of a directory with nothing in it.
LEMMA RemoveKeeps ==
    ASSUME Library,
           NEW C, NEW T, NEW s, Good(C, T, {}, s), ~s.lost, NEW d, Trail(d), d \in DOMAIN s.dent, s.dent[d].load,
           NEW c, c = s.dent[d].children, TwoDots(c)
    PROVE  Ends(C, s, inode_destroy(remove_dentry_and_children(s, d), s.dent[d].inode))
<1> DEFINE i == s.dent[d].inode
           a == dentry_unlink(dentry_unlink(s, Append(d, c[1])), Append(d, c[2]))
           u == dentry_unlink(a, d)
           v == Fail(u, s.err)
           w == inode_destroy(v, i)
<1>1. d # ROOT /\ Leaf(d) \notin Dots
  BY Zenon DEF Trail
<1>2. Emptied(C, T, s, d, a)
  BY <1>1, EmptyDots, Zenon
<1>3. remove_dentry_and_children(s, d) = v
  <2>1. Len(c) = 2
    BY Zenon DEF TwoDots
  <2> QED BY <2>1, RemoveTwo, Zenon DEF Fail
<1> HIDE DEF a
<1>4. /\ Good(C, T, {}, a) /\ Survive(s, a) /\ ~a.lost
      /\ d \in DOMAIN a.dent /\ a.dent[d].load /\ a.dent[d].children = <<>>
      /\ a.dent[d].inode = i /\ DOMAIN a.dent \subseteq DOMAIN s.dent
  BY <1>2, Zenon DEF Emptied
<1>5. Shape(a.dent) /\ Mem(T, a.dent, a.disk)
  BY <1>4, Zenon DEF Good, Formed
<1>6. Live(a.disk, a.dent[d].inode) = {}
  BY <1>4, <1>5, NoEntries, Zenon
<1> DEFINE p == Up(d)
           n == Leaf(d)
<1>7. HasParent(a.dent, d)
  BY <1>1, <1>4, <1>5, ParentLoaded, Zenon
<1>8. p \in DOMAIN a.dent /\ a.dent[p].load /\ n \in Text /\ n \notin Dots /\ d = Append(p, n)
  BY <1>1, <1>7, Zenon DEF HasParent
<1> HIDE DEF p, n
<1>9. UnlinkedName(C, T, a, p, n, u)
  <2>1. UnlinkedName(C, T, a, p, n, dentry_unlink(a, Append(p, n)))
    BY <1>4, <1>6, <1>8, UnlinkName, Zenon
  <2> QED BY <1>8, <2>1, Zenon
<1> DEFINE U == Cut(T, d)
           X == {i}
<1>10. i \in Inodes /\ Gone(a, p, n, u) /\ Good(C, U, X, u) /\ \A q \in DOMAIN U : U[q] # i
  BY <1>4, <1>8, <1>9, Zenon DEF UnlinkedName
<1> HIDE DEF u, U, X, i
<1>11. Survive(a, u) /\ DOMAIN u.dent \subseteq DOMAIN a.dent
  <2>1. Survive(a, u)
    BY <1>10, GoneSurvive, Zenon
  <2>2. Removed(a.dent, p, n, u.dent)
    BY <1>10, Zenon DEF Gone
  <2>3. DOMAIN u.dent = DOMAIN a.dent \ {Append(p, n)}
    BY <2>2, Zenon DEF Removed
  <2> QED BY <2>1, <2>3, Zenon
<1>12. Survive(s, u)
  BY <1>4, <1>11, Zenon DEF Survive
<1>13. Good(C, U, X, v) /\ Failed(u, s.err, v)
  BY <1>10, FailGood, Zenon
<1> HIDE DEF v
<1>14. Good(C, U, {}, w) /\ \E K : Wrote(v, K, w)
  <2>1. Good(C, U, {i}, v)
    BY <1>13, Zenon DEF X
  <2> QED BY <1>10, <2>1, InodeDestroy, Zenon
<1> HIDE DEF w
<1>15. w.dent = u.dent
  BY <1>13, <1>14, Zenon DEF Wrote, Failed
<1>16. Survive(s, w)
  BY <1>12, <1>15, Zenon DEF Survive
<1>17. Ends(C, s, w)
  BY <1>14, <1>16, Zenon DEF Ends
<1> QED
  BY <1>3, <1>17, Zenon DEF w, i

\* fs_rmdir.
LEMMA RmdirKeeps ==
    ASSUME Library, NEW C, NEW T, NEW s, Good(C, T, {}, s), ~s.lost, s.err = "ok", NEW path \in DirPaths
    PROVE  Ends(C, s, fs_rmdir(s, path))
<1> DEFINE t == dentry_lookup(s, path)
           i == t.dent[t.at].inode
           c == t.dent[t.at].children
<1>1. path \in Paths
  BY Zenon DEF Paths
<1>2. Trail(path)
  BY <1>1, PathWay, Zenon
<1>3. Way(path)
  BY <1>2, Zenon DEF Trail
<1>4. LookedUp(C, T, {}, s, path, t)
  BY <1>3, FoundGrew, Zenon
<1>5. fs_rmdir(s, path) =
        IF path \in LongPaths THEN Fail(s, "ENAMETOOLONG")
        ELSE IF t.at = NULL THEN Fail(t, "ENOENT")
        ELSE IF t.disk[i].mode # "dir" THEN Fail(t, "ENOTDIR")
        ELSE IF t.dent[t.at].nentries # 2 THEN Fail(t, "ENOTEMPTY")
        ELSE IF Range(c) \ {".", ".."} # {} THEN Fail(t, "EINVAL")
        ELSE inode_destroy(remove_dentry_and_children(t, t.at), i)
  <2>1. CASE t.disk[i].mode # "dir"
    BY <2>1, Zenon DEF fs_rmdir
  <2>2. CASE t.disk[i].mode = "dir" /\ t.dent[t.at].nentries # 2
    BY <2>2, Zenon DEF fs_rmdir
  <2>3. CASE t.disk[i].mode = "dir" /\ t.dent[t.at].nentries = 2
    BY <2>3, Zenon DEF fs_rmdir
  <2> QED BY <2>1, <2>2, <2>3, Zenon
<1> HIDE DEF t
<1>6. Good(C, T, {}, t) /\ Kept(s, t) /\ ~t.lost /\ t.err = "ok" /\ Found(s, path, t)
  BY <1>4, Zenon DEF LookedUp
<1>7. /\ Ends(C, s, Fail(s, "ENAMETOOLONG")) /\ Ends(C, s, Fail(t, "ENOENT")) /\ Ends(C, s, Fail(t, "ENOTDIR"))
      /\ Ends(C, s, Fail(t, "ENOTEMPTY")) /\ Ends(C, s, Fail(t, "EINVAL"))
  BY <1>6, KeptSame, FailGrew, GrewEnds, Zenon
<1>8. ASSUME t.at # NULL, t.dent[t.at].nentries = 2, Range(c) \ {".", ".."} = {}
      PROVE  Ends(C, s, inode_destroy(remove_dentry_and_children(t, t.at), i))
  <2>1. t.at = path /\ path \in DOMAIN t.dent /\ t.dent[path].load
    BY <1>6, <1>8, Zenon DEF Found
  <2>2. Shape(t.dent) /\ Mem(T, t.dent, t.disk)
    BY <1>6, Zenon DEF Good, Formed
  <2>3. c \in Seq(Text)
    BY <2>1, <2>2, ChildNames, Zenon
  <2>4. Inj(c) /\ Len(c) = 2
    BY <1>8, <2>1, <2>2, Zenon DEF Mem, Matches
  <2>5. c = t.dent[path].children /\ i = t.dent[path].inode
    BY <2>1, Zenon
  <2> HIDE DEF c, i
  <2>6. TwoDots(c)
    BY <1>8, <2>3, <2>4, DotsOnly, Zenon
  <2>7. Ends(C, t, inode_destroy(remove_dentry_and_children(t, path), t.dent[path].inode))
    BY <1>2, <1>6, <2>1, <2>5, <2>6, RemoveKeeps, Zenon
  <2> DEFINE w == inode_destroy(remove_dentry_and_children(t, path), t.dent[path].inode)
  <2> HIDE DEF w
  <2>8. Survive(t, w) /\ \E U : Good(C, U, {}, w)
    BY <2>7, Zenon DEF Ends, w
  <2>9. Survive(s, w)
    BY <1>6, <2>8, KeptSurvive, Zenon
  <2>10. Ends(C, s, w)
    BY <2>8, <2>9, Zenon DEF Ends
  <2> QED BY <2>1, <2>5, <2>10, Zenon DEF w
<1> QED
  BY <1>5, <1>7, <1>8, Zenon

\* The dots of a new directory are never refused, so mkdir has nothing to undo.
LEMMA DotsKeep ==
    ASSUME Library, NEW C, NEW T, NEW s, Good(C, T, {}, s), s.err = "ok",
           NEW path, Trail(path), s.at = path, path \in DOMAIN s.dent, Up(path) \in DOMAIN s.dent,
           s.dent[path].load, s.dent[path].children = <<>>,
           s.ino \in Inodes, s.dent[path].inode = s.ino, s.disk[s.ino].mode = "dir"
    PROVE  Grew(C, s, add_dots(s))
<1> DEFINE i == s.ino
           n == "."
           m == ".."
           t == dentry_link(s, path, n, i)
           j == t.dent[Up(path)].inode
           v == dentry_link(t, path, m, j)
           X == {}
<1>1. n \in Text /\ m \in Text /\ n \in Dots /\ m \in Dots /\ n # m /\ n \notin LongNames /\ m \notin LongNames
  <2>1. n \notin LongNames /\ m \notin LongNames
    BY DentryAssumption, Zenon
  <2>2. n # m
    OBVIOUS
  <2> QED BY <2>1, <2>2, Zenon DEF Text, Dots
<1>2. /\ path \in Seq(Text) /\ Plain(path) /\ Plain(Up(path)) /\ Leaf(path) \in Text
      /\ path = Append(Up(path), Leaf(path))
  BY WayPlain, Zenon DEF Trail
<1>3. Formed(s) /\ Shape(s.dent) /\ Good(C, T, X, s)
  BY Zenon DEF Good, Formed
<1>4. add_dots(s) = LET undone(b) == inode_destroy(remove_dentry_and_children(b, b.at), b.ino)
                        w == dentry_link(t, t.at, "..", t.dent[Up(t.at)].inode)
                    IN  IF t.err # "ok" THEN undone(t) ELSE IF w.err # "ok" THEN undone(w) ELSE w
  BY Zenon DEF add_dots
<1> HIDE DEF X
<1>5. ~s.lost => Leads(T, path, n, i)
  <2> SUFFICES ASSUME ~s.lost PROVE Leads(T, path, n, i)
    OBVIOUS
  <2>1. Mem(T, s.dent, s.disk)
    BY Zenon DEF Good
  <2>2. T[path] = i
    BY <1>2, <2>1, Zenon DEF Mem
  <2> QED BY <2>2, Zenon DEF Leads
<1> HIDE DEF n, m
<1>6. LinkedDot(C, T, X, s, path, n, i, t)
  BY <1>1, <1>2, <1>3, <1>5, LinkDot, Zenon
<1> HIDE DEF t, i
<1>7. ~Refused(s, path, n, t)
  <2>1. Append(path, n) \notin DOMAIN s.dent
    BY <1>1, <1>3, NoChildYet, Zenon
  <2> QED BY <1>1, <2>1, NotRefused, Zenon
<1>8. PICK r : Linking(s, path, n, i, r, t) /\ Good(C, T, X, t)
  BY <1>6, <1>7, Zenon DEF LinkedDot
<1>9. NewName(s, path, n, i, r, t)
  BY <1>1, <1>3, <1>8, LinkForm, Zenon DEF i
<1>10. /\ Formed(t) /\ Shape(t.dent) /\ Kept(s, t) /\ t.dent[path].load
       /\ t.disk[i].mode = "dir"
  BY <1>9, Zenon DEF NewName, Formed, i
<1>11. /\ path \in DOMAIN t.dent /\ Up(path) \in DOMAIN t.dent
       /\ t.dent[path].inode = i
  BY <1>10, Zenon DEF Kept, i
<1>12. t.at = path /\ t.err = "ok" /\ r.dent = s.dent
  BY <1>8, Zenon DEF Linking
<1>13. Append(path, m) \notin DOMAIN t.dent
  <2>1. PICK a : Added(r, path, n, i, a) /\ t.dent = a.dent
    BY <1>8, Zenon DEF Linking
  <2>2. DOMAIN t.dent = DOMAIN s.dent \cup {Append(path, n)}
    BY <1>12, <2>1, Zenon DEF Added
  <2>3. Append(path, m) \notin DOMAIN s.dent
    BY <1>1, <1>3, NoChildYet, Zenon
  <2>4. Leaf(Append(path, n)) = n /\ Leaf(Append(path, m)) = m
    BY <1>1, <1>2, Child, Zenon
  <2> QED BY <1>1, <2>2, <2>3, <2>4, Zenon
<1>14. j \in Inodes
  BY <1>10, <1>11, ChildNames, Zenon
<1>15. ~t.lost => Leads(T, path, m, j)
  <2> SUFFICES ASSUME ~t.lost PROVE Leads(T, path, m, j)
    OBVIOUS
  <2>1. Mem(T, t.dent, t.disk)
    BY <1>8, Zenon DEF Good
  <2>2. Up(path) \in DOMAIN T /\ T[Up(path)] = j
    BY <1>2, <1>11, <2>1, Zenon DEF Mem
  <2> QED BY <1>2, <2>2, Zenon DEF Leads, m
<1> HIDE DEF j
<1>16. LinkedDot(C, T, X, t, path, m, j, v)
  <2>1. t.disk[t.dent[path].inode].mode = "dir"
    BY <1>10, <1>11, Zenon
  <2> QED BY <1>1, <1>2, <1>8, <1>11, <1>14, <1>15, <2>1, LinkDot, Zenon
<1>17. add_dots(s) = IF v.err # "ok" THEN inode_destroy(remove_dentry_and_children(v, v.at), v.ino) ELSE v
  BY <1>4, <1>12, Zenon DEF v, j, m
<1> HIDE DEF v
<1>18. ~Refused(t, path, m, v)
  BY <1>1, <1>10, <1>13, NotRefused, Zenon
<1>19. PICK z : Linking(t, path, m, j, z, v) /\ Good(C, T, X, v)
  BY <1>16, <1>18, Zenon DEF LinkedDot
<1>20. NewName(t, path, m, j, z, v)
  BY <1>1, <1>10, <1>11, <1>14, <1>19, LinkForm, Zenon
<1>21. v.err = "ok" /\ Kept(t, v)
  BY <1>12, <1>19, <1>20, Zenon DEF Linking, NewName
<1>22. Kept(s, v)
  BY <1>10, <1>21, KeptAgain, Zenon
<1> QED
  BY <1>17, <1>19, <1>21, <1>22, Zenon DEF Grew, X

\* fs_mkdir, from the directory that is to have the new one.
LEMMA MkdirIn ==
    ASSUME Library, NEW C, NEW T, NEW s, Good(C, T, {}, s), ~s.lost, s.err = "ok",
           NEW path, Trail(path), path \notin LongPaths, Short(Up(path)), s.at = Up(path), Up(path) \in DOMAIN s.dent,
           NEW v, v = new_name(s, path, "dir"), NEW w, w = dentry_lookup(v, path)
    PROVE  Grew(C, s, IF v.err # "ok" THEN v
                      ELSE IF w.at = NULL THEN inode_destroy(w, w.ino) ELSE add_dots(w))
<1>1. Entry(C, T, s, path, "dir", v)
  BY NewNameKeeps, Zenon
<1>2. CASE v.err # "ok"
  BY <1>1, <1>2, Zenon DEF Entry, Grew
<1>3. CASE v.err = "ok"
  <2> DEFINE i == v.ino
             U == Joined(T, path, i)
  <2>1. /\ Kept(s, v) /\ i \in Inodes /\ Good(C, U, {}, v) /\ path \in DOMAIN v.dent
        /\ v.dent[path] = NewDentry(i) /\ Leaf(path) \notin LongNames
        /\ v.disk[i].mode = "dir" /\ Live(v.disk, i) = {}
    BY <1>1, <1>3, Zenon DEF Entry
  <2> HIDE DEF U, i
  <2>2. v.dent[path].inode = i /\ v.dent[path].children = <<>>
    BY <2>1, NewNode, Zenon
  <2>3. Short(path)
    BY <2>1, ShortPath, Zenon
  <2>4. Way(path) /\ path # NULL
    BY WayPlain, Zenon DEF Trail
  <2>5. LookedUp(C, U, {}, v, path, w)
    BY <2>1, <2>4, FoundGrew, Zenon
  <2>6. /\ Good(C, U, {}, w) /\ Kept(v, w) /\ Found(v, path, w)
        /\ w.disk = v.disk /\ w.ino = i /\ w.err = "ok"
    BY <1>3, <2>5, Zenon DEF LookedUp, i
  <2>7. w.at = path /\ path \in DOMAIN w.dent /\ w.dent[path].load /\ Grown(v, w)
    BY <2>1, <2>3, <2>4, <2>6, Zenon DEF Found, Onward
  <2>8. w.dent[path].inode = i /\ w.dent[path].children = <<>>
    BY <2>1, <2>2, <2>7, Zenon DEF Grown
  <2>9. Kept(s, w)
    BY <2>1, <2>6, KeptAgain, Zenon
  <2>10. Up(path) \in DOMAIN w.dent
    BY <2>9, Zenon DEF Kept
  <2>11. Grew(C, w, add_dots(w))
    BY <2>1, <2>6, <2>7, <2>8, <2>10, DotsKeep, Zenon
  <2> DEFINE x == add_dots(w)
  <2> HIDE DEF x
  <2>12. Grew(C, s, x)
    <3>1. Kept(w, x) /\ \E Y : Good(C, Y, {}, x)
      BY <2>11, Zenon DEF Grew, x
    <3>2. Kept(s, x)
      BY <2>9, <3>1, KeptAgain, Zenon
    <3> QED BY <3>1, <3>2, Zenon DEF Grew
  <2> QED BY <1>3, <2>4, <2>7, <2>12, Zenon DEF x
<1> QED
  BY <1>2, <1>3, Zenon

\* fs_mkdir.
LEMMA MkdirKeeps ==
    ASSUME Library, NEW C, NEW T, NEW s, Good(C, T, {}, s), ~s.lost, s.err = "ok", NEW path \in DirPaths
    PROVE  Grew(C, s, fs_mkdir(s, path))
<1> DEFINE t == dentry_lookup(s, path)
           u == dentry_lookup(t, Up(path))
           v == new_name(u, path, "dir")
           w == dentry_lookup(v, path)
           x == IF v.err # "ok" THEN v ELSE IF w.at = NULL THEN inode_destroy(w, w.ino) ELSE add_dots(w)
<1>1. path \in Paths
  BY Zenon DEF Paths
<1>2. Trail(path)
  BY <1>1, PathWay, Zenon
<1>3. Way(path) /\ Way(Up(path)) /\ Up(path) # NULL
  BY <1>2, WayPlain, Zenon DEF Trail
<1>4. LookedUp(C, T, {}, s, path, t)
  BY <1>3, FoundGrew, Zenon
<1>5. fs_mkdir(s, path) =
        IF path \in LongPaths THEN Fail(s, "ENAMETOOLONG")
        ELSE IF t.at # NULL THEN Fail(t, "EEXIST")
        ELSE IF u.at = NULL THEN Fail(u, "ENOENT") ELSE x
  BY Zenon DEF fs_mkdir
<1> HIDE DEF x, w, v
<1> HIDE DEF t
<1>6. Good(C, T, {}, t) /\ Kept(s, t) /\ ~t.lost /\ t.err = "ok"
  BY <1>4, Zenon DEF LookedUp
<1>7. LookedUp(C, T, {}, t, Up(path), u)
  BY <1>3, <1>6, FoundGrew, Zenon
<1> HIDE DEF u
<1>8. Good(C, T, {}, u) /\ Kept(t, u) /\ ~u.lost /\ u.err = "ok" /\ Found(t, Up(path), u)
  BY <1>6, <1>7, Zenon DEF LookedUp
<1>9. Kept(s, u)
  BY <1>6, <1>8, KeptAgain, Zenon
<1>10. Grew(C, s, Fail(s, "ENAMETOOLONG")) /\ Grew(C, s, Fail(t, "EEXIST")) /\ Grew(C, s, Fail(u, "ENOENT"))
  BY <1>6, <1>8, <1>9, KeptSame, FailGrew, Zenon
<1>11. ASSUME u.at # NULL, path \notin LongPaths
       PROVE  Grew(C, s, x)
  <2>1. u.at = Up(path) /\ Up(path) \in DOMAIN u.dent /\ Short(Up(path))
    BY <1>8, <1>11, Zenon DEF Found
  <2>2. v = new_name(u, path, "dir") /\ w = dentry_lookup(v, path)
    BY Zenon DEF v, w
  <2>3. Grew(C, u, IF v.err # "ok" THEN v ELSE IF w.at = NULL THEN inode_destroy(w, w.ino) ELSE add_dots(w))
    BY <1>2, <1>8, <1>11, <2>1, <2>2, MkdirIn, Zenon
  <2>4. Grew(C, u, x)
    BY <2>3, Zenon DEF x
  <2>5. Kept(u, x) /\ \E U : Good(C, U, {}, x)
    BY <2>4, Zenon DEF Grew
  <2>6. Kept(s, x)
    BY <1>9, <2>5, KeptAgain, Zenon
  <2> QED BY <2>5, <2>6, Zenon DEF Grew
<1> QED
  BY <1>5, <1>10, <1>11, Zenon

-----------------------------------------------------------------------------
(* The steps *)

\* The invariant says what the type invariant says.
LEMMA Types ==
    ASSUME IInv
    PROVE  TypeOK
<1>1. Shape(dent) /\ disk \in Volume /\ lost \in BOOLEAN /\ crashed \in BOOLEAN /\ files \in [1..FileNum -> OpenFile]
  BY Zenon DEF IInv, TreeIs, FilesAre
<1>2. DOMAIN dent \subseteq Seq(Text) /\ \A d \in DOMAIN dent : dent[d] \in Node
  BY <1>1, Zenon DEF Shape
<1> QED
  BY <1>1, <1>2, Zenon DEF TypeOK, Node, Volume, Slot, OpenFile

\* A call begins with a tree and a volume that agree.
LEMMA CallBegins ==
    ASSUME IInv, ~lost, NEW room \in Int
    PROVE  \E T : Begun(~crashed, T, Start(room))
<1> DEFINE s == Start(room)
<1>1. /\ DOMAIN s = Fields
      /\ s.dent = dent /\ s.disk = disk /\ s.ino = 0 /\ s.err = "ok" /\ s.room = room /\ s.lost = lost
      /\ s.trace = <<>>
  BY DEF Start, Fields
<1> HIDE DEF s
<1>2. PICK T : Sound(T, dent, disk, crashed)
  BY Zenon DEF IInv, TreeIs
<1>3. Sane(~crashed, T, {}, disk) /\ Mem(T, dent, disk)
  BY <1>2, Zenon DEF Sound
<1>4. Shape(dent) /\ disk \in Volume /\ lost \in BOOLEAN
  BY Zenon DEF IInv, TreeIs
<1>5. 0 \in 0..InodeNum /\ s.trace \in Seq(Volume) /\ 1..Len(s.trace) = {}
  <2>1. InodeNum \in Nat
    BY Bounds
  <2> QED BY <1>1, <2>1
<1>6. Formed(s)
  BY <1>1, <1>4, <1>5, Zenon DEF Formed
<1>7. Traced(s)
  BY <1>5, Zenon DEF Traced
<1>8. Good(~crashed, T, {}, s)
  BY <1>1, <1>3, <1>6, <1>7, Zenon DEF Good
<1>9. Begun(~crashed, T, s)
  BY <1>1, <1>8, Zenon DEF Begun
<1> QED
  BY <1>9, Zenon DEF s

\* Only the root is in memory after dentry_init, and it is not loaded.
LEMMA FreshTree ==
    ASSUME NEW T, NEW K, Vol(T, K)
    PROVE  Mem(T, Fresh, K)
<1>1. DOMAIN Fresh = {ROOT} /\ Fresh[ROOT] = NewDentry(1)
  BY Zenon DEF Fresh
<1>2. 1 \in Inodes
  BY Bounds DEF Inodes
<1>3. Fresh[ROOT].inode = 1 /\ Fresh[ROOT].load = FALSE
  BY <1>1, <1>2, NewNode, Zenon
<1>4. ROOT \in DOMAIN T /\ T[ROOT] = 1
  BY Zenon DEF Vol, Tree
<1> QED
  BY <1>1, <1>3, <1>4, Zenon DEF Mem

\* The root alone is a tree.
LEMMA FreshShape ==
    Shape(Fresh)
<1>1. DOMAIN Fresh = {ROOT} /\ Fresh[ROOT] = NewDentry(1)
  BY Zenon DEF Fresh
<1>2. 1 \in Inodes
  BY Bounds DEF Inodes
<1>3. /\ Fresh[ROOT] \in Node /\ Fresh[ROOT].load = FALSE /\ Fresh[ROOT].children = <<>>
      /\ Fresh[ROOT].nentries = 0
  BY <1>1, <1>2, NewNode, Zenon
<1>4. ROOT \in Seq(Text)
  BY DEF ROOT
<1>5. Range(Fresh[ROOT].children) = {}
  BY <1>3, EmptyRange, Zenon
<1> QED
  BY <1>1, <1>3, <1>4, <1>5, Zenon DEF Shape

\* The tree after a call that returned.
LEMMA ReturnTree ==
    ASSUME NEW c \in BOOLEAN, NEW T, NEW t, Good(~c, T, {}, t)
    PROVE  TreeIs(t.dent, t.disk, t.lost, c)
<1>1. Shape(t.dent) /\ t.disk \in Volume /\ t.lost \in BOOLEAN
  BY Zenon DEF Good, Formed
<1>2. ~t.lost => Sound(T, t.dent, t.disk, c)
  BY Zenon DEF Good, Sound
<1> QED
  BY <1>1, <1>2, Zenon DEF TreeIs

\* No file is open.
LEMMA NoFiles ==
    ASSUME NEW F, F = [f \in 1..FileNum |-> NoFile], NEW dn, NEW l
    PROVE  FilesAre(F, dn, l)
<1>1. 0 \in 0..InodeNum
  BY Bounds
<1>2. NoFile \in OpenFile
  BY <1>1, Zenon DEF NoFile, OpenFile
<1> HIDE DEF NoFile
<1>3. F \in [1..FileNum -> OpenFile] /\ \A f \in 1..FileNum : F[f] = NoFile
  BY <1>2, Zenon
<1> QED
  BY <1>3, Zenon DEF FilesAre, FileIs

\* The power fails: the volume is one the call wrote, and describes a tree.
LEMMA PowerKeeps ==
    ASSUME IInv, NEW T, NEW t, Good(~crashed, T, {}, t), PowerFails(t)
    PROVE  IInv'
<1>1. PICK k \in 1..(Len(t.trace) - 1) : disk' = t.trace[k]
  BY Zenon DEF PowerFails
<1>2. dent' = Fresh /\ files' = [f \in DOMAIN files |-> NoFile] /\ crashed' = TRUE /\ lost' = t.lost
  BY Zenon DEF PowerFails
<1>3. t.trace \in Seq(Volume) /\ t.lost \in BOOLEAN
  BY Zenon DEF Good, Formed
<1>4. k \in 1..Len(t.trace)
  BY <1>3
<1>5. disk' \in Volume
  BY <1>1, <1>3, <1>4, ElementIs, Zenon
<1>6. ~lost' => \E U : Sound(U, dent', disk', crashed')
  <2> SUFFICES ASSUME ~lost' PROVE \E U : Sound(U, dent', disk', crashed')
    OBVIOUS
  <2>1. Traced(t)
    BY <1>2, Zenon DEF Good
  <2>2. PICK U : Vol(U, disk')
    BY <1>1, <1>4, <2>1, Zenon DEF Traced
  <2>3. Mem(U, Fresh, disk')
    BY <2>2, FreshTree, Zenon
  <2>4. Sane(~crashed', U, {}, disk')
    BY <1>2, <2>2, Zenon DEF Sane
  <2> QED BY <1>2, <2>3, <2>4, Zenon DEF Sound
<1>7. TreeIs(dent', disk', lost', crashed')
  BY <1>2, <1>3, <1>5, <1>6, FreshShape, Zenon DEF TreeIs
<1>8. DOMAIN files = 1..FileNum
  BY Zenon DEF IInv, FilesAre
<1>9. FilesAre(files', dent', lost')
  BY <1>2, <1>8, NoFiles, Zenon
<1> QED
  BY <1>7, <1>9, Zenon DEF IInv

\* The open files after a call that may have removed names.
LEMMA StaleFiles ==
    ASSUME IInv, ~lost, NEW s, s.dent = dent, NEW t, Survive(s, t)
    PROVE  FilesAre(stale(t), t.dent, t.lost)
<1> DEFINE F == stale(t)
           old(f) == files[f] # NoFile /\ files[f].dentry \notin DOMAIN t.dent
<1>1. files \in [1..FileNum -> OpenFile] /\ \A f \in 1..FileNum : FileIs(files[f], dent, lost)
  BY Zenon DEF IInv, FilesAre
<1>2. F = [f \in 1..FileNum |-> IF old(f) THEN [files[f] EXCEPT !.gone = TRUE] ELSE files[f]]
  BY <1>1, Zenon DEF stale
<1> HIDE DEF F
<1>3. ASSUME NEW f \in 1..FileNum
      PROVE  F[f] \in OpenFile /\ FileIs(F[f], t.dent, t.lost)
  <2>1. files[f] \in OpenFile /\ FileIs(files[f], dent, lost)
    BY <1>1, Zenon
  <2>2. CASE old(f)
    <3> DEFINE x == files[f]
               r == [x EXCEPT !.gone = TRUE]
    <3>1. F[f] = r
      BY <1>2, <2>2, Zenon
    <3>2. r \in OpenFile /\ r.dentry = x.dentry /\ r.gone = TRUE
      BY <2>1, Zenon DEF OpenFile
    <3>3. x.dentry \in Paths
      BY <2>1, <2>2, Zenon DEF FileIs
    <3> HIDE DEF r, x
    <3> QED BY <3>1, <3>2, <3>3, Zenon DEF FileIs
  <2>3. CASE ~old(f)
    <3> DEFINE x == files[f]
    <3>1. F[f] = x
      BY <1>2, <2>3, Zenon
    <3>2. x # NoFile => x.dentry \in DOMAIN t.dent
      BY <2>3, Zenon
    <3>3. x # NoFile => x.dentry \in Paths /\ (~x.gone => x.dentry \in DOMAIN dent /\ dent[x.dentry].inode = x.inode)
      BY <2>1, Zenon DEF FileIs
    <3> HIDE DEF x
    <3>4. \A q \in DOMAIN dent \cap DOMAIN t.dent : t.dent[q].inode = dent[q].inode
      BY Zenon DEF Survive
    <3>5. FileIs(x, t.dent, t.lost)
      BY <3>2, <3>3, <3>4, Zenon DEF FileIs
    <3> QED BY <2>1, <3>1, <3>5, Zenon DEF x
  <2> QED BY <2>2, <2>3, Zenon
<1>4. F \in [1..FileNum -> OpenFile]
  <2>1. F = [f \in 1..FileNum |-> F[f]]
    BY <1>2, Zenon
  <2> QED BY <1>3, <2>1, Zenon
<1> QED
  BY <1>3, <1>4, Zenon DEF FilesAre, F

\* A call, returned from or cut short.
LEMMA CallKeeps ==
    ASSUME IInv, NEW s, s.dent = dent, NEW t, Ends(~crashed, s, t), Call(t)
    PROVE  IInv'
<1>1. ~lost /\ ((Return(t) /\ files' = stale(t)) \/ PowerFails(t))
  BY Zenon DEF Call, Bounded
<1>2. Survive(s, t)
  BY Zenon DEF Ends
<1>3. PICK T : Good(~crashed, T, {}, t)
  BY Zenon DEF Ends
<1>4. CASE Return(t) /\ files' = stale(t)
  <2>1. dent' = t.dent /\ disk' = t.disk /\ lost' = t.lost /\ crashed' = crashed
    BY <1>4, Zenon DEF Return
  <2>2. crashed \in BOOLEAN
    BY Zenon DEF IInv, TreeIs
  <2>3. TreeIs(t.dent, t.disk, t.lost, crashed)
    BY <1>3, <2>2, ReturnTree, Zenon
  <2>4. FilesAre(stale(t), t.dent, t.lost)
    BY <1>1, <1>2, StaleFiles, Zenon
  <2>5. TreeIs(dent', disk', lost', crashed')
    BY <2>1, <2>3, Zenon
  <2>6. FilesAre(files', dent', lost')
    BY <1>4, <2>1, <2>4, Zenon
  <2> QED BY <2>5, <2>6, Zenon DEF IInv
<1>5. CASE PowerFails(t)
  BY <1>3, <1>5, PowerKeeps, Zenon
<1> QED
  BY <1>1, <1>4, <1>5, Zenon

\* process_open has found the file.
LEMMA OpensKeeps ==
    ASSUME IInv, NEW s, s.dent = dent, NEW t, Grew(~crashed, s, t), NEW f \in 1..FileNum,
           t.at \in Paths, t.at \in DOMAIN t.dent, Opens(f, t)
    PROVE  IInv'
<1> DEFINE r == [dentry |-> t.at, inode |-> t.dent[t.at].inode, gone |-> FALSE]
           F == [files EXCEPT ![f] = r]
<1>1. ~lost /\ ((Return(t) /\ files' = F) \/ PowerFails(t))
  BY Zenon DEF Opens, Bounded
<1>2. Kept(s, t)
  BY Zenon DEF Grew
<1>3. PICK T : Good(~crashed, T, {}, t)
  BY Zenon DEF Grew
<1>4. CASE Return(t) /\ files' = F
  <2>1. dent' = t.dent /\ disk' = t.disk /\ lost' = t.lost /\ crashed' = crashed
    BY <1>4, Zenon DEF Return
  <2>2. crashed \in BOOLEAN
    BY Zenon DEF IInv, TreeIs
  <2>3. TreeIs(t.dent, t.disk, t.lost, crashed)
    BY <1>3, <2>2, ReturnTree, Zenon
  <2>4. t.dent[t.at].inode \in 0..InodeNum
    <3>1. t.dent[t.at].inode \in Inodes
      BY <1>3, ChildNames, Zenon DEF Good, Formed
    <3> QED BY <3>1, Bounds DEF Inodes
  <2>5. r \in OpenFile /\ r.dentry = t.at /\ r.inode = t.dent[t.at].inode
    BY <2>4, Zenon DEF OpenFile
  <2> HIDE DEF r
  <2>6. FileIs(r, t.dent, t.lost)
    BY <2>5, Zenon DEF FileIs
  <2>7. files \in [1..FileNum -> OpenFile] /\ \A g \in 1..FileNum : FileIs(files[g], dent, lost)
    BY Zenon DEF IInv, FilesAre
  <2>8. F \in [1..FileNum -> OpenFile] /\ F[f] = r /\ \A g \in 1..FileNum : g # f => F[g] = files[g]
    BY <2>5, <2>7, Zenon
  <2> HIDE DEF F
  <2>9. ASSUME NEW g \in 1..FileNum PROVE FileIs(F[g], t.dent, t.lost)
    <3>1. CASE g = f
      BY <2>6, <2>8, <3>1, Zenon
    <3>2. CASE g # f
      <4> DEFINE x == files[g]
      <4>1. F[g] = x /\ FileIs(x, dent, lost)
        BY <2>7, <2>8, <3>2, Zenon
      <4> HIDE DEF x
      <4>2. \A p \in DOMAIN dent : p \in DOMAIN t.dent /\ t.dent[p].inode = dent[p].inode
        BY <1>2, Zenon DEF Kept
      <4>3. FileIs(x, t.dent, t.lost)
        BY <1>1, <4>1, <4>2, Zenon DEF FileIs
      <4> QED BY <4>1, <4>3, Zenon
    <3> QED BY <3>1, <3>2, Zenon
  <2>10. FilesAre(F, t.dent, t.lost)
    BY <2>8, <2>9, Zenon DEF FilesAre
  <2>11. TreeIs(dent', disk', lost', crashed')
    BY <2>1, <2>3, Zenon
  <2>12. FilesAre(files', dent', lost')
    BY <1>4, <2>1, <2>10, Zenon
  <2> QED BY <2>11, <2>12, Zenon DEF IInv
<1>5. CASE PowerFails(t)
  BY <1>3, <1>5, PowerKeeps, Zenon
<1> QED
  BY <1>1, <1>4, <1>5, Zenon

\* process_open.
LEMMA OpenKeeps ==
    ASSUME Library,
           IInv, NEW f \in 1..FileNum, NEW path \in Paths, NEW flags, "creat" \in flags => path \in FilePaths,
           NEW room \in Int, process_open(f, path, flags, room)
    PROVE  IInv'
<1> DEFINE s == Start(room)
           excl == "excl" \in flags
           t == IF "creat" \in flags THEN fs_create(s, path, excl) ELSE s
           u == dentry_lookup(t, path)
           refused == u.at = NULL \/ ("write" \in flags /\ u.disk[u.dent[u.at].inode].mode = "dir")
<1>1. IF t.err # "ok" THEN Call(t) ELSE IF refused THEN Call(u) ELSE Opens(f, u)
  BY Zenon DEF process_open, Opens
<1> HIDE DEF refused
<1>2. (t.err # "ok" /\ Call(t)) \/ Call(u) \/ (~refused /\ Opens(f, u))
  BY <1>1, Zenon
<1>3. ~lost
  <2>1. (Call(t) => ~lost) /\ (Call(u) => ~lost) /\ (Opens(f, u) => ~lost)
    BY Zenon DEF Call, Opens, Bounded
  <2> QED BY <1>2, <2>1, Zenon
<1>4. PICK T : Begun(~crashed, T, s)
  BY <1>3, CallBegins, Zenon
<1>5. Good(~crashed, T, {}, s) /\ ~s.lost /\ s.err = "ok" /\ s.dent = dent
  BY <1>4, Zenon DEF Begun
<1> HIDE DEF s
<1>6. Grew(~crashed, s, t)
  <2>1. CASE "creat" \in flags
    <3>1. excl \in BOOLEAN
      OBVIOUS
    <3>2. path \in FilePaths
      BY <2>1
    <3> HIDE DEF excl
    <3>3. Grew(~crashed, s, fs_create(s, path, excl))
      BY <1>5, <3>1, <3>2, CreateKeeps, Zenon
    <3> QED BY <2>1, <3>3, Zenon
  <2>2. CASE "creat" \notin flags
    <3>1. Grew(~crashed, s, s)
      BY <1>5, KeptSame, Zenon DEF Grew
    <3> QED BY <2>2, <3>1, Zenon
  <2> QED BY <2>1, <2>2, Zenon
<1> HIDE DEF t
<1>7. PICK U : Good(~crashed, U, {}, t) /\ Kept(s, t)
  BY <1>6, Zenon DEF Grew
<1>8. Way(path)
  BY PathWay, Zenon DEF Trail
<1>9. LookedUp(~crashed, U, {}, t, path, u)
  BY <1>7, <1>8, FoundGrew, Zenon
<1> HIDE DEF u
<1>10. Good(~crashed, U, {}, u) /\ Kept(t, u) /\ Found(t, path, u)
  BY <1>9, Zenon DEF LookedUp
<1>11. Kept(s, u)
  BY <1>7, <1>10, KeptAgain, Zenon
<1>12. Grew(~crashed, s, u)
  BY <1>10, <1>11, Zenon DEF Grew
<1>13. CASE Call(t)
  BY <1>5, <1>6, <1>13, GrewEnds, CallKeeps, Zenon
<1>14. CASE Call(u)
  BY <1>5, <1>12, <1>14, GrewEnds, CallKeeps, Zenon
<1>15. CASE ~refused /\ Opens(f, u)
  <2>1. u.at # NULL
    BY <1>15, Zenon DEF refused
  <2>2. u.at \in Paths /\ u.at \in DOMAIN u.dent
    BY <1>10, <2>1, Zenon DEF Found
  <2> QED BY <1>5, <1>12, <1>15, <2>2, OpensKeeps, Zenon
<1> QED
  BY <1>2, <1>13, <1>14, <1>15, Zenon

\* process_close.
LEMMA CloseKeeps ==
    ASSUME IInv, NEW f \in 1..FileNum, process_close(f)
    PROVE  IInv'
<1>1. /\ files' = [files EXCEPT ![f] = NoFile]
      /\ dent' = dent /\ disk' = disk /\ lost' = lost /\ crashed' = crashed
  BY Zenon DEF process_close
<1>2. files \in [1..FileNum -> OpenFile] /\ \A g \in 1..FileNum : FileIs(files[g], dent, lost)
  BY Zenon DEF IInv, FilesAre
<1>3. NoFile \in OpenFile
  <2>1. 0 \in 0..InodeNum
    BY Bounds
  <2> QED BY <2>1, Zenon DEF NoFile, OpenFile
<1> HIDE DEF NoFile
<1>4. files' \in [1..FileNum -> OpenFile] /\ \A g \in 1..FileNum : files'[g] = NoFile \/ files'[g] = files[g]
  BY <1>1, <1>2, <1>3, Zenon
<1>5. \A g \in 1..FileNum : FileIs(files'[g], dent, lost)
  BY <1>2, <1>4, Zenon DEF FileIs
<1>6. FilesAre(files', dent', lost')
  BY <1>1, <1>4, <1>5, Zenon DEF FilesAre
<1>7. TreeIs(dent', disk', lost', crashed')
  BY <1>1, Zenon DEF IInv
<1> QED
  BY <1>6, <1>7, Zenon DEF IInv

\* The machine is started again: the volume is what it was.
LEMMA RebootKeeps ==
    ASSUME IInv, reboot
    PROVE  IInv'
<1>1. /\ dent' = Fresh /\ files' = [f \in DOMAIN files |-> NoFile]
      /\ disk' = disk /\ lost' = lost /\ crashed' = crashed
  BY Zenon DEF reboot
<1>2. disk \in Volume /\ lost \in BOOLEAN /\ crashed \in BOOLEAN /\ (~lost => \E T : Sound(T, dent, disk, crashed))
  BY Zenon DEF IInv, TreeIs
<1>3. ~lost => \E T : Sound(T, Fresh, disk, crashed)
  <2> SUFFICES ASSUME ~lost PROVE \E T : Sound(T, Fresh, disk, crashed)
    OBVIOUS
  <2>1. PICK T : Sound(T, dent, disk, crashed)
    BY <1>2, Zenon
  <2>2. Sane(~crashed, T, {}, disk) /\ Vol(T, disk)
    BY <2>1, Zenon DEF Sound, Sane
  <2>3. Mem(T, Fresh, disk)
    BY <2>2, FreshTree, Zenon
  <2> QED BY <2>2, <2>3, Zenon DEF Sound
<1>4. TreeIs(dent', disk', lost', crashed')
  BY <1>1, <1>2, <1>3, FreshShape, Zenon DEF TreeIs
<1>5. DOMAIN files = 1..FileNum
  BY Zenon DEF IInv, FilesAre
<1>6. FilesAre(files', dent', lost')
  BY <1>1, <1>5, NoFiles, Zenon
<1> QED
  BY <1>4, <1>6, Zenon DEF IInv

\* The invariant holds at boot.
LEMMA Boots ==
    ASSUME Library, Init
    PROVE  IInv
<1>1. dent = Fresh /\ files = [f \in 1..FileNum |-> NoFile] /\ lost = FALSE /\ crashed = FALSE
  BY Zenon DEF Init
<1> DEFINE S == <<[ino |-> 1, name |-> "."], [ino |-> 1, name |-> ".."]>>
<1>2. disk = [i \in Inodes |-> IF i = 1 THEN [mode |-> "dir", nlinks |-> 2, slots |-> S] ELSE NoInode]
  BY Zenon DEF Init
<1>3. disk \in Volume /\ \E T : Sane(TRUE, T, {}, disk)
  BY <1>2, EmptyVolume, Zenon
<1>4. PICK T : Sane(TRUE, T, {}, disk)
  BY <1>3, Zenon
<1>5. Vol(T, disk) /\ Sane(~crashed, T, {}, disk)
  BY <1>1, <1>4, Zenon DEF Sane
<1>6. Mem(T, Fresh, disk)
  BY <1>5, FreshTree, Zenon
<1>7. Sound(T, dent, disk, crashed)
  BY <1>1, <1>5, <1>6, Zenon DEF Sound
<1>8. TreeIs(dent, disk, lost, crashed)
  BY <1>1, <1>3, <1>7, FreshShape, Zenon DEF TreeIs
<1>9. FilesAre(files, dent, lost)
  BY <1>1, NoFiles, Zenon
<1> QED
  BY <1>8, <1>9, Zenon DEF IInv

\* Every step keeps the invariant.
LEMMA Steps ==
    ASSUME Library, IInv, [Next]_vars
    PROVE  IInv'
<1>1. 0 \in Int /\ 0..MaxRoom \subseteq Int
  OBVIOUS
<1>2. ASSUME NEW room \in 0..MaxRoom, NEW path \in DirPaths, Call(fs_mkdir(Start(room), path))
      PROVE  IInv'
  <2>1. ~lost /\ room \in Int
    BY <1>1, <1>2, Zenon DEF Call, Bounded
  <2>2. PICK T : Begun(~crashed, T, Start(room))
    BY <2>1, CallBegins, Zenon
  <2>3. Ends(~crashed, Start(room), fs_mkdir(Start(room), path))
    BY <2>2, MkdirKeeps, GrewEnds, Zenon DEF Begun
  <2>4. Start(room).dent = dent
    BY <2>2, Zenon DEF Begun
  <2> QED BY <1>2, <2>3, <2>4, CallKeeps, Zenon
<1>3. ASSUME NEW room \in 0..MaxRoom, NEW path \in FilePaths, NEW f \in 1..FileNum, NEW excl \in SUBSET {"excl"},
             process_open(f, path, {"creat", "write"} \cup excl, room)
      PROVE  IInv'
  <2>1. path \in Paths /\ room \in Int
    BY <1>1, Zenon DEF Paths
  <2> QED BY <1>3, <2>1, OpenKeeps, Zenon
<1>4. ASSUME NEW path \in Paths, NEW f \in 1..FileNum, NEW flags \in SUBSET {"write"}, process_open(f, path, flags, 0)
      PROVE  IInv'
  <2>1. "creat" \notin flags
    OBVIOUS
  <2> QED BY <1>1, <1>4, <2>1, OpenKeeps, Zenon
<1>5. ASSUME NEW path \in FilePaths, Call(fs_unlink(Start(0), path))
      PROVE  IInv'
  <2>1. ~lost
    BY <1>5, Zenon DEF Call, Bounded
  <2>2. PICK T : Begun(~crashed, T, Start(0))
    BY <1>1, <2>1, CallBegins, Zenon
  <2>3. Ends(~crashed, Start(0), fs_unlink(Start(0), path)) /\ Start(0).dent = dent
    BY <2>2, UnlinkKeeps, Zenon DEF Begun
  <2> QED BY <1>5, <2>3, CallKeeps, Zenon
<1>6. ASSUME NEW path \in DirPaths, Call(fs_rmdir(Start(0), path))
      PROVE  IInv'
  <2>1. ~lost
    BY <1>6, Zenon DEF Call, Bounded
  <2>2. PICK T : Begun(~crashed, T, Start(0))
    BY <1>1, <2>1, CallBegins, Zenon
  <2>3. Ends(~crashed, Start(0), fs_rmdir(Start(0), path)) /\ Start(0).dent = dent
    BY <2>2, RmdirKeeps, Zenon DEF Begun
  <2> QED BY <1>6, <2>3, CallKeeps, Zenon
<1>7. ASSUME NEW f \in 1..FileNum, process_close(f) PROVE IInv'
  BY <1>7, CloseKeeps, Zenon
<1>8. CASE reboot
  BY <1>8, RebootKeeps, Zenon
<1>9. CASE UNCHANGED vars
  <2>1. dent' = dent /\ disk' = disk /\ files' = files /\ lost' = lost /\ crashed' = crashed
    BY <1>9, Zenon DEF vars
  <2> QED BY <2>1, Zenon DEF IInv
<1> QED
  BY <1>2, <1>3, <1>4, <1>5, <1>6, <1>7, <1>8, <1>9, Zenon DEF Next

-----------------------------------------------------------------------------
(* What the invariant is for *)

\* Invariants of Dentry are about the entries of a volume.
LEMMA EntriesAre ==
    ASSUME NEW i
    PROVE  Entries(i) = Live(disk, i)
BY Zenon DEF Entries, Live

\* A loaded directory in memory is the directory on the volume.
LEMMA NamesMatch ==
    ASSUME Library, IInv
    PROVE  NamesMatchVolume
<1> SUFFICES ASSUME ~lost, NEW d \in DOMAIN dent, dent[d].load
             PROVE  LET i == dent[d].inode
                        kids == dent[d].children
                    IN  /\ dent[d].nentries = Len(kids)
                        /\ Len(kids) = Cardinality(Entries(i))
                        /\ {<<kids[k], dent[Append(d, kids[k])].inode>> : k \in 1..Len(kids)}
                             = {<<disk[i].slots[k].name, disk[i].slots[k].ino>> : k \in Entries(i)}
  BY Zenon DEF NamesMatchVolume
<1> DEFINE i == dent[d].inode
           c == dent[d].children
           L == Live(disk, i)
<1>1. PICK T : Sound(T, dent, disk, crashed)
  BY Zenon DEF IInv, TreeIs
<1>2. Vol(T, disk) /\ Mem(T, dent, disk) /\ Shape(dent)
  BY <1>1, Zenon DEF Sound, Sane, IInv, TreeIs
<1>3. i \in Inodes /\ c \in Seq(Text)
  BY <1>2, ChildNames, Zenon
<1>4. /\ dent[d].nentries = Len(c) /\ Inj(c) /\ Range(c) = Names(disk, i, L)
      /\ \A k \in L : dent[Append(d, Name(disk, i, k))].inode = Ino(disk, i, k)
  BY <1>2, Zenon DEF Mem, Matches
<1>5. Distinct(disk)
  BY <1>2, Zenon DEF Vol
<1>6. DOMAIN c = 1..Len(c)
  BY <1>3, LenIs, Zenon
<1>7. Entries(i) = L
  BY EntriesAre, Zenon
<1> HIDE DEF i, c
<1>8. Cardinality(L) = Len(c)
  BY <1>3, <1>4, <1>5, CountNames, Zenon
<1> HIDE DEF L
<1>9. \A k \in 1..Len(c) : \E l \in L : Name(disk, i, l) = c[k]
  <2> SUFFICES ASSUME NEW k \in 1..Len(c) PROVE \E l \in L : Name(disk, i, l) = c[k]
    OBVIOUS
  <2>1. c[k] \in Range(c)
    BY <1>6, Zenon DEF Range
  <2> QED BY <1>4, <2>1, Zenon DEF Names
<1>10. \A l \in L : \E k \in 1..Len(c) : Name(disk, i, l) = c[k]
  <2> SUFFICES ASSUME NEW l \in L PROVE \E k \in 1..Len(c) : Name(disk, i, l) = c[k]
    OBVIOUS
  <2>1. Name(disk, i, l) \in Range(c)
    BY <1>4, Zenon DEF Names
  <2> QED BY <1>6, <2>1, Zenon DEF Range
<1> DEFINE A == {<<c[k], dent[Append(d, c[k])].inode>> : k \in 1..Len(c)}
           B == {<<Name(disk, i, k), Ino(disk, i, k)>> : k \in L}
<1>11. \A x \in A : x \in B
  <2> SUFFICES ASSUME NEW k \in 1..Len(c) PROVE <<c[k], dent[Append(d, c[k])].inode>> \in B
    BY Zenon
  <2>1. PICK l \in L : Name(disk, i, l) = c[k]
    BY <1>9, Zenon
  <2>2. dent[Append(d, c[k])].inode = Ino(disk, i, l)
    BY <1>4, <2>1, Zenon
  <2>3. <<Name(disk, i, l), Ino(disk, i, l)>> \in B
    BY Zenon
  <2> QED BY <2>1, <2>2, <2>3, Zenon
<1>12. \A x \in B : x \in A
  <2> SUFFICES ASSUME NEW l \in L PROVE <<Name(disk, i, l), Ino(disk, i, l)>> \in A
    BY Zenon
  <2>1. PICK k \in 1..Len(c) : Name(disk, i, l) = c[k]
    BY <1>10, Zenon
  <2>2. dent[Append(d, c[k])].inode = Ino(disk, i, l)
    BY <1>4, <2>1, Zenon
  <2>3. <<c[k], dent[Append(d, c[k])].inode>> \in A
    BY Zenon
  <2> QED BY <2>1, <2>2, <2>3, Zenon
<1>13. A = B
  BY <1>11, <1>12, Zenon
<1>14. A = {<<disk[i].slots[k].name, disk[i].slots[k].ino>> : k \in Entries(i)}
  BY <1>7, <1>13, Zenon DEF Name, Ino
<1> QED
  BY <1>4, <1>7, <1>8, <1>14, Zenon DEF i, c

\* Every name leads to an inode that is in use.
LEMMA NoDangling ==
    ASSUME IInv
    PROVE  NoDanglingNames
<1> SUFFICES ASSUME ~lost, NEW i \in Inodes, NEW k \in Entries(i)
             PROVE  disk[disk[i].slots[k].ino].mode # "free"
  BY Zenon DEF NoDanglingNames
<1>1. PICK T : Sound(T, dent, disk, crashed)
  BY Zenon DEF IInv, TreeIs
<1>2. Vol(T, disk)
  BY <1>1, Zenon DEF Sound, Sane
<1>3. k \in Live(disk, i)
  BY EntriesAre, Zenon
<1>4. Goes(T, disk, i, k)
  BY <1>2, <1>3, LeadsNamed, Zenon
<1>5. PICK q \in DOMAIN T : T[q] = Ino(disk, i, k)
  BY <1>4, Zenon DEF Goes
<1>6. disk[T[q]].mode # "free"
  BY <1>2, Zenon DEF Vol, Modes
<1> QED
  BY <1>5, <1>6, Zenon DEF Ino

\* Link counts are the numbers of names.
LEMMA LinkCountsRight ==
    ASSUME IInv
    PROVE  LinksCounted
<1> SUFFICES ASSUME ~lost, ~crashed, NEW i \in Inodes, disk[i].mode # "free"
             PROVE  LET refs == UNION {{<<j, k>> : k \in {k \in Entries(j) : disk[j].slots[k].ino = i}} : j \in Inodes}
                    IN  disk[i].nlinks = Cardinality(refs) /\ refs # {}
  BY Zenon DEF LinksCounted
<1> DEFINE W(j) == {k \in Entries(j) : disk[j].slots[k].ino = i}
           refs == UNION {{<<j, k>> : k \in W(j)} : j \in Inodes}
<1>1. PICK T : Sound(T, dent, disk, crashed)
  BY Zenon DEF IInv, TreeIs
<1>2. Vol(T, disk) /\ Whole(T, {}, disk) /\ Counted(disk)
  BY <1>1, Zenon DEF Sound, Sane
<1>3. \A r : r \in refs <=> IsRef(disk, i, r)
  <2> TAKE r
  <2>1. \A j \in Inodes : \A k : k \in W(j) <=> k \in Live(disk, j) /\ Ino(disk, j, k) = i
    BY EntriesAre, Zenon DEF Ino
  <2> HIDE DEF W
  <2>2. r \in refs <=> \E j \in Inodes : \E k \in W(j) : r = <<j, k>>
    <3> DEFINE Z(j) == {<<j, k>> : k \in W(j)}
    <3>1. refs = UNION {Z(j) : j \in Inodes}
      OBVIOUS
    <3>2. \A j : r \in Z(j) <=> \E k \in W(j) : r = <<j, k>>
      BY Zenon
    <3> HIDE DEF Z, refs
    <3>3. r \in refs <=> \E j \in Inodes : r \in Z(j)
      BY <3>1, Zenon
    <3> QED BY <3>2, <3>3, Zenon
  <2> QED BY <2>1, <2>2, Zenon DEF IsRef
<1> HIDE DEF refs
<1>4. refs = Refs(disk, i)
  BY <1>3, RefsAre, Zenon
<1>5. disk[i].nlinks = Cardinality(refs)
  BY <1>2, <1>4, Zenon DEF Counted
<1>6. PICK p \in DOMAIN T : T[p] = i
  BY <1>2, Zenon DEF Whole
<1>7. refs # {}
  BY <1>2, <1>4, <1>6, SomeRef, Zenon
<1> QED
  BY <1>5, <1>7, Zenon DEF refs

\* Open files keep their inodes.
LEMMA FilesKeep ==
    ASSUME IInv
    PROVE  OpenFilesKeep
<1> SUFFICES ASSUME ~lost, NEW f \in 1..FileNum, files[f] # NoFile, ~files[f].gone
             PROVE  /\ files[f].dentry \in DOMAIN dent
                    /\ dent[files[f].dentry].inode = files[f].inode
                    /\ disk[files[f].inode].mode # "free"
  BY Zenon DEF OpenFilesKeep
<1> DEFINE d == files[f].dentry
<1>1. d \in Paths /\ d \in DOMAIN dent /\ dent[d].inode = files[f].inode
  BY Zenon DEF IInv, FilesAre, FileIs
<1>2. PICK T : Sound(T, dent, disk, crashed)
  BY Zenon DEF IInv, TreeIs
<1>3. Vol(T, disk) /\ Mem(T, dent, disk)
  BY <1>2, Zenon DEF Sound, Sane
<1>4. Plain(d)
  BY <1>1, PathWay, WayPlain, Zenon DEF Trail
<1>5. d \in DOMAIN T /\ T[d] = files[f].inode
  BY <1>1, <1>3, <1>4, Zenon DEF Mem
<1>6. disk[T[d]].mode # "free"
  BY <1>3, <1>5, Zenon DEF Vol, Modes
<1> QED
  BY <1>1, <1>5, <1>6, Zenon

-----------------------------------------------------------------------------
(* Numbers and finite sets: what DentryProofs assumes of them is known.  The
   modules of the library come into scope here, behind the lemmas that do not
   use them, which they make slow to check. *)

INSTANCE FiniteSetTheorems

\* A set that can be numbered is finite.
LEMMA Numbered ==
    ASSUME NEW S, NEW B \in Nat, NEW f, Numbers(S, 0..B, f)
    PROVE  IsFiniteSet(S) /\ Cardinality(S) <= B + 1
<1>1. f \in Injection(S, 0..B)
  BY Zenon DEF Numbers, Injection, IsInjective
<1>2. IsFiniteSet(0..B) /\ Cardinality(0..B) = B + 1
  <2>1. 0 \in Int /\ B \in Int /\ ~(0 > B) /\ B - 0 + 1 = B + 1
    OBVIOUS
  <2> QED BY <2>1, FS_Interval, Zenon
<1> DEFINE D == 0..B
<1>3. f \in Injection(S, D) /\ IsFiniteSet(D) /\ Cardinality(D) = B + 1
  BY <1>1, <1>2, Zenon
<1> HIDE DEF D
<1>4. IsFiniteSet(S) /\ Cardinality(S) <= Cardinality(D)
  BY <1>3, FS_Injection, Zenon
<1> QED
  BY <1>3, <1>4, Zenon

\* A set numbered from 1 to n has n elements.
LEMMA NumberedOnce ==
    ASSUME NEW S, NEW n \in Nat, NEW f, Numbers(1..n, S, f), Onto(1..n, S, f)
    PROVE  Cardinality(S) = n
<1> DEFINE D == 1..n
<1>1. f \in [D -> S] /\ (\A k, l \in D : f[k] = f[l] => k = l) /\ \A x \in S : \E k \in D : f[k] = x
  BY Zenon DEF Numbers, Onto
<1> HIDE DEF D
<1>2. ExistsBijection(D, S)
  <2>1. DOMAIN f = D
    BY <1>1, Zenon
  <2>2. f \in Injection(D, S)
    BY <1>1, <2>1, Zenon DEF Injection, IsInjective
  <2>3. f \in Surjection(D, S)
    BY <1>1, Zenon DEF Surjection
  <2> QED BY <2>2, <2>3, Zenon DEF ExistsBijection, Bijection
<1> QED
  BY <1>2, FS_CountingElements, Zenon DEF D

\* What DentryProofs assumes of numbers and finite sets.
LEMMA LibraryHolds == Library
<1>1. ASSUME NEW T, T \subseteq Nat, T # {}
      PROVE  \E k \in T : \A y \in T : k <= y
  <2>1. IsWellFoundedOn(OpToRel(<, Nat), Nat)
    BY NatLessThanWellFounded, Zenon
  <2>2. PICK k \in T : \A y \in T : ~ (<<y, k>> \in OpToRel(<, Nat))
    BY <1>1, <2>1, WFMin, Zenon
  <2>3. \A y \in T : ~ (y < k)
    BY <1>1, <2>2, Zenon DEF OpToRel
  <2> QED
    BY <1>1, <2>3
<1>2. IsFiniteSet({}) /\ Cardinality({}) = 0
  BY FS_EmptySet, Zenon
<1>3. \A S : IsFiniteSet(S) => Cardinality(S) \in Nat
  BY FS_CardinalityType, Zenon
<1>4. \A S, x : IsFiniteSet(S) =>
          /\ IsFiniteSet(S \cup {x})
          /\ Cardinality(S \cup {x}) = IF x \in S THEN Cardinality(S) ELSE Cardinality(S) + 1
  BY FS_AddElement, Zenon
<1>5. \A S, T : IsFiniteSet(S) /\ T \subseteq S => IsFiniteSet(T)
  BY FS_Subset, Zenon
<1>6. \A S, B, f : B \in Nat /\ Numbers(S, 0..B, f) => IsFiniteSet(S) /\ Cardinality(S) <= B + 1
  BY Numbered, Zenon
<1>7. \A S, n, f : n \in Nat /\ Numbers(1..n, S, f) /\ Onto(1..n, S, f) => Cardinality(S) = n
  BY NumberedOnce, Zenon
<1> QED
  BY <1>1, <1>2, <1>3, <1>4, <1>5, <1>6, <1>7, Zenon DEF Library


-----------------------------------------------------------------------------
(* The theorems *)

\* The invariant is one.
LEMMA Invariant ==
    Spec => []IInv
<1>1. Init => IInv
  BY Boots, LibraryHolds
<1>2. IInv /\ [Next]_vars => IInv'
  BY Steps, LibraryHolds
<1> QED
  BY <1>1, <1>2, PTL DEF Spec

\* The tree of dentries never disagrees with the volume: the children of a
\* loaded directory are the entries of its file (read_children, create_dentry
\* and destroy_dentry of dentry.c, under every call of fs.c).
THEOREM NamesSafe ==
    Spec => []NamesMatchVolume
<1>1. IInv => NamesMatchVolume
  BY NamesMatch, LibraryHolds
<1> QED
  BY <1>1, Invariant, PTL

\* Wherever the power fails no name leads to an unused inode, and link counts
\* are right as long as no call was cut short (link, unlink, mkdir and rmdir of
\* fs.c).
THEOREM VolumeSafe ==
    Spec => []VolumeSound
<1>1. IInv => VolumeSound
  BY Types, NoDangling, LinkCountsRight, Zenon DEF VolumeSound
<1> QED
  BY <1>1, Invariant, PTL

\* An open file keeps its dentry and its inode until its name is removed
\* (process_open against fs_unlink and fs_rmdir).
THEOREM OpenFilesSafe ==
    Spec => []OpenFilesKeep
<1>1. IInv => OpenFilesKeep
  BY FilesKeep
<1> QED
  BY <1>1, Invariant, PTL
=============================================================================
