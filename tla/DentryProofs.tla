----------------------------- MODULE DentryProofs -----------------------------
(***************************************************************************)
(* Proofs about Dentry, for every set of paths and every number of inodes: *)
(* what read_children, dentry_lookup, dentry_link and dentry_unlink make   *)
(* of the dentries in memory and of the entries of the volume.  FsProofs   *)
(* rests on them.                                                          *)
(*                                                                         *)
(* One tree T of names, a function from paths to inodes, explains both:    *)
(* Vol(T, K) says every entry of volume K leads where T says and every     *)
(* path of T has its entry, and Mem(T, dn, K) says the dentries dn are     *)
(* paths of T and those loaded have the names of their directory.  Whole   *)
(* and Counted add that an inode in use has a path and nlinks is the       *)
(* number of entries that lead to it.                                      *)
(*                                                                         *)
(* Inside a call the record s is described by Good(C, T, X, s), where X    *)
(* are the inodes that have no name at this point, C says whether no       *)
(* earlier call was cut short, and every volume of s.trace has some tree.  *)
(* There is one lemma for each operator of the model, in the order in      *)
(* which they call each other.                                             *)
(*                                                                         *)
(* The theorems of the library about numbers and finite sets that the      *)
(* lemmas use are the conjuncts of Library, and a hypothesis here:         *)
(* FsProofs proves it.  With the library's modules in scope every leaf     *)
(* takes twice as long.                                                    *)
(***************************************************************************)
EXTENDS Dentry, TLAPS

\* Function f takes no two elements of S to the same one of D, and f takes
\* some element of S to each one of D.
Numbers(S, D, f) == f \in [S -> D] /\ \A x, y \in S : f[x] = f[y] => x = y
Onto(S, D, f) == \A y \in D : \E x \in S : f[x] = y

\* Facts about numbers and finite sets: a set of numbers has a least one; the
\* empty set, one more element, a subset; sets that can be numbered.
Library ==
    /\ \A T : T \subseteq Nat /\ T # {} => \E k \in T : \A y \in T : k <= y
    /\ IsFiniteSet({}) /\ Cardinality({}) = 0
    /\ \A S : IsFiniteSet(S) => Cardinality(S) \in Nat
    /\ \A S, x : IsFiniteSet(S) =>
           /\ IsFiniteSet(S \cup {x})
           /\ Cardinality(S \cup {x}) = IF x \in S THEN Cardinality(S) ELSE Cardinality(S) + 1
    /\ \A S, T : IsFiniteSet(S) /\ T \subseteq S => IsFiniteSet(T)
    /\ \A S, B, f : B \in Nat /\ Numbers(S, 0..B, f) => IsFiniteSet(S) /\ Cardinality(S) <= B + 1
    /\ \A S, n, f : n \in Nat /\ Numbers(1..n, S, f) /\ Onto(1..n, S, f) => Cardinality(S) = n

\* The names every directory has.
Dots == {".", ".."}
\* The types of a volume and of a dentry.
Slot == [ino : 0..InodeNum, name : Text]
Volume == [Inodes -> [mode : {"free", "dir", "file"}, nlinks : 0..(LINKS - 1), slots : Seq(Slot)]]
Node == [inode : Inodes, nentries : Nat, load : BOOLEAN, children : Seq(Text)]
\* The entries of inode i on volume K, with their names and inodes.
Live(K, i) == {k \in 1..Len(K[i].slots) : K[i].slots[k].ino # 0}
Name(K, i, k) == K[i].slots[k].name
Ino(K, i, k) == K[i].slots[k].ino
\* A path that does not end in a dot name.
Plain(d) == d = ROOT \/ Leaf(d) \notin Dots
\* The tree of names of a volume: a function from the paths that lead
\* somewhere to inodes.
Tree(T) ==
    /\ ROOT \in DOMAIN T /\ T[ROOT] = 1 /\ DOMAIN T \subseteq Seq(Text)
    /\ \A p \in DOMAIN T : T[p] \in Inodes
    /\ \A p, q \in DOMAIN T : T[p] = T[q] => p = q
\* Where an entry of directory p may lead.
Leads(T, p, n, i) ==
    \/ n = "." /\ i = T[p]
    \/ n = ".." /\ p = ROOT /\ i = 1
    \/ n = ".." /\ \E q \in DOMAIN T : i = T[q] /\ \E m \in Text : p = Append(q, m)
    \/ n \notin Dots /\ Append(p, n) \in DOMAIN T /\ i = T[Append(p, n)]
\* Every path of T leads to an inode in use, and a file has no entries.
Modes(T, K) ==
    \A p \in DOMAIN T :
        /\ K[T[p]].mode # "free"
        /\ K[T[p]].mode = "file" => p \in FilePaths /\ Live(K, T[p]) = {}
\* Every path of T has its entry.
Named(T, K) ==
    \A p \in DOMAIN T \ {ROOT} :
        \E q \in DOMAIN T : \E k \in Live(K, T[q]) :
            p = Append(q, Name(K, T[q], k)) /\ Name(K, T[q], k) \notin Dots
\* Every entry leads where T says.
Led(T, K) == \A p \in DOMAIN T : \A k \in Live(K, T[p]) : Leads(T, p, Name(K, T[p], k), Ino(K, T[p], k))
\* No directory has a name twice.
Distinct(K) == \A i \in Inodes : \A k, l \in Live(K, i) : Name(K, i, k) = Name(K, i, l) => k = l
\* An inode without a path has no entries.
Bare(T, K) == \A i \in Inodes : (\A p \in DOMAIN T : T[p] # i) => Live(K, i) = {}
\* The root directory has a dot.
Rooted(K) == \E k \in Live(K, 1) : Name(K, 1, k) = "."
\* T is the tree of names of volume K.
Vol(T, K) == Tree(T) /\ Modes(T, K) /\ Named(T, K) /\ Led(T, K) /\ Distinct(K) /\ Bare(T, K) /\ Rooted(K)
\* The entries that lead to inode i; links that count them; and no inode in
\* use without a path, but those in X.
Refs(K, i) == {r \in UNION {{<<j, k>> : k \in Live(K, j)} : j \in Inodes} : Ino(K, r[1], r[2]) = i}
Counted(K) == \A i \in Inodes : K[i].nlinks = Cardinality(Refs(K, i))
Whole(T, X, K) == \A i \in Inodes : K[i].mode # "free" => i \in X \/ \E p \in DOMAIN T : T[p] = i
\* Sequence c has no element twice.
Inj(c) == \A k, l \in 1..Len(c) : c[k] = c[l] => k = l
\* The names of the entries L of inode i.
Names(K, i, L) == {Name(K, i, k) : k \in L}
\* Dentry d has the names of its directory.
Matches(dn, K, d) ==
    LET i == dn[d].inode
        kids == dn[d].children
    IN  /\ dn[d].nentries = Len(kids)
        /\ Inj(kids)
        /\ Range(kids) = Names(K, i, Live(K, i))
        /\ \A k \in Live(K, i) : dn[Append(d, Name(K, i, k))].inode = Ino(K, i, k)
\* The dentries dn are paths of T, and those loaded match the volume.
Mem(T, dn, K) ==
    /\ \A d \in DOMAIN dn : Plain(d) => d \in DOMAIN T /\ dn[d].inode = T[d]
    /\ \A d \in DOMAIN dn : dn[d].load => Plain(d) /\ Matches(dn, K, d)
\* The dentries are a tree below the root, whatever the volume holds.
Shape(dn) ==
    /\ DOMAIN dn \subseteq Seq(Text) /\ ROOT \in DOMAIN dn
    /\ \A d \in DOMAIN dn : dn[d] \in Node
    /\ \A d \in DOMAIN dn : \A n \in Range(dn[d].children) : Append(d, n) \in DOMAIN dn
    /\ \A d \in DOMAIN dn : d = ROOT \/ \E p \in DOMAIN dn : \E n \in Range(dn[p].children) : d = Append(p, n)
    /\ \A d \in DOMAIN dn : ~dn[d].load => dn[d].children = <<>> /\ dn[d].nentries = 0
\* The record a call works on, whatever entries were lost on the way.
Fields == {"dent", "disk", "at", "ino", "err", "room", "lost", "trace"}
Formed(s) ==
    /\ DOMAIN s = Fields
    /\ Shape(s.dent)
    /\ s.disk \in Volume
    /\ s.ino \in 0..InodeNum /\ s.room \in Int /\ s.lost \in BOOLEAN
    /\ s.trace \in Seq(Volume)
\* What read_children and dentry_lookup leave alone.
Rest(s, t) ==
    /\ DOMAIN t = Fields
    /\ t.disk = s.disk /\ t.ino = s.ino /\ t.err = s.err
    /\ t.room = s.room /\ t.lost = s.lost /\ t.trace = s.trace
\* What read_children has made of s, when it has come to the entries L of
\* directory d; b is the flag.
Opened(s, d, L, b, t) ==
    LET K == s.disk
        i == s.dent[d].inode
    IN  /\ Rest(s, t) /\ t.at = s.at
        /\ DOMAIN t.dent = DOMAIN s.dent \cup {Append(d, n) : n \in Names(K, i, L)}
        /\ t.dent[d] \in Node /\ t.dent[d].inode = i /\ t.dent[d].load = b
        /\ t.dent[d].nentries = Len(t.dent[d].children)
        /\ Range(t.dent[d].children) = Names(K, i, L)
        /\ Distinct(K) => Inj(t.dent[d].children)
        /\ \A k \in L : \E l \in L : /\ Name(K, i, l) = Name(K, i, k)
                                   /\ t.dent[Append(d, Name(K, i, k))] = NewDentry(Ino(K, i, l))
        /\ \A p \in DOMAIN s.dent : p # d => t.dent[p] = s.dent[p]
\* One turn of the loop of read_children.
Load(t, d, e) == IF e.ino = 0 THEN t ELSE add_child(t, d, e.name, e.ino)
\* What add_child(s, d, name, i) makes.
Added(s, d, name, i, t) ==
    LET c == Append(d, name)
    IN  /\ Rest(s, t) /\ t.at = s.at
        /\ DOMAIN t.dent = DOMAIN s.dent \cup {c}
        /\ t.dent[c] = NewDentry(i)
        /\ t.dent[d] \in Node
        /\ t.dent[d].inode = s.dent[d].inode /\ t.dent[d].load = s.dent[d].load
        /\ t.dent[d].children = <<name>> \o s.dent[d].children
        /\ t.dent[d].nentries = s.dent[d].nentries + 1
        /\ \A p \in DOMAIN s.dent : p # d /\ p # c => t.dent[p] = s.dent[p]
\* Sequence r is c with n before it.
Pushed(c, n, r) ==
    /\ Len(r) = Len(c) + 1
    /\ Range(r) = Range(c) \cup {n}
    /\ n \notin Range(c) /\ Inj(c) => Inj(r)
\* The states the loop of read_children goes through.
Loop(s, d, q, n, g) == g = [k \in 0..n |-> IF k = 0 THEN s ELSE Load(g[k - 1], d, q[k])]
\* The tree in memory has grown from s to t.
Grown(s, t) ==
    \A p \in DOMAIN s.dent :
        /\ p \in DOMAIN t.dent /\ t.dent[p].inode = s.dent[p].inode
        /\ s.dent[p].load => t.dent[p].load
        /\ Live(s.disk, s.dent[p].inode) = {} => t.dent[p].children = s.dent[p].children
\* The tree in memory still agrees with the volume.
Keeps(s, t) == \A T : Vol(T, s.disk) /\ Mem(T, s.dent, s.disk) => Mem(T, t.dent, s.disk)
\* What read_children(s, d) makes.
Filled(s, d, t) ==
    /\ Formed(t) /\ Grown(s, t) /\ Rest(s, t) /\ t.at = s.at /\ t.dent[d].load
    /\ Plain(d) => Keeps(s, t)
\* A path programs use, or the front of one.
Way(path) == path \in Seq(Text) /\ \A m \in 1..Len(path) : path[m] \notin Dots /\ path[m] # "/"
Short(path) == path \notin LongPaths /\ \A m \in 1..Len(path) : path[m] \notin LongNames
\* dentry_lookup has come to path[k].
Walk(s, path, n, g) == g = [k \in 0..n |-> IF k = 0 THEN [s EXCEPT !.at = ROOT] ELSE find_child(g[k - 1], path[k])]
Onward(s, t) == Formed(t) /\ Rest(s, t) /\ Grown(s, t) /\ Keeps(s, t)
Looked(s, p, t) ==
    /\ Onward(s, t)
    /\ t.at = NULL \/ (t.at = p /\ p \in DOMAIN t.dent /\ \A m \in 1..Len(p) : p[m] \notin LongNames)
    /\ p \in DOMAIN s.dent /\ (\A m \in 1..Len(p) : p[m] \notin LongNames) => t.at = p
\* What dentry_lookup(s, path) makes.
Found(s, path, t) ==
    /\ Onward(s, t)
    /\ t.at = NULL \/ (t.at = path /\ path \in DOMAIN t.dent /\ t.dent[path].load /\ Short(path))
    /\ path \in DOMAIN s.dent /\ Short(path) => t.at = path
\* Volumes with the same names.
SameNames(K, V) ==
    \A i \in Inodes : /\ Live(V, i) = Live(K, i)
                     /\ \A k \in Live(K, i) : Name(V, i, k) = Name(K, i, k) /\ Ino(V, i, k) = Ino(K, i, k)
\* A volume that T describes, and whose links are counted unless a call was
\* cut short; X are inodes that have no name yet or no longer.
Sane(C, T, X, K) == Vol(T, K) /\ (C => Whole(T, X, K) /\ Counted(K))
Traced(s) == \A k \in 1..Len(s.trace) : \E T : Vol(T, s.trace[k])
Good(C, T, X, s) ==
    Formed(s) /\ (~s.lost => Sane(C, T, X, s.disk) /\ Mem(T, s.dent, s.disk) /\ Traced(s))
\* A volume is made of inodes; V is K with inode i written.
InodeSet == [mode : {"free", "dir", "file"}, nlinks : 0..(LINKS - 1), slots : Seq(Slot)]
Put(K, i, r, V) == V \in Volume /\ V[i] = r /\ \A j \in Inodes : j # i => V[j] = K[j]
IsRef(K, i, r) == \E j \in Inodes : \E k \in Live(K, j) : r = <<j, k>> /\ Ino(K, j, k) = i
\* Entry k of inode j leads somewhere.
Goes(T, K, j, k) ==
    \E p \in DOMAIN T : /\ T[p] = j /\ Leads(T, p, Name(K, j, k), Ino(K, j, k))
                        /\ \E q \in DOMAIN T : T[q] = Ino(K, j, k)
\* The directory dir has one more entry, its n-th.
Gains(K, dir, n, name, i, V) ==
    /\ n \notin Live(K, dir) /\ Live(V, dir) = Live(K, dir) \cup {n}
    /\ \A k \in Live(K, dir) : Name(V, dir, k) = Name(K, dir, k) /\ Ino(V, dir, k) = Ino(K, dir, k)
    /\ Name(V, dir, n) = name /\ Ino(V, dir, n) = i
    /\ \A j \in Inodes : V[j].mode = K[j].mode /\ V[j].nlinks = K[j].nlinks /\ (j # dir => V[j] = K[j])
\* Tree U has all the names of T.
Extends(T, U) == \A q \in DOMAIN T : q \in DOMAIN U /\ U[q] = T[q]
\* The ways entry k of inode j can lead to path z.
Kind(T, K, z, j, k) ==
    \/ Name(K, j, k) = "." /\ j = T[z]
    \/ Name(K, j, k) = ".."
    \/ Name(K, j, k) \notin Dots /\ \E p \in DOMAIN T : T[p] = j /\ z = Append(p, Name(K, j, k))
\* Some entry is the name of path c.
HasName(T, K, c) ==
    \E q \in DOMAIN T : \E k \in Live(K, T[q]) : c = Append(q, Name(K, T[q], k)) /\ Name(K, T[q], k) \notin Dots
\* What dentry_link writes, and what it makes when it refuses and when not.
Entered(K, dir, name, i) == [K EXCEPT ![dir].slots = Append(@, [ino |-> i, name |-> name])]
Links(K, i, n) == [K EXCEPT ![i].nlinks = (@ + n) % LINKS]
Relinked(K, i, n, V) ==
    /\ V \in Volume /\ SameNames(K, V)
    /\ \A j \in Inodes : V[j].mode = K[j].mode /\ V[j].slots = K[j].slots /\ (j # i => V[j].nlinks = K[j].nlinks)
    /\ V[i].nlinks = (K[i].nlinks + n) % LINKS
Refused(s, d, name, t) ==
    /\ Formed(t) /\ Grown(s, t) /\ Keeps(s, t)
    /\ t.disk = s.disk /\ t.ino = s.ino /\ t.lost = s.lost /\ t.trace = s.trace /\ t.at = s.at
    /\ t.err = "EPERM"
    /\ s.dent[d].load => t.dent = s.dent
    /\ name \in LongNames \/ Append(d, name) \in DOMAIN t.dent
Linking(s, d, name, i, r, t) ==
    LET K == s.disk
        V == Entered(K, s.dent[d].inode, name, i)
    IN  /\ Filled(s, d, r) /\ Append(d, name) \notin DOMAIN r.dent /\ name \notin LongNames
        /\ s.dent[d].load => r.dent = s.dent
        /\ \E a : Added(r, d, name, i, a) /\ t.dent = a.dent
        /\ DOMAIN t = Fields /\ t.at = s.at /\ t.ino = s.ino /\ t.err = s.err /\ t.room \in Int
        /\ \/ t.lost = TRUE /\ t.disk = Links(K, i, 1) /\ t.trace = Append(s.trace, t.disk)
           \/ t.lost = s.lost /\ t.disk = Links(V, i, 1) /\ t.trace = Append(Append(s.trace, V), t.disk)
\* What Write, Fail and write_child make.
Wrote(s, K, t) ==
    /\ DOMAIN t = Fields /\ t.dent = s.dent /\ t.disk = K /\ t.at = s.at /\ t.ino = s.ino
    /\ t.err = s.err /\ t.room = s.room /\ t.lost = s.lost /\ t.trace = Append(s.trace, K)
Failed(s, e, t) ==
    /\ DOMAIN t = Fields /\ t.dent = s.dent /\ t.disk = s.disk /\ t.at = s.at /\ t.ino = s.ino
    /\ t.err = e /\ t.room = s.room /\ t.lost = s.lost /\ t.trace = s.trace
WroteEntry(s, dir, name, i, t) ==
    /\ DOMAIN t = Fields /\ t.dent = s.dent /\ t.at = s.at /\ t.ino = s.ino /\ t.err = s.err /\ t.room \in Int
    /\ \/ t.lost = TRUE /\ t.disk = s.disk /\ t.trace = s.trace
       \/ t.lost = s.lost /\ t.disk = Entered(s.disk, dir, name, i) /\ t.trace = Append(s.trace, t.disk)
\* What dentry_link makes.
LinkDone(s, d, name, i, t) == Refused(s, d, name, t) \/ \E r : Linking(s, d, name, i, r, t)
\* The dentries of s are still there.
Kept(s, t) == \A p \in DOMAIN s.dent : p \in DOMAIN t.dent /\ t.dent[p].inode = s.dent[p].inode
\* What is known of a new name, lost or not.
NewName(s, d, name, i, r, t) ==
    /\ Formed(t) /\ Kept(s, t)
    /\ Append(d, name) \in DOMAIN t.dent /\ t.dent[Append(d, name)] = NewDentry(i)
    /\ t.dent[d].load /\ t.dent[d].children = <<name>> \o r.dent[d].children
    /\ \A j \in Inodes : /\ t.disk[j].mode = s.disk[j].mode
                         /\ j # s.dent[d].inode => t.disk[j].slots = s.disk[j].slots
\* The tree with one more name.
Joined(T, c, i) == [q \in DOMAIN T \cup {c} |-> IF q = c THEN i ELSE T[q]]
\* Inode i has one more reference on V than on K.
OneMore(K, V, i, e) ==
    /\ Refs(V, i) = Refs(K, i) \cup {e} /\ e \notin Refs(K, i)
    /\ \A j : j # i => Refs(V, j) = Refs(K, j)
\* What dentry_link keeps: for a name, and for a dot.
LinkedName(C, T, s, d, name, i, t) ==
    \/ Refused(s, d, name, t) /\ Good(C, T, {i}, t)
    \/ \E r : Linking(s, d, name, i, r, t) /\ Good(C, Joined(T, Append(d, name), i), {}, t)
LinkedDot(C, T, X, s, d, name, i, t) ==
    \/ Refused(s, d, name, t) /\ Good(C, T, X, t)
    \/ \E r : Linking(s, d, name, i, r, t) /\ Good(C, T, X, t)
\* d is a directory without the name.
Place(T, s, d, name) ==
    /\ d \in DOMAIN T /\ T[d] = s.dent[d].inode
    /\ name \notin Names(s.disk, s.dent[d].inode, Live(s.disk, s.dent[d].inode))
    /\ d \notin FilePaths => s.disk[s.dent[d].inode].mode = "dir"
\* Sequence r is c without n.
Dropped(c, n, r) ==
    /\ Len(c) >= 1 /\ Len(r) = Len(c) - 1
    /\ Range(r) = Range(c) \ {n} /\ Inj(r)
\* What dentry_unlink makes of the dentries and of the volume.
Removed(dn, p, name, e) ==
    LET c == Append(p, name)
    IN  /\ DOMAIN e = DOMAIN dn \ {c}
        /\ e[p] \in Node /\ e[p].inode = dn[p].inode /\ e[p].load = dn[p].load
        /\ e[p].nentries = dn[p].nentries - 1 /\ Dropped(dn[p].children, name, e[p].children)
        /\ \A q \in DOMAIN dn : q # p /\ q # c => e[q] = dn[q]
Cleared(K, dir, n) == [K EXCEPT ![dir].slots[n].ino = 0]
Unlinking(s, p, name, n, i, t) ==
    LET K == s.disk
        dir == s.dent[p].inode
        V == Cleared(K, dir, n)
    IN  /\ n \in Live(K, dir) /\ Name(K, dir, n) = name /\ Ino(K, dir, n) = i
        /\ DOMAIN t = Fields /\ t.at = s.at /\ t.ino = s.ino /\ t.err = s.err /\ t.room = s.room /\ t.lost = s.lost
        /\ Removed(s.dent, p, name, t.dent)
        /\ t.disk = Links(V, i, -1) /\ t.trace = Append(Append(s.trace, V), t.disk)
\* Volume V is K without entry n of dir.
Fewer(K, dir, n, V) ==
    \A j \in Inodes :
        /\ V[j].mode = K[j].mode
        /\ \A k : k \in Live(V, j) <=> k \in Live(K, j) /\ ~(j = dir /\ k = n)
        /\ \A k \in Live(V, j) : Name(V, j, k) = Name(K, j, k) /\ Ino(V, j, k) = Ino(K, j, k)
\* The tree without one path.
Cut(T, c) == [q \in DOMAIN T \ {c} |-> T[q]]
\* The entry that remove_child finds.
HasEntry(s, p, name) ==
    \E n \in Live(s.disk, s.dent[p].inode) :
        /\ matching(s, s.dent[p].inode, name) = {n}
        /\ Name(s.disk, s.dent[p].inode, n) = name
        /\ Ino(s.disk, s.dent[p].inode, n) = s.dent[Append(p, name)].inode
\* What dentry_unlink keeps: for a name, and for a dot.
Gone(s, p, name, t) ==
    /\ Removed(s.dent, p, name, t.dent)
    /\ t.at = s.at /\ t.ino = s.ino /\ t.err = s.err /\ t.lost = s.lost
UnlinkedName(C, T, s, p, name, t) ==
    LET c == Append(p, name)
        i == s.dent[c].inode
    IN  /\ Gone(s, p, name, t) /\ i \in Inodes /\ Good(C, Cut(T, c), {i}, t)
        /\ \A q \in DOMAIN Cut(T, c) : Cut(T, c)[q] # i
\* Dentry d has a parent, which is loaded.
HasParent(dn, d) ==
    /\ Up(d) \in DOMAIN dn /\ dn[Up(d)].load /\ Leaf(d) \in Text /\ d = Append(Up(d), Leaf(d))
    /\ d \in Seq(Text) /\ Up(d) \in Seq(Text)
\* What is known of a path a program passes.
Trail(path) ==
    /\ Way(path) /\ Way(Up(path)) /\ path # ROOT
    /\ Leaf(path) \in Text /\ Leaf(path) \notin Dots
    /\ path = Append(Up(path), Leaf(path)) /\ Up(path) \notin FilePaths
\* What dentry_lookup keeps.
LookedUp(C, T, X, s, path, t) ==
    /\ Good(C, T, X, t) /\ Kept(s, t) /\ Found(s, path, t)
    /\ t.disk = s.disk /\ t.ino = s.ino /\ t.err = s.err /\ t.lost = s.lost
\* What a call keeps, if it only adds names, and if it may remove some.
Grew(C, s, t) == Kept(s, t) /\ \E T : Good(C, T, {}, t)
Survive(s, t) == \A q \in DOMAIN s.dent \cap DOMAIN t.dent : t.dent[q].inode = s.dent[q].inode
Ends(C, s, t) == Survive(s, t) /\ \E T : Good(C, T, {}, t)
\* Sequence c is "." and "..", in some order.
TwoDots(c) == Len(c) = 2 /\ c[1] \in Dots /\ c[2] \in Dots /\ c[1] # c[2] /\ Range(c) = {c[1], c[2]}
\* Directory d has no entries left, and nothing else has changed but its dots.
Emptied(C, T, s, d, t) ==
    /\ Good(C, T, {}, t) /\ Survive(s, t) /\ ~t.lost /\ t.err = s.err
    /\ d \in DOMAIN t.dent /\ t.dent[d].load /\ t.dent[d].children = <<>>
    /\ t.dent[d].inode = s.dent[d].inode /\ DOMAIN t.dent \subseteq DOMAIN s.dent

-----------------------------------------------------------------------------
(* Sequences *)

\* Append adds one element at the end.
LEMMA AppendIs ==
    ASSUME NEW S, NEW q \in Seq(S), NEW e \in S
    PROVE  /\ Append(q, e) \in Seq(S) /\ Append(q, e) # <<>> /\ Len(Append(q, e)) = Len(q) + 1
           /\ \A k \in 1..Len(q) : Append(q, e)[k] = q[k]
           /\ Append(q, e)[Len(q) + 1] = e
OBVIOUS

\* The elements of two sequences, one after the other.
LEMMA ConcatIs ==
    ASSUME NEW S, NEW q \in Seq(S), NEW r \in Seq(S)
    PROVE  /\ q \o r \in Seq(S) /\ Len(q \o r) = Len(q) + Len(r)
           /\ \A k \in 1..(Len(q) + Len(r)) : (q \o r)[k] = IF k <= Len(q) THEN q[k] ELSE r[k - Len(q)]
OBVIOUS

\* A sequence is a function on 1..n.
LEMMA LenIs ==
    ASSUME NEW S, NEW q \in Seq(S)
    PROVE  Len(q) \in Nat /\ q \in [1..Len(q) -> S] /\ DOMAIN q = 1..Len(q)
OBVIOUS

\* A part of a sequence.
LEMMA SubSeqIs ==
    ASSUME NEW S, NEW q, NEW m \in Int, NEW n \in Int, \A k \in m..n : q[k] \in S
    PROVE  /\ SubSeq(q, m, n) \in Seq(S)
           /\ Len(SubSeq(q, m, n)) = IF m <= n THEN n - m + 1 ELSE 0
           /\ \A k \in 1..(n - m + 1) : SubSeq(q, m, n)[k] = q[m + k - 1]
OBVIOUS

\* Sequences with the same elements are the same.
LEMMA SameSeq ==
    ASSUME NEW S, NEW q \in Seq(S), NEW r \in Seq(S), Len(q) = Len(r), \A k \in 1..Len(q) : q[k] = r[k]
    PROVE  q = r
OBVIOUS

\* The empty sequence is the only one without elements.
LEMMA EmptyIs ==
    ASSUME NEW S
    PROVE  <<>> \in Seq(S) /\ Len(<<>>) = 0 /\ \A q \in Seq(S) : q # <<>> => Len(q) \in Nat \ {0}
OBVIOUS

\* What a sequence holds.
LEMMA ElementIs ==
    ASSUME NEW S, NEW q \in Seq(S), NEW k \in 1..Len(q)
    PROVE  q[k] \in S
OBVIOUS

\* A sequence that is not empty has a last element.
LEMMA SplitSeq ==
    ASSUME NEW S, NEW q \in Seq(S), q # <<>>
    PROVE  \E s \in Seq(S), e \in S : q = Append(s, e)
<1> DEFINE n == Len(q)
           s == SubSeq(q, 1, n - 1)
<1>1. n \in Nat /\ n # 0
  BY EmptyIs
<1>2. \A k \in 1..n : q[k] \in S
  OBVIOUS
<1>3. s \in Seq(S) /\ Len(s) = n - 1 /\ \A k \in 1..(n - 1) : s[k] = q[k]
  BY <1>1, <1>2
<1> HIDE DEF s
<1>4. Append(s, q[n]) \in Seq(S) /\ Len(Append(s, q[n])) = n /\ \A k \in 1..n : Append(s, q[n])[k] = q[k]
  BY <1>1, <1>2, <1>3
<1>5. q = Append(s, q[n])
  BY <1>4, SameSeq
<1> QED
  BY <1>1, <1>2, <1>3, <1>5

-----------------------------------------------------------------------------
(* Paths *)

\* What Up and Leaf return of a sequence with one more element.
LEMMA LastAppend ==
    ASSUME NEW S, NEW p \in Seq(S), NEW n \in S
    PROVE  Up(Append(p, n)) = p /\ Leaf(Append(p, n)) = n
<1> DEFINE q == Append(p, n)
<1>1. Len(p) \in Nat /\ Len(q) = Len(p) + 1
  OBVIOUS
<1>2. q[Len(p) + 1] = n /\ \A k \in 1..Len(p) : q[k] = p[k]
  OBVIOUS
<1>3. Up(q) = p
  <2> DEFINE f == SubSeq(q, 1, Len(q) - 1)
  <2>0. Len(q) - 1 = Len(p) /\ \A i \in 1..Len(p) : q[i] \in S
    BY <1>1, <1>2
  <2>1. f \in Seq(S) /\ Len(f) = IF 1 <= Len(p) THEN Len(p) - 1 + 1 ELSE 0
    BY <1>1, <2>0, SubSeqIs
  <2>2. \A i \in 1..(Len(p) - 1 + 1) : f[i] = q[1 + i - 1]
    BY <1>1, <2>0, SubSeqIs
  <2>3. Len(f) = Len(p) /\ \A i \in 1..Len(f) : f[i] = p[i]
    BY <1>1, <1>2, <2>1, <2>2
  <2> QED
    BY <2>1, <2>3, SameSeq DEF Up
<1> QED
  BY <1>1, <1>2, <1>3, Zenon DEF Leaf

\* A path and a name make a path, in one way only.
LEMMA Child ==
    ASSUME NEW p \in Seq(Text), NEW n \in Text
    PROVE  /\ Append(p, n) \in Seq(Text) /\ Append(p, n) # ROOT
           /\ Up(Append(p, n)) = p /\ Leaf(Append(p, n)) = n
           /\ Plain(Append(p, n)) <=> n \notin Dots
<1>1. Append(p, n) \in Seq(Text) /\ Append(p, n) # <<>>
  BY AppendIs, Zenon
<1>2. Up(Append(p, n)) = p /\ Leaf(Append(p, n)) = n
  BY LastAppend, Zenon
<1> QED
  BY <1>1, <1>2, Zenon DEF Plain, ROOT

\* Two children are the same path only if parents and names are.
LEMMA OneChild ==
    ASSUME NEW p \in Seq(Text), NEW n \in Text, NEW q \in Seq(Text), NEW m \in Text,
           Append(p, n) = Append(q, m)
    PROVE  p = q /\ n = m
<1>1. Up(Append(p, n)) = p /\ Leaf(Append(p, n)) = n
  BY Child, Zenon
<1>2. Up(Append(q, m)) = q /\ Leaf(Append(q, m)) = m
  BY Child, Zenon
<1> QED
  BY <1>1, <1>2, Zenon

\* A path that is not the root has a last name.
LEMMA Split ==
    ASSUME NEW path \in Seq(Text), path # <<>>
    PROVE  /\ Up(path) \in Seq(Text) /\ Leaf(path) \in Text
           /\ path = Append(Up(path), Leaf(path))
<1>1. PICK s \in Seq(Text), e \in Text : path = Append(s, e)
  BY SplitSeq, Zenon
<1> QED
  BY <1>1, Child, Zenon

\* No path is below itself.
LEMMA NotOwnChild ==
    ASSUME NEW p \in Seq(Text), NEW n \in Text
    PROVE  Append(p, n) # p
<1>1. Len(Append(p, n)) = Len(p) + 1 /\ Len(p) \in Nat
  BY AppendIs, LenIs, Zenon
<1> QED
  BY <1>1

-----------------------------------------------------------------------------
(* Reading a directory *)

\* The fields of a dentry.
LEMMA NodeFields ==
    ASSUME NEW r \in Node
    PROVE  r.inode \in Inodes /\ r.children \in Seq(Text) /\ r.nentries \in Nat /\ r.load \in BOOLEAN
BY Zenon DEF Node

\* A write to the volume changes nothing else.
LEMMA WriteFields ==
    ASSUME NEW s, NEW K, DOMAIN s = Fields
    PROVE  Wrote(s, K, Write(s, K))
BY DEF Write, Fields, Wrote

\* Nor does an error.
LEMMA FailFields ==
    ASSUME NEW s, NEW e, DOMAIN s = Fields
    PROVE  Failed(s, e, Fail(s, e))
BY DEF Fail, Fields, Failed

\* add_child: a new dentry, which its parent has first.
LEMMA AddChild ==
    ASSUME NEW s, NEW d \in Seq(Text), NEW name \in Text, NEW i,
           DOMAIN s = Fields, d \in DOMAIN s.dent, s.dent[d] \in Node
    PROVE  Added(s, d, name, i, add_child(s, d, name, i))
<1> DEFINE c == Append(d, name)
           u == alloc_dentry(s, c, i)
           t == add_child(s, d, name, i)
<1>1. c # d
  BY NotOwnChild
<1>2. /\ DOMAIN u = Fields
      /\ u.disk = s.disk /\ u.at = s.at /\ u.ino = s.ino /\ u.err = s.err
      /\ u.room = s.room /\ u.lost = s.lost /\ u.trace = s.trace
      /\ u.dent = [p \in DOMAIN s.dent \cup {c} |-> IF p = c THEN NewDentry(i) ELSE s.dent[p]]
  BY DEF alloc_dentry, Fields
<1>3. /\ DOMAIN u.dent = DOMAIN s.dent \cup {c}
      /\ u.dent[c] = NewDentry(i)
      /\ \A p \in DOMAIN s.dent : p # c => u.dent[p] = s.dent[p]
  BY <1>2, Zenon
<1> DEFINE v == [u.dent[d] EXCEPT !.children = <<name>> \o @, !.nentries = @ + 1]
<1>4. u.dent[d] = s.dent[d]
  BY <1>1, <1>3, Zenon
<1>5. /\ v \in Node /\ v.inode = s.dent[d].inode /\ v.load = s.dent[d].load
      /\ v.children = <<name>> \o s.dent[d].children /\ v.nentries = s.dent[d].nentries + 1
  <2>1. u.dent[d] \in Node /\ u.dent[d].children \in Seq(Text) /\ u.dent[d].nentries \in Nat
    BY <1>4, NodeFields, Zenon
  <2>2. <<name>> \o u.dent[d].children \in Seq(Text)
    <3>1. <<name>> \in Seq(Text)
      OBVIOUS
    <3> QED
      BY <2>1, <3>1, ConcatIs, Zenon
  <2>3. u.dent[d].nentries + 1 \in Nat
    BY <2>1
  <2> DEFINE x == <<name>> \o u.dent[d].children
             n == u.dent[d].nentries + 1
             r == u.dent[d]
  <2>4. v = [r EXCEPT !.children = x, !.nentries = n]
    OBVIOUS
  <2>5. r \in Node /\ x \in Seq(Text) /\ n \in Nat
    BY <2>1, <2>2, <2>3, Zenon
  <2> HIDE DEF x, n, r, v
  <2>6. v \in Node /\ v.inode = r.inode /\ v.load = r.load /\ v.children = x /\ v.nentries = n
    <3>1. v \in Node
      BY <2>4, <2>5, Zenon DEF Node
    <3>2. v.inode = r.inode /\ v.load = r.load /\ v.children = x /\ v.nentries = n
      BY <2>4, <2>5 DEF Node
    <3> QED
      BY <3>1, <3>2, Zenon
  <2> QED
    BY <1>4, <2>6, Zenon DEF x, n, r
<1> HIDE DEF v
<1>6. t = [u EXCEPT !.dent = [u.dent EXCEPT ![d] = v]]
  BY <1>2, <1>3, Zenon DEF add_child, Fields, v
<1>7. /\ DOMAIN t = Fields
      /\ t.disk = s.disk /\ t.at = s.at /\ t.ino = s.ino /\ t.err = s.err
      /\ t.room = s.room /\ t.lost = s.lost /\ t.trace = s.trace
      /\ t.dent = [u.dent EXCEPT ![d] = v]
  BY <1>2, <1>6, Zenon DEF Fields
<1>8. /\ DOMAIN t.dent = DOMAIN s.dent \cup {c}
      /\ t.dent[d] = v
      /\ t.dent[c] = NewDentry(i)
      /\ \A p \in DOMAIN s.dent : p # d /\ p # c => t.dent[p] = s.dent[p]
  BY <1>1, <1>3, <1>7
<1> HIDE DEF t
<1>9. Added(s, d, name, i, t)
  BY <1>5, <1>7, <1>8, Zenon DEF Added, Rest
<1> QED
  BY <1>9, Zenon DEF t

-----------------------------------------------------------------------------
(* Sequences and numbers *)

\* A set of numbers that is not empty has a least one.
LEMMA LeastNumber ==
    ASSUME Library, NEW T, T \subseteq Nat, T # {}
    PROVE  \E k \in T : \A y \in T : k <= y
BY Zenon DEF Library

\* A set that can be numbered from 0 to B has at most B + 1 elements.
LEMMA FewNumbers ==
    ASSUME Library, NEW S, NEW B \in Nat, NEW f, Numbers(S, 0..B, f)
    PROVE  IsFiniteSet(S) /\ Cardinality(S) <= B + 1
BY Zenon DEF Library

\* A set numbered from 1 to n has n elements.
LEMMA AllNumbered ==
    ASSUME Library, NEW S, NEW n \in Nat, NEW f, Numbers(1..n, S, f), Onto(1..n, S, f)
    PROVE  Cardinality(S) = n
BY Zenon DEF Library

\* A set with one more element.
LEMMA OneMoreElement ==
    ASSUME Library, NEW S, IsFiniteSet(S), NEW x
    PROVE  /\ IsFiniteSet(S \cup {x})
           /\ Cardinality(S \cup {x}) = IF x \in S THEN Cardinality(S) ELSE Cardinality(S) + 1
BY Zenon DEF Library

\* A set with one element.
LEMMA SetOfOne ==
    ASSUME Library, NEW x
    PROVE  IsFiniteSet({x}) /\ Cardinality({x}) = 1
<1>1. {} \cup {x} = {x} /\ x \notin {}
  BY Zenon
<1>2. IsFiniteSet({}) /\ Cardinality({}) = 0
  BY Zenon DEF Library
<1>3. IsFiniteSet({} \cup {x}) /\ Cardinality({} \cup {x}) = 0 + 1
  BY <1>1, <1>2, OneMoreElement, Zenon
<1> QED
  BY <1>1, <1>3

\* list_add: one more element, at the front.
LEMMA Prepend ==
    ASSUME NEW S, NEW c \in Seq(S), NEW n \in S
    PROVE  Pushed(c, n, <<n>> \o c)
<1> DEFINE r == <<n>> \o c
<1>1. Len(c) \in Nat /\ DOMAIN c = 1..Len(c)
  BY LenIs, Zenon
<1>2. r \in Seq(S) /\ Len(r) = Len(c) + 1
  OBVIOUS
<1>3. r[1] = n /\ \A k \in 1..Len(c) : r[k + 1] = c[k]
  OBVIOUS
<1>4. DOMAIN r = 1..(Len(c) + 1)
  BY <1>2, LenIs, Zenon
<1> HIDE DEF r
<1>5. \A k \in 1..(Len(c) + 1) : k = 1 \/ (k - 1 \in 1..Len(c) /\ r[k] = c[k - 1])
  <2> SUFFICES ASSUME NEW k \in 1..(Len(c) + 1), k # 1
               PROVE  k - 1 \in 1..Len(c) /\ r[k] = c[k - 1]
    BY Zenon
  <2>1. k - 1 \in 1..Len(c) /\ (k - 1) + 1 = k
    BY <1>1
  <2> QED BY <1>3, <2>1, Zenon
<1>6. Range(r) = Range(c) \cup {n}
  <2>1. \A x : x \in Range(r) => x \in Range(c) \cup {n}
    <3> SUFFICES ASSUME NEW k \in 1..(Len(c) + 1) PROVE r[k] \in Range(c) \cup {n}
      BY <1>4, Zenon DEF Range
    <3> QED BY <1>1, <1>3, <1>5, Zenon DEF Range
  <2>2. n \in Range(r)
    <3>1. 1 \in 1..(Len(c) + 1)
      BY <1>1
    <3> QED BY <1>3, <1>4, <3>1, Zenon DEF Range
  <2>3. \A x : x \in Range(c) => x \in Range(r)
    <3>1. \A k \in 1..Len(c) : k + 1 \in 1..(Len(c) + 1)
      BY <1>1
    <3> QED BY <1>1, <1>3, <1>4, <3>1, Zenon DEF Range
  <2> QED BY <2>1, <2>2, <2>3, Zenon
<1>7. ASSUME n \notin Range(c), Inj(c) PROVE Inj(r)
  <2> SUFFICES ASSUME NEW k \in 1..(Len(c) + 1), NEW l \in 1..(Len(c) + 1), r[k] = r[l]
               PROVE  k = l
    BY <1>2, Zenon DEF Inj
  <2>1. \A m \in 1..Len(c) : c[m] # n
    BY <1>1, <1>7, Zenon DEF Range
  <2>2. CASE k = 1
    BY <1>3, <1>5, <2>1, <2>2, Zenon
  <2>3. CASE l = 1
    BY <1>3, <1>5, <2>1, <2>3, Zenon
  <2>4. CASE k # 1 /\ l # 1
    <3>1. k - 1 \in 1..Len(c) /\ l - 1 \in 1..Len(c) /\ c[k - 1] = c[l - 1]
      BY <1>5, <2>4, Zenon
    <3>2. k - 1 = l - 1
      BY <1>7, <3>1, Zenon DEF Inj
    <3> QED BY <3>2
  <2> QED BY <2>2, <2>3, <2>4, Zenon
<1> QED
  BY <1>2, <1>6, <1>7, Zenon DEF r, Pushed

\* The loop of read_children has a run of any length.
LEMMA LoadRun ==
    ASSUME Library, NEW s, NEW d, NEW q, NEW n \in Nat
    PROVE  \E g : Loop(s, d, q, n, g)
<1> DEFINE Run(g, m) == Loop(s, d, q, m, g)
           T == {m \in Nat : ~ \E g : Run(g, m)}
<1> SUFFICES ASSUME T # {} PROVE FALSE
  BY Zenon
<1>1. PICK m \in T : \A y \in T : m <= y
  BY LeastNumber, Zenon
<1>2. m \in Nat /\ ~ \E g : Run(g, m)
  BY <1>1, Zenon
<1>3. CASE m = 0
  <2> DEFINE g == [k \in 0..0 |-> s]
  <2>1. \A k \in 0..0 : k = 0
    OBVIOUS
  <2>2. Run(g, 0)
    BY <2>1, Zenon DEF Loop
  <2> QED BY <1>2, <1>3, <2>2, Zenon
<1>4. CASE m # 0
  <2>1. m - 1 \in Nat /\ ~ (m <= m - 1)
    BY <1>2, <1>4
  <2>2. PICK g : Run(g, m - 1)
    BY <1>1, <2>1, Zenon
  <2>3. \A k \in 0..(m - 1) : g[k] = IF k = 0 THEN s ELSE Load(g[k - 1], d, q[k])
    BY <2>2, Zenon DEF Loop
  <2> DEFINE h == [k \in 0..m |-> IF k = m THEN Load(g[m - 1], d, q[m]) ELSE g[k]]
  <2>4. \A k \in 0..m : k # m => k \in 0..(m - 1) /\ (k # 0 => k - 1 \in 0..m /\ k - 1 # m)
    BY <1>2
  <2>5. m - 1 \in 0..m /\ m - 1 # m
    BY <1>2, <1>4
  <2>6. ASSUME NEW k \in 0..m
        PROVE  h[k] = IF k = 0 THEN s ELSE Load(h[k - 1], d, q[k])
    <3>1. CASE k = m
      BY <1>4, <2>5, <3>1, Zenon
    <3>2. CASE k # m
      BY <2>3, <2>4, <3>2, Zenon
    <3> QED BY <3>1, <3>2, Zenon
  <2>7. h = [k \in 0..m |-> h[k]]
    BY Zenon
  <2> HIDE DEF h
  <2>8. Run(h, m)
    BY <2>6, <2>7, Zenon DEF Loop
  <2> QED BY <1>2, <2>8, Zenon
<1> QED
  BY <1>3, <1>4, Zenon

-----------------------------------------------------------------------------
(* read_children *)

\* The numbers, without the names.
LEMMA Bounds ==
    /\ InodeNum \in 1..(LINKS - 3)
    /\ DIRENTS_PER_BLOCK \in Nat \ {0}
BY DentryAssumption, Zenon

\* nlinks can hold more than a few links.
LEMMA LinksNat ==
    LINKS \in Nat /\ LINKS > 3
BY DEF LINKS

\* The types of an entry that is in use.
LEMMA LiveType ==
    ASSUME NEW K \in Volume, NEW i \in Inodes, NEW k \in Live(K, i)
    PROVE  /\ Name(K, i, k) \in Text /\ Ino(K, i, k) \in Inodes
           /\ k \in 1..Len(K[i].slots) /\ K[i].slots[k] \in Slot
<1>1. K[i].slots \in Seq(Slot) /\ k \in 1..Len(K[i].slots) /\ K[i].slots[k].ino # 0
  <2>1. K[i] \in [mode : {"free", "dir", "file"}, nlinks : 0..(LINKS - 1), slots : Seq(Slot)]
    BY Zenon DEF Volume
  <2>2. K[i].slots \in Seq(Slot)
    BY <2>1, Zenon
  <2>3. k \in 1..Len(K[i].slots) /\ K[i].slots[k].ino # 0
    BY Zenon DEF Live
  <2> QED BY <2>2, <2>3, Zenon
<1>2. K[i].slots[k] \in Slot
  BY <1>1, ElementIs, Zenon
<1>3. K[i].slots[k].name \in Text /\ K[i].slots[k].ino \in 0..InodeNum
  BY <1>2, Zenon DEF Slot
<1>4. K[i].slots[k].ino \in Inodes
  BY <1>1, <1>3, Bounds, LinksNat DEF Inodes
<1> QED
  BY <1>1, <1>2, <1>3, <1>4, Zenon DEF Name, Ino

\* The dentry alloc_dentry makes.
LEMMA NewNode ==
    ASSUME NEW i \in Inodes
    PROVE  /\ NewDentry(i) \in Node /\ NewDentry(i).inode = i /\ NewDentry(i).nentries = 0
           /\ NewDentry(i).load = FALSE /\ NewDentry(i).children = <<>>
<1>1. <<>> \in Seq(Text) /\ 0 \in Nat /\ FALSE \in BOOLEAN
  OBVIOUS
<1>2. NewDentry(i) \in Node
  BY <1>1, Zenon DEF NewDentry, Node
<1> QED
  BY <1>2 DEF NewDentry

\* A dentry has an element for each child, and every child has its dentry.
LEMMA ChildNames ==
    ASSUME NEW dn, Shape(dn), NEW d \in DOMAIN dn
    PROVE  /\ d \in Seq(Text) /\ dn[d] \in Node /\ dn[d].inode \in Inodes
           /\ dn[d].children \in Seq(Text)
           /\ \A n \in Range(dn[d].children) : n \in Text /\ Append(d, n) \in DOMAIN dn
           /\ \A n \in Text : Append(d, n) \in DOMAIN dn => n \in Range(dn[d].children)
<1>1. d \in Seq(Text) /\ dn[d] \in Node
  BY Zenon DEF Shape
<1>2. dn[d].children \in Seq(Text) /\ dn[d].inode \in Inodes
  BY <1>1, NodeFields, Zenon
<1>3. \A p \in DOMAIN dn : \A n \in Range(dn[p].children) : n \in Text
  <2> SUFFICES ASSUME NEW p \in DOMAIN dn, NEW n \in Range(dn[p].children) PROVE n \in Text
    BY Zenon
  <2>1. dn[p].children \in Seq(Text)
    BY NodeFields, Zenon DEF Shape
  <2>2. PICK k \in DOMAIN dn[p].children : n = dn[p].children[k]
    BY Zenon DEF Range
  <2>3. k \in 1..Len(dn[p].children)
    BY <2>1, LenIs, Zenon
  <2> QED BY <2>1, <2>2, <2>3, ElementIs, Zenon
<1>4. ASSUME NEW n \in Text, Append(d, n) \in DOMAIN dn PROVE n \in Range(dn[d].children)
  <2>1. Append(d, n) # ROOT
    BY <1>1, Child, Zenon
  <2>2. PICK p \in DOMAIN dn : \E m \in Range(dn[p].children) : Append(d, n) = Append(p, m)
    BY <1>4, <2>1, Zenon DEF Shape
  <2>5. PICK m \in Range(dn[p].children) : Append(d, n) = Append(p, m)
    BY <2>2, Zenon
  <2>3. p \in Seq(Text) /\ m \in Text
    BY <1>3, Zenon DEF Shape
  <2>4. d = p /\ n = m
    BY <1>1, <2>5, <2>3, OneChild
  <2> QED BY <2>4, Zenon
<1>5. \A n \in Range(dn[d].children) : Append(d, n) \in DOMAIN dn
  BY Zenon DEF Shape
<1> QED
  BY <1>1, <1>2, <1>3, <1>4, <1>5, Zenon

\* An empty list has no elements.
LEMMA EmptyRange ==
    Range(<<>>) = {}
BY DEF Range

\* A directory that is not loaded has no child in memory.
LEMMA NoChildYet ==
    ASSUME NEW dn, Shape(dn), NEW d \in DOMAIN dn, dn[d].children = <<>>, NEW n \in Text
    PROVE  Append(d, n) \notin DOMAIN dn
BY ChildNames, EmptyRange, Zenon

\* One round of the loop.
LEMMA OpenOne ==
    ASSUME NEW s, Formed(s), NEW d \in DOMAIN s.dent, ~s.dent[d].load,
           NEW L \in SUBSET Live(s.disk, s.dent[d].inode),
           NEW k \in Live(s.disk, s.dent[d].inode), k \notin L,
           NEW t, Opened(s, d, L, FALSE, t)
    PROVE  Opened(s, d, L \cup {k}, FALSE,
                  add_child(t, d, Name(s.disk, s.dent[d].inode, k), Ino(s.disk, s.dent[d].inode, k)))
<1> DEFINE K == s.disk
           i == s.dent[d].inode
           name == Name(K, i, k)
           c == Append(d, name)
           u == add_child(t, d, name, Ino(K, i, k))
           M == L \cup {k}
<1>0. /\ K \in Volume /\ i \in Inodes /\ d \in Seq(Text) /\ s.dent[d] \in Node
      /\ s.dent[d].children = <<>> /\ Shape(s.dent)
  BY ChildNames, Zenon DEF Formed, Shape
<1>1. \A l \in Live(K, i) : Name(K, i, l) \in Text /\ Ino(K, i, l) \in Inodes
  BY <1>0, LiveType, Zenon
<1>2. /\ Rest(s, t) /\ t.at = s.at
      /\ DOMAIN t.dent = DOMAIN s.dent \cup {Append(d, n) : n \in Names(K, i, L)}
      /\ t.dent[d] \in Node /\ t.dent[d].inode = i /\ t.dent[d].load = FALSE
      /\ t.dent[d].nentries = Len(t.dent[d].children)
      /\ Range(t.dent[d].children) = Names(K, i, L)
      /\ Distinct(K) => Inj(t.dent[d].children)
      /\ \A l \in L : \E m \in L : /\ Name(K, i, m) = Name(K, i, l)
                                 /\ t.dent[Append(d, Name(K, i, l))] = NewDentry(Ino(K, i, m))
      /\ \A p \in DOMAIN s.dent : p # d => t.dent[p] = s.dent[p]
  BY Zenon DEF Opened
<1>a. k \in Live(K, i) /\ L \subseteq Live(K, i) /\ d \in DOMAIN t.dent /\ name \in Text
  BY <1>1, <1>2, Zenon
<1> HIDE DEF K, i
<1>b. Added(t, d, name, Ino(K, i, k), u)
  <2>1. DOMAIN t = Fields /\ d \in DOMAIN t.dent /\ t.dent[d] \in Node /\ name \in Text
    BY <1>a, <1>2, Zenon DEF Rest
  <2> HIDE DEF name
  <2> QED BY <1>0, <2>1, AddChild, Zenon
<1> HIDE DEF u
<1>3. /\ Rest(t, u) /\ u.at = t.at
      /\ DOMAIN u.dent = DOMAIN t.dent \cup {c}
      /\ u.dent[c] = NewDentry(Ino(K, i, k))
      /\ u.dent[d] \in Node
      /\ u.dent[d].inode = t.dent[d].inode /\ u.dent[d].load = t.dent[d].load
      /\ u.dent[d].children = <<name>> \o t.dent[d].children
      /\ u.dent[d].nentries = t.dent[d].nentries + 1
      /\ \A p \in DOMAIN t.dent : p # d /\ p # c => u.dent[p] = t.dent[p]
  BY <1>b, Zenon DEF Added
<1>4. Rest(s, u) /\ u.at = s.at
  BY <1>2, <1>3, Zenon DEF Rest
<1>5. \A x : x \in Names(K, i, M) <=> x \in Names(K, i, L) \/ x = name
  BY Zenon DEF Names
<1>6. \A x : x \in DOMAIN u.dent <=> x \in DOMAIN s.dent \cup {Append(d, n) : n \in Names(K, i, M)}
  BY <1>2, <1>3, <1>5, Zenon
<1>7. name \in Text /\ t.dent[d].children \in Seq(Text)
  BY <1>a, <1>2, NodeFields, Zenon
<1>8. /\ Len(u.dent[d].children) = Len(t.dent[d].children) + 1
      /\ Range(u.dent[d].children) = Range(t.dent[d].children) \cup {name}
      /\ name \notin Range(t.dent[d].children) /\ Inj(t.dent[d].children) => Inj(u.dent[d].children)
  <2> DEFINE x == t.dent[d].children
  <2>1. Pushed(x, name, <<name>> \o x)
    <3>1. x \in Seq(Text) /\ name \in Text
      BY <1>7, Zenon
    <3> HIDE DEF x, name
    <3> QED BY <3>1, Prepend, Zenon
  <2> HIDE DEF name
  <2> QED BY <1>3, <2>1, Zenon DEF Pushed
<1>9. Distinct(K) => name \notin Names(K, i, L)
  BY <1>0, Zenon DEF Distinct, Names, K, i
<1>10. \A l \in M : \E m \in M : /\ Name(K, i, m) = Name(K, i, l)
                                /\ u.dent[Append(d, Name(K, i, l))] = NewDentry(Ino(K, i, m))
  <2> SUFFICES ASSUME NEW l \in M
               PROVE  \E m \in M : /\ Name(K, i, m) = Name(K, i, l)
                                   /\ u.dent[Append(d, Name(K, i, l))] = NewDentry(Ino(K, i, m))
    BY Zenon
  <2>1. CASE Name(K, i, l) = name
    BY <1>3, <2>1, Zenon
  <2>2. CASE Name(K, i, l) # name
    <3>1. l \in L
      BY <2>2, Zenon
    <3>2. PICK m \in L : /\ Name(K, i, m) = Name(K, i, l)
                         /\ t.dent[Append(d, Name(K, i, l))] = NewDentry(Ino(K, i, m))
      BY <1>2, <3>1, Zenon
    <3>3. Name(K, i, l) \in Text
      BY <1>a, <1>1, <3>1, Zenon
    <3>4. Append(d, Name(K, i, l)) # c /\ Append(d, Name(K, i, l)) # d
      BY <1>0, <1>7, <2>2, <3>3, OneChild, NotOwnChild, Zenon
    <3>5. Append(d, Name(K, i, l)) \in DOMAIN t.dent
      BY <1>2, <3>1, Zenon DEF Names
    <3> QED BY <1>3, <3>2, <3>4, <3>5, Zenon
  <2> QED BY <2>1, <2>2, Zenon
<1>11. c \notin DOMAIN s.dent
  BY <1>0, <1>7, NoChildYet, Zenon
<1>12. \A p \in DOMAIN s.dent : p # d => u.dent[p] = s.dent[p]
  BY <1>2, <1>3, <1>11, Zenon
<1>13. Opened(s, d, M, FALSE, u)
  <2>1. DOMAIN u.dent = DOMAIN s.dent \cup {Append(d, n) : n \in Names(K, i, M)}
    BY <1>6, Zenon
  <2>2. Range(u.dent[d].children) = Names(K, i, M)
    <3>1. \A x : x \in Range(u.dent[d].children) <=> x \in Names(K, i, M)
      BY <1>2, <1>5, <1>8, Zenon
    <3> QED BY <3>1, Zenon
  <2>3. Distinct(K) => Inj(u.dent[d].children)
    BY <1>2, <1>8, <1>9, Zenon
  <2> HIDE DEF M
  <2> QED
    BY <1>2, <1>3, <1>4, <1>8, <1>10, <1>12, <2>1, <2>2, <2>3, Zenon DEF Opened, K, i
<1> QED
  BY <1>13, Zenon DEF u, K, i

\* Before the loop.
LEMMA OpenedNone ==
    ASSUME NEW s, Formed(s), NEW d \in DOMAIN s.dent, ~s.dent[d].load
    PROVE  Opened(s, d, {}, FALSE, s)
<1> DEFINE K == s.disk
           i == s.dent[d].inode
<1>0. s.dent[d] \in Node /\ s.dent[d].children = <<>> /\ s.dent[d].nentries = 0
  BY ChildNames, Zenon DEF Formed, Shape
<1>1. Names(K, i, {}) = {}
  BY Zenon DEF Names
<1>2. {Append(d, n) : n \in Names(K, i, {})} = {}
  BY <1>1, Zenon
<1>3. Len(<<>>) = 0 /\ Range(<<>>) = {} /\ Inj(<<>>)
  <2>1. Len(<<>>) = 0 /\ \A k \in 1..0 : FALSE
    OBVIOUS
  <2> QED BY <2>1, EmptyRange, Zenon DEF Inj
<1>4. Rest(s, s)
  BY Zenon DEF Rest, Formed
<1>5. DOMAIN s.dent = DOMAIN s.dent \cup {Append(d, n) : n \in Names(K, i, {})}
  BY <1>2, Zenon
<1>6. /\ s.dent[d].nentries = Len(s.dent[d].children) /\ Inj(s.dent[d].children)
      /\ Range(s.dent[d].children) = Names(K, i, {}) /\ s.dent[d].load = FALSE
  <2>1. s.dent[d].load \in BOOLEAN
    BY <1>0, NodeFields, Zenon
  <2> QED BY <1>0, <1>1, <1>3, <2>1, Zenon
<1> QED BY <1>0, <1>4, <1>5, <1>6, Zenon DEF Opened

\* The loop: every entry in use becomes a child.
LEMMA Loading ==
    ASSUME Library, NEW s, Formed(s), NEW d \in DOMAIN s.dent, ~s.dent[d].load,
           NEW q, q = s.disk[s.dent[d].inode].slots,
           NEW g, Loop(s, d, q, Len(q), g)
    PROVE  Opened(s, d, Live(s.disk, s.dent[d].inode), FALSE, g[Len(q)])
<1> DEFINE K == s.disk
           i == s.dent[d].inode
           N == Len(q)
           Go(k) == {m \in Live(K, i) : m <= k}
<1>0. /\ K \in Volume /\ i \in Inodes /\ s.dent[d] \in Node
      /\ s.dent[d].children = <<>> /\ s.dent[d].nentries = 0
  BY ChildNames, Zenon DEF Formed, Shape
<1>1. q \in Seq(Slot) /\ N \in Nat
  <2>1. K[i] \in [mode : {"free", "dir", "file"}, nlinks : 0..(LINKS - 1), slots : Seq(Slot)]
    BY <1>0, Zenon DEF Volume
  <2>2. q \in Seq(Slot)
    BY <2>1, Zenon
  <2> QED BY <2>2, LenIs, Zenon
<1>2. \A k \in 0..N : g[k] = IF k = 0 THEN s ELSE Load(g[k - 1], d, q[k])
  BY Zenon DEF Loop
<1>3. \A k : k \in Live(K, i) <=> k \in 1..N /\ q[k].ino # 0
  BY Zenon DEF Live
<1>4. Opened(s, d, {}, FALSE, s)
  BY OpenedNone, Zenon
<1> HIDE DEF N
<1> DEFINE Bad == {k \in 0..N : ~Opened(s, d, Go(k), FALSE, g[k])}
<1>5. Bad = {}
  <2> SUFFICES ASSUME Bad # {} PROVE FALSE
    BY Zenon
  <2>1. Bad \subseteq Nat
    <3>1. \A k \in 0..N : k \in Nat
      BY <1>1
    <3> QED BY <3>1, Zenon
  <2>2. PICK k \in Bad : \A y \in Bad : k <= y
    <3> HIDE DEF Bad
    <3> QED BY <2>1, LeastNumber, Zenon
  <2>3. k \in 0..N /\ ~Opened(s, d, Go(k), FALSE, g[k])
    BY <2>2, Zenon
  <2>4. CASE k = 0
    <3>1. Go(0) = {}
      <4>1. \A m \in 1..N : ~(m <= 0)
        BY <1>1
      <4> QED BY <1>3, <4>1, ZenonT(60)
    <3>2. g[0] = s
      BY <1>2, <2>3, <2>4, Zenon
    <3> QED BY <1>4, <2>3, <2>4, <3>1, <3>2, Zenon
  <2>5. CASE k # 0
    <3>1. k - 1 \in 0..N /\ k \in 1..N /\ ~(k <= k - 1)
      BY <1>1, <2>3, <2>5
    <3>2. Opened(s, d, Go(k - 1), FALSE, g[k - 1])
      BY <2>2, <3>1, Zenon
    <3>3. g[k] = Load(g[k - 1], d, q[k])
      BY <1>2, <2>3, <2>5, ZenonT(60)
    <3>4. \A m \in 1..N : m <= k <=> m <= k - 1 \/ m = k
      BY <1>1, <3>1
    <3>5. CASE q[k].ino = 0
      <4>1. \A m : m \in Go(k) <=> m \in Go(k - 1)
        BY <1>3, <3>4, <3>5, Zenon
      <4>2. Go(k) = Go(k - 1)
        BY <4>1, Zenon
      <4>3. g[k] = g[k - 1]
        BY <3>3, <3>5, Zenon DEF Load
      <4> QED BY <2>3, <3>2, <4>2, <4>3, Zenon
    <3>6. CASE q[k].ino # 0
      <4>1. k \in Live(K, i)
        BY <1>3, <3>1, <3>6, Zenon
      <4>2. k <= k /\ \A m \in 1..N : m <= k <=> m <= k - 1 \/ m = k
        BY <3>1, <3>4
      <4>3. \A m : m \in Go(k) <=> m \in Go(k - 1) \cup {k}
        BY <1>3, <4>1, <4>2, Zenon
      <4>4. Go(k) = Go(k - 1) \cup {k}
        BY <4>3, Zenon
      <4>5. g[k] = add_child(g[k - 1], d, Name(K, i, k), Ino(K, i, k))
        BY <3>3, <3>6, Zenon DEF Load, Name, Ino
      <4>6. k \notin Go(k - 1) /\ Go(k - 1) \in SUBSET Live(K, i)
        BY <3>1, Zenon
      <4> DEFINE L == Go(k - 1)
      <4>7. L \in SUBSET Live(K, i) /\ k \notin L /\ Opened(s, d, L, FALSE, g[k - 1])
        BY <3>2, <4>6, Zenon
      <4> HIDE DEF L, Go
      <4>8. Opened(s, d, L \cup {k}, FALSE, add_child(g[k - 1], d, Name(K, i, k), Ino(K, i, k)))
        BY <4>1, <4>7, OpenOne, ZenonT(60)
      <4> QED BY <2>3, <4>4, <4>5, <4>8, Zenon DEF L
    <3> QED BY <3>5, <3>6, ZenonT(60)
  <2> QED BY <2>4, <2>5, Zenon
<1>6. N \in 0..N
  BY <1>1
<1>7. Opened(s, d, Go(N), FALSE, g[N])
  BY <1>5, <1>6, Zenon
<1>8. Go(N) = Live(K, i)
  <2>1. \A m \in 1..N : m <= N
    BY <1>1
  <2> QED BY <1>3, <2>1, Zenon
<1> QED
  BY <1>7, <1>8, Zenon DEF N

\* read_children, of a dentry that was not loaded.
LEMMA ReadOnce ==
    ASSUME Library, NEW s, Formed(s), NEW d \in DOMAIN s.dent, ~s.dent[d].load
    PROVE  \E L \in SUBSET Live(s.disk, s.dent[d].inode) :
              /\ s.disk[s.dent[d].inode].mode = "dir" => L = Live(s.disk, s.dent[d].inode)
              /\ s.disk[s.dent[d].inode].mode # "dir" => L = {}
              /\ Opened(s, d, L, TRUE, read_children(s, d))
<1> DEFINE K == s.disk
           i == s.dent[d].inode
           q == K[i].slots
           Run(g) == g = [k \in 0..Len(q) |-> IF k = 0 THEN s ELSE Load(g[k - 1], d, q[k])]
           after == CHOOSE g : Run(g)
           loaded(u) == [u EXCEPT !.dent[d].load = TRUE]
<1>0. K \in Volume /\ i \in Inodes /\ s.dent[d].children = <<>> /\ s.dent[d].nentries = 0 /\ s.dent[d] \in Node
  BY ChildNames, Zenon DEF Formed, Shape
<1>1. Len(q) \in Nat
  <2>1. K[i] \in [mode : {"free", "dir", "file"}, nlinks : 0..(LINKS - 1), slots : Seq(Slot)]
    BY <1>0, Zenon DEF Volume
  <2>2. q \in Seq(Slot)
    BY <2>1, Zenon
  <2> QED BY <2>2, LenIs, Zenon
<1>3. d \in Seq(Text) /\ \A k \in Live(K, i) : Name(K, i, k) \in Text
  BY <1>0, LiveType, ChildNames, Zenon DEF Formed
<1>2. ASSUME NEW L \in SUBSET Live(K, i), NEW u, Opened(s, d, L, FALSE, u)
      PROVE  Opened(s, d, L, TRUE, loaded(u))
  <2> DEFINE t == loaded(u)
             v == [u.dent[d] EXCEPT !.load = TRUE]
  <2>1. DOMAIN u = Fields /\ u.dent[d] \in Node /\ d \in DOMAIN u.dent
    BY <1>2, Zenon DEF Opened, Rest
  <2>2. t = [u EXCEPT !.dent = [u.dent EXCEPT ![d] = v]]
    BY <2>1, Zenon DEF Fields
  <2>3. /\ v \in Node /\ v.inode = u.dent[d].inode /\ v.load = TRUE
        /\ v.children = u.dent[d].children /\ v.nentries = u.dent[d].nentries
    <3>1. v \in Node
      BY <2>1, Zenon DEF Node
    <3>2. v.inode = u.dent[d].inode /\ v.load = TRUE
          /\ v.children = u.dent[d].children /\ v.nentries = u.dent[d].nentries
      BY <2>1 DEF Node
    <3> QED BY <3>1, <3>2, Zenon
  <2> HIDE DEF v, t
  <2>4. /\ DOMAIN t = Fields
        /\ t.disk = u.disk /\ t.at = u.at /\ t.ino = u.ino /\ t.err = u.err
        /\ t.room = u.room /\ t.lost = u.lost /\ t.trace = u.trace
        /\ t.dent = [u.dent EXCEPT ![d] = v]
    BY <2>1, <2>2, Zenon DEF Fields
  <2>5. DOMAIN t.dent = DOMAIN u.dent /\ t.dent[d] = v /\ \A p \in DOMAIN u.dent : p # d => t.dent[p] = u.dent[p]
    BY <2>1, <2>4, Zenon
  <2>6. ASSUME NEW n \in Names(K, i, L)
        PROVE  Append(d, n) \in DOMAIN u.dent
    BY <1>2, Zenon DEF Opened
  <2>7. Rest(s, t) /\ t.at = s.at
    BY <1>2, <2>4, Zenon DEF Opened, Rest
  <2>8. Opened(s, d, L, TRUE, t)
    <3>1. \A k \in L : Append(d, Name(K, i, k)) \in DOMAIN u.dent
      BY <2>6, Zenon DEF Names
    <3>2. Range(u.dent[d].children) = Names(K, i, L)
      BY <1>2, Zenon DEF Opened
    <3>3. \A k \in L : \E l \in L : /\ Name(K, i, l) = Name(K, i, k)
                                   /\ u.dent[Append(d, Name(K, i, k))] = NewDentry(Ino(K, i, l))
      BY <1>2, Zenon DEF Opened
    <3>4. \A k \in L : Append(d, Name(K, i, k)) # d
      BY <1>0, <1>3, NotOwnChild, Zenon
    <3>5. ASSUME NEW k \in L
          PROVE  \E l \in L : /\ Name(K, i, l) = Name(K, i, k)
                              /\ t.dent[Append(d, Name(K, i, k))] = NewDentry(Ino(K, i, l))
      BY <2>5, <3>1, <3>3, <3>4, Zenon
    <3>6. \A p \in DOMAIN s.dent : p # d => t.dent[p] = s.dent[p]
      <4>1. \A p \in DOMAIN s.dent : p \in DOMAIN u.dent /\ (p # d => u.dent[p] = s.dent[p])
        BY <1>2, Zenon DEF Opened
      <4> QED BY <2>5, <4>1, Zenon
    <3>7. /\ DOMAIN t.dent = DOMAIN s.dent \cup {Append(d, n) : n \in Names(K, i, L)}
          /\ t.dent[d] \in Node /\ t.dent[d].inode = i /\ t.dent[d].load = TRUE
          /\ t.dent[d].nentries = Len(t.dent[d].children)
          /\ Range(t.dent[d].children) = Names(K, i, L)
          /\ Distinct(K) => Inj(t.dent[d].children)
      BY <1>2, <2>3, <2>5, Zenon DEF Opened
    <3> QED BY <2>7, <3>5, <3>6, <3>7, Zenon DEF Opened
  <2> QED BY <2>8, Zenon DEF t
<1>4. ASSUME K[i].mode = "dir" PROVE read_children(s, d) = loaded(after[Len(q)])
  BY <1>4, Zenon DEF read_children, Load, Loop
<1>5. ASSUME K[i].mode # "dir" PROVE read_children(s, d) = loaded(s)
  BY <1>5, Zenon DEF read_children, Load, Loop
<1>6. Run(after)
  <2>1. \E g : Loop(s, d, q, Len(q), g)
    <3> DEFINE n == Len(q)
    <3>1. n \in Nat
      BY <1>1, Zenon
    <3> HIDE DEF n, q
    <3>2. \E g : Loop(s, d, q, n, g)
      BY <3>1, LoadRun, Zenon
    <3> QED BY <3>2, Zenon DEF n
  <2> QED BY <2>1, Zenon DEF Loop
<1>7. Opened(s, d, Live(K, i), FALSE, after[Len(q)])
  <2>1. Loop(s, d, q, Len(q), after)
    BY <1>6, Zenon DEF Loop
  <2> HIDE DEF after
  <2> QED BY <2>1, Loading, Zenon
<1>8. Opened(s, d, {}, FALSE, s)
  BY OpenedNone, Zenon
<1>9. CASE K[i].mode = "dir"
  <2> HIDE DEF after, loaded
  <2>1. Opened(s, d, Live(K, i), TRUE, loaded(after[Len(q)]))
    BY <1>2, <1>7, Zenon
  <2> QED BY <1>4, <1>9, <2>1, Zenon
<1>10. CASE K[i].mode # "dir"
  <2> HIDE DEF after, loaded
  <2>1. Opened(s, d, {}, TRUE, loaded(s))
    BY <1>2, <1>8, Zenon
  <2> QED BY <1>5, <1>10, <2>1, Zenon
<1> QED
  BY <1>9, <1>10, Zenon

\* A list without elements is empty.
LEMMA NoElements ==
    ASSUME NEW S, NEW c \in Seq(S), Range(c) = {}
    PROVE  c = <<>>
<1>1. Len(c) \in Nat /\ DOMAIN c = 1..Len(c)
  BY LenIs, Zenon
<1>2. ~(1 \in 1..Len(c))
  BY <1>1, Zenon DEF Range
<1>3. Len(c) = 0
  BY <1>1, <1>2
<1> QED
  BY <1>3, EmptyIs, Zenon

\* What read_children makes is a tree again, of which the old one is a part.
LEMMA OpenedForm ==
    ASSUME NEW s, Formed(s), NEW d \in DOMAIN s.dent, ~s.dent[d].load,
           NEW L \in SUBSET Live(s.disk, s.dent[d].inode),
           NEW t, Opened(s, d, L, TRUE, t)
    PROVE  Formed(t) /\ Grown(s, t)
<1> DEFINE K == s.disk
           i == s.dent[d].inode
<1>0. /\ K \in Volume /\ i \in Inodes /\ d \in Seq(Text) /\ s.dent[d] \in Node
      /\ s.dent[d].children = <<>> /\ Shape(s.dent)
  BY ChildNames, Zenon DEF Formed, Shape
<1>1. \A l \in L : Name(K, i, l) \in Text /\ Ino(K, i, l) \in Inodes
  BY <1>0, LiveType, Zenon
<1>2. /\ Rest(s, t)
      /\ DOMAIN t.dent = DOMAIN s.dent \cup {Append(d, n) : n \in Names(K, i, L)}
      /\ t.dent[d] \in Node /\ t.dent[d].inode = i /\ t.dent[d].load = TRUE
      /\ Range(t.dent[d].children) = Names(K, i, L)
      /\ \A l \in L : \E m \in L : /\ Name(K, i, m) = Name(K, i, l)
                                 /\ t.dent[Append(d, Name(K, i, l))] = NewDentry(Ino(K, i, m))
      /\ \A p \in DOMAIN s.dent : p # d => t.dent[p] = s.dent[p]
  BY Zenon DEF Opened
<1>3. /\ DOMAIN s.dent \subseteq Seq(Text) /\ ROOT \in DOMAIN s.dent
      /\ \A p \in DOMAIN s.dent : s.dent[p] \in Node
      /\ \A p \in DOMAIN s.dent : \A n \in Range(s.dent[p].children) : Append(p, n) \in DOMAIN s.dent
      /\ \A p \in DOMAIN s.dent : p = ROOT \/ \E q \in DOMAIN s.dent : \E n \in Range(s.dent[q].children) : p = Append(q, n)
      /\ \A p \in DOMAIN s.dent : ~s.dent[p].load => s.dent[p].children = <<>> /\ s.dent[p].nentries = 0
  BY <1>0, Zenon DEF Shape
<1> HIDE DEF K, i
<1>4. ASSUME NEW p \in DOMAIN t.dent, p \notin DOMAIN s.dent
      PROVE  \E l \in L : p = Append(d, Name(K, i, l)) /\ \E m \in L : t.dent[p] = NewDentry(Ino(K, i, m))
  <2>1. PICK l \in L : p = Append(d, Name(K, i, l))
    BY <1>2, <1>4, Zenon DEF Names
  <2> QED BY <1>2, <2>1, Zenon
<1>5. ASSUME NEW p \in DOMAIN t.dent, p \notin DOMAIN s.dent
      PROVE  /\ p \in Seq(Text) /\ t.dent[p] \in Node /\ t.dent[p].children = <<>> /\ t.dent[p].nentries = 0
             /\ \E n \in Range(t.dent[d].children) : p = Append(d, n)
  <2>1. PICK l \in L : p = Append(d, Name(K, i, l)) /\ \E m \in L : t.dent[p] = NewDentry(Ino(K, i, m))
    BY <1>4, <1>5, Zenon
  <2>2. PICK m \in L : t.dent[p] = NewDentry(Ino(K, i, m))
    BY <2>1, Zenon
  <2>3. p \in Seq(Text)
    BY <1>0, <1>1, <2>1, Child, Zenon
  <2>4. t.dent[p] \in Node /\ t.dent[p].children = <<>> /\ t.dent[p].nentries = 0
    BY <1>1, <2>2, NewNode, Zenon
  <2>5. Name(K, i, l) \in Range(t.dent[d].children)
    BY <1>2, Zenon DEF Names
  <2> QED BY <2>1, <2>3, <2>4, <2>5, Zenon
<1>6. Shape(t.dent)
  <2>1. DOMAIN t.dent \subseteq Seq(Text) /\ ROOT \in DOMAIN t.dent /\ d \in DOMAIN t.dent
    BY <1>2, <1>3, <1>5, Zenon
  <2>2. ASSUME NEW p \in DOMAIN t.dent PROVE t.dent[p] \in Node
    BY <1>2, <1>3, <1>5, Zenon
  <2>3. ASSUME NEW p \in DOMAIN t.dent, NEW n \in Range(t.dent[p].children)
        PROVE  Append(p, n) \in DOMAIN t.dent
    <3>1. CASE p = d
      BY <1>2, <3>1, Zenon
    <3>2. CASE p # d /\ p \in DOMAIN s.dent
      BY <1>2, <1>3, <3>2, Zenon
    <3>3. CASE p \notin DOMAIN s.dent
      BY <1>5, <3>3, EmptyRange, Zenon
    <3> QED BY <3>1, <3>2, <3>3, Zenon
  <2>4. ASSUME NEW p \in DOMAIN t.dent, p # ROOT
        PROVE  \E q \in DOMAIN t.dent : \E n \in Range(t.dent[q].children) : p = Append(q, n)
    <3>1. CASE p \in DOMAIN s.dent
      <4>1. PICK q \in DOMAIN s.dent : \E n \in Range(s.dent[q].children) : p = Append(q, n)
        BY <1>3, <2>4, <3>1, Zenon
      <4>2. q # d
        BY <1>0, <4>1, EmptyRange, Zenon
      <4> QED BY <1>2, <4>1, <4>2, Zenon
    <3>2. CASE p \notin DOMAIN s.dent
      BY <1>5, <2>1, <3>2, Zenon
    <3> QED BY <3>1, <3>2, Zenon
  <2>5. ASSUME NEW p \in DOMAIN t.dent, ~t.dent[p].load
        PROVE  t.dent[p].children = <<>> /\ t.dent[p].nentries = 0
    BY <1>2, <1>3, <1>5, <2>5, ZenonT(60)
  <2> QED BY <2>1, <2>2, <2>3, <2>4, <2>5, Zenon DEF Shape
<1>7. Formed(t)
  BY <1>2, <1>6, Zenon DEF Formed, Rest
<1>8. ASSUME NEW p \in DOMAIN s.dent
      PROVE  /\ p \in DOMAIN t.dent /\ t.dent[p].inode = s.dent[p].inode
             /\ s.dent[p].load => t.dent[p].load
             /\ Live(s.disk, s.dent[p].inode) = {} => t.dent[p].children = s.dent[p].children
  <2>1. CASE p # d
    BY <1>2, <2>1, Zenon
  <2>2. CASE p = d
    <3>1. ASSUME Live(K, i) = {} PROVE t.dent[d].children = <<>>
      <4>1. Names(K, i, L) = {}
        <5>1. L = {}
          BY <3>1, Zenon DEF K, i
        <5> QED BY <5>1, Zenon DEF Names
      <4>2. t.dent[d].children \in Seq(Text)
        BY <1>2, NodeFields, Zenon
      <4> QED BY <1>2, <4>1, <4>2, NoElements, Zenon
    <3>2. d \in DOMAIN t.dent /\ t.dent[d].inode = s.dent[d].inode /\ t.dent[d].load
      BY <1>2, Zenon DEF i
    <3> QED BY <1>0, <2>2, <3>1, <3>2, Zenon DEF K, i
  <2> QED BY <2>1, <2>2, Zenon
<1> QED
  BY <1>7, <1>8, Zenon DEF Grown

\* What it makes agrees with the volume.
LEMMA OpenedMem ==
    ASSUME NEW s, Formed(s), NEW d \in DOMAIN s.dent, ~s.dent[d].load,
           NEW t, Opened(s, d, Live(s.disk, s.dent[d].inode), TRUE, t),
           NEW T, Vol(T, s.disk), Mem(T, s.dent, s.disk), Plain(d)
    PROVE  Mem(T, t.dent, s.disk)
<1> DEFINE K == s.disk
           i == s.dent[d].inode
           L == Live(K, i)
<1>0. /\ K \in Volume /\ i \in Inodes /\ d \in Seq(Text) /\ s.dent[d].children = <<>>
      /\ Shape(s.dent) /\ i = T[d] /\ d \in DOMAIN T
  BY ChildNames, Zenon DEF Formed, Shape, Mem
<1>1. \A l \in L : Name(K, i, l) \in Text /\ Ino(K, i, l) \in Inodes
  BY <1>0, LiveType, Zenon
<1>2. /\ DOMAIN t.dent = DOMAIN s.dent \cup {Append(d, n) : n \in Names(K, i, L)}
      /\ t.dent[d].inode = i /\ t.dent[d].load = TRUE
      /\ t.dent[d].nentries = Len(t.dent[d].children)
      /\ Range(t.dent[d].children) = Names(K, i, L)
      /\ Distinct(K) => Inj(t.dent[d].children)
      /\ \A l \in L : \E m \in L : /\ Name(K, i, m) = Name(K, i, l)
                                 /\ t.dent[Append(d, Name(K, i, l))] = NewDentry(Ino(K, i, m))
      /\ \A p \in DOMAIN s.dent : p # d => t.dent[p] = s.dent[p]
  BY Zenon DEF Opened
<1>3. Distinct(K) /\ Led(T, K)
  BY Zenon DEF Vol
<1>4. ASSUME NEW l \in L
      PROVE  t.dent[Append(d, Name(K, i, l))] = NewDentry(Ino(K, i, l))
  BY <1>0, <1>2, <1>3, Zenon DEF Distinct
<1>5. ASSUME NEW l \in L
      PROVE  Leads(T, d, Name(K, i, l), Ino(K, i, l))
  BY <1>0, <1>3, Zenon DEF Led
<1> HIDE DEF K, i, L
<1>6. ASSUME NEW p \in DOMAIN t.dent, p \notin DOMAIN s.dent
      PROVE  \E l \in L : p = Append(d, Name(K, i, l)) /\ t.dent[p] = NewDentry(Ino(K, i, l))
  <2>1. PICK l \in L : p = Append(d, Name(K, i, l))
    BY <1>2, <1>6, Zenon DEF Names
  <2> QED BY <1>4, <2>1, Zenon
<1>7. ASSUME NEW p \in DOMAIN t.dent, Plain(p)
      PROVE  p \in DOMAIN T /\ t.dent[p].inode = T[p]
  <2>1. CASE p \in DOMAIN s.dent
    <3>1. p \in DOMAIN T /\ s.dent[p].inode = T[p]
      BY <1>7, <2>1, Zenon DEF Mem
    <3>2. t.dent[p].inode = s.dent[p].inode
      BY <1>2, <2>1, Zenon DEF i
    <3> QED BY <3>1, <3>2, Zenon
  <2>2. CASE p \notin DOMAIN s.dent
    <3>1. PICK l \in L : p = Append(d, Name(K, i, l)) /\ t.dent[p] = NewDentry(Ino(K, i, l))
      BY <1>6, <2>2, Zenon
    <3>2. Name(K, i, l) \in Text /\ Ino(K, i, l) \in Inodes
      BY <1>1, Zenon
    <3>3. Name(K, i, l) \notin Dots
      BY <1>0, <1>7, <3>1, <3>2, Child, Zenon
    <3>4. Name(K, i, l) # "." /\ Name(K, i, l) # ".."
      BY <3>3, Zenon DEF Dots
    <3>5. p \in DOMAIN T /\ Ino(K, i, l) = T[p]
      BY <1>5, <3>1, <3>4, Zenon DEF Leads
    <3>6. t.dent[p].inode = Ino(K, i, l)
      BY <3>1, <3>2, NewNode, Zenon
    <3> QED BY <3>5, <3>6, ZenonT(60)
  <2> QED BY <2>1, <2>2, Zenon
<1>8. ASSUME NEW p \in DOMAIN t.dent, t.dent[p].load
      PROVE  Plain(p) /\ Matches(t.dent, K, p)
  <2>1. CASE p = d
    <3>1. \A k \in L : t.dent[Append(d, Name(K, i, k))].inode = Ino(K, i, k)
      BY <1>1, <1>4, NewNode, Zenon
    <3> QED BY <1>2, <1>3, <2>1, <3>1, Zenon DEF Matches, L
  <2>2. CASE p # d /\ p \in DOMAIN s.dent
    <3>1. t.dent[p] = s.dent[p]
      BY <1>2, <2>2, Zenon
    <3>2. Plain(p) /\ Matches(s.dent, K, p)
      BY <1>8, <2>2, <3>1, Zenon DEF Mem, K
    <3> DEFINE j == s.dent[p].inode
               kids == s.dent[p].children
    <3>3. /\ s.dent[p].nentries = Len(kids) /\ Inj(kids)
          /\ Range(kids) = Names(K, j, Live(K, j))
          /\ \A k \in Live(K, j) : s.dent[Append(p, Name(K, j, k))].inode = Ino(K, j, k)
      BY <3>2, Zenon DEF Matches
    <3>4. ASSUME NEW k \in Live(K, j)
          PROVE  t.dent[Append(p, Name(K, j, k))].inode = Ino(K, j, k)
      <4>1. Name(K, j, k) \in Range(kids)
        BY <3>3, Zenon DEF Names
      <4>2. Append(p, Name(K, j, k)) \in DOMAIN s.dent
        BY <1>0, <2>2, <4>1, Zenon DEF Shape
      <4>3. t.dent[Append(p, Name(K, j, k))].inode = s.dent[Append(p, Name(K, j, k))].inode
        BY <1>2, <4>2, Zenon DEF i
      <4> QED BY <3>3, <4>3, Zenon
    <3> QED BY <3>1, <3>2, <3>3, <3>4, Zenon DEF Matches
  <2>3. CASE p \notin DOMAIN s.dent
    <3>1. PICK l \in L : t.dent[p] = NewDentry(Ino(K, i, l))
      BY <1>6, <2>3, Zenon
    <3>2. t.dent[p].load = FALSE
      BY <1>1, <3>1, NewNode, Zenon
    <3> QED BY <1>8, <3>2, Zenon
  <2> QED BY <2>1, <2>2, <2>3, Zenon
<1> QED
  BY <1>7, <1>8, Zenon DEF Mem, K

\* read_children.
LEMMA ReadChildren ==
    ASSUME Library, NEW s, Formed(s), NEW d \in DOMAIN s.dent
    PROVE  Filled(s, d, read_children(s, d))
<1> DEFINE t == read_children(s, d)
<1>1. CASE s.dent[d].load
  <2>1. t = s
    BY <1>1, Zenon DEF read_children
  <2>2. Rest(s, s) /\ Grown(s, s)
    BY Zenon DEF Rest, Grown, Formed
  <2> QED BY <1>1, <2>1, <2>2, Zenon DEF Filled, Keeps
<1>2. CASE ~s.dent[d].load
  <2> DEFINE K == s.disk
             i == s.dent[d].inode
  <2>1. PICK L \in SUBSET Live(K, i) :
              /\ K[i].mode = "dir" => L = Live(K, i)
              /\ K[i].mode # "dir" => L = {}
              /\ Opened(s, d, L, TRUE, t)
    BY <1>2, ReadOnce, Zenon
  <2> HIDE DEF t
  <2>2. Formed(t) /\ Grown(s, t)
    BY <1>2, <2>1, OpenedForm, Zenon
  <2>3. Rest(s, t) /\ t.at = s.at /\ t.dent[d].load
    BY <2>1, Zenon DEF Opened
  <2>4. ASSUME NEW T, Vol(T, s.disk), Mem(T, s.dent, s.disk), Plain(d)
        PROVE  Mem(T, t.dent, s.disk)
    <3>1. i = T[d] /\ d \in DOMAIN T
      BY <2>4, Zenon DEF Mem
    <3>2. K[i].mode = "free" \/ K[i].mode = "dir" \/ K[i].mode = "file"
      <4>1. K \in Volume /\ i \in Inodes
        BY ChildNames, Zenon DEF Formed
      <4>2. K[i] \in [mode : {"free", "dir", "file"}, nlinks : 0..(LINKS - 1), slots : Seq(Slot)]
        BY <4>1, Zenon DEF Volume
      <4>3. K[i].mode \in {"free", "dir", "file"}
        BY <4>2, Zenon
      <4> QED BY <4>3, Zenon
    <3>3. K[i].mode # "free" /\ (K[i].mode = "file" => Live(K, i) = {})
      BY <2>4, <3>1, Zenon DEF Vol, Modes
    <3>4. L = Live(K, i)
      BY <2>1, <3>2, <3>3, Zenon
    <3> QED BY <1>2, <2>1, <2>4, <3>4, OpenedMem, Zenon
  <2> QED BY <2>2, <2>3, <2>4, Zenon DEF t, Filled, Keeps
<1> QED
  BY <1>1, <1>2, Zenon

-----------------------------------------------------------------------------
(* dentry_lookup *)

\* Setting the dentry a function returns changes nothing else.
LEMMA AtFields ==
    ASSUME NEW s, NEW x, DOMAIN s = Fields
    PROVE  Rest(s, [s EXCEPT !.at = x]) /\ [s EXCEPT !.at = x].dent = s.dent /\ [s EXCEPT !.at = x].at = x
<1> DEFINE t == [s EXCEPT !.at = x]
<1>1. DOMAIN t = Fields /\ t.at = x /\ t.dent = s.dent
  BY DEF Fields
<1>2. t.disk = s.disk /\ t.ino = s.ino /\ t.err = s.err /\ t.room = s.room /\ t.lost = s.lost /\ t.trace = s.trace
  BY DEF Fields
<1> QED
  BY <1>1, <1>2, Zenon DEF Rest

\* So the tree still agrees with the volume.
LEMMA AtOnward ==
    ASSUME NEW s, NEW x, Formed(s)
    PROVE  Onward(s, [s EXCEPT !.at = x]) /\ [s EXCEPT !.at = x].at = x /\ [s EXCEPT !.at = x].dent = s.dent
<1> DEFINE t == [s EXCEPT !.at = x]
<1>1. DOMAIN s = Fields
  BY Zenon DEF Formed
<1>2. Rest(s, t) /\ t.dent = s.dent /\ t.at = x
  BY <1>1, AtFields, Zenon
<1> HIDE DEF t
<1>3. Formed(t)
  BY <1>2, Zenon DEF Formed, Rest
<1>4. Grown(s, t) /\ Keeps(s, t)
  BY <1>2, Zenon DEF Grown, Keeps
<1> QED
  BY <1>2, <1>3, <1>4, Zenon DEF Onward, t

\* What dentry_lookup keeps step by step it keeps in all.
LEMMA OnwardAgain ==
    ASSUME NEW s, NEW t, NEW u, Onward(s, t), Onward(t, u)
    PROVE  Onward(s, u)
<1>1. Formed(u) /\ t.disk = s.disk
  BY Zenon DEF Onward, Rest
<1>2. Rest(s, u)
  BY Zenon DEF Onward, Rest
<1>3. Keeps(s, u)
  BY <1>1, Zenon DEF Onward, Keeps
<1>4. Grown(s, u)
  <2> SUFFICES ASSUME NEW p \in DOMAIN s.dent
               PROVE  /\ p \in DOMAIN u.dent /\ u.dent[p].inode = s.dent[p].inode
                      /\ s.dent[p].load => u.dent[p].load
                      /\ Live(s.disk, s.dent[p].inode) = {} => u.dent[p].children = s.dent[p].children
    BY Zenon DEF Grown
  <2>1. /\ p \in DOMAIN t.dent /\ t.dent[p].inode = s.dent[p].inode
        /\ s.dent[p].load => t.dent[p].load
        /\ Live(s.disk, s.dent[p].inode) = {} => t.dent[p].children = s.dent[p].children
    BY Zenon DEF Onward, Grown
  <2>2. /\ p \in DOMAIN u.dent /\ u.dent[p].inode = t.dent[p].inode
        /\ t.dent[p].load => u.dent[p].load
        /\ Live(t.disk, t.dent[p].inode) = {} => u.dent[p].children = t.dent[p].children
    BY <2>1, Zenon DEF Onward, Grown
  <2> QED BY <1>1, <2>1, <2>2, Zenon
<1> QED
  BY <1>1, <1>2, <1>3, <1>4, Zenon DEF Onward

\* One name of the path.
LEMMA LookStep ==
    ASSUME Library, NEW t, Formed(t), t.at \in DOMAIN t.dent, Plain(t.at), t.at # NULL, NEW name \in Text
    PROVE  LET u == find_child(t, name)
               c == Append(t.at, name)
           IN  /\ Onward(t, u)
               /\ u.at = IF name \notin LongNames /\ c \in DOMAIN u.dent THEN c ELSE NULL
<1> DEFINE v == read_children(t, t.at)
           c == Append(t.at, name)
           x == IF name \notin LongNames /\ has_child(v, v.at, name) THEN Append(v.at, name) ELSE NULL
           u == [v EXCEPT !.at = x]
<1>1. Filled(t, t.at, v)
  BY ReadChildren, Zenon
<1>2. Onward(t, v) /\ v.at = t.at /\ Formed(v)
  BY <1>1, Zenon DEF Filled, Onward
<1>3. find_child(t, name) = [v EXCEPT !.at = IF name \notin LongNames /\ has_child(v, @, name) THEN Append(@, name) ELSE NULL]
  BY Zenon DEF find_child
<1> HIDE DEF v
<1>4. find_child(t, name) = u
  <2>1. DOMAIN v = Fields
    BY <1>2, Zenon DEF Formed
  <2> QED BY <1>3, <2>1, Zenon DEF Fields
<1>5. v.at \in DOMAIN v.dent
  BY <1>2, Zenon DEF Onward, Grown
<1>6. has_child(v, v.at, name) <=> c \in DOMAIN v.dent
  BY <1>2, <1>5, ChildNames, Zenon DEF has_child, Formed
<1> HIDE DEF x
<1>7. Onward(v, u) /\ u.at = x /\ u.dent = v.dent
  BY <1>2, AtOnward, Zenon
<1> HIDE DEF u
<1>8. Onward(t, u)
  BY <1>2, <1>7, OnwardAgain, Zenon
<1>9. u.at = IF name \notin LongNames /\ c \in DOMAIN u.dent THEN c ELSE NULL
  BY <1>2, <1>6, <1>7, Zenon DEF x
<1> QED
  BY <1>4, <1>8, <1>9, Zenon

\* The first names of a path.
LEMMA Prefix ==
    ASSUME NEW S, NEW path \in Seq(S), NEW k \in 1..Len(path)
    PROVE  /\ SubSeq(path, 1, k) = Append(SubSeq(path, 1, k - 1), path[k])
           /\ SubSeq(path, 1, k - 1) \in Seq(S) /\ path[k] \in S
           /\ Len(SubSeq(path, 1, k)) = k
           /\ \A m \in 1..k : SubSeq(path, 1, k)[m] = path[m]
<1>1. Len(path) \in Nat /\ path[k] \in S
  OBVIOUS
<1>2. \A m \in 1..Len(path) : path[m] \in S
  OBVIOUS
<1> DEFINE f == SubSeq(path, 1, k)
           e == SubSeq(path, 1, k - 1)
<1>3. f \in Seq(S) /\ Len(f) = k /\ \A m \in 1..k : f[m] = path[m]
  BY <1>1, <1>2, SubSeqIs
<1>4. e \in Seq(S) /\ Len(e) = k - 1 /\ \A m \in 1..(k - 1) : e[m] = path[m]
  BY <1>1, <1>2, SubSeqIs
<1> HIDE DEF f, e
<1> DEFINE g == Append(e, path[k])
<1>5. g \in Seq(S) /\ Len(g) = k /\ g[k] = path[k] /\ \A m \in 1..(k - 1) : g[m] = e[m]
  BY <1>1, <1>4
<1> HIDE DEF g
<1>6. \A m \in 1..k : g[m] = f[m]
  BY <1>1, <1>3, <1>4, <1>5
<1>7. f = g
  BY <1>3, <1>5, <1>6, SameSeq
<1> QED
  BY <1>1, <1>3, <1>4, <1>7, Zenon DEF f, e, g

\* The shortest front of a path, and the longest.
LEMMA PrefixEnds ==
    ASSUME NEW S, NEW path \in Seq(S)
    PROVE  SubSeq(path, 1, 0) = <<>> /\ SubSeq(path, 1, Len(path)) = path
<1>1. Len(path) \in Nat /\ \A m \in 1..Len(path) : path[m] \in S
  OBVIOUS
<1>2. SubSeq(path, 1, 0) = <<>>
  OBVIOUS
<1> DEFINE f == SubSeq(path, 1, Len(path))
<1>3. f \in Seq(S) /\ Len(f) = Len(path) /\ \A m \in 1..Len(path) : f[m] = path[m]
  BY <1>1, SubSeqIs
<1> HIDE DEF f
<1>4. f = path
  BY <1>3, SameSeq
<1> QED
  BY <1>2, <1>4, Zenon DEF f

\* The walk along a path can be of any length.
LEMMA WalkRun ==
    ASSUME Library, NEW s, NEW path, NEW n \in Nat
    PROVE  \E g : Walk(s, path, n, g)
<1> DEFINE r == [s EXCEPT !.at = ROOT]
           Run(g, m) == Walk(s, path, m, g)
           T == {m \in Nat : ~ \E g : Run(g, m)}
<1> SUFFICES ASSUME T # {} PROVE FALSE
  BY Zenon
<1>1. PICK m \in T : \A y \in T : m <= y
  BY LeastNumber, Zenon
<1>2. m \in Nat /\ ~ \E g : Run(g, m)
  BY <1>1, Zenon
<1>3. CASE m = 0
  <2> DEFINE g == [k \in 0..0 |-> r]
  <2>1. \A k \in 0..0 : k = 0
    OBVIOUS
  <2>2. Run(g, 0)
    BY <2>1, Zenon DEF Walk
  <2> QED BY <1>2, <1>3, <2>2, Zenon
<1>4. CASE m # 0
  <2>1. m - 1 \in Nat /\ ~ (m <= m - 1)
    BY <1>2, <1>4
  <2>2. PICK g : Run(g, m - 1)
    BY <1>1, <2>1, Zenon
  <2>3. \A k \in 0..(m - 1) : g[k] = IF k = 0 THEN r ELSE find_child(g[k - 1], path[k])
    BY <2>2, Zenon DEF Walk
  <2> DEFINE h == [k \in 0..m |-> IF k = m THEN find_child(g[m - 1], path[m]) ELSE g[k]]
  <2>4. \A k \in 0..m : k # m => k \in 0..(m - 1) /\ (k # 0 => k - 1 \in 0..m /\ k - 1 # m)
    BY <1>2
  <2>5. m - 1 \in 0..m /\ m - 1 # m
    BY <1>2, <1>4
  <2>6. ASSUME NEW k \in 0..m
        PROVE  h[k] = IF k = 0 THEN r ELSE find_child(h[k - 1], path[k])
    <3>1. CASE k = m
      BY <1>4, <2>5, <3>1, Zenon
    <3>2. CASE k # m
      BY <2>3, <2>4, <3>2, Zenon
    <3> QED BY <3>1, <3>2, Zenon
  <2>7. h = [k \in 0..m |-> h[k]]
    BY Zenon
  <2> HIDE DEF h
  <2>8. Run(h, m)
    BY <2>6, <2>7, Zenon DEF Walk
  <2> QED BY <1>2, <2>8, Zenon
<1> QED
  BY <1>3, <1>4, Zenon

\* The walk: at is the way so far, as long as every name was found.
LEMMA Walking ==
    ASSUME Library, NEW s, Formed(s), NEW path, Way(path), NEW g, Walk(s, path, Len(path), g)
    PROVE  Looked(s, path, g[Len(path)])
<1> DEFINE N == Len(path)
           Pre(k) == SubSeq(path, 1, k)
           Bad == {k \in 0..N : ~Looked(s, Pre(k), g[k])}
<1>1. path \in Seq(Text) /\ N \in Nat
  BY LenIs, Zenon DEF Way
<1>2. \A k \in 0..N : g[k] = IF k = 0 THEN [s EXCEPT !.at = ROOT] ELSE find_child(g[k - 1], path[k])
  BY Zenon DEF Walk
<1>3. ASSUME NEW k \in 1..N
      PROVE  /\ Pre(k) = Append(Pre(k - 1), path[k]) /\ Pre(k - 1) \in Seq(Text) /\ path[k] \in Text
             /\ Len(Pre(k)) = k /\ \A m \in 1..k : Pre(k)[m] = path[m]
  BY <1>1, Prefix, Zenon
<1>4. Pre(0) = ROOT /\ Pre(N) = path
  BY <1>1, PrefixEnds, Zenon DEF ROOT
<1>5. ASSUME NEW k \in 1..N
      PROVE  Plain(Pre(k)) /\ Pre(k) # NULL /\ path[k] # "/"
  <2>1. path[k] \notin Dots /\ path[k] # "/"
    BY Zenon DEF Way
  <2>2. Leaf(Pre(k)) = path[k] /\ Plain(Pre(k))
    <3> DEFINE e == Pre(k - 1)
               n == path[k]
    <3>1. Pre(k) = Append(e, n) /\ e \in Seq(Text) /\ n \in Text /\ n \notin Dots
      BY <1>3, <2>1, Zenon
    <3> HIDE DEF e, n, Pre
    <3>2. Leaf(Append(e, n)) = n /\ Plain(Append(e, n))
      BY <3>1, Child, Zenon
    <3> QED BY <3>1, <3>2, Zenon DEF n
  <2>3. Leaf(NULL) = "/"
    BY DEF Leaf, NULL
  <2> QED BY <2>1, <2>2, <2>3, Zenon
<1>6. Plain(ROOT) /\ ROOT # NULL
  <2>1. Plain(ROOT)
    BY Zenon DEF Plain
  <2>2. ROOT # NULL
    BY DEF ROOT, NULL
  <2> QED BY <2>1, <2>2, Zenon
<1>7. \A k \in 0..N : Plain(Pre(k)) /\ Pre(k) # NULL
  <2>1. \A k \in 0..N : k = 0 \/ k \in 1..N
    BY <1>1
  <2> HIDE DEF N, Pre
  <2> QED BY <1>4, <1>5, <1>6, <2>1, Zenon
<1>8. ROOT \in DOMAIN s.dent /\ Len(ROOT) = 0
  <2>1. ROOT \in DOMAIN s.dent
    BY Zenon DEF Formed, Shape
  <2>2. Len(ROOT) = 0
    BY DEF ROOT
  <2> QED BY <2>1, <2>2, Zenon
<1> HIDE DEF N, Pre
<1>9. Bad = {}
  <2> SUFFICES ASSUME Bad # {} PROVE FALSE
    BY Zenon
  <2>1. Bad \subseteq Nat
    <3>1. \A k \in 0..N : k \in Nat
      BY <1>1
    <3> QED BY <3>1, Zenon
  <2>2. PICK k \in Bad : \A y \in Bad : k <= y
    <3> HIDE DEF Bad
    <3> QED BY <2>1, LeastNumber, Zenon
  <2>3. k \in 0..N /\ ~Looked(s, Pre(k), g[k])
    BY <2>2, Zenon
  <2>4. CASE k = 0
    <3>1. g[0] = [s EXCEPT !.at = ROOT]
      BY <1>2, <2>3, <2>4, Zenon
    <3>2. Onward(s, g[0]) /\ g[0].at = ROOT /\ g[0].dent = s.dent
      <4> DEFINE r == [s EXCEPT !.at = ROOT]
      <4>1. Onward(s, r) /\ r.at = ROOT /\ r.dent = s.dent
        BY AtOnward, Zenon
      <4> HIDE DEF r
      <4> QED BY <3>1, <4>1, Zenon DEF r
    <3>3. \A m \in 1..0 : FALSE
      OBVIOUS
    <3>4. Looked(s, ROOT, g[0])
      BY <1>8, <3>2, <3>3, Zenon DEF Looked
    <3> QED BY <1>4, <2>3, <2>4, <3>4, Zenon
  <2>5. CASE k # 0
    <3>1. k - 1 \in 0..N /\ k \in 1..N /\ ~(k <= k - 1)
      BY <1>1, <2>3, <2>5
    <3> DEFINE t == g[k - 1]
               u == g[k]
               p == Pre(k - 1)
               c == Pre(k)
               name == path[k]
    <3>2. Looked(s, p, t)
      BY <2>2, <3>1, Zenon
    <3>3. u = find_child(t, name)
      BY <1>2, <2>3, <2>5, ZenonT(60)
    <3>4. /\ c = Append(p, name) /\ p \in Seq(Text) /\ name \in Text
          /\ Plain(p) /\ p # NULL /\ c # NULL
      BY <1>3, <1>7, <3>1, Zenon
    <3>5. (\A m \in 1..Len(c) : c[m] \notin LongNames) <=>
             (\A m \in 1..Len(p) : p[m] \notin LongNames) /\ name \notin LongNames
      <4>1. /\ Len(c) = k /\ \A m \in 1..k : c[m] = path[m]
            /\ Len(p) = k - 1 /\ \A m \in 1..(k - 1) : p[m] = path[m]
        <5>1. CASE k - 1 = 0
          <6>1. Len(p) = 0
            BY <1>4, <1>8, <5>1, Zenon
          <6>2. Len(p) = k - 1 /\ \A m \in 1..(k - 1) : FALSE
            BY <3>1, <5>1, <6>1
          <6> QED BY <1>3, <3>1, <6>2, Zenon
        <5>2. CASE k - 1 # 0
          <6>1. k - 1 \in 1..N
            BY <1>1, <3>1, <5>2
          <6> QED BY <1>3, <3>1, <6>1, Zenon
        <5> QED BY <5>1, <5>2, Zenon
      <4>2. \A m \in 1..k : m \in 1..(k - 1) \/ m = k
        BY <1>1, <3>1
      <4>3. k \in 1..k /\ \A m \in 1..(k - 1) : m \in 1..k
        BY <1>1, <3>1
      <4> QED BY <4>1, <4>2, <4>3, Zenon
    <3>6. c \in DOMAIN s.dent => p \in DOMAIN s.dent
      <4> SUFFICES ASSUME c \in DOMAIN s.dent PROVE p \in DOMAIN s.dent
        BY Zenon
      <4>1. c # ROOT
        BY <3>4, Child, Zenon
      <4>2. PICK r \in DOMAIN s.dent : \E n \in Range(s.dent[r].children) : c = Append(r, n)
        BY <4>1, Zenon DEF Formed, Shape
      <4>3. PICK n \in Range(s.dent[r].children) : c = Append(r, n)
        BY <4>2, Zenon
      <4>4. r \in Seq(Text) /\ n \in Text
        BY ChildNames, Zenon DEF Formed
      <4>5. r = p
        BY <3>4, <4>3, <4>4, OneChild, Zenon
      <4> QED BY <4>5, Zenon
    <3> HIDE DEF t, u, p, c, name
    <3>7. CASE t.at = NULL
      <4>1. u = t
        BY <3>3, <3>7, Zenon DEF find_child
      <4>2. ~(p \in DOMAIN s.dent /\ \A m \in 1..Len(p) : p[m] \notin LongNames)
        BY <3>2, <3>4, <3>7, Zenon DEF Looked
      <4>3. Looked(s, c, u)
        BY <3>2, <3>5, <3>6, <3>7, <4>1, <4>2, Zenon DEF Looked
      <4> QED BY <2>3, <4>3, Zenon DEF c, u
    <3>8. CASE t.at # NULL
      <4>1. t.at = p /\ p \in DOMAIN t.dent /\ \A m \in 1..Len(p) : p[m] \notin LongNames
        BY <3>2, <3>8, Zenon DEF Looked
      <4>2. Formed(t) /\ Onward(s, t)
        BY <3>2, Zenon DEF Looked, Onward
      <4>3. Onward(t, u) /\ u.at = IF name \notin LongNames /\ c \in DOMAIN u.dent THEN c ELSE NULL
        BY <3>3, <3>4, <3>8, <4>1, <4>2, LookStep, Zenon
      <4>4. Onward(s, u)
        BY <4>2, <4>3, OnwardAgain, Zenon
      <4>5. c \in DOMAIN s.dent => c \in DOMAIN u.dent
        BY <4>4, Zenon DEF Onward, Grown
      <4>6. Looked(s, c, u)
        BY <3>5, <4>1, <4>3, <4>4, <4>5, Zenon DEF Looked
      <4> QED BY <2>3, <4>6, Zenon DEF c, u
    <3> QED BY <3>7, <3>8, Zenon
  <2> QED BY <2>4, <2>5, Zenon
<1>10. N \in 0..N
  BY <1>1
<1>11. Looked(s, Pre(N), g[N])
  BY <1>9, <1>10, Zenon
<1> QED
  BY <1>4, <1>11, Zenon DEF N

\* A way has no dots in it.
LEMMA WayPlain ==
    ASSUME NEW path, Way(path)
    PROVE  Plain(path) /\ path # NULL /\ path \in Seq(Text)
<1>1. path \in Seq(Text) /\ Len(path) \in Nat
  BY LenIs, Zenon DEF Way
<1>2. CASE path = <<>>
  <2>1. <<>> # NULL
    BY DEF NULL
  <2> QED BY <1>1, <1>2, <2>1, Zenon DEF Plain, ROOT
<1>3. CASE path # <<>>
  <2>1. Len(path) # 0
    BY <1>1, <1>3, EmptyIs, Zenon
  <2>2. Len(path) \in 1..Len(path)
    BY <1>1, <2>1
  <2>3. Leaf(path) \notin Dots /\ Leaf(path) # "/"
    BY <2>2, Zenon DEF Way, Leaf
  <2>4. Leaf(NULL) = "/"
    BY DEF Leaf, NULL
  <2> QED BY <1>1, <2>3, <2>4, Zenon DEF Plain
<1> QED
  BY <1>2, <1>3, Zenon

\* dentry_lookup.
LEMMA Lookup ==
    ASSUME Library, NEW s, Formed(s), NEW path, Way(path)
    PROVE  Found(s, path, dentry_lookup(s, path))
<1> DEFINE t == dentry_lookup(s, path)
<1>1. CASE path \in LongPaths
  <2>1. t = [s EXCEPT !.at = NULL]
    BY <1>1, Zenon DEF dentry_lookup
  <2>2. Onward(s, t) /\ t.at = NULL
    BY <2>1, AtOnward, Zenon
  <2> HIDE DEF t
  <2>3. Found(s, path, t)
    BY <1>1, <2>2, Zenon DEF Found, Short
  <2> QED BY <2>3, Zenon DEF t
<1>2. CASE path \notin LongPaths
  <2> DEFINE Run(g) == Walk(s, path, Len(path), g)
             after == CHOOSE g : Run(g)
             u == after[Len(path)]
  <2>1. t = IF u.at = NULL THEN u ELSE read_children(u, u.at)
    BY <1>2, Zenon DEF dentry_lookup, Walk
  <2>2. Run(after)
    <3>1. Len(path) \in Nat
      BY LenIs, Zenon DEF Way
    <3>2. \E g : Run(g)
      BY <3>1, WalkRun, Zenon
    <3> QED BY <3>2, Zenon
  <2>3. Looked(s, path, u)
    <3> HIDE DEF after
    <3> QED BY <2>2, Walking, Zenon
  <2> HIDE DEF u, t
  <2>4. CASE u.at = NULL
    <3>1. Found(s, path, t)
      BY <2>1, <2>3, <2>4, Zenon DEF Found, Looked, Short
    <3> QED BY <3>1, Zenon DEF t
  <2>5. CASE u.at # NULL
    <3>1. Onward(s, u) /\ u.at = path /\ path \in DOMAIN u.dent /\ \A m \in 1..Len(path) : path[m] \notin LongNames
      BY <2>3, <2>5, Zenon DEF Looked
    <3>2. Formed(u)
      BY <3>1, Zenon DEF Onward
    <3>3. t = read_children(u, path)
      BY <2>1, <2>5, <3>1, Zenon
    <3>4. Filled(u, path, t)
      BY <3>1, <3>2, <3>3, ReadChildren, Zenon
    <3>5. Plain(path)
      BY WayPlain, Zenon
    <3>6. Onward(u, t) /\ t.at = path /\ t.dent[path].load /\ path \in DOMAIN t.dent
      BY <3>1, <3>4, <3>5, Zenon DEF Filled, Onward, Grown
    <3>7. Onward(s, t)
      BY <3>1, <3>6, OnwardAgain, Zenon
    <3>8. Found(s, path, t)
      BY <1>2, <3>1, <3>6, <3>7, Zenon DEF Found, Short
    <3> QED BY <3>8, Zenon DEF t
  <2> QED BY <2>4, <2>5, Zenon
<1> QED
  BY <1>1, <1>2, Zenon

-----------------------------------------------------------------------------
(* The volume *)

\* Nothing about names changes when the names do not.
LEMMA SameVol ==
    ASSUME NEW K, NEW V, SameNames(K, V), NEW T, Vol(T, K), Modes(T, V),
           1 \in Inodes
    PROVE  Vol(T, V)
<1>0. /\ \A p \in DOMAIN T : T[p] \in Inodes
      /\ \A i \in Inodes : Live(V, i) = Live(K, i)
      /\ \A i \in Inodes : \A k \in Live(K, i) : Name(V, i, k) = Name(K, i, k) /\ Ino(V, i, k) = Ino(K, i, k)
  BY Zenon DEF SameNames, Vol, Tree
<1>1. Named(T, V)
  <2> SUFFICES ASSUME NEW p \in DOMAIN T \ {ROOT}
               PROVE  \E q \in DOMAIN T : \E k \in Live(V, T[q]) :
                         p = Append(q, Name(V, T[q], k)) /\ Name(V, T[q], k) \notin Dots
    BY Zenon DEF Named
  <2>1. PICK q \in DOMAIN T : \E k \in Live(K, T[q]) :
              p = Append(q, Name(K, T[q], k)) /\ Name(K, T[q], k) \notin Dots
    BY Zenon DEF Vol, Named
  <2>2. PICK k \in Live(K, T[q]) : p = Append(q, Name(K, T[q], k)) /\ Name(K, T[q], k) \notin Dots
    BY <2>1, Zenon
  <2>3. k \in Live(V, T[q]) /\ Name(V, T[q], k) = Name(K, T[q], k)
    BY <1>0, <2>2, Zenon
  <2> QED BY <2>2, <2>3, Zenon
<1>2. Led(T, V)
  <2> SUFFICES ASSUME NEW p \in DOMAIN T, NEW k \in Live(V, T[p])
               PROVE  Leads(T, p, Name(V, T[p], k), Ino(V, T[p], k))
    BY Zenon DEF Led
  <2>1. k \in Live(K, T[p]) /\ Name(V, T[p], k) = Name(K, T[p], k) /\ Ino(V, T[p], k) = Ino(K, T[p], k)
    BY <1>0, Zenon
  <2>2. Leads(T, p, Name(K, T[p], k), Ino(K, T[p], k))
    BY <2>1, Zenon DEF Vol, Led
  <2> QED BY <2>1, <2>2, Zenon
<1>3. Distinct(V)
  BY <1>0, Zenon DEF Vol, Distinct
<1>4. Bare(T, V)
  BY <1>0, Zenon DEF Vol, Bare
<1>5. Rooted(V)
  BY <1>0, Zenon DEF Vol, Rooted
<1> QED
  BY <1>1, <1>2, <1>3, <1>4, <1>5, Zenon DEF Vol

\* A tree in memory agrees with every volume that has the same names.
LEMMA SameMem ==
    ASSUME NEW K, NEW V, SameNames(K, V), NEW T, NEW dn, Shape(dn), Mem(T, dn, K)
    PROVE  Mem(T, dn, V)
<1> SUFFICES ASSUME NEW d \in DOMAIN dn, dn[d].load
             PROVE  Matches(dn, V, d)
  BY Zenon DEF Mem
<1> DEFINE i == dn[d].inode
           kids == dn[d].children
<1>1. i \in Inodes
  BY ChildNames, Zenon
<1>2. /\ dn[d].nentries = Len(kids) /\ Inj(kids)
      /\ Range(kids) = Names(K, i, Live(K, i))
      /\ \A k \in Live(K, i) : dn[Append(d, Name(K, i, k))].inode = Ino(K, i, k)
  BY Zenon DEF Mem, Matches
<1> HIDE DEF i, kids
<1>3. /\ Live(V, i) = Live(K, i)
      /\ \A k \in Live(K, i) : Name(V, i, k) = Name(K, i, k) /\ Ino(V, i, k) = Ino(K, i, k)
  BY <1>1, Zenon DEF SameNames
<1>4. Names(V, i, Live(V, i)) = Names(K, i, Live(K, i))
  <2>1. \A x : x \in Names(V, i, Live(V, i)) <=> x \in Names(K, i, Live(K, i))
    BY <1>3, Zenon DEF Names
  <2> QED BY <2>1, Zenon
<1> QED
  BY <1>2, <1>3, <1>4, Zenon DEF Matches, i, kids

\* A reference to inode i.
LEMMA RefsAre ==
    ASSUME NEW K, NEW i, NEW r
    PROVE  r \in Refs(K, i) <=> IsRef(K, i, r)
<1> DEFINE U == UNION {{<<j, k>> : k \in Live(K, j)} : j \in Inodes}
<1>0. r \in U <=> \E j \in Inodes : \E k \in Live(K, j) : r = <<j, k>>
  <2>1. ASSUME r \in U PROVE \E j \in Inodes : \E k \in Live(K, j) : r = <<j, k>>
    <3>1. PICK S \in {{<<j, k>> : k \in Live(K, j)} : j \in Inodes} : r \in S
      BY <2>1, Zenon
    <3>2. PICK j \in Inodes : S = {<<j, k>> : k \in Live(K, j)}
      BY <3>1, Zenon
    <3>3. r \in {<<j, k>> : k \in Live(K, j)}
      BY <3>1, <3>2, Zenon
    <3> QED BY <3>3, Zenon
  <2>2. ASSUME NEW j \in Inodes, NEW k \in Live(K, j), r = <<j, k>> PROVE r \in U
    <3>1. r \in {<<j, m>> : m \in Live(K, j)}
      BY <2>2, Zenon
    <3> QED BY <3>1, Zenon
  <2> QED BY <2>1, <2>2, Zenon
<1>1. r \in Refs(K, i) <=> (\E j \in Inodes : \E k \in Live(K, j) : r = <<j, k>>) /\ Ino(K, r[1], r[2]) = i
  <2> HIDE DEF U
  <2>1. Refs(K, i) = {x \in U : Ino(K, x[1], x[2]) = i}
    BY Zenon DEF Refs, U
  <2> QED BY <1>0, <2>1, Zenon
<1>2. \A j, k : r = <<j, k>> => r[1] = j /\ r[2] = k
  OBVIOUS
<1> QED
  BY <1>1, <1>2, Zenon DEF IsRef

\* Volumes with the same names have the same references.
LEMMA SameRefs ==
    ASSUME NEW K, NEW V, SameNames(K, V), NEW i
    PROVE  Refs(V, i) = Refs(K, i)
<1>1. ASSUME NEW r PROVE r \in Refs(V, i) <=> r \in Refs(K, i)
  <2>1. IsRef(V, i, r) <=> IsRef(K, i, r)
    BY Zenon DEF SameNames, IsRef
  <2>2. (r \in Refs(V, i) <=> IsRef(V, i, r)) /\ (r \in Refs(K, i) <=> IsRef(K, i, r))
    BY RefsAre, Zenon
  <2> QED BY <2>1, <2>2, Zenon
<1> QED
  BY <1>1, Zenon

\* Every entry leads to an inode that has a name.
LEMMA LeadsNamed ==
    ASSUME NEW T, NEW K, Vol(T, K), NEW j \in Inodes, NEW k \in Live(K, j)
    PROVE  Goes(T, K, j, k)
<1>1. PICK p \in DOMAIN T : T[p] = j
  BY Zenon DEF Vol, Bare
<1>2. Leads(T, p, Name(K, j, k), Ino(K, j, k))
  BY <1>1, Zenon DEF Vol, Led
<1>3. \E q \in DOMAIN T : T[q] = Ino(K, j, k)
  <2>1. ROOT \in DOMAIN T /\ T[ROOT] = 1
    BY Zenon DEF Vol, Tree
  <2> QED BY <1>1, <1>2, <2>1, Zenon DEF Leads
<1> QED
  BY <1>1, <1>2, <1>3, Zenon DEF Goes

\* An inode without a name has no references.
LEMMA NoRefs ==
    ASSUME NEW T, NEW K, Vol(T, K), NEW i, \A p \in DOMAIN T : T[p] # i
    PROVE  Refs(K, i) = {}
<1> SUFFICES ASSUME NEW r \in Refs(K, i) PROVE FALSE
  BY Zenon
<1>0. IsRef(K, i, r)
  BY RefsAre, Zenon
<1>1. PICK j \in Inodes : \E k \in Live(K, j) : r = <<j, k>> /\ Ino(K, j, k) = i
  BY <1>0, Zenon DEF IsRef
<1>2. PICK k \in Live(K, j) : Ino(K, j, k) = i
  BY <1>1, Zenon
<1>3. \E q \in DOMAIN T : T[q] = Ino(K, j, k)
  <2>1. Goes(T, K, j, k)
    BY LeadsNamed, Zenon
  <2> QED BY <2>1, Zenon DEF Goes
<1> QED
  BY <1>2, <1>3, Zenon

\* The fields of an inode of a volume.
LEMMA OneInode ==
    ASSUME NEW K \in Volume, NEW i \in Inodes
    PROVE  /\ K[i] \in InodeSet /\ K[i].slots \in Seq(Slot) /\ K[i].nlinks \in 0..(LINKS - 1)
           /\ K[i].mode = "free" \/ K[i].mode = "dir" \/ K[i].mode = "file"
           /\ Len(K[i].slots) \in Nat
<1>1. K[i] \in InodeSet
  BY Zenon DEF Volume, InodeSet
<1>2. K[i].slots \in Seq(Slot) /\ K[i].nlinks \in 0..(LINKS - 1) /\ K[i].mode \in {"free", "dir", "file"}
  BY <1>1, Zenon DEF InodeSet
<1> QED
  BY <1>1, <1>2, LenIs, Zenon

\* A volume with one inode written.
LEMMA PutInode ==
    ASSUME NEW K \in Volume, NEW i \in Inodes, NEW r \in InodeSet
    PROVE  Put(K, i, r, [K EXCEPT ![i] = r])
<1>1. K \in [Inodes -> InodeSet]
  BY Zenon DEF Volume, InodeSet
<1>2. [K EXCEPT ![i] = r] \in [Inodes -> InodeSet]
  BY <1>1, Zenon
<1>3. [K EXCEPT ![i] = r][i] = r /\ \A j \in Inodes : j # i => [K EXCEPT ![i] = r][j] = K[j]
  BY <1>1, Zenon
<1> QED
  BY <1>2, <1>3, Zenon DEF Volume, InodeSet, Put

\* An inode without a name can be taken or given back.
LEMMA SetInode ==
    ASSUME Library, NEW C, NEW T, NEW X, NEW K \in Volume, Sane(C, T, X, K),
           NEW i \in Inodes, \A p \in DOMAIN T : T[p] # i,
           NEW r \in InodeSet, r.slots = <<>>, r.nlinks = 0,
           NEW dn, Shape(dn), Mem(T, dn, K),
           NEW Y, r.mode # "free" => i \in Y, \A j \in X : j = i \/ j \in Y
    PROVE  Sane(C, T, Y, [K EXCEPT ![i] = r]) /\ Mem(T, dn, [K EXCEPT ![i] = r])
<1> DEFINE V == [K EXCEPT ![i] = r]
<1>1. V \in Volume /\ V[i] = r /\ \A j \in Inodes : j # i => V[j] = K[j]
  <2>1. Put(K, i, r, V)
    BY PutInode, Zenon
  <2> QED BY <2>1, Zenon DEF Put
<1> HIDE DEF V
<1>2. Vol(T, K) /\ 1 \in Inodes /\ \A p \in DOMAIN T : T[p] \in Inodes
  BY Zenon DEF Sane, Vol, Tree
<1>3. Live(K, i) = {} /\ Live(V, i) = {}
  <2>1. Live(K, i) = {}
    BY <1>2, Zenon DEF Vol, Bare
  <2>2. Len(<<>>) = 0 /\ \A k \in 1..0 : FALSE
    OBVIOUS
  <2> QED BY <1>1, <2>1, <2>2, Zenon DEF Live
<1>4. SameNames(K, V)
  <2> SUFFICES ASSUME NEW j \in Inodes
               PROVE  /\ Live(V, j) = Live(K, j)
                      /\ \A k \in Live(K, j) : Name(V, j, k) = Name(K, j, k) /\ Ino(V, j, k) = Ino(K, j, k)
    BY Zenon DEF SameNames
  <2>1. CASE j = i
    BY <1>3, <2>1, Zenon
  <2>2. CASE j # i
    BY <1>1, <2>2, Zenon DEF Live, Name, Ino
  <2> QED BY <2>1, <2>2, Zenon
<1>5. Modes(T, V)
  <2> SUFFICES ASSUME NEW p \in DOMAIN T
               PROVE  /\ V[T[p]].mode # "free"
                      /\ V[T[p]].mode = "file" => p \in FilePaths /\ Live(V, T[p]) = {}
    BY Zenon DEF Modes
  <2>1. V[T[p]] = K[T[p]] /\ Live(V, T[p]) = Live(K, T[p])
    BY <1>1, <1>2, <1>4, Zenon DEF SameNames
  <2> QED BY <1>2, <2>1, Zenon DEF Vol, Modes
<1>6. Vol(T, V)
  BY <1>2, <1>4, <1>5, SameVol, Zenon
<1>7. ASSUME C PROVE Whole(T, Y, V)
  BY <1>1, <1>7, Zenon DEF Sane, Whole
<1>8. ASSUME C, NEW j \in Inodes PROVE V[j].nlinks = Cardinality(Refs(V, j))
  <2>1. Refs(V, j) = Refs(K, j)
    BY <1>4, SameRefs, Zenon
  <2>2. CASE j = i
    <3>1. Refs(K, j) = {}
      BY <1>2, <2>2, NoRefs, Zenon
    <3>2. Cardinality({}) = 0
      BY Zenon DEF Library
    <3> QED BY <1>1, <2>1, <2>2, <3>1, <3>2, Zenon
  <2>3. CASE j # i
    BY <1>1, <1>8, <2>1, <2>3, Zenon DEF Sane, Counted
  <2> QED BY <2>2, <2>3, Zenon
<1>9. Mem(T, dn, V)
  BY <1>4, SameMem, Zenon
<1>10. Sane(C, T, Y, V)
  BY <1>6, <1>7, <1>8, Zenon DEF Sane, Counted
<1> QED
  BY <1>9, <1>10, Zenon DEF V

-----------------------------------------------------------------------------
(* One more entry *)

\* A reference to an inode with path z: its own dot, the dots of a directory
\* in it, or its name.
LEMMA RefKinds ==
    ASSUME NEW T, NEW K \in Volume, Vol(T, K), NEW z \in DOMAIN T,
           NEW j \in Inodes, NEW k \in Live(K, j), Ino(K, j, k) = T[z]
    PROVE  Kind(T, K, z, j, k)
<1>1. Goes(T, K, j, k)
  BY LeadsNamed, Zenon
<1>2. PICK p \in DOMAIN T : T[p] = j /\ Leads(T, p, Name(K, j, k), Ino(K, j, k))
  BY <1>1, Zenon DEF Goes
<1>3. \A q, r \in DOMAIN T : T[q] = T[r] => q = r
  BY Zenon DEF Vol, Tree
<1>4. CASE Name(K, j, k) = "." /\ Ino(K, j, k) = T[p]
  BY <1>2, <1>4, Zenon DEF Kind
<1>5. CASE Name(K, j, k) = ".."
  BY <1>5, Zenon DEF Kind
<1>6. CASE Name(K, j, k) \notin Dots /\ Append(p, Name(K, j, k)) \in DOMAIN T /\ Ino(K, j, k) = T[Append(p, Name(K, j, k))]
  BY <1>2, <1>3, <1>6, Zenon DEF Kind
<1> QED
  BY <1>2, <1>4, <1>5, <1>6, Zenon DEF Leads

\* An inode has fewer references than nlinks can count.
LEMMA RefsFew ==
    ASSUME Library, NEW T, NEW K \in Volume, Vol(T, K), NEW i
    PROVE  /\ IsFiniteSet(Refs(K, i)) /\ Cardinality(Refs(K, i)) \in Nat
           /\ Cardinality(Refs(K, i)) <= LINKS - 1
<1> DEFINE R == Refs(K, i)
           B == InodeNum + 1
<1>0. InodeNum \in Nat /\ InodeNum >= 1 /\ InodeNum <= LINKS - 3 /\ LINKS \in Nat
  BY Bounds, LinksNat
<1>1. CASE \A p \in DOMAIN T : T[p] # i
  <2>1. R = {}
    BY <1>1, NoRefs, Zenon
  <2>2. IsFiniteSet({}) /\ Cardinality({}) = 0
    BY Zenon DEF Library
  <2>3. 0 <= LINKS - 1 /\ 0 \in Nat
    BY <1>0
  <2> QED BY <2>1, <2>2, <2>3, Zenon
<1>2. CASE \E z \in DOMAIN T : T[z] = i
  <2>1. PICK z \in DOMAIN T : T[z] = i
    BY <1>2, Zenon
  <2> DEFINE code(r) == IF Name(K, r[1], r[2]) = "." THEN 0 ELSE IF Name(K, r[1], r[2]) = ".." THEN r[1] ELSE B
             f == [r \in R |-> code(r)]
  <2>2. ASSUME NEW r \in R
        PROVE  /\ r[1] \in Inodes /\ r[2] \in Live(K, r[1]) /\ Ino(K, r[1], r[2]) = i
               /\ r = <<r[1], r[2]>>
    <3>1. IsRef(K, i, r)
      BY RefsAre, Zenon
    <3>2. PICK j \in Inodes : \E k \in Live(K, j) : r = <<j, k>> /\ Ino(K, j, k) = i
      BY <3>1, Zenon DEF IsRef
    <3>3. PICK k \in Live(K, j) : r = <<j, k>> /\ Ino(K, j, k) = i
      BY <3>2, Zenon
    <3>4. r[1] = j /\ r[2] = k
      BY <3>3
    <3> QED BY <3>2, <3>3, <3>4, Zenon
  <2>3. \A j \in Inodes : j \in Nat /\ j # 0 /\ j # B /\ j \in 0..B
    BY <1>0 DEF Inodes
  <2>4. 0 \in 0..B /\ B \in 0..B /\ B # 0 /\ B \in Nat
    BY <1>0
  <2> HIDE DEF B, R
  <2>5. ASSUME NEW r \in R PROVE code(r) \in 0..B
    BY <2>2, <2>3, <2>4, Zenon
  <2>6. ASSUME NEW r \in R, NEW x \in R, code(r) = code(x) PROVE r = x
    <3> DEFINE j == r[1]
               k == r[2]
               l == x[1]
               m == x[2]
    <3>1. /\ j \in Inodes /\ k \in Live(K, j) /\ Ino(K, j, k) = i /\ r = <<j, k>>
          /\ l \in Inodes /\ m \in Live(K, l) /\ Ino(K, l, m) = i /\ x = <<l, m>>
      BY <2>2, Zenon
    <3>2. ASSUME j = l, Name(K, j, k) = Name(K, l, m) PROVE r = x
      <4>1. k = m
        BY <3>1, <3>2, Zenon DEF Vol, Distinct
      <4> QED BY <3>1, <3>2, <4>1, Zenon
    <3>3. \/ Name(K, j, k) = "." /\ j = T[z]
          \/ Name(K, j, k) = ".."
          \/ Name(K, j, k) \notin Dots /\ \E p \in DOMAIN T : T[p] = j /\ z = Append(p, Name(K, j, k))
      <4>1. Kind(T, K, z, j, k)
        <5> HIDE DEF j, k, l, m
        <5> QED BY <2>1, <3>1, RefKinds, Zenon
      <4> QED BY <4>1, Zenon DEF Kind
    <3>4. \/ Name(K, l, m) = "." /\ l = T[z]
          \/ Name(K, l, m) = ".."
          \/ Name(K, l, m) \notin Dots /\ \E p \in DOMAIN T : T[p] = l /\ z = Append(p, Name(K, l, m))
      <4>1. Kind(T, K, z, l, m)
        <5> HIDE DEF j, k, l, m
        <5> QED BY <2>1, <3>1, RefKinds, Zenon
      <4> QED BY <4>1, Zenon DEF Kind
    <3>5. /\ j # 0 /\ j # B /\ l # 0 /\ l # B
      BY <2>3, <3>1, Zenon
    <3>6. code(r) = IF Name(K, j, k) = "." THEN 0 ELSE IF Name(K, j, k) = ".." THEN j ELSE B
      BY Zenon
    <3>7. code(x) = IF Name(K, l, m) = "." THEN 0 ELSE IF Name(K, l, m) = ".." THEN l ELSE B
      BY Zenon
    <3>8. "." # ".."
      OBVIOUS
    <3> HIDE DEF code, j, k, l, m
    <3>9. CASE Name(K, j, k) = "."
      BY <2>4, <2>6, <3>2, <3>3, <3>4, <3>5, <3>6, <3>7, <3>8, <3>9, Zenon DEF Dots
    <3>10. CASE Name(K, j, k) = ".."
      BY <2>4, <2>6, <3>2, <3>5, <3>6, <3>7, <3>8, <3>10, Zenon
    <3>11. CASE Name(K, j, k) # "." /\ Name(K, j, k) # ".."
      <4>1. Name(K, l, m) # "." /\ Name(K, l, m) # ".."
        BY <2>4, <2>6, <3>5, <3>6, <3>7, <3>11, Zenon
      <4>2. PICK p \in DOMAIN T : T[p] = j /\ z = Append(p, Name(K, j, k))
        BY <3>3, <3>11, Zenon
      <4>3. PICK q \in DOMAIN T : T[q] = l /\ z = Append(q, Name(K, l, m))
        BY <3>4, <4>1, Zenon
      <4>4. p \in Seq(Text) /\ q \in Seq(Text)
        BY Zenon DEF Vol, Tree
      <4>5. Name(K, j, k) \in Text /\ Name(K, l, m) \in Text
        BY <3>1, LiveType, Zenon
      <4>6. p = q /\ Name(K, j, k) = Name(K, l, m)
        <5> DEFINE a == Name(K, j, k)
                   b == Name(K, l, m)
        <5>1. a \in Text /\ b \in Text /\ Append(p, a) = Append(q, b)
          BY <4>2, <4>3, <4>5, Zenon
        <5> HIDE DEF a, b
        <5>2. p = q /\ a = b
          BY <4>4, <5>1, OneChild
        <5> QED BY <5>2, Zenon DEF a, b
      <4> QED BY <3>2, <4>2, <4>3, <4>6, Zenon
    <3> QED BY <3>9, <3>10, <3>11, Zenon
  <2>7. Numbers(R, 0..B, f)
    <3>1. f \in [R -> 0..B]
      BY <2>5, Zenon
    <3>2. \A r, x \in R : f[r] = f[x] => r = x
      BY <2>6, Zenon
    <3> QED BY <3>1, <3>2, Zenon DEF Numbers
  <2>9. IsFiniteSet(R) /\ Cardinality(R) <= B + 1
    <3> HIDE DEF f
    <3> QED BY <2>4, <2>7, FewNumbers, Zenon
  <2>10. Cardinality(R) \in Nat
    BY <2>9, Zenon DEF Library
  <2>11. Cardinality(R) <= LINKS - 1
    BY <1>0, <2>9, <2>10 DEF B
  <2> QED BY <2>9, <2>10, <2>11, Zenon DEF R
<1> QED
  BY <1>1, <1>2, Zenon

\* write_child: an entry is appended.
LEMMA AppendSlot ==
    ASSUME NEW K \in Volume, NEW dir \in Inodes, NEW name \in Text, NEW i \in Inodes
    PROVE  LET V == [K EXCEPT ![dir].slots = Append(@, [ino |-> i, name |-> name])]
           IN  V \in Volume /\ Gains(K, dir, Len(K[dir].slots) + 1, name, i, V)
<1> DEFINE e == [ino |-> i, name |-> name]
           q == K[dir].slots
           w == Append(q, e)
           r == [K[dir] EXCEPT !.slots = w]
           V == [K EXCEPT ![dir] = r]
           n == Len(q) + 1
<1>1. K[dir] \in InodeSet /\ q \in Seq(Slot) /\ Len(q) \in Nat
  BY OneInode, Zenon
<1>2. e \in Slot /\ e.ino = i /\ e.name = name /\ i # 0
  <2>1. i \in 0..InodeNum /\ i # 0
    BY Bounds, LinksNat DEF Inodes
  <2>2. e \in Slot
    BY <2>1, Zenon DEF Slot
  <2>3. e.ino = i /\ e.name = name
    OBVIOUS
  <2> QED BY <2>1, <2>2, <2>3, Zenon
<1> HIDE DEF e
<1>3. w \in Seq(Slot) /\ Len(w) = n /\ w[n] = e /\ \A k \in 1..Len(q) : w[k] = q[k]
  <2> HIDE DEF q
  <2> QED BY <1>1, <1>2, AppendIs
<1> HIDE DEF w, q
<1>4. r \in InodeSet /\ r.slots = w /\ r.mode = K[dir].mode /\ r.nlinks = K[dir].nlinks
  <2>1. r \in InodeSet
    BY <1>1, <1>3, Zenon DEF InodeSet
  <2>2. r.slots = w /\ r.mode = K[dir].mode /\ r.nlinks = K[dir].nlinks
    BY <1>1 DEF InodeSet
  <2> QED BY <2>1, <2>2, Zenon
<1>5. V = [K EXCEPT ![dir].slots = Append(@, [ino |-> i, name |-> name])]
  BY Zenon DEF w, q, e
<1> HIDE DEF r
<1>6. Put(K, dir, r, V)
  BY <1>4, PutInode, Zenon
<1> HIDE DEF V
<1>7. V \in Volume /\ V[dir] = r /\ \A j \in Inodes : j # dir => V[j] = K[j]
  BY <1>6, Zenon DEF Put
<1>8. \A j \in Inodes : V[j].mode = K[j].mode /\ V[j].nlinks = K[j].nlinks /\ (j # dir => V[j] = K[j])
  BY <1>4, <1>7, Zenon
<1>9. \A k : k \in 1..n <=> k \in 1..Len(q) \/ k = n
  BY <1>1
<1>10. n \notin 1..Len(q)
  BY <1>1
<1> HIDE DEF n
<1>11. \A k : k \in Live(K, dir) <=> k \in 1..Len(q) /\ q[k].ino # 0
  BY Zenon DEF Live, q
<1>12. \A k : k \in Live(V, dir) <=> k \in 1..n /\ w[k].ino # 0
  BY <1>3, <1>4, <1>7, Zenon DEF Live
<1>13. \A k : Name(V, dir, k) = w[k].name /\ Ino(V, dir, k) = w[k].ino
  BY <1>4, <1>7, Zenon DEF Name, Ino
<1>14. \A k : Name(K, dir, k) = q[k].name /\ Ino(K, dir, k) = q[k].ino
  BY Zenon DEF Name, Ino, q
<1>15. Live(V, dir) = Live(K, dir) \cup {n}
  <2>1. \A k : k \in Live(V, dir) <=> k \in Live(K, dir) \cup {n}
    BY <1>2, <1>3, <1>9, <1>10, <1>11, <1>12, Zenon
  <2> QED BY <2>1, Zenon
<1>16. \A k \in Live(K, dir) : Name(V, dir, k) = Name(K, dir, k) /\ Ino(V, dir, k) = Ino(K, dir, k)
  <2> SUFFICES ASSUME NEW k \in Live(K, dir)
               PROVE  Name(V, dir, k) = Name(K, dir, k) /\ Ino(V, dir, k) = Ino(K, dir, k)
    BY Zenon
  <2>1. w[k] = q[k]
    BY <1>3, <1>11, Zenon
  <2> QED BY <1>13, <1>14, <2>1, Zenon
<1>17. n \notin Live(K, dir) /\ Name(V, dir, n) = name /\ Ino(V, dir, n) = i
  BY <1>2, <1>3, <1>10, <1>11, <1>13, Zenon
<1>18. Gains(K, dir, n, name, i, V)
  BY <1>8, <1>15, <1>16, <1>17, Zenon DEF Gains
<1> QED
  BY <1>5, <1>7, <1>18, Zenon DEF n, q

\* An entry leads where it did when the tree of names grows.
LEMMA LeadsStill ==
    ASSUME NEW T, NEW U, Extends(T, U), NEW p \in DOMAIN T, NEW n, NEW i, Leads(T, p, n, i)
    PROVE  Leads(U, p, n, i)
<1>1. T[p] = U[p]
  BY Zenon DEF Extends
<1>2. CASE n = "." /\ i = T[p]
  BY <1>1, <1>2, Zenon DEF Leads
<1>3. CASE n = ".." /\ p = ROOT /\ i = 1
  BY <1>3, Zenon DEF Leads
<1>4. CASE n = ".." /\ \E q \in DOMAIN T : i = T[q] /\ \E m \in Text : p = Append(q, m)
  BY <1>4, Zenon DEF Leads, Extends
<1>5. CASE n \notin Dots /\ Append(p, n) \in DOMAIN T /\ i = T[Append(p, n)]
  BY <1>5, Zenon DEF Leads, Extends
<1> QED
  BY <1>2, <1>3, <1>4, <1>5, Zenon DEF Leads

\* The volume with one more entry, where the entry leads where it should.
LEMMA GainVol ==
    ASSUME NEW T, NEW K \in Volume, Vol(T, K), NEW dir \in Inodes, NEW n, NEW name, NEW i,
           NEW V, Gains(K, dir, n, name, i, V),
           NEW U, Extends(T, U), Tree(U), Named(U, V), Modes(U, V),
           NEW p \in DOMAIN T, T[p] = dir, Leads(U, p, name, i),
           name \notin Names(K, dir, Live(K, dir)),
           \A q \in DOMAIN U : q \in DOMAIN T \/ Live(V, U[q]) = {}
    PROVE  Vol(U, V)
<1>1. ASSUME NEW j \in Inodes, j # dir
      PROVE  /\ Live(V, j) = Live(K, j)
             /\ \A k : Name(V, j, k) = Name(K, j, k) /\ Ino(V, j, k) = Ino(K, j, k)
  <2>1. V[j] = K[j]
    BY <1>1, Zenon DEF Gains
  <2> QED BY <2>1, Zenon DEF Live, Name, Ino
<1>2. /\ n \notin Live(K, dir) /\ Live(V, dir) = Live(K, dir) \cup {n}
      /\ \A k \in Live(K, dir) : Name(V, dir, k) = Name(K, dir, k) /\ Ino(V, dir, k) = Ino(K, dir, k)
      /\ Name(V, dir, n) = name /\ Ino(V, dir, n) = i
  BY Zenon DEF Gains
<1>3. \A q \in DOMAIN T : T[q] \in Inodes
  BY Zenon DEF Vol, Tree
<1>4. Led(U, V)
  <2> SUFFICES ASSUME NEW q \in DOMAIN U, NEW k \in Live(V, U[q])
               PROVE  Leads(U, q, Name(V, U[q], k), Ino(V, U[q], k))
    BY Zenon DEF Led
  <2>1. q \in DOMAIN T /\ U[q] = T[q]
    BY Zenon DEF Extends
  <2>2. CASE T[q] # dir
    <3>1. k \in Live(K, T[q]) /\ Name(V, T[q], k) = Name(K, T[q], k) /\ Ino(V, T[q], k) = Ino(K, T[q], k)
      BY <1>1, <1>3, <2>1, <2>2, Zenon
    <3>2. Leads(T, q, Name(K, T[q], k), Ino(K, T[q], k))
      BY <2>1, <3>1, Zenon DEF Vol, Led
    <3> QED BY <2>1, <3>1, <3>2, LeadsStill, Zenon
  <2>3. CASE T[q] = dir
    <3>1. q = p
      BY <2>1, <2>3, Zenon DEF Vol, Tree
    <3>2. CASE k = n
      BY <1>2, <2>1, <2>3, <3>1, <3>2, Zenon
    <3>3. CASE k # n
      <4>1. k \in Live(K, dir)
        BY <1>2, <2>1, <2>3, <3>3, Zenon
      <4>2. Leads(T, p, Name(K, dir, k), Ino(K, dir, k))
        BY <4>1, Zenon DEF Vol, Led
      <4>3. Leads(U, p, Name(K, dir, k), Ino(K, dir, k))
        BY <4>2, LeadsStill, Zenon
      <4> QED BY <1>2, <2>1, <2>3, <3>1, <4>1, <4>3, Zenon
    <3> QED BY <3>2, <3>3, Zenon
  <2> QED BY <2>2, <2>3, Zenon
<1>5. Distinct(V)
  <2> SUFFICES ASSUME NEW j \in Inodes, NEW k \in Live(V, j), NEW l \in Live(V, j), Name(V, j, k) = Name(V, j, l)
               PROVE  k = l
    BY Zenon DEF Distinct
  <2>1. CASE j # dir
    BY <1>1, <2>1, Zenon DEF Vol, Distinct
  <2>2. CASE j = dir
    <3>1. \A m \in Live(K, dir) : Name(V, dir, m) # name
      BY <1>2, Zenon DEF Names
    <3>2. \A a, b \in Live(K, dir) : Name(V, dir, a) = Name(V, dir, b) => a = b
      <4>1. \A a, b \in Live(K, dir) : Name(K, dir, a) = Name(K, dir, b) => a = b
        BY Zenon DEF Vol, Distinct
      <4> QED BY <1>2, <4>1, Zenon
    <3> QED BY <1>2, <2>2, <3>1, <3>2, Zenon
  <2> QED BY <2>1, <2>2, Zenon
<1>6. Bare(U, V)
  <2> SUFFICES ASSUME NEW j \in Inodes, \A q \in DOMAIN U : U[q] # j
               PROVE  Live(V, j) = {}
    BY Zenon DEF Bare
  <2>1. \A q \in DOMAIN T : T[q] # j
    BY Zenon DEF Extends
  <2>2. j # dir
    BY <2>1, Zenon
  <2>3. Live(K, j) = {}
    BY <2>1, Zenon DEF Vol, Bare
  <2> QED BY <1>1, <2>2, <2>3, Zenon
<1>7. Rooted(V)
  <2>0. 1 \in Inodes
    BY <1>3, Zenon DEF Vol, Tree
  <2>1. PICK k \in Live(K, 1) : Name(K, 1, k) = "."
    BY Zenon DEF Vol, Rooted
  <2>2. k \in Live(V, 1) /\ Name(V, 1, k) = Name(K, 1, k)
    BY <1>1, <1>2, <2>0, <2>1, Zenon
  <2> QED BY <2>1, <2>2, Zenon DEF Rooted
<1> QED
  BY <1>4, <1>5, <1>6, <1>7, Zenon DEF Vol

\* Names that were there still are.
LEMMA GainNamed ==
    ASSUME NEW T, NEW K \in Volume, Vol(T, K), NEW dir \in Inodes, NEW n, NEW name, NEW i,
           NEW V, Gains(K, dir, n, name, i, V), NEW U, Extends(T, U), NEW c \in DOMAIN T \ {ROOT}
    PROVE  HasName(U, V, c)
<1>1. PICK q \in DOMAIN T : \E k \in Live(K, T[q]) :
              c = Append(q, Name(K, T[q], k)) /\ Name(K, T[q], k) \notin Dots
  BY Zenon DEF Vol, Named
<1>2. PICK k \in Live(K, T[q]) : c = Append(q, Name(K, T[q], k)) /\ Name(K, T[q], k) \notin Dots
  BY <1>1, Zenon
<1>3. q \in DOMAIN U /\ U[q] = T[q] /\ T[q] \in Inodes
  BY Zenon DEF Extends, Vol, Tree
<1>4. k \in Live(V, T[q]) /\ Name(V, T[q], k) = Name(K, T[q], k)
  <2>1. CASE T[q] = dir
    BY <1>2, <2>1, Zenon DEF Gains
  <2>2. CASE T[q] # dir
    <3>1. V[T[q]] = K[T[q]]
      BY <1>3, <2>2, Zenon DEF Gains
    <3> QED BY <1>2, <3>1, Zenon DEF Live, Name
  <2> QED BY <2>1, <2>2, Zenon
<1> QED
  BY <1>2, <1>3, <1>4, Zenon DEF HasName

\* A dot entry.
LEMMA GainDot ==
    ASSUME NEW T, NEW K \in Volume, Vol(T, K), NEW dir \in Inodes, NEW n, NEW name, NEW i,
           NEW V, Gains(K, dir, n, name, i, V),
           NEW p \in DOMAIN T, T[p] = dir, Leads(T, p, name, i), K[dir].mode = "dir",
           name \notin Names(K, dir, Live(K, dir))
    PROVE  Vol(T, V)
<1>1. Extends(T, T) /\ Tree(T)
  BY Zenon DEF Extends, Vol
<1>2. Named(T, V)
  <2>1. \A c \in DOMAIN T \ {ROOT} : HasName(T, V, c)
    BY <1>1, GainNamed, Zenon
  <2> QED BY <2>1, Zenon DEF Named, HasName
<1>3. Modes(T, V)
  <2> SUFFICES ASSUME NEW q \in DOMAIN T
               PROVE  /\ V[T[q]].mode # "free"
                      /\ V[T[q]].mode = "file" => q \in FilePaths /\ Live(V, T[q]) = {}
    BY Zenon DEF Modes
  <2>1. T[q] \in Inodes
    BY Zenon DEF Vol, Tree
  <2>2. V[T[q]].mode = K[T[q]].mode /\ (T[q] # dir => V[T[q]] = K[T[q]])
    BY <2>1, Zenon DEF Gains
  <2>3. T[q] # dir => Live(V, T[q]) = Live(K, T[q])
    BY <2>2, Zenon DEF Live
  <2>4. "dir" # "file"
    OBVIOUS
  <2> QED BY <2>2, <2>3, <2>4, Zenon DEF Vol, Modes
<1> QED
  BY <1>1, <1>2, <1>3, GainVol, Zenon

\* A new name: T gets one more path.
LEMMA GainName ==
    ASSUME NEW T, NEW K \in Volume, Vol(T, K), NEW dir \in Inodes, NEW n, NEW name \in Text, NEW i \in Inodes,
           NEW V, Gains(K, dir, n, name, i, V),
           NEW p \in DOMAIN T, T[p] = dir, K[dir].mode = "dir",
           name \notin Names(K, dir, Live(K, dir)), name \notin Dots,
           \A q \in DOMAIN T : T[q] # i,
           K[i].mode # "free", K[i].mode = "file" => Append(p, name) \in FilePaths
    PROVE  Append(p, name) \notin DOMAIN T /\ Vol(Joined(T, Append(p, name), i), V)
<1> DEFINE c == Append(p, name)
           U == [q \in DOMAIN T \cup {c} |-> IF q = c THEN i ELSE T[q]]
<1>1. /\ ROOT \in DOMAIN T /\ T[ROOT] = 1 /\ DOMAIN T \subseteq Seq(Text)
      /\ \A q \in DOMAIN T : T[q] \in Inodes
      /\ \A q, r \in DOMAIN T : T[q] = T[r] => q = r
  BY Zenon DEF Vol, Tree
<1>2. c \notin DOMAIN T
  <2> SUFFICES ASSUME c \in DOMAIN T PROVE FALSE
    BY Zenon
  <2>1. c # ROOT
    BY <1>1, Child, Zenon
  <2>2. PICK q \in DOMAIN T : \E k \in Live(K, T[q]) :
              c = Append(q, Name(K, T[q], k)) /\ Name(K, T[q], k) \notin Dots
    BY <2>1, Zenon DEF Vol, Named
  <2>3. PICK k \in Live(K, T[q]) : c = Append(q, Name(K, T[q], k))
    BY <2>2, Zenon
  <2> DEFINE m == Name(K, T[q], k)
  <2>4. m \in Text
    BY <1>1, LiveType, Zenon
  <2>5. q \in Seq(Text) /\ p \in Seq(Text) /\ Append(p, name) = Append(q, m)
    BY <1>1, <2>3, Zenon
  <2> HIDE DEF m
  <2>6. q = p /\ m = name
    BY <2>4, <2>5, OneChild, Zenon
  <2>7. m \in Names(K, dir, Live(K, dir))
    BY <2>3, <2>6, Zenon DEF Names, m
  <2> QED BY <2>6, <2>7, Zenon
<1>3. /\ DOMAIN U = DOMAIN T \cup {c} /\ U[c] = i
      /\ \A q \in DOMAIN T : U[q] = T[q]
  BY <1>2, Zenon
<1> HIDE DEF U
<1>4. Extends(T, U)
  BY <1>3, Zenon DEF Extends
<1>5. c \in Seq(Text)
  BY <1>1, Child, Zenon
<1>6. Tree(U)
  <2>1. ROOT \in DOMAIN U /\ U[ROOT] = 1 /\ DOMAIN U \subseteq Seq(Text)
    BY <1>1, <1>3, <1>5, Zenon
  <2>2. \A q \in DOMAIN U : U[q] \in Inodes
    BY <1>1, <1>3, Zenon
  <2>3. ASSUME NEW q \in DOMAIN U, NEW r \in DOMAIN U, U[q] = U[r] PROVE q = r
    BY <1>1, <1>3, <2>3, Zenon
  <2> QED BY <2>1, <2>2, <2>3, Zenon DEF Tree
<1>7. i # dir /\ Live(V, i) = {}
  <2>1. i # dir
    BY Zenon
  <2>2. V[i] = K[i]
    BY <2>1, Zenon DEF Gains
  <2>3. Live(K, i) = {}
    BY Zenon DEF Vol, Bare
  <2> QED BY <2>1, <2>2, <2>3, Zenon DEF Live
<1>8. Named(U, V)
  <2>1. ASSUME NEW q \in DOMAIN U \ {ROOT} PROVE HasName(U, V, q)
    <3>1. CASE q = c
      <4>1. n \in Live(V, U[p]) /\ Name(V, U[p], n) = name /\ p \in DOMAIN U
        BY <1>3, Zenon DEF Gains
      <4> QED BY <3>1, <4>1, Zenon DEF HasName
    <3>2. CASE q # c
      <4>1. q \in DOMAIN T \ {ROOT}
        BY <1>3, <3>2, Zenon
      <4> QED BY <1>4, <4>1, GainNamed, Zenon
    <3> QED BY <3>1, <3>2, Zenon
  <2> QED BY <2>1, Zenon DEF Named, HasName
<1>9. Modes(U, V)
  <2> SUFFICES ASSUME NEW q \in DOMAIN U
               PROVE  /\ V[U[q]].mode # "free"
                      /\ V[U[q]].mode = "file" => q \in FilePaths /\ Live(V, U[q]) = {}
    BY Zenon DEF Modes
  <2>1. CASE q = c
    <3>1. V[i].mode = K[i].mode
      BY Zenon DEF Gains
    <3> QED BY <1>3, <1>7, <2>1, <3>1, Zenon
  <2>2. CASE q # c
    <3>1. q \in DOMAIN T /\ U[q] = T[q] /\ T[q] \in Inodes
      BY <1>1, <1>3, <2>2, Zenon
    <3>2. V[T[q]].mode = K[T[q]].mode /\ (T[q] # dir => V[T[q]] = K[T[q]])
      BY <3>1, Zenon DEF Gains
    <3>3. T[q] # dir => Live(V, T[q]) = Live(K, T[q])
      BY <3>2, Zenon DEF Live
    <3>4. "dir" # "file"
      OBVIOUS
    <3> QED BY <3>1, <3>2, <3>3, <3>4, Zenon DEF Vol, Modes
  <2> QED BY <2>1, <2>2, Zenon
<1>10. Leads(U, p, name, i)
  BY <1>3, Zenon DEF Leads
<1>11. \A q \in DOMAIN U : q \in DOMAIN T \/ Live(V, U[q]) = {}
  BY <1>3, <1>7, Zenon
<1>12. Vol(U, V)
  BY <1>4, <1>6, <1>8, <1>9, <1>10, <1>11, GainVol, Zenon
<1> QED
  BY <1>2, <1>12, Zenon DEF U, Joined

\* The references: one more to inode i.
LEMMA GainRefs ==
    ASSUME NEW K, NEW dir \in Inodes, NEW n, NEW name, NEW i,
           NEW V, Gains(K, dir, n, name, i, V)
    PROVE  OneMore(K, V, i, <<dir, n>>)
<1> DEFINE x == <<dir, n>>
<1>0. \A j, k, l, m : <<j, k>> = <<l, m>> => j = l /\ k = m
  OBVIOUS
<1>1. \A j, r : r \in Refs(K, j) <=> IsRef(K, j, r)
  BY RefsAre, Zenon
<1>2. \A j, r : r \in Refs(V, j) <=> IsRef(V, j, r)
  BY RefsAre, Zenon
<1>3. x \notin Refs(K, i)
  <2>1. ~IsRef(K, i, x)
    BY <1>0, Zenon DEF IsRef, Gains
  <2> QED BY <1>1, <2>1, Zenon
<1>4. ASSUME NEW j \in Inodes, NEW k
      PROVE  /\ k \in Live(V, j) <=> k \in Live(K, j) \/ (j = dir /\ k = n)
             /\ k \in Live(K, j) => Ino(V, j, k) = Ino(K, j, k)
             /\ Ino(V, dir, n) = i
  <2>1. CASE j = dir
    BY <2>1, Zenon DEF Gains
  <2>2. CASE j # dir
    <3>1. V[j] = K[j] /\ Ino(V, dir, n) = i
      BY <2>2, Zenon DEF Gains
    <3> QED BY <2>2, <3>1, Zenon DEF Live, Ino
  <2> QED BY <2>1, <2>2, Zenon
<1>5. ASSUME NEW j, NEW r
      PROVE  IsRef(V, j, r) <=> IsRef(K, j, r) \/ (r = x /\ j = i)
  <2>1. ASSUME IsRef(V, j, r) PROVE IsRef(K, j, r) \/ (r = x /\ j = i)
    <3>1. PICK l \in Inodes : \E k \in Live(V, l) : r = <<l, k>> /\ Ino(V, l, k) = j
      BY <2>1, Zenon DEF IsRef
    <3>2. PICK k \in Live(V, l) : r = <<l, k>> /\ Ino(V, l, k) = j
      BY <3>1, Zenon
    <3>3. k \in Live(K, l) \/ (l = dir /\ k = n)
      BY <1>4, <3>2, Zenon
    <3>4. CASE k \in Live(K, l)
      BY <1>4, <3>2, <3>4, Zenon DEF IsRef
    <3>5. CASE l = dir /\ k = n
      BY <1>4, <3>2, <3>5, Zenon
    <3> QED BY <3>3, <3>4, <3>5, Zenon
  <2>2. ASSUME IsRef(K, j, r) PROVE IsRef(V, j, r)
    <3>1. PICK l \in Inodes : \E k \in Live(K, l) : r = <<l, k>> /\ Ino(K, l, k) = j
      BY <2>2, Zenon DEF IsRef
    <3>2. PICK k \in Live(K, l) : r = <<l, k>> /\ Ino(K, l, k) = j
      BY <3>1, Zenon
    <3>3. k \in Live(V, l) /\ Ino(V, l, k) = j
      BY <1>4, <3>2, Zenon
    <3> QED BY <3>2, <3>3, Zenon DEF IsRef
  <2>3. ASSUME r = x, j = i PROVE IsRef(V, j, r)
    BY <1>4, <2>3, Zenon DEF IsRef
  <2> QED BY <2>1, <2>2, <2>3, Zenon
<1>6. \A r : r \in Refs(V, i) <=> r \in Refs(K, i) \cup {x}
  BY <1>1, <1>2, <1>5, Zenon
<1>7. ASSUME NEW j, j # i PROVE Refs(V, j) = Refs(K, j)
  <2>1. \A r : r \in Refs(V, j) <=> r \in Refs(K, j)
    BY <1>1, <1>2, <1>5, <1>7, Zenon
  <2> QED BY <2>1, Zenon
<1>8. Refs(V, i) = Refs(K, i) \cup {x}
  BY <1>6, Zenon
<1> QED
  BY <1>3, <1>7, <1>8, Zenon DEF OneMore

-----------------------------------------------------------------------------
(* dentry_link *)

\* nlinks changes, nothing else.
LEMMA ChangeLinks ==
    ASSUME NEW K \in Volume, NEW i \in Inodes, NEW n \in Int
    PROVE  Relinked(K, i, n, Links(K, i, n))
<1> DEFINE x == (K[i].nlinks + n) % LINKS
           r == [K[i] EXCEPT !.nlinks = x]
           V == [K EXCEPT ![i] = r]
<1>1. K[i] \in InodeSet /\ K[i].nlinks \in 0..(LINKS - 1)
  BY OneInode, Zenon
<1>2. x \in 0..(LINKS - 1)
  BY <1>1, LinksNat
<1>3. V = Links(K, i, n)
  BY Zenon DEF Links
<1> HIDE DEF x
<1>4. r \in InodeSet /\ r.nlinks = x /\ r.mode = K[i].mode /\ r.slots = K[i].slots
  <2>1. r \in InodeSet
    BY <1>1, <1>2, Zenon DEF InodeSet
  <2>2. r.nlinks = x /\ r.mode = K[i].mode /\ r.slots = K[i].slots
    BY <1>1 DEF InodeSet
  <2> QED BY <2>1, <2>2, Zenon
<1> HIDE DEF r
<1>5. Put(K, i, r, V)
  BY <1>4, PutInode, Zenon
<1> HIDE DEF V
<1>6. V \in Volume /\ V[i] = r /\ \A j \in Inodes : j # i => V[j] = K[j]
  BY <1>5, Zenon DEF Put
<1>7. \A j \in Inodes : V[j].mode = K[j].mode /\ V[j].slots = K[j].slots /\ (j # i => V[j].nlinks = K[j].nlinks)
  BY <1>4, <1>6, Zenon
<1>8. SameNames(K, V)
  BY <1>7, Zenon DEF SameNames, Live, Name, Ino
<1>9. Relinked(K, i, n, V)
  BY <1>4, <1>6, <1>7, <1>8, Zenon DEF Relinked, x
<1> QED
  BY <1>3, <1>9, Zenon

\* The tree and the volume agree as before.
LEMMA RelinkVol ==
    ASSUME NEW K \in Volume, NEW i, NEW n, NEW V, Relinked(K, i, n, V),
           NEW T, Vol(T, K)
    PROVE  Vol(T, V)
<1>1. SameNames(K, V) /\ 1 \in Inodes /\ \A p \in DOMAIN T : T[p] \in Inodes
  BY Zenon DEF Relinked, Vol, Tree
<1>2. Modes(T, V)
  BY <1>1, Zenon DEF Vol, Modes, Relinked, SameNames
<1> QED
  BY <1>1, <1>2, SameVol, Zenon

\* add_child keeps the tree in memory well formed.
LEMMA AddedForm ==
    ASSUME NEW s, Formed(s), NEW p \in DOMAIN s.dent, s.dent[p].load,
           NEW name \in Text, Append(p, name) \notin DOMAIN s.dent,
           NEW i \in Inodes, NEW t, Added(s, p, name, i, t)
    PROVE  Formed(t)
<1> DEFINE c == Append(p, name)
<1>1. /\ Rest(s, t)
      /\ DOMAIN t.dent = DOMAIN s.dent \cup {c}
      /\ t.dent[c] = NewDentry(i)
      /\ t.dent[p] \in Node
      /\ t.dent[p].load = s.dent[p].load
      /\ t.dent[p].children = <<name>> \o s.dent[p].children
      /\ \A q \in DOMAIN s.dent : q # p /\ q # c => t.dent[q] = s.dent[q]
  BY Zenon DEF Added
<1>2. /\ DOMAIN s.dent \subseteq Seq(Text) /\ ROOT \in DOMAIN s.dent
      /\ \A q \in DOMAIN s.dent : s.dent[q] \in Node
      /\ \A q \in DOMAIN s.dent : \A n \in Range(s.dent[q].children) : Append(q, n) \in DOMAIN s.dent
      /\ \A q \in DOMAIN s.dent : q = ROOT \/ \E r \in DOMAIN s.dent : \E n \in Range(s.dent[r].children) : q = Append(r, n)
      /\ \A q \in DOMAIN s.dent : ~s.dent[q].load => s.dent[q].children = <<>> /\ s.dent[q].nentries = 0
  BY Zenon DEF Formed, Shape
<1>3. p \in Seq(Text) /\ s.dent[p].children \in Seq(Text) /\ c \in Seq(Text)
  BY <1>2, NodeFields, Child, Zenon
<1>4. Range(t.dent[p].children) = Range(s.dent[p].children) \cup {name}
  <2> DEFINE k == s.dent[p].children
  <2>1. k \in Seq(Text)
    BY <1>3, Zenon
  <2> HIDE DEF k
  <2>2. Pushed(k, name, <<name>> \o k)
    BY <2>1, Prepend, Zenon
  <2> QED BY <1>1, <2>2, Zenon DEF Pushed, k
<1>5. t.dent[c] \in Node /\ t.dent[c].children = <<>> /\ t.dent[c].nentries = 0 /\ c # p
  <2>1. c # p
    BY Zenon
  <2> QED BY <1>1, <2>1, NewNode, Zenon
<1> HIDE DEF c
<1>6. \A q \in DOMAIN t.dent : q = c \/ q = p \/ (q \in DOMAIN s.dent /\ q # p /\ t.dent[q] = s.dent[q])
  BY <1>1, Zenon
<1>7. p \in DOMAIN t.dent /\ c \in DOMAIN t.dent
  BY <1>1, Zenon
<1>8. Shape(t.dent)
  <2>1. DOMAIN t.dent \subseteq Seq(Text) /\ ROOT \in DOMAIN t.dent
    BY <1>1, <1>2, <1>3, Zenon
  <2>2. ASSUME NEW q \in DOMAIN t.dent PROVE t.dent[q] \in Node
    BY <1>1, <1>2, <1>5, <1>6, Zenon
  <2>3. ASSUME NEW q \in DOMAIN t.dent, NEW n \in Range(t.dent[q].children)
        PROVE  Append(q, n) \in DOMAIN t.dent
    <3>1. CASE q = p
      BY <1>1, <1>2, <1>4, <3>1, Zenon DEF c
    <3>2. CASE q = c
      BY <1>5, <3>2, EmptyRange, Zenon
    <3>3. CASE q # p /\ q # c
      BY <1>1, <1>2, <1>6, <3>3, Zenon
    <3> QED BY <3>1, <3>2, <3>3, Zenon
  <2>4. ASSUME NEW q \in DOMAIN t.dent, q # ROOT
        PROVE  \E r \in DOMAIN t.dent : \E n \in Range(t.dent[r].children) : q = Append(r, n)
    <3>1. CASE q = c
      BY <1>4, <1>7, <3>1, Zenon DEF c
    <3>2. CASE q # c
      <4>1. PICK r \in DOMAIN s.dent : \E n \in Range(s.dent[r].children) : q = Append(r, n)
        BY <1>1, <1>2, <2>4, <3>2, Zenon
      <4>2. PICK n \in Range(s.dent[r].children) : q = Append(r, n)
        BY <4>1, Zenon
      <4>3. r \in DOMAIN t.dent /\ n \in Range(t.dent[r].children)
        <5>1. CASE r = p
          BY <1>4, <1>7, <4>2, <5>1, Zenon
        <5>2. CASE r # p
          <6>1. r # c
            BY Zenon DEF c
          <6> QED BY <1>1, <4>2, <5>2, <6>1, Zenon
        <5> QED BY <5>1, <5>2, Zenon
      <4> QED BY <4>2, <4>3, Zenon
    <3> QED BY <3>1, <3>2, Zenon
  <2>5. ASSUME NEW q \in DOMAIN t.dent, ~t.dent[q].load
        PROVE  t.dent[q].children = <<>> /\ t.dent[q].nentries = 0
    BY <1>1, <1>2, <1>5, <1>6, <2>5, Zenon
  <2> QED BY <2>1, <2>2, <2>3, <2>4, <2>5, Zenon DEF Shape
<1> QED
  BY <1>1, <1>8, Zenon DEF Formed, Rest

\* The tree in memory and the volume get the same entry.
LEMMA GainMem ==
    ASSUME NEW s, Formed(s), NEW T, Vol(T, s.disk), Mem(T, s.dent, s.disk),
           NEW p \in DOMAIN s.dent, s.dent[p].load,
           NEW name \in Text, Append(p, name) \notin DOMAIN s.dent,
           NEW i \in Inodes, NEW t, Added(s, p, name, i, t),
           NEW n, NEW V, Gains(s.disk, s.dent[p].inode, n, name, i, V),
           NEW U, Extends(T, U), name \notin Dots => Append(p, name) \in DOMAIN U /\ U[Append(p, name)] = i
    PROVE  Mem(U, t.dent, V)
<1> DEFINE c == Append(p, name)
           K == s.disk
           dir == s.dent[p].inode
<1>1. /\ DOMAIN t.dent = DOMAIN s.dent \cup {c}
      /\ t.dent[c] = NewDentry(i)
      /\ t.dent[p].inode = dir
      /\ t.dent[p].children = <<name>> \o s.dent[p].children
      /\ t.dent[p].nentries = s.dent[p].nentries + 1
      /\ \A q \in DOMAIN s.dent : q # p /\ q # c => t.dent[q] = s.dent[q]
  BY Zenon DEF Added
<1>2. /\ Plain(p) /\ p \in DOMAIN T /\ dir = T[p] /\ p \in Seq(Text)
      /\ Shape(s.dent) /\ dir \in Inodes /\ s.dent[p].children \in Seq(Text)
  BY ChildNames, Zenon DEF Mem, Formed
<1>3. /\ n \notin Live(K, dir) /\ Live(V, dir) = Live(K, dir) \cup {n}
      /\ \A k \in Live(K, dir) : Name(V, dir, k) = Name(K, dir, k) /\ Ino(V, dir, k) = Ino(K, dir, k)
      /\ Name(V, dir, n) = name /\ Ino(V, dir, n) = i
      /\ \A j \in Inodes : j # dir => V[j] = K[j]
  BY Zenon DEF Gains
<1>4. ASSUME NEW d \in DOMAIN s.dent, s.dent[d].load
      PROVE  /\ Plain(d) /\ d \in DOMAIN T /\ s.dent[d].inode = T[d] /\ s.dent[d].inode \in Inodes
             /\ s.dent[d].nentries = Len(s.dent[d].children) /\ Inj(s.dent[d].children)
             /\ Range(s.dent[d].children) = Names(K, s.dent[d].inode, Live(K, s.dent[d].inode))
             /\ \A k \in Live(K, s.dent[d].inode) :
                   /\ Append(d, Name(K, s.dent[d].inode, k)) \in DOMAIN s.dent
                   /\ s.dent[Append(d, Name(K, s.dent[d].inode, k))].inode = Ino(K, s.dent[d].inode, k)
  <2>1. Plain(d) /\ Matches(s.dent, K, d)
    BY <1>4, Zenon DEF Mem
  <2>2. d \in DOMAIN T /\ s.dent[d].inode = T[d]
    BY <2>1, Zenon DEF Mem
  <2>3. s.dent[d].inode \in Inodes
    BY <1>2, ChildNames, Zenon
  <2>4. /\ s.dent[d].nentries = Len(s.dent[d].children) /\ Inj(s.dent[d].children)
        /\ Range(s.dent[d].children) = Names(K, s.dent[d].inode, Live(K, s.dent[d].inode))
        /\ \A k \in Live(K, s.dent[d].inode) : s.dent[Append(d, Name(K, s.dent[d].inode, k))].inode = Ino(K, s.dent[d].inode, k)
    BY <2>1, Zenon DEF Matches
  <2>5. ASSUME NEW k \in Live(K, s.dent[d].inode)
        PROVE  Append(d, Name(K, s.dent[d].inode, k)) \in DOMAIN s.dent
    <3>1. Name(K, s.dent[d].inode, k) \in Range(s.dent[d].children)
      BY <2>4, Zenon DEF Names
    <3> QED BY <1>2, <3>1, Zenon DEF Shape
  <2> QED BY <2>1, <2>2, <2>3, <2>4, <2>5, Zenon
<1>5. NewDentry(i).inode = i /\ NewDentry(i).load = FALSE
  BY NewNode, Zenon
<1> HIDE DEF c, K, dir
<1>6. ASSUME NEW q \in DOMAIN s.dent PROVE t.dent[q].inode = s.dent[q].inode /\ t.dent[q].load = s.dent[q].load
  <2>1. q # c
    BY Zenon DEF c
  <2>2. CASE q = p
    BY <2>2, Zenon DEF Added
  <2> QED BY <1>1, <2>1, <2>2, Zenon
<1>7. ASSUME NEW d \in DOMAIN t.dent, Plain(d)
      PROVE  d \in DOMAIN U /\ t.dent[d].inode = U[d]
  <2>1. CASE d = c
    <3>1. name \notin Dots
      BY <1>2, <1>7, <2>1, Child, Zenon DEF c
    <3> QED BY <1>1, <1>5, <2>1, <3>1, Zenon DEF c
  <2>2. CASE d # c
    <3>1. d \in DOMAIN s.dent
      BY <1>1, <2>2, Zenon
    <3>2. d \in DOMAIN T /\ s.dent[d].inode = T[d]
      BY <1>7, <3>1, Zenon DEF Mem
    <3> QED BY <1>6, <3>1, <3>2, Zenon DEF Extends
  <2> QED BY <2>1, <2>2, Zenon
<1>8. ASSUME NEW d \in DOMAIN t.dent, t.dent[d].load
      PROVE  Plain(d) /\ Matches(t.dent, V, d)
  <2>1. d # c
    BY <1>1, <1>5, <1>8, Zenon
  <2>2. d \in DOMAIN s.dent /\ s.dent[d].load
    BY <1>1, <1>6, <1>8, <2>1, Zenon
  <2>3. CASE d = p
    <3> DEFINE x == s.dent[p].children
               y == t.dent[p].children
    <3>1. y = <<name>> \o x /\ x \in Seq(Text)
      BY <1>1, <1>2, Zenon
    <3>2. Pushed(x, name, y)
      <4> HIDE DEF x, y
      <4> QED BY <3>1, Prepend, Zenon
    <3>3. name \notin Range(x)
      <4>1. \A m \in Range(x) : Append(p, m) \in DOMAIN s.dent
        BY <1>2, Zenon DEF Shape
      <4> QED BY <4>1, Zenon
    <3>4. /\ s.dent[p].nentries = Len(x) /\ Inj(x)
          /\ Range(x) = Names(K, dir, Live(K, dir))
          /\ \A k \in Live(K, dir) : /\ Append(p, Name(K, dir, k)) \in DOMAIN s.dent
                                     /\ s.dent[Append(p, Name(K, dir, k))].inode = Ino(K, dir, k)
      BY <1>4, Zenon DEF dir
    <3> HIDE DEF x, y
    <3>5. t.dent[p].nentries = Len(y) /\ Inj(y) /\ Range(y) = Range(x) \cup {name}
      BY <1>1, <3>2, <3>3, <3>4, Zenon DEF Pushed
    <3>6. Names(V, dir, Live(V, dir)) = Names(K, dir, Live(K, dir)) \cup {name}
      <4>1. \A m : m \in Names(V, dir, Live(V, dir)) <=> m \in Names(K, dir, Live(K, dir)) \cup {name}
        BY <1>3, Zenon DEF Names
      <4> QED BY <4>1, Zenon
    <3>7. ASSUME NEW k \in Live(V, dir)
          PROVE  t.dent[Append(p, Name(V, dir, k))].inode = Ino(V, dir, k)
      <4>1. CASE k = n
        BY <1>1, <1>3, <1>5, <4>1, Zenon DEF c
      <4>2. CASE k # n
        <5>1. k \in Live(K, dir) /\ Name(V, dir, k) = Name(K, dir, k) /\ Ino(V, dir, k) = Ino(K, dir, k)
          BY <1>3, <4>2, Zenon
        <5> QED BY <1>6, <3>4, <5>1, Zenon
      <4> QED BY <4>1, <4>2, Zenon
    <3>8. Range(y) = Names(V, dir, Live(V, dir))
      BY <3>4, <3>5, <3>6, Zenon
    <3>9. t.dent[p].inode = dir
      BY <1>1, Zenon
    <3>10. Matches(t.dent, V, p)
      BY <3>5, <3>7, <3>8, <3>9, Zenon DEF Matches, y
    <3> QED BY <1>2, <2>3, <3>10, Zenon
  <2>4. CASE d # p
    <3> DEFINE j == s.dent[d].inode
    <3>1. t.dent[d] = s.dent[d]
      BY <1>1, <2>1, <2>2, <2>4, Zenon
    <3>2. /\ Plain(d) /\ d \in DOMAIN T /\ j = T[d] /\ j \in Inodes
          /\ s.dent[d].nentries = Len(s.dent[d].children) /\ Inj(s.dent[d].children)
          /\ Range(s.dent[d].children) = Names(K, j, Live(K, j))
          /\ \A k \in Live(K, j) : /\ Append(d, Name(K, j, k)) \in DOMAIN s.dent
                                   /\ s.dent[Append(d, Name(K, j, k))].inode = Ino(K, j, k)
      BY <1>4, <2>2, Zenon
    <3> HIDE DEF j
    <3>3. j # dir
      BY <1>2, <2>4, <3>2, Zenon DEF Vol, Tree
    <3>4. V[j] = K[j]
      BY <1>3, <3>2, <3>3, Zenon
    <3>5. Live(V, j) = Live(K, j) /\ \A k : Name(V, j, k) = Name(K, j, k) /\ Ino(V, j, k) = Ino(K, j, k)
      BY <3>4, Zenon DEF Live, Name, Ino
    <3>6. Names(V, j, Live(V, j)) = Names(K, j, Live(K, j))
      BY <3>4, Zenon DEF Names, Live, Name
    <3>7. ASSUME NEW k \in Live(V, j)
          PROVE  t.dent[Append(d, Name(V, j, k))].inode = Ino(V, j, k)
      BY <1>6, <3>2, <3>5, Zenon
    <3>8. Matches(t.dent, V, d)
      BY <3>1, <3>2, <3>6, <3>7, Zenon DEF Matches, j
    <3> QED BY <3>2, <3>8, Zenon
  <2> QED BY <2>3, <2>4, Zenon
<1> QED
  BY <1>7, <1>8, Zenon DEF Mem

\* write_child.
LEMMA WriteChild ==
    ASSUME NEW a, Formed(a), NEW dir \in Inodes, NEW name \in Text, NEW i \in Inodes
    PROVE  WroteEntry(a, dir, name, i, write_child(a, dir, [ino |-> i, name |-> name]))
<1> DEFINE w == write_child(a, dir, [ino |-> i, name |-> name])
           z == IF (Len(a.disk[dir].slots) + 1) % DIRENTS_PER_BLOCK = 0 THEN 1 ELSE 0
           V == Entered(a.disk, dir, name, i)
           b == Write(a, V)
<1>1. DOMAIN a = Fields /\ a.room \in Int
  BY Zenon DEF Formed
<1>2. w = IF a.room < z THEN [a EXCEPT !.lost = TRUE] ELSE [b EXCEPT !.room = @ - z]
  BY Zenon DEF write_child, Entered
<1>3. z \in Int
  OBVIOUS
<1> HIDE DEF w, z, V
<1>4. CASE a.room < z
  <2>1. w = [a EXCEPT !.lost = TRUE]
    BY <1>2, <1>4, Zenon
  <2>2. DOMAIN w = Fields /\ w.dent = a.dent /\ w.at = a.at /\ w.ino = a.ino /\ w.err = a.err
    BY <1>1, <2>1 DEF Fields
  <2>3. w.lost = TRUE /\ w.room = a.room /\ w.disk = a.disk /\ w.trace = a.trace
    BY <1>1, <2>1 DEF Fields
  <2> QED BY <1>1, <2>2, <2>3, Zenon DEF w, WroteEntry
<1>5. CASE ~(a.room < z)
  <2>1. /\ DOMAIN b = Fields /\ b.dent = a.dent /\ b.disk = V /\ b.at = a.at
        /\ b.ino = a.ino /\ b.err = a.err /\ b.room = a.room
        /\ b.lost = a.lost /\ b.trace = Append(a.trace, V)
    <3>1. Wrote(a, V, b)
      BY <1>1, WriteFields, Zenon
    <3> QED BY <3>1, Zenon DEF Wrote
  <2> HIDE DEF b
  <2> DEFINE x == b.room - z
  <2>2. w = [b EXCEPT !.room = x] /\ x \in Int
    <3>1. w = [b EXCEPT !.room = x]
      BY <1>2, <1>5, <2>1, Zenon DEF Fields
    <3>2. x \in Int
      BY <1>1, <1>3, <2>1
    <3> QED BY <3>1, <3>2, Zenon
  <2> HIDE DEF x
  <2>3. DOMAIN w = Fields /\ w.dent = b.dent /\ w.at = b.at /\ w.ino = b.ino /\ w.err = b.err
    BY <2>1, <2>2, Zenon DEF Fields
  <2>4. w.lost = b.lost /\ w.room = x /\ w.disk = b.disk /\ w.trace = b.trace
    BY <2>1, <2>2, Zenon DEF Fields
  <2> QED BY <2>1, <2>2, <2>3, <2>4, Zenon DEF w, V, WroteEntry
<1> QED
  BY <1>4, <1>5, Zenon

\* dentry_link refuses, or makes a dentry, an entry and a link.
LEMMA DentryLink ==
    ASSUME Library, NEW s, Formed(s), NEW d \in DOMAIN s.dent, Plain(d), NEW name \in Text, NEW i \in Inodes
    PROVE  LinkDone(s, d, name, i, dentry_link(s, d, name, i))
<1> DEFINE t == dentry_link(s, d, name, i)
           r == read_children(s, d)
           dir == s.dent[d].inode
           a == add_child(r, d, name, i)
           w == write_child(a, r.dent[d].inode, [ino |-> i, name |-> name])
<1>1. Filled(s, d, r)
  BY ReadChildren, Zenon
<1>2. t = IF name \in LongNames THEN Fail(s, "EPERM")
          ELSE IF has_child(r, d, name) THEN Fail(r, "EPERM") ELSE inode_links(w, i, 1)
  BY Zenon DEF dentry_link
<1>0. s.dent[d].load => r = s
  BY Zenon DEF read_children
<1> HIDE DEF r, t
<1>3. /\ Formed(r) /\ Grown(s, r) /\ Rest(s, r) /\ r.at = s.at /\ r.dent[d].load /\ Keeps(s, r)
      /\ DOMAIN s = Fields /\ DOMAIN r = Fields
  BY <1>1, Zenon DEF Filled, Formed
<1>4. d \in DOMAIN r.dent /\ r.dent[d].inode = dir /\ dir \in Inodes /\ d \in Seq(Text)
  BY <1>3, ChildNames, Zenon DEF Grown, Formed
<1>5. has_child(r, d, name) <=> Append(d, name) \in DOMAIN r.dent
  BY <1>3, <1>4, ChildNames, Zenon DEF has_child, Formed
<1>6. CASE name \in LongNames
  <2>1. t = Fail(s, "EPERM")
    BY <1>2, <1>6, Zenon
  <2>2. /\ DOMAIN t = Fields /\ t.dent = s.dent /\ t.disk = s.disk /\ t.at = s.at /\ t.ino = s.ino
        /\ t.err = "EPERM" /\ t.room = s.room /\ t.lost = s.lost /\ t.trace = s.trace
    <3>1. Failed(s, "EPERM", t)
      BY <1>3, <2>1, FailFields, Zenon
    <3> QED BY <3>1, Zenon DEF Failed
  <2>3. Formed(t) /\ Grown(s, t) /\ Keeps(s, t)
    BY <2>2, Zenon DEF Formed, Grown, Keeps
  <2>4. Refused(s, d, name, t)
    BY <1>6, <2>2, <2>3, Zenon DEF Refused
  <2> QED BY <2>4, Zenon DEF t, LinkDone
<1>7. CASE name \notin LongNames /\ Append(d, name) \in DOMAIN r.dent
  <2>1. t = Fail(r, "EPERM")
    BY <1>2, <1>5, <1>7, Zenon
  <2>2. /\ DOMAIN t = Fields /\ t.dent = r.dent /\ t.disk = r.disk /\ t.at = r.at /\ t.ino = r.ino
        /\ t.err = "EPERM" /\ t.room = r.room /\ t.lost = r.lost /\ t.trace = r.trace
    <3>1. Failed(r, "EPERM", t)
      BY <1>3, <2>1, FailFields, Zenon
    <3> QED BY <3>1, Zenon DEF Failed
  <2>3. Formed(t) /\ Grown(s, t) /\ Keeps(s, t)
    BY <1>3, <2>2, Zenon DEF Formed, Grown, Keeps
  <2>4. Refused(s, d, name, t)
    BY <1>0, <1>3, <1>7, <2>2, <2>3, Zenon DEF Refused, Rest
  <2> QED BY <2>4, Zenon DEF t, LinkDone
<1>8. CASE name \notin LongNames /\ Append(d, name) \notin DOMAIN r.dent
  <2>1. t = inode_links(w, i, 1)
    BY <1>2, <1>5, <1>8, Zenon
  <2>2. Added(r, d, name, i, a)
    BY <1>3, <1>4, AddChild, Zenon DEF Formed, Shape
  <2> HIDE DEF a
  <2>3. Formed(a)
    BY <1>3, <1>4, <1>8, <2>2, AddedForm, Zenon
  <2> DEFINE K == s.disk
             V == Entered(K, dir, name, i)
  <2>4. a.disk = K /\ a.at = s.at /\ a.ino = s.ino /\ a.err = s.err /\ a.lost = s.lost /\ a.trace = s.trace
    BY <1>3, <2>2, Zenon DEF Added, Rest
  <2>5. /\ DOMAIN w = Fields /\ w.dent = a.dent /\ w.at = a.at /\ w.ino = a.ino /\ w.err = a.err /\ w.room \in Int
        /\ \/ w.lost = TRUE /\ w.disk = a.disk /\ w.trace = a.trace
           \/ w.lost = a.lost /\ w.disk = Entered(a.disk, dir, name, i) /\ w.trace = Append(a.trace, w.disk)
    <3>1. WroteEntry(a, r.dent[d].inode, name, i, w)
      BY <1>4, <2>3, WriteChild, Zenon
    <3> QED BY <1>4, <3>1, Zenon DEF WroteEntry
  <2> HIDE DEF w
  <2> DEFINE L == Links(w.disk, i, 1)
  <2>6. t = Write(w, L)
    BY <2>1, Zenon DEF inode_links, Links
  <2> HIDE DEF L
  <2>7. /\ DOMAIN t = Fields /\ t.dent = w.dent /\ t.disk = L /\ t.at = w.at /\ t.ino = w.ino
        /\ t.err = w.err /\ t.room = w.room /\ t.lost = w.lost /\ t.trace = Append(w.trace, L)
    <3>1. Wrote(w, L, t)
      BY <2>5, <2>6, WriteFields, Zenon
    <3> QED BY <3>1, Zenon DEF Wrote
  <2>8. \/ t.lost = TRUE /\ t.disk = Links(K, i, 1) /\ t.trace = Append(s.trace, t.disk)
        \/ t.lost = s.lost /\ t.disk = Links(V, i, 1) /\ t.trace = Append(Append(s.trace, V), t.disk)
    BY <2>4, <2>5, <2>7, Zenon DEF L
  <2>9. Linking(s, d, name, i, r, t)
    BY <1>0, <1>1, <1>8, <2>2, <2>4, <2>5, <2>7, <2>8, Zenon DEF Linking
  <2> QED BY <2>9, Zenon DEF t, LinkDone
<1> QED
  BY <1>6, <1>7, <1>8, Zenon

\* Appending an entry, in the words of dentry_link.
LEMMA EnterSlot ==
    ASSUME NEW K \in Volume, NEW dir \in Inodes, NEW name \in Text, NEW i \in Inodes
    PROVE  Entered(K, dir, name, i) \in Volume
           /\ Gains(K, dir, Len(K[dir].slots) + 1, name, i, Entered(K, dir, name, i))
BY AppendSlot, Zenon DEF Entered

\* What dentry_link leaves, whether or not the entry was written.
LEMMA LinkForm ==
    ASSUME NEW s, Formed(s), NEW d \in DOMAIN s.dent, NEW name \in Text, NEW i \in Inodes,
           NEW r, NEW t, Linking(s, d, name, i, r, t)
    PROVE  NewName(s, d, name, i, r, t)
<1> DEFINE K == s.disk
           dir == s.dent[d].inode
           V == Entered(K, dir, name, i)
           c == Append(d, name)
<1>1. K \in Volume /\ dir \in Inodes /\ s.trace \in Seq(Volume) /\ s.ino \in 0..InodeNum /\ d \in Seq(Text)
  BY ChildNames, Zenon DEF Formed
<1>2. PICK a : Added(r, d, name, i, a) /\ t.dent = a.dent
  BY Zenon DEF Linking
<1>3. /\ Filled(s, d, r) /\ c \notin DOMAIN r.dent
      /\ DOMAIN t = Fields /\ t.ino = s.ino /\ t.room \in Int
      /\ \/ t.lost = TRUE /\ t.disk = Links(K, i, 1) /\ t.trace = Append(s.trace, t.disk)
         \/ t.lost = s.lost /\ t.disk = Links(V, i, 1) /\ t.trace = Append(Append(s.trace, V), t.disk)
  BY Zenon DEF Linking
<1>4. Formed(r) /\ Grown(s, r) /\ r.dent[d].load /\ d \in DOMAIN r.dent /\ r.dent[d].inode = dir
  BY <1>3, Zenon DEF Filled, Grown
<1>5. Formed(a)
  BY <1>2, <1>3, <1>4, AddedForm, Zenon
<1>6. V \in Volume /\ Gains(K, dir, Len(K[dir].slots) + 1, name, i, V)
  <2> HIDE DEF K, dir
  <2> QED BY <1>1, EnterSlot, Zenon
<1>7. Relinked(K, i, 1, Links(K, i, 1)) /\ Relinked(V, i, 1, Links(V, i, 1))
  <2>1. 1 \in Int
    OBVIOUS
  <2> HIDE DEF K, V
  <2> QED BY <1>1, <1>6, <2>1, ChangeLinks, Zenon
<1> HIDE DEF V, K, dir
<1>8. t.disk \in Volume /\ t.trace \in Seq(Volume) /\ t.lost \in BOOLEAN
  <2>1. Links(K, i, 1) \in Volume /\ Links(V, i, 1) \in Volume
    BY <1>7, Zenon DEF Relinked
  <2>2. Append(s.trace, V) \in Seq(Volume)
    BY <1>1, <1>6, AppendIs, Zenon
  <2>3. Append(Append(s.trace, V), Links(V, i, 1)) \in Seq(Volume) /\ Append(s.trace, Links(K, i, 1)) \in Seq(Volume)
    BY <1>1, <2>1, <2>2, AppendIs, Zenon
  <2>4. s.lost \in BOOLEAN
    BY Zenon DEF Formed
  <2> QED BY <1>3, <2>1, <2>3, <2>4, Zenon
<1>9. Formed(t)
  <2>1. Shape(t.dent)
    BY <1>2, <1>5, Zenon DEF Formed
  <2> QED BY <1>1, <1>3, <1>8, <2>1, Zenon DEF Formed
<1>10. Kept(s, t)
  <2>1. ASSUME NEW p \in DOMAIN s.dent
        PROVE  p \in DOMAIN t.dent /\ t.dent[p].inode = s.dent[p].inode
    <3>1. p \in DOMAIN r.dent /\ r.dent[p].inode = s.dent[p].inode
      BY <1>4, Zenon DEF Grown
    <3>2. p # c
      BY <1>3, <3>1, Zenon
    <3> QED BY <1>2, <3>1, <3>2, Zenon DEF Added
  <2> QED BY <2>1, Zenon DEF Kept
<1>11. /\ c \in DOMAIN t.dent /\ t.dent[c] = NewDentry(i)
       /\ t.dent[d].load /\ t.dent[d].children = <<name>> \o r.dent[d].children
  BY <1>2, <1>4, Zenon DEF Added
<1>12. ASSUME NEW j \in Inodes
       PROVE  t.disk[j].mode = K[j].mode /\ (j # dir => t.disk[j].slots = K[j].slots)
  <2>1. Links(K, i, 1)[j].mode = K[j].mode /\ Links(K, i, 1)[j].slots = K[j].slots
    BY <1>7, Zenon DEF Relinked
  <2>2. Links(V, i, 1)[j].mode = V[j].mode /\ Links(V, i, 1)[j].slots = V[j].slots
    BY <1>7, Zenon DEF Relinked
  <2>3. V[j].mode = K[j].mode /\ (j # dir => V[j] = K[j])
    BY <1>6, Zenon DEF Gains
  <2> QED BY <1>3, <2>1, <2>2, <2>3, Zenon
<1> QED
  BY <1>9, <1>10, <1>11, <1>12, Zenon DEF NewName, K, dir

\* The name of a new entry was not there.
LEMMA NotThere ==
    ASSUME NEW T, NEW dn, Shape(dn), NEW K, Mem(T, dn, K), NEW d \in DOMAIN dn, dn[d].load,
           NEW name, Append(d, name) \notin DOMAIN dn
    PROVE  name \notin Names(K, dn[d].inode, Live(K, dn[d].inode))
<1>1. Range(dn[d].children) = Names(K, dn[d].inode, Live(K, dn[d].inode))
  BY Zenon DEF Mem, Matches
<1> QED
  BY <1>1, ChildNames, Zenon

\* The links are counted right after one more was made.
LEMMA LinkCounts ==
    ASSUME Library, NEW K \in Volume, Counted(K), NEW dir \in Inodes, NEW n, NEW name, NEW i \in Inodes,
           NEW V \in Volume, Gains(K, dir, n, name, i, V), NEW U, Vol(U, V),
           NEW L, Relinked(V, i, 1, L)
    PROVE  Counted(L)
<1>1. /\ Refs(V, i) = Refs(K, i) \cup {<<dir, n>>} /\ <<dir, n>> \notin Refs(K, i)
      /\ \A j : j # i => Refs(V, j) = Refs(K, j)
  <2>1. OneMore(K, V, i, <<dir, n>>)
    BY GainRefs, Zenon
  <2> QED BY <2>1, Zenon DEF OneMore
<1>2. ASSUME NEW j \in Inodes
      PROVE  L[j].nlinks = Cardinality(Refs(L, j))
  <2>1. Refs(L, j) = Refs(V, j)
    BY SameRefs, Zenon DEF Relinked
  <2>2. K[j].nlinks = Cardinality(Refs(K, j)) /\ V[j].nlinks = K[j].nlinks
    BY Zenon DEF Counted, Gains
  <2>3. CASE j # i
    BY <1>1, <2>1, <2>2, <2>3, Zenon DEF Relinked
  <2>4. CASE j = i
    <3> DEFINE R == Refs(K, i)
               e == <<dir, n>>
    <3>1. /\ IsFiniteSet(Refs(V, i)) /\ Cardinality(Refs(V, i)) \in Nat
          /\ Cardinality(Refs(V, i)) <= LINKS - 1
      BY RefsFew, Zenon
    <3>2. Refs(V, i) = R \cup {e} /\ e \notin R
      BY <1>1, Zenon
    <3> HIDE DEF R, e
    <3>3. IsFiniteSet(R)
      <4>1. R \subseteq Refs(V, i)
        BY <3>2, Zenon
      <4> QED BY <3>1, <4>1, Zenon DEF Library
    <3>4. Cardinality(R \cup {e}) = Cardinality(R) + 1 /\ Cardinality(R) \in Nat
      BY <3>2, <3>3, Zenon DEF Library
    <3>5. L[i].nlinks = (Cardinality(R) + 1) % LINKS
      BY <2>2, <2>4, Zenon DEF Relinked, R
    <3>6. Cardinality(Refs(V, i)) = Cardinality(R) + 1
      BY <3>2, <3>4, Zenon
    <3>7. (Cardinality(R) + 1) % LINKS = Cardinality(R) + 1
      BY <3>1, <3>4, <3>6, LinksNat
    <3> QED BY <2>1, <2>4, <3>5, <3>6, <3>7, Zenon
  <2> QED BY <2>3, <2>4, Zenon
<1> QED
  BY <1>2, Zenon DEF Counted

\* A trace is longer by one volume.
LEMMA TraceMore ==
    ASSUME NEW w \in Seq(Volume), NEW K \in Volume, NEW T, Vol(T, K),
           \A k \in 1..Len(w) : \E U : Vol(U, w[k])
    PROVE  \A k \in 1..Len(Append(w, K)) : \E U : Vol(U, Append(w, K)[k])
<1>1. ASSUME NEW k \in 1..Len(Append(w, K)) PROVE \E U : Vol(U, Append(w, K)[k])
  <2>1. \/ k \in 1..Len(w) /\ Append(w, K)[k] = w[k]
        \/ Append(w, K)[k] = K
    OBVIOUS
  <2> QED BY <2>1, Zenon
<1> QED BY <1>1, Zenon

\* A name is linked: the tree T has become U.
LEMMA LinkGood ==
    ASSUME Library, NEW C, NEW T, NEW X, NEW s, Good(C, T, X, s), NEW d \in DOMAIN s.dent, Plain(d), ~s.lost,
           NEW name \in Text, NEW i \in Inodes, NEW r, NEW t, Linking(s, d, name, i, r, t),
           NEW U, Extends(T, U), Vol(U, Entered(s.disk, s.dent[d].inode, name, i)),
           name \notin Dots => Append(d, name) \in DOMAIN U /\ U[Append(d, name)] = i,
           NEW Y, \A j \in X : j \in Y \/ \E q \in DOMAIN U : U[q] = j
    PROVE  Good(C, U, Y, t)
<1> DEFINE K == s.disk
           dir == s.dent[d].inode
           n == Len(K[dir].slots) + 1
           V == Entered(K, dir, name, i)
           L == t.disk
<1>1. /\ Formed(s) /\ Sane(C, T, X, K) /\ Vol(T, K) /\ Mem(T, s.dent, K) /\ Traced(s) /\ K \in Volume
      /\ s.trace \in Seq(Volume) /\ dir \in Inodes
  BY ChildNames, Zenon DEF Good, Sane, Formed
<1>2. Formed(t)
  BY <1>1, LinkForm, Zenon DEF NewName
<1>3. CASE t.lost
  BY <1>2, <1>3, Zenon DEF Good
<1>4. CASE ~t.lost
  <2>1. L = Links(V, i, 1) /\ t.trace = Append(Append(s.trace, V), L)
    BY <1>4, Zenon DEF Linking
  <2>2. V \in Volume /\ Gains(K, dir, n, name, i, V)
    <3> HIDE DEF K, dir
    <3> QED BY <1>1, EnterSlot, Zenon
  <2>3. Relinked(V, i, 1, L)
    <3>1. 1 \in Int
      OBVIOUS
    <3> HIDE DEF V, L
    <3> QED BY <2>1, <2>2, <3>1, ChangeLinks, Zenon
  <2> HIDE DEF n, V, L
  <2>4. Vol(U, V) /\ Vol(U, L) /\ L \in Volume
    <3>1. Vol(U, V)
      BY Zenon DEF V
    <3>2. Vol(U, L)
      BY <2>2, <2>3, <3>1, RelinkVol, Zenon
    <3>3. L \in Volume
      BY <2>3, Zenon DEF Relinked
    <3> QED BY <3>1, <3>2, <3>3, Zenon
  <2>5. Mem(U, t.dent, L)
    <3>1. PICK a : Added(r, d, name, i, a) /\ t.dent = a.dent
      BY Zenon DEF Linking
    <3>2. Filled(s, d, r) /\ Append(d, name) \notin DOMAIN r.dent
      BY Zenon DEF Linking
    <3>3. Formed(r) /\ Grown(s, r) /\ r.dent[d].load /\ Keeps(s, r) /\ r.disk = K
      BY <3>2, Zenon DEF Filled, Rest
    <3>4. d \in DOMAIN r.dent /\ r.dent[d].inode = dir /\ Mem(T, r.dent, K)
      BY <1>1, <3>3, Zenon DEF Grown, Keeps
    <3>5. Vol(T, r.disk) /\ Mem(T, r.dent, r.disk) /\ Gains(r.disk, r.dent[d].inode, n, name, i, V)
      BY <1>1, <2>2, <3>3, <3>4, Zenon
    <3>6. Mem(U, a.dent, V)
      BY <3>1, <3>2, <3>3, <3>4, <3>5, GainMem, ZenonT(60)
    <3>7. SameNames(V, L) /\ Shape(t.dent) /\ Mem(U, t.dent, V)
      BY <1>2, <2>3, <3>1, <3>6, Zenon DEF Relinked, Formed
    <3> QED BY <3>7, SameMem, Zenon
  <2>6. ASSUME C PROVE Whole(U, Y, L) /\ Counted(L)
    <3>1. Whole(T, X, K) /\ Counted(K)
      BY <1>1, <2>6, Zenon DEF Sane
    <3>2. ASSUME NEW j \in Inodes, L[j].mode # "free" PROVE j \in Y \/ \E q \in DOMAIN U : U[q] = j
      <4>1. L[j].mode = V[j].mode /\ V[j].mode = K[j].mode
        BY <2>2, <2>3, Zenon DEF Relinked, Gains
      <4>2. j \in X \/ \E p \in DOMAIN T : T[p] = j
        BY <3>1, <3>2, <4>1, Zenon DEF Whole
      <4> QED BY <4>2, Zenon DEF Extends
    <3>3. Counted(L)
      BY <1>1, <2>2, <2>3, <2>4, <3>1, LinkCounts, Zenon
    <3> QED BY <3>2, <3>3, Zenon DEF Whole
  <2>7. Traced(t)
    <3>1. \A k \in 1..Len(s.trace) : \E W : Vol(W, s.trace[k])
      BY <1>1, Zenon DEF Traced
    <3> DEFINE w == Append(s.trace, V)
    <3>2. w \in Seq(Volume) /\ \A k \in 1..Len(w) : \E W : Vol(W, w[k])
      BY <1>1, <2>2, <2>4, <3>1, TraceMore, AppendIs, Zenon
    <3>3. t.trace = Append(w, L)
      BY <2>1, Zenon
    <3> HIDE DEF w
    <3>4. \A k \in 1..Len(Append(w, L)) : \E W : Vol(W, Append(w, L)[k])
      BY <2>4, <3>2, TraceMore, Zenon
    <3> QED BY <3>3, <3>4, Zenon DEF Traced
  <2>8. Sane(C, U, Y, L)
    BY <2>4, <2>6, Zenon DEF Sane
  <2> QED BY <1>2, <2>5, <2>7, <2>8, Zenon DEF Good, L
<1> QED
  BY <1>3, <1>4, Zenon

\* What a refusal keeps.
LEMMA RefusedGood ==
    ASSUME NEW C, NEW T, NEW X, NEW s, Good(C, T, X, s), NEW d, NEW name, NEW t, Refused(s, d, name, t)
    PROVE  Good(C, T, X, t)
<1>1. /\ Formed(t) /\ t.disk = s.disk /\ t.lost = s.lost /\ t.trace = s.trace /\ Keeps(s, t)
  BY Zenon DEF Refused
<1>2. CASE t.lost
  BY <1>1, <1>2, Zenon DEF Good
<1>3. CASE ~t.lost
  <2>1. Sane(C, T, X, s.disk) /\ Mem(T, s.dent, s.disk) /\ Traced(s)
    BY <1>1, <1>3, Zenon DEF Good
  <2>2. Mem(T, t.dent, s.disk)
    BY <1>1, <2>1, Zenon DEF Keeps, Sane
  <2>3. Traced(t)
    BY <1>1, <2>1, Zenon DEF Traced
  <2> QED BY <1>1, <2>1, <2>2, <2>3, Zenon DEF Good
<1> QED BY <1>2, <1>3, Zenon

\* The directory an entry is added to.
LEMMA LinkPlace ==
    ASSUME NEW C, NEW T, NEW X, NEW s, Good(C, T, X, s), NEW d \in DOMAIN s.dent, Plain(d), ~s.lost,
           NEW name \in Text, NEW i \in Inodes, NEW r, NEW t, Linking(s, d, name, i, r, t)
    PROVE  Place(T, s, d, name)
<1> DEFINE K == s.disk
           dir == s.dent[d].inode
<1>1. Formed(s) /\ Vol(T, K) /\ Mem(T, s.dent, K) /\ K \in Volume /\ dir \in Inodes
  BY ChildNames, Zenon DEF Good, Sane, Formed
<1>2. d \in DOMAIN T /\ T[d] = dir
  BY <1>1, Zenon DEF Mem
<1>3. Filled(s, d, r) /\ Append(d, name) \notin DOMAIN r.dent
  BY Zenon DEF Linking
<1>4. Formed(r) /\ Grown(s, r) /\ r.dent[d].load /\ Keeps(s, r)
  BY <1>3, Zenon DEF Filled
<1>5. d \in DOMAIN r.dent /\ r.dent[d].inode = dir /\ Mem(T, r.dent, K) /\ Shape(r.dent)
  BY <1>1, <1>4, Zenon DEF Grown, Keeps, Formed
<1>6. name \notin Names(K, r.dent[d].inode, Live(K, r.dent[d].inode))
  BY <1>3, <1>4, <1>5, NotThere, Zenon
<1>7. d \notin FilePaths => K[dir].mode = "dir"
  BY <1>1, <1>2, OneInode, Zenon DEF Vol, Modes
<1> QED
  BY <1>2, <1>5, <1>6, <1>7, Zenon DEF Place

\* dentry_link of a new inode.
LEMMA LinkName ==
    ASSUME Library,
           NEW C, NEW T, NEW s, NEW i \in Inodes, Good(C, T, {i}, s), NEW d \in DOMAIN s.dent, Plain(d), ~s.lost,
           NEW name \in Text, name \notin Dots, d \notin FilePaths,
           \A q \in DOMAIN T : T[q] # i, s.disk[i].mode # "free",
           s.disk[i].mode = "file" => Append(d, name) \in FilePaths
    PROVE  LinkedName(C, T, s, d, name, i, dentry_link(s, d, name, i))
<1> DEFINE t == dentry_link(s, d, name, i)
           K == s.disk
           dir == s.dent[d].inode
           n == Len(K[dir].slots) + 1
           V == Entered(K, dir, name, i)
           c == Append(d, name)
           U == Joined(T, c, i)
<1>1. Formed(s) /\ Vol(T, K) /\ K \in Volume /\ dir \in Inodes
  BY ChildNames, Zenon DEF Good, Sane, Formed
<1>2. LinkDone(s, d, name, i, t)
  BY <1>1, DentryLink, Zenon
<1> HIDE DEF t
<1>3. CASE Refused(s, d, name, t)
  <2>1. Good(C, T, {i}, t)
    BY <1>3, RefusedGood, Zenon
  <2> QED BY <1>3, <2>1, Zenon DEF LinkedName, t
<1>4. ASSUME NEW r, Linking(s, d, name, i, r, t)
      PROVE  LinkedName(C, T, s, d, name, i, dentry_link(s, d, name, i))
  <2>1. Place(T, s, d, name)
    BY <1>4, LinkPlace, Zenon
  <2>2. /\ d \in DOMAIN T /\ T[d] = dir /\ K[dir].mode = "dir"
        /\ name \notin Names(K, dir, Live(K, dir))
    BY <2>1, Zenon DEF Place
  <2> HIDE DEF K, dir, n
  <2>3. V \in Volume /\ Gains(K, dir, n, name, i, V)
    BY <1>1, EnterSlot, Zenon DEF n
  <2> HIDE DEF V
  <2>4. c \notin DOMAIN T /\ Vol(U, V)
    <3>1. K[i].mode # "free" /\ (K[i].mode = "file" => Append(d, name) \in FilePaths)
      BY Zenon DEF K
    <3> QED BY <1>1, <2>2, <2>3, <3>1, GainName, Zenon
  <2>5. Extends(T, U) /\ c \in DOMAIN U /\ U[c] = i
    BY <2>4, Zenon DEF Extends, Joined
  <2> HIDE DEF U, c
  <2> DEFINE X == {i}
             Y == {}
  <2>6. Good(C, T, X, s) /\ \A j \in X : j \in Y \/ \E q \in DOMAIN U : U[q] = j
    BY <2>5, Zenon
  <2> HIDE DEF X, Y
  <2>7. Vol(U, Entered(s.disk, s.dent[d].inode, name, i))
    BY <2>4, Zenon DEF V, K, dir
  <2>8. Append(d, name) \in DOMAIN U /\ U[Append(d, name)] = i
    BY <2>5, Zenon DEF c
  <2>9. Good(C, U, Y, t)
    BY <1>4, <2>5, <2>6, <2>7, <2>8, LinkGood, Zenon
  <2> QED BY <1>4, <2>9, Zenon DEF LinkedName, t, U, c, Y
<1> QED
  BY <1>2, <1>3, <1>4, Zenon DEF LinkDone

\* dentry_link of "." and "..".
LEMMA LinkDot ==
    ASSUME Library, NEW C, NEW T, NEW X, NEW s, Good(C, T, X, s), NEW d \in DOMAIN s.dent, Plain(d),
           NEW name \in Dots, s.disk[s.dent[d].inode].mode = "dir", NEW i \in Inodes,
           ~s.lost => Leads(T, d, name, i)
    PROVE  LinkedDot(C, T, X, s, d, name, i, dentry_link(s, d, name, i))
<1> DEFINE t == dentry_link(s, d, name, i)
           K == s.disk
           dir == s.dent[d].inode
           n == Len(K[dir].slots) + 1
           V == Entered(K, dir, name, i)
<1>0. name \in Text
  BY Zenon DEF Dots, Text
<1>1. Formed(s) /\ K \in Volume /\ dir \in Inodes
  BY ChildNames, Zenon DEF Good, Formed
<1>2. LinkDone(s, d, name, i, t)
  BY <1>0, <1>1, DentryLink, Zenon
<1> HIDE DEF t
<1>3. CASE Refused(s, d, name, t)
  <2>1. Good(C, T, X, t)
    BY <1>3, RefusedGood, Zenon
  <2> QED BY <1>3, <2>1, Zenon DEF LinkedDot, t
<1>4. ASSUME NEW r, Linking(s, d, name, i, r, t)
      PROVE  LinkedDot(C, T, X, s, d, name, i, dentry_link(s, d, name, i))
  <2>1. CASE ~s.lost
    <3>0. Vol(T, K)
      BY <2>1, Zenon DEF Good, Sane
    <3>1. Place(T, s, d, name)
      BY <1>0, <1>4, <2>1, LinkPlace, Zenon
    <3>2. /\ d \in DOMAIN T /\ T[d] = dir /\ K[dir].mode = "dir"
          /\ name \notin Names(K, dir, Live(K, dir))
      BY <3>1, Zenon DEF Place
    <3> HIDE DEF K, dir, n
    <3>3. V \in Volume /\ Gains(K, dir, n, name, i, V)
      BY <1>0, <1>1, EnterSlot, Zenon DEF n
    <3> HIDE DEF V
    <3>4. Vol(T, V)
      BY <1>1, <2>1, <3>0, <3>2, <3>3, GainDot, Zenon
    <3>5. Extends(T, T) /\ \A j \in X : j \in X \/ \E q \in DOMAIN T : T[q] = j
      BY Zenon DEF Extends
    <3>6. Vol(T, Entered(s.disk, s.dent[d].inode, name, i))
      BY <3>4, Zenon DEF V, K, dir
    <3>7. Good(C, T, X, t)
      BY <1>0, <1>4, <2>1, <3>5, <3>6, LinkGood, Zenon
    <3> QED BY <1>4, <3>7, Zenon DEF LinkedDot, t
  <2>2. CASE s.lost
    <3>1. Formed(t)
      BY <1>0, <1>1, <1>4, LinkForm, Zenon DEF NewName
    <3>2. t.lost
      BY <1>4, <2>2, Zenon DEF Linking
    <3>3. Good(C, T, X, t)
      BY <3>1, <3>2, Zenon DEF Good
    <3> QED BY <1>4, <3>3, Zenon DEF LinkedDot, t
  <2> QED BY <2>1, <2>2, Zenon
<1> QED
  BY <1>2, <1>3, <1>4, Zenon DEF LinkDone

\* A write to the volume leaves a record well formed.
LEMMA WriteForm ==
    ASSUME NEW s, Formed(s), NEW K \in Volume, NEW t, Wrote(s, K, t)
    PROVE  Formed(t)
<1>1. Append(s.trace, K) \in Seq(Volume)
  BY AppendIs, Zenon DEF Formed
<1> QED
  BY <1>1, Zenon DEF Formed, Wrote

\* A write to the volume of what a tree describes.
LEMMA WriteGood ==
    ASSUME NEW C, NEW T, NEW X, NEW s, Good(C, T, X, s), NEW K \in Volume, NEW t, Wrote(s, K, t),
           NEW U, NEW Y, ~s.lost => Sane(C, U, Y, K) /\ Mem(U, s.dent, K)
    PROVE  Good(C, U, Y, t)
<1>1. Formed(s) /\ Formed(t)
  BY WriteForm, Zenon DEF Good
<1>2. t.lost = s.lost /\ t.dent = s.dent /\ t.disk = K /\ t.trace = Append(s.trace, K)
  BY Zenon DEF Wrote
<1>3. CASE t.lost
  BY <1>1, <1>3, Zenon DEF Good
<1>4. CASE ~t.lost
  <2>1. Sane(C, U, Y, K) /\ Mem(U, s.dent, K) /\ Vol(U, K)
    BY <1>2, <1>4, Zenon DEF Sane
  <2>2. s.trace \in Seq(Volume) /\ \A k \in 1..Len(s.trace) : \E W : Vol(W, s.trace[k])
    BY <1>1, <1>2, <1>4, Zenon DEF Good, Traced, Formed
  <2>3. Traced(t)
    <3>1. \A k \in 1..Len(Append(s.trace, K)) : \E W : Vol(W, Append(s.trace, K)[k])
      BY <2>1, <2>2, TraceMore, Zenon
    <3> QED BY <1>2, <3>1, Zenon DEF Traced
  <2> QED BY <1>1, <1>2, <2>1, <2>3, Zenon DEF Good
<1> QED
  BY <1>3, <1>4, Zenon

\* An inode that is not in use.
LEMMA FreshInode ==
    ASSUME NEW mode \in {"free", "dir", "file"}
    PROVE  LET r == [NoInode EXCEPT !.mode = mode]
           IN  r \in InodeSet /\ r.mode = mode /\ r.slots = <<>> /\ r.nlinks = 0
<1> DEFINE r == [NoInode EXCEPT !.mode = mode]
<1>1. r = [mode |-> mode, nlinks |-> 0, slots |-> <<>>]
  BY DEF NoInode
<1>2. r.mode = mode /\ r.slots = <<>> /\ r.nlinks = 0
  BY <1>1
<1>3. 0 \in 0..(LINKS - 1)
  BY LinksNat
<1>4. <<>> \in Seq(Slot)
  BY EmptyIs, Zenon
<1>5. r \in InodeSet
  <2> HIDE DEF r
  <2> QED BY <1>1, <1>3, <1>4, Zenon DEF InodeSet
<1> QED
  BY <1>2, <1>5, Zenon
=============================================================================
