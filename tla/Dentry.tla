------------------------------- MODULE Dentry --------------------------------
(***************************************************************************)
(* Names (kernel/dentry.c): the tree of dentries in memory, filled lazily  *)
(* from the directory files of the volume, and the functions that look a   *)
(* name up, add one and remove one, in memory and on the volume.           *)
(*                                                                         *)
(* None of these sleeps.  The C functions are operators from a record s    *)
(* to such a record, called in the order the code calls them (Fs has the   *)
(* calls): dent and disk are the tree and the volume, at is the dentry a   *)
(* function returned (NULL if none), err the error, room the zones the     *)
(* volume has left, and trace keeps every state the volume goes through,   *)
(* because the power may fail between two writes.                          *)
(* mode and nlinks of an inode in memory are always those on the volume:   *)
(* whoever changes one calls inode_set.  A path is a sequence of names,    *)
(* and a dentry is called by the path that leads to it: its parent is the  *)
(* front of that path and its name the last element.                       *)
(***************************************************************************)
EXTENDS Integers, Sequences, FiniteSets, FiniteSetsExt

CONSTANTS
    InodeNum,           \* inodes of the volume; the root directory is 1
    DIRENTS_PER_BLOCK,  \* entries in a block (64 in the code)
    FilePaths,          \* what programs pass to open, creat and unlink
    DirPaths,           \* what programs pass to mkdir and rmdir
    LongNames,          \* names of more than NAME_MAX characters
    LongPaths           \* paths of PATH_MAX characters and more

LINKS == 65536      \* nlinks has 16 bits
Inodes == 1..InodeNum
Paths == FilePaths \cup DirPaths
Text == {".", ".."} \cup UNION {Range(p) : p \in Paths}    \* the names there are
ROOT == <<>>
Up(d) == SubSeq(d, 1, Len(d) - 1)   \* the parent of a dentry, and its name
Leaf(d) == d[Len(d)]
NULL == <<"/">>     \* no name has a slash in it

\* No program uses the path of a file as that of a directory, which fs_create
\* and fs_mkdir do not check, and there are too few inodes for the links of a
\* directory, one for each directory in it, to reach 2^16.
ASSUME DentryAssumption ==
    /\ InodeNum \in 1..(LINKS - 3)
    /\ DIRENTS_PER_BLOCK \in Nat \ {0}
    /\ \A p \in Paths : p \in Seq(STRING) /\ p # <<>> /\ Range(p) \cap {".", "..", "/"} = {}
    /\ \A p \in Paths : Up(p) \notin FilePaths
    /\ LongNames \cap {".", ".."} = {}

NoInode == [mode |-> "free", nlinks |-> 0, slots |-> <<>>]

\* A write to the volume.
Write(s, d) == [s EXCEPT !.disk = d, !.trace = Append(@, d)]
Fail(s, e) == [s EXCEPT !.err = e]

-----------------------------------------------------------------------------
(* kernel/dentry.c *)

NewDentry(i) == [inode |-> i, nentries |-> 0, load |-> FALSE, children |-> <<>>]

alloc_dentry(s, d, i) ==
    [s EXCEPT !.dent = [p \in DOMAIN @ \cup {d} |-> IF p = d THEN NewDentry(i) ELSE @[p]]]

\* A new dentry below d; list_add puts it first.
add_child(s, d, name, i) ==
    [alloc_dentry(s, Append(d, name), i)
        EXCEPT !.dent[d].children = <<name>> \o @, !.dent[d].nentries = @ + 1]

\* read_children: once per dentry, and only a directory has any.
read_children(s, d) ==
    LET i == s.dent[d].inode
        slots == s.disk[i].slots
        load(t, e) == IF e.ino = 0 THEN t ELSE add_child(t, d, e.name, e.ino)
        after[k \in 0..Len(slots)] == IF k = 0 THEN s ELSE load(after[k - 1], slots[k])
    IN  CASE s.dent[d].load          -> s
          [] ~s.dent[d].load /\ s.disk[i].mode = "dir" -> [after[Len(slots)] EXCEPT !.dent[d].load = TRUE]
          [] ~s.dent[d].load /\ s.disk[i].mode # "dir" -> [s EXCEPT !.dent[d].load = TRUE]

has_child(s, d, name) == name \in Range(s.dent[d].children)

\* One name of a path: the directory is loaded and searched.
find_child(s, name) ==
    LET enter(t) == [t EXCEPT !.at = IF name \notin LongNames /\ has_child(t, @, name) THEN Append(@, name) ELSE NULL]
    IN  IF s.at = NULL THEN s ELSE enter(read_children(s, s.at))

\* dentry_lookup: every directory on the way, and what is found, is loaded.
dentry_lookup(s, path) ==
    LET arrive(t) == IF t.at = NULL THEN t ELSE read_children(t, t.at)
        after[k \in 0..Len(path)] == IF k = 0 THEN [s EXCEPT !.at = ROOT] ELSE find_child(after[k - 1], path[k])
    IN  IF path \in LongPaths THEN [s EXCEPT !.at = NULL] ELSE arrive(after[Len(path)])

\* write_child appends an entry.  inode_write wants a zone for the next block
\* as soon as the entry fills one, and writes nothing without it.
write_child(s, dir, e) ==
    LET zones == IF (Len(s.disk[dir].slots) + 1) % DIRENTS_PER_BLOCK = 0 THEN 1 ELSE 0
    IN  IF s.room < zones THEN [s EXCEPT !.lost = TRUE]
        ELSE [Write(s, [s.disk EXCEPT ![dir].slots = Append(@, e)]) EXCEPT !.room = @ - zones]

\* nlinks, of 16 bits, changes; then inode_set.
inode_links(s, i, n) == Write(s, [s.disk EXCEPT ![i].nlinks = (@ + n) % LINKS])

\* dentry_link (create_dentry): a failed write_child goes unnoticed.
dentry_link(s, d, name, i) ==
    LET create(t) == write_child(add_child(t, d, name, i), t.dent[d].inode, [ino |-> i, name |-> name])
        link(t) == IF has_child(t, d, name) THEN Fail(t, "EPERM") ELSE inode_links(create(t), i, 1)
    IN  IF name \in LongNames THEN Fail(s, "EPERM") ELSE link(read_children(s, d))

\* The entries of directory `dir` that remove_child may clear.
matching(s, dir, name) ==
    {k \in 1..Len(s.disk[dir].slots) : s.disk[dir].slots[k].ino # 0 /\ s.disk[dir].slots[k].name = name}

\* list_remove of a sibling.
list_remove(kids, name) ==
    LET at == CHOOSE k \in 1..Len(kids) : kids[k] = name
    IN  SubSeq(kids, 1, at - 1) \o SubSeq(kids, at + 1, Len(kids))

\* Dentry d leaves the tree and is freed.
drop_child(s, d) ==
    LET t == [s EXCEPT !.dent[Up(d)].nentries = @ - 1, !.dent[Up(d)].children = list_remove(@, Leaf(d))]
    IN  [t EXCEPT !.dent = Restrict(@, DOMAIN @ \ {d})]

\* Mutant: the parent still counts the name.
dentry_unlink_count(s, d) ==
    LET dir == s.dent[Up(d)].inode
        hits == matching(s, dir, Leaf(d))
        t == inode_links(Write(s, [s.disk EXCEPT ![dir].slots[Min(hits)].ino = 0]), s.dent[d].inode, -1)
    IN  IF hits = {} THEN Fail(s, "EPERM")
        ELSE [drop_child(t, d) EXCEPT !.dent[Up(d)].nentries = @ + 1]

\* dentry_unlink (destroy_dentry): the entry goes first, then the link, then the dentry.
dentry_unlink(s, d) ==
    LET dir == s.dent[Up(d)].inode
        hits == matching(s, dir, Leaf(d))
        t == inode_links(Write(s, [s.disk EXCEPT ![dir].slots[Min(hits)].ino = 0]), s.dent[d].inode, -1)
    IN  IF hits = {} THEN Fail(s, "EPERM") ELSE drop_child(t, d)
=============================================================================
