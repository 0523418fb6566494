--------------------------------- MODULE Fs ----------------------------------
(***************************************************************************)
(* The calls on names (kernel/fs.c): create, unlink, mkdir, rmdir and      *)
(* open, which change the tree of dentries and the volume together, a      *)
(* machine that is switched off, and a power failure inside a call.        *)
(*                                                                         *)
(* None of these sleeps, so each call is one step, made of the operators   *)
(* of Dentry in the order the code calls them.                             *)
(***************************************************************************)
EXTENDS Dentry

CONSTANTS
    MaxSlots,           \* bound: entries of a directory file
    FileNum,            \* bound: open files
    MaxRoom             \* bound: zones a call can find unused

ASSUME FsAssumption == MaxSlots \in Nat /\ FileNum \in Nat /\ MaxRoom \in Nat

VARIABLES
    dent,       \* the dentries in memory
    disk,       \* the inodes of the volume, directories with their entries
    files,      \* the open files; see TypeOK
    lost,       \* some write of a directory entry failed
    crashed     \* the power failed inside a call

vars == <<dent, disk, files, lost, crashed>>

NoFile == [dentry |-> NULL, inode |-> 0, gone |-> FALSE]

-----------------------------------------------------------------------------
(* kernel/fs.c.  dirname and basename are Up and Leaf: Libgen. *)

\* inode_create and inode_destroy, as far as names go: an inode and its zone.
inode_create(s, mode) ==
    LET unused == {i \in Inodes : s.disk[i].mode = "free"}
    IN  IF unused = {} \/ s.room = 0 THEN [s EXCEPT !.ino = 0]
        ELSE [Write(s, [s.disk EXCEPT ![Min(unused)] = [NoInode EXCEPT !.mode = mode]])
                EXCEPT !.ino = Min(unused), !.room = @ - 1]

inode_destroy(s, i) == Write(s, [s.disk EXCEPT ![i] = NoInode])

\* remove_dentry_and_children: errors are not looked at.
remove_dentry_and_children(s, d) ==
    LET kids == s.dent[d].children
        after[k \in 0..Len(kids)] == IF k = 0 THEN s ELSE dentry_unlink(after[k - 1], Append(d, kids[k]))
    IN  [dentry_unlink(after[Len(kids)], d) EXCEPT !.err = s.err]

\* Mutant: the inode of a failed call is kept.
new_name_keep(s, path, mode) ==
    LET made(t) == IF t.ino = 0 THEN Fail(t, "ENOSPC") ELSE dentry_link(t, t.at, Leaf(path), t.ino)
    IN  made(inode_create(s, mode))

\* The calls, each split where it looks at what a function returned.
\* fs_create and fs_mkdir: a new inode, and its name in the directory s.at.
new_name(s, path, mode) ==
    LET linked(t) == IF t.err # "ok" THEN inode_destroy(t, t.ino) ELSE t
        made(t) == IF t.ino = 0 THEN Fail(t, "ENOSPC") ELSE linked(dentry_link(t, t.at, Leaf(path), t.ino))
    IN  made(inode_create(s, mode))

fs_create(s, path, excl) ==
    LET parent(t) == IF t.at = NULL THEN Fail(t, "EEXIST") ELSE new_name(t, path, "file")
        found(t) == CASE t.at = NULL          -> parent(dentry_lookup(t, Up(path)))
                      [] t.at # NULL /\ excl  -> Fail(t, "EEXIST")
                      [] t.at # NULL /\ ~excl -> t
    IN  IF path \in LongPaths THEN Fail(s, "ENAMETOOLONG") ELSE found(dentry_lookup(s, path))

fs_unlink(s, path) ==
    LET unlinked(t, i) == IF t.err = "ok" /\ t.disk[i].nlinks = 0 THEN inode_destroy(t, i) ELSE t
        found(t, i) == IF t.disk[i].mode = "dir" THEN Fail(t, "EISDIR") ELSE unlinked(dentry_unlink(t, t.at), i)
        looked_up(t) == IF t.at = NULL THEN Fail(t, "ENOENT") ELSE found(t, t.dent[t.at].inode)
    IN  IF path \in LongPaths THEN Fail(s, "ENAMETOOLONG") ELSE looked_up(dentry_lookup(s, path))

\* fs_mkdir: the new directory, s.at, gets its two entries.
add_dots(s) ==
    LET undone(t) == inode_destroy(remove_dentry_and_children(t, t.at), t.ino)
        dots(t) == IF t.err # "ok" THEN undone(t) ELSE t
        dot(t) == IF t.err # "ok" THEN undone(t)
                  ELSE dots(dentry_link(t, t.at, "..", t.dent[Up(t.at)].inode))
    IN  dot(dentry_link(s, s.at, ".", s.ino))

fs_mkdir(s, path) ==
    LET entered(t) == IF t.at = NULL THEN inode_destroy(t, t.ino) ELSE add_dots(t)
        named(t) == IF t.err # "ok" THEN t ELSE entered(dentry_lookup(t, path))
        parent(t) == IF t.at = NULL THEN Fail(t, "ENOENT") ELSE named(new_name(t, path, "dir"))
        found(t) == IF t.at # NULL THEN Fail(t, "EEXIST") ELSE parent(dentry_lookup(t, Up(path)))
    IN  IF path \in LongPaths THEN Fail(s, "ENAMETOOLONG") ELSE found(dentry_lookup(s, path))

\* Mutant: the name is left.
fs_rmdir_name(s, path) ==
    LET others(t) == Range(t.dent[t.at].children) \ {".", ".."}
        removed(t, i) == inode_destroy(t, i)
        found(t, i) ==
            CASE t.disk[i].mode # "dir" -> Fail(t, "ENOTDIR")
              [] t.disk[i].mode = "dir" /\ t.dent[t.at].nentries # 2 -> Fail(t, "ENOTEMPTY")
              [] t.disk[i].mode = "dir" /\ t.dent[t.at].nentries = 2 ->
                    IF others(t) # {} THEN Fail(t, "EINVAL") ELSE removed(t, i)
        looked_up(t) == IF t.at = NULL THEN Fail(t, "ENOENT") ELSE found(t, t.dent[t.at].inode)
    IN  IF path \in LongPaths THEN Fail(s, "ENAMETOOLONG") ELSE looked_up(dentry_lookup(s, path))

fs_rmdir(s, path) ==
    LET others(t) == Range(t.dent[t.at].children) \ {".", ".."}
        removed(t, i) == inode_destroy(remove_dentry_and_children(t, t.at), i)
        found(t, i) ==
            CASE t.disk[i].mode # "dir" -> Fail(t, "ENOTDIR")
              [] t.disk[i].mode = "dir" /\ t.dent[t.at].nentries # 2 -> Fail(t, "ENOTEMPTY")
              [] t.disk[i].mode = "dir" /\ t.dent[t.at].nentries = 2 ->
                    IF others(t) # {} THEN Fail(t, "EINVAL") ELSE removed(t, i)
        looked_up(t) == IF t.at = NULL THEN Fail(t, "ENOENT") ELSE found(t, t.dent[t.at].inode)
    IN  IF path \in LongPaths THEN Fail(s, "ENAMETOOLONG") ELSE looked_up(dentry_lookup(s, path))

-----------------------------------------------------------------------------
(* Calls *)

\* dentry_init
Fresh == [p \in {ROOT} |-> NewDentry(1)]

\* A volume with an empty root directory.
Init ==
    /\ dent = Fresh
    /\ disk = [i \in Inodes |->
                 IF i = 1 THEN [mode |-> "dir", nlinks |-> 2,
                                slots |-> <<[ino |-> 1, name |-> "."], [ino |-> 1, name |-> ".."]>>]
                 ELSE NoInode]
    /\ files = [f \in 1..FileNum |-> NoFile]
    /\ lost = FALSE
    /\ crashed = FALSE

Start(room) == [dent |-> dent, disk |-> disk, at |-> NULL, ino |-> 0, err |-> "ok",
                room |-> room, lost |-> lost, trace |-> <<>>]

\* Bounds: the size of directory files, and no call after an entry was lost
\* (every property is about the states before that).
Bounded(t) == ~lost /\ \A i \in Inodes : Len(t.disk[i].slots) <= MaxSlots

\* Open files whose dentry the call freed keep the stale pointer.
stale(t) == [f \in DOMAIN files |->
               IF files[f] # NoFile /\ files[f].dentry \notin DOMAIN t.dent
               THEN [files[f] EXCEPT !.gone = TRUE] ELSE files[f]]

Return(t) == dent' = t.dent /\ disk' = t.disk /\ lost' = t.lost /\ UNCHANGED crashed

\* The power fails after some write of the call: only the volume is left.
\* Bound: once.
PowerFails(t) ==
    /\ ~crashed
    /\ \E k \in 1..(Len(t.trace) - 1) : disk' = t.trace[k]
    /\ dent' = Fresh
    /\ files' = [f \in DOMAIN files |-> NoFile]
    /\ crashed' = TRUE
    /\ lost' = t.lost

Call(t) == Bounded(t) /\ ((Return(t) /\ files' = stale(t)) \/ PowerFails(t))

\* process_open, with O_CREAT and O_EXCL or without; a directory cannot be
\* opened for writing.  O_TRUNC is left out: on files it is Inode!truncate.
process_open(f, path, flags, room) ==
    LET opened(t) ==
            /\ Bounded(t)
            /\ \/ /\ Return(t)
                  /\ files' = [files EXCEPT ![f] = [dentry |-> t.at, inode |-> t.dent[t.at].inode, gone |-> FALSE]]
               \/ PowerFails(t)
        refused(t) == t.at = NULL \/ ("write" \in flags /\ t.disk[t.dent[t.at].inode].mode = "dir")
        looked_up(t) == IF refused(t) THEN Call(t) ELSE opened(t)
        created(t) == IF t.err # "ok" THEN Call(t) ELSE looked_up(dentry_lookup(t, path))
    IN  /\ files[f] = NoFile
        /\ created(IF "creat" \in flags THEN fs_create(Start(room), path, "excl" \in flags) ELSE Start(room))

process_close(f) ==
    /\ files[f] # NoFile
    /\ files' = [files EXCEPT ![f] = NoFile]
    /\ UNCHANGED <<dent, disk, lost, crashed>>

\* The machine is switched off between two calls and started again.
reboot ==
    /\ dent' = Fresh
    /\ files' = [f \in DOMAIN files |-> NoFile]
    /\ UNCHANGED <<disk, lost, crashed>>

Next ==
    \/ \E room \in 0..MaxRoom, path \in DirPaths : Call(fs_mkdir(Start(room), path))
    \/ \E room \in 0..MaxRoom, path \in FilePaths, f \in 1..FileNum, excl \in SUBSET {"excl"} :
          process_open(f, path, {"creat", "write"} \cup excl, room)
    \/ \E path \in Paths, f \in 1..FileNum, flags \in SUBSET {"write"} : process_open(f, path, flags, 0)
    \/ \E path \in FilePaths : Call(fs_unlink(Start(0), path))
    \/ \E path \in DirPaths : Call(fs_rmdir(Start(0), path))
    \/ \E f \in 1..FileNum : process_close(f)
    \/ reboot

Spec == Init /\ [][Next]_vars

-----------------------------------------------------------------------------
(* Properties *)

TypeOK ==
    /\ DOMAIN dent \subseteq Seq(Text)
    /\ \A d \in DOMAIN dent :
         dent[d] \in [inode : Inodes, nentries : Nat, load : BOOLEAN, children : Seq(Text)]
    /\ disk \in [Inodes -> [mode : {"free", "dir", "file"}, nlinks : 0..(LINKS - 1),
                            slots : Seq([ino : 0..InodeNum, name : Text])]]
    /\ files \in [1..FileNum -> [dentry : Paths \cup {NULL}, inode : 0..InodeNum, gone : BOOLEAN]]
    /\ lost \in BOOLEAN /\ crashed \in BOOLEAN

Entries(i) == {k \in 1..Len(disk[i].slots) : disk[i].slots[k].ino # 0}

\* The tree in memory never disagrees with the volume: the children of a
\* loaded directory are the entries of its file, one dentry for each and on
\* the same inode, and nentries, which rmdir trusts, is their number.  It fails
\* only after a directory entry could not be written (create_dentry does not
\* look at what write_child returns).
NamesMatchVolume ==
    ~lost =>
    \A d \in DOMAIN dent : dent[d].load =>
        LET i == dent[d].inode
            kids == dent[d].children
        IN  /\ dent[d].nentries = Len(kids)
            /\ Len(kids) = Cardinality(Entries(i))
            /\ {<<kids[k], dent[Append(d, kids[k])].inode>> : k \in 1..Len(kids)}
                 = {<<disk[i].slots[k].name, disk[i].slots[k].ino>> : k \in Entries(i)}

\* Wherever the power fails, no name on the volume leads to an inode that is
\* not in use: link writes the inode before its name, and unlink and rmdir
\* clear the name before the inode.
NoDanglingNames ==
    ~lost => \A i \in Inodes : \A k \in Entries(i) : disk[disk[i].slots[k].ino].mode # "free"

\* As long as no call was cut short, the link count of an inode is the number
\* of names it has, "." and ".." included, and an inode in use has one: the
\* error paths of create and mkdir give back the inode they made.
LinksCounted ==
    ~lost /\ ~crashed =>
    \A i \in Inodes : disk[i].mode # "free" =>
        LET refs == UNION {{<<j, k>> : k \in {k \in Entries(j) : disk[j].slots[k].ino = i}} : j \in Inodes}
        IN  disk[i].nlinks = Cardinality(refs) /\ refs # {}

\* A file stays open on the inode it was opened on, through any other calls,
\* until its own name is removed.  A name whose entry was never written is
\* the exception: rmdir cannot clear it, and frees the inode all the same.
OpenFilesKeep ==
    ~lost => \A f \in 1..FileNum : files[f] # NoFile /\ ~files[f].gone =>
        /\ files[f].dentry \in DOMAIN dent
        /\ dent[files[f].dentry].inode = files[f].inode
        /\ disk[files[f].inode].mode # "free"

\* What is on the volume is sound at every write, and counted right when no
\* call was cut short (link, unlink, mkdir, rmdir of fs.c).
VolumeSound == TypeOK /\ NoDanglingNames /\ LinksCounted
=============================================================================
