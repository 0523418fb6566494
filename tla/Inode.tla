-------------------------------- MODULE Inode --------------------------------
(***************************************************************************)
(* Files on the volume (kernel/inode.c): the inode and zone bitmaps, the   *)
(* zone pointers of an inode (direct, through one table, through two), the *)
(* in-memory copy of its size, and create, destroy, truncate, read and     *)
(* write on them.                                                          *)
(*                                                                         *)
(* None of these sleeps, so each call is one step.  `v` is the volume, and *)
(* the C functions are operators from a record s, the volume together with *)
(* the struct minix2_inode in the caller's hands, to such a record, called *)
(* in the order the code calls them.  A zone holds ZONES_PER_BLOCK words,  *)
(* which are file data or, in a table, zone numbers; sizes count words.    *)
(* The block layer writes through, so a zone's words are what block_read   *)
(* returns.                                                                *)
(***************************************************************************)
EXTENDS Integers, FiniteSets, SequencesExt

CONSTANTS
    InodeNum,           \* how many inodes mark_imap can give out
    ZoneNum,            \* how many zones mark_zmap can give out
    DIRECT,             \* direct zones of an inode (7 in the code)
    ZONES_PER_BLOCK,    \* words in a block
    MaxSize,            \* bound on the size of a file
    WriteSizes,         \* sizes programs pass to write
    Starts,             \* offsets programs write at
    DataWords,          \* the words programs write into each file
    HoleBlocks          \* how many blocks past the last one programs seek

Zones == 1..ZoneNum
Inodes == 1..InodeNum
Words == 0..(ZONES_PER_BLOCK - 1)
BLOCK_SIZE == ZONES_PER_BLOCK

\* MaxSize keeps block numbers, 16 bits in the code, inside the double table.
ASSUME InodeAssumption ==
    /\ InodeNum \in Nat /\ ZoneNum \in Nat
    /\ DIRECT \in Nat \ {0} /\ ZONES_PER_BLOCK \in Nat \ {0}
    /\ MaxSize < BLOCK_SIZE * (DIRECT + ZONES_PER_BLOCK * (ZONES_PER_BLOCK + 1))
    /\ WriteSizes \subseteq Nat /\ Starts \subseteq Nat
    /\ DataWords \in [Inodes -> SUBSET (0..ZoneNum)]
    /\ HoleBlocks \in Nat

VARIABLES
    v,          \* the volume: bitmap (zmap), zones (word), inodes (disk)
    imap,       \* the inode bitmap
    size,       \* inode->size of the in-memory inodes
    last,       \* what the last call ended with
    enospc,     \* some call ended with ENOSPC
    stale,      \* a zone became a table with words of its earlier use in it
    content     \* what the calls so far should have put into each file

vars == <<v, imap, size, last, enospc, stale, content>>

NoInode == [size |-> 0, zone |-> [k \in 0..(DIRECT + 1) |-> 0]]

-----------------------------------------------------------------------------
(* Where block b of a file is: which i_zone, and the entries from there on *)

z0(b) == CASE b < DIRECT -> b
           [] b >= DIRECT /\ b < DIRECT + ZONES_PER_BLOCK -> DIRECT
           [] OTHER -> DIRECT + 1

path(b) ==
    LET n == b - (DIRECT + ZONES_PER_BLOCK)
    IN  CASE z0(b) = DIRECT     -> <<b - DIRECT>>
          [] z0(b) = DIRECT + 1 -> <<n \div ZONES_PER_BLOCK, n % ZONES_PER_BLOCK>>
          [] OTHER              -> <<>>

\* get_block on the inode that is on disk: 0 is a hole.
get_block(t, i, b) ==
    LET first == t.disk[i].zone[z0(b)]
        second == t.word[first][path(b)[1]]
    IN  CASE first = 0 \/ path(b) = <<>>      -> first
          [] second = 0 \/ Len(path(b)) = 1   -> second
          [] OTHER                            -> t.word[second][path(b)[2]]

-----------------------------------------------------------------------------
(* Growing and shrinking.  s: zmap, word, disk, inode, ok *)

\* Mutant: the limit is off by one.
mark_zmap_short(s) == IF Cardinality(Zones \ s.zmap) <= 1 THEN 0 ELSE Min(Zones \ s.zmap)

\* mark_zmap: the first free zone, 0 when there is none.
mark_zmap(s) == IF s.zmap = Zones THEN 0 ELSE Min(Zones \ s.zmap)

unmark_zmap(s, z) == [s EXCEPT !.zmap = @ \ {z}]

\* Mutant: the bit is not written back.
marked_not(s, z) == [s EXCEPT !.ok = (z # 0)]

marked(s, z) == [s EXCEPT !.zmap = @ \cup ({z} \ {0}), !.ok = (z # 0)]

\* `if (!slot) slot = mark_zmap()`, for a slot of the inode and of a table.
\* The new zone keeps the words it had.
fill_zone(s, k) ==
    IF ~s.ok \/ s.inode.zone[k] # 0 THEN s
    ELSE [marked(s, mark_zmap(s)) EXCEPT !.inode.zone[k] = mark_zmap(s)]

fill_entry(s, z, k) ==
    IF ~s.ok \/ s.word[z][k] # 0 THEN s
    ELSE [marked(s, mark_zmap(s)) EXCEPT !.word[z][k] = mark_zmap(s)]

\* s, in which a table was added to r: stale is set when the zone it is in has
\* words of its earlier use, which the code takes for zone numbers.
table_added(r, s) ==
    [s EXCEPT !.stale = @ \/ \E z \in s.zmap \ r.zmap, w \in Words : s.word[z][w] # 0]

extend_block(s, b) ==
    LET second(r, t, table) ==
            IF ~t.ok \/ Len(path(b)) = 1 THEN t
            ELSE fill_entry(table_added(r, t), t.word[table][path(b)[1]], path(b)[2])
        first(t, table) == second(t, fill_entry(t, table, path(b)[1]), table)
        zone(t) ==
            IF ~t.ok \/ path(b) = <<>> THEN t ELSE first(table_added(s, t), t.inode.zone[z0(b)])
    IN  zone(fill_zone(s, z0(b)))

\* The numbers from..to, in order.
Upto(from, to) == [k \in 1..(to - from + 1) |-> from + k - 1]

\* extend_zone: a file of n words has its blocks 0..n / BLOCK_SIZE, so one
\* more than it needs when it ends on a boundary.
extend_zone(s, n) ==
    [FoldLeft(extend_block, s, Upto((s.inode.size \div BLOCK_SIZE) + 1, n \div BLOCK_SIZE))
        EXCEPT !.inode.size = n]

\* Mutant: a table is never freed.
table_done_never(k) == FALSE

\* The entry that goes last: blocks are freed from the end.
table_done(k) == k = 0

clear_zone(s, k) == [unmark_zmap(s, s.inode.zone[k]) EXCEPT !.inode.zone[k] = 0]
clear_entry(s, z, k) == [unmark_zmap(s, s.word[z][k]) EXCEPT !.word[z][k] = 0]

shrink_block(s, b) ==
    LET k == z0(b)
        outer == s.inode.zone[k]
        i == path(b)[1]
        inner == s.word[outer][i]
        j == path(b)[2]
        without(t) == IF table_done(i) THEN clear_zone(t, k) ELSE t
    IN  CASE outer = 0 -> s
          [] outer # 0 /\ path(b) = <<>> -> clear_zone(s, k)
          [] outer # 0 /\ Len(path(b)) = 1 ->
                IF inner = 0 THEN s ELSE without(clear_entry(s, outer, i))
          [] outer # 0 /\ Len(path(b)) = 2 ->
                IF inner = 0 \/ s.word[inner][j] = 0 THEN s
                ELSE IF table_done(j) THEN without(clear_entry(clear_entry(s, inner, j), outer, i))
                ELSE clear_entry(s, inner, j)

shrink_zone(s, n) ==
    [FoldLeft(shrink_block, s, Reverse(Upto((n \div BLOCK_SIZE) + 1, s.inode.size \div BLOCK_SIZE)))
        EXCEPT !.inode.size = n]

-----------------------------------------------------------------------------
(* Calls.  t: zmap, word, disk, size, err, done *)

\* Puts word d into the words from..to-1 of file i that are in block b.
put(t, i, b, from, to, d) ==
    [t EXCEPT !.word[get_block(t, i, b)] =
        [w \in Words |-> IF b * BLOCK_SIZE + w \in from..(to - 1) THEN d ELSE @[w]]]

\* Mutant: nothing is cleared.
zeroed_not(t, i, n) == t

\* The loop of inode_truncate that clears the new words.  It looks the blocks
\* up in the inode on disk, which extend_zone has not changed.
zeroed(t, i, n) ==
    LET clear(u, b) ==
            IF u.err # "ok" THEN u
            ELSE IF get_block(u, i, b) = 0 THEN [u EXCEPT !.err = "ENOSPC"]
            ELSE put(u, i, b, t.size[i], n, 0)
    IN  FoldLeft(clear, t, Upto(t.size[i] \div BLOCK_SIZE, (n - 1) \div BLOCK_SIZE))

\* read_inode ... write_inode around a change of the inode.
in_hand(t, i) == [zmap |-> t.zmap, word |-> t.word, inode |-> t.disk[i], ok |-> TRUE, stale |-> t.stale]
kept(t, s) == [t EXCEPT !.zmap = s.zmap, !.word = s.word, !.stale = s.stale]
written(t, s, i) == [t EXCEPT !.disk[i] = s.inode, !.size[i] = s.inode.size]

inode_truncate(t, i, n) ==
    LET cleared(u, s) == IF u.err # "ok" THEN u ELSE written(u, s, i)
        extended(s) ==
            IF s.ok THEN cleared(zeroed(kept(t, s), i, n), s) ELSE [kept(t, s) EXCEPT !.err = "ENOSPC"]
        shrunk(s) == written(kept(t, s), s, i)
    IN  CASE n = t.size[i] -> t
          [] n > t.size[i] -> extended(extend_zone(in_hand(t, i), n))
          [] n < t.size[i] -> shrunk(shrink_zone(in_hand(t, i), n))

\* The turn of inode_write's loop for block b; start + t.done is cur_start.
write_block(t, i, b, start, n, d) ==
    LET from == start + t.done
        copy == Min({BLOCK_SIZE - (from % BLOCK_SIZE), n - t.done})
        copied(u) ==
            IF u.err # "ok" THEN u
            ELSE IF get_block(u, i, b) = 0 THEN [u EXCEPT !.err = "EINVAL"]
            ELSE [put(u, i, b, from, from + copy, d) EXCEPT !.done = @ + copy]
    IN  IF t.err # "ok" THEN t
        ELSE copied(IF from + copy > t.size[i] THEN inode_truncate(t, i, from + copy) ELSE t)

Volume == [zmap |-> v.zmap, word |-> v.word, disk |-> v.disk, size |-> size,
           err |-> "ok", done |-> 0, stale |-> stale]

Commit(t) ==
    /\ v' = [zmap |-> t.zmap, word |-> t.word, disk |-> t.disk]
    /\ size' = t.size
    /\ last' = t.err
    /\ stale' = t.stale
    /\ enospc' = (enospc \/ t.err = "ENOSPC")

-----------------------------------------------------------------------------

\* A fresh volume, its zones all zero.
Init ==
    /\ v = [zmap |-> {}, word |-> [z \in Zones |-> [w \in Words |-> 0]],
            disk |-> [i \in Inodes |-> NoInode]]
    /\ imap = {}
    /\ size = [i \in Inodes |-> 0]
    /\ last = "ok"
    /\ enospc = FALSE
    /\ stale = FALSE
    /\ content = [i \in Inodes |-> <<>>]

\* inode_create, when mark_imap finds an inode: it starts with one zone.
inode_create ==
    LET i == Min(Inodes \ imap)
        z == mark_zmap(v)
    IN  /\ imap # Inodes
        /\ imap' = IF z = 0 THEN imap ELSE imap \cup {i}
        /\ Commit(IF z = 0 THEN [Volume EXCEPT !.err = "ENOSPC"]
                  ELSE [Volume EXCEPT !.zmap = @ \cup {z}, !.size[i] = 0,
                                      !.disk[i] = [NoInode EXCEPT !.zone[0] = z]])
        /\ UNCHANGED content

inode_destroy(i) ==
    LET released(t) ==
            [t EXCEPT !.zmap = @ \ {t.disk[i].zone[0]}, !.disk[i] = NoInode, !.size[i] = 0]
    IN  /\ i \in imap
        /\ imap' = imap \ {i}
        /\ Commit(released(inode_truncate(Volume, i, 0)))
        /\ content' = [content EXCEPT ![i] = <<>>]

\* open with O_TRUNC.
truncate(i) ==
    /\ i \in imap
    /\ Commit(inode_truncate(Volume, i, 0))
    /\ content' = [content EXCEPT ![i] = <<>>]
    /\ UNCHANGED imap

\* What file c is once k words d are at start; a gap before them reads as 0.
overlay(c, start, k, d) ==
    [n \in 1..Max({Len(c), start + k}) |->
        CASE n \in (start + 1)..(start + k) -> d
          [] n \notin (start + 1)..(start + k) /\ n <= Len(c) -> c[n]
          [] OTHER -> 0]

\* inode_write of n words d at start.
inode_write(i, n, start, d) ==
    LET turn(u, b) == write_block(u, i, b, start, n, d)
        returns(t) ==
            /\ Commit(t)
            /\ content' = IF t.done = 0 THEN content
                          ELSE [content EXCEPT ![i] = overlay(@, start, t.done, d)]
    IN  /\ i \in imap
        /\ start + n <= MaxSize
        /\ returns(FoldLeft(turn, Volume, Upto(start \div BLOCK_SIZE, (start + n) \div BLOCK_SIZE)))
        /\ UNCHANGED imap

\* inode_get and inode_set copy the size one way and the other.
inode_get(i) ==
    /\ i \in imap
    /\ Commit([Volume EXCEPT !.size[i] = v.disk[i].size])
    /\ UNCHANGED <<imap, content>>

inode_set(i) ==
    /\ i \in imap
    /\ Commit([Volume EXCEPT !.disk[i].size = size[i]])
    /\ UNCHANGED <<imap, content>>

\* inode_read of the whole file; a hole reads as 0.
inode_read(i) ==
    [n \in 1..size[i] |->
        LET z == get_block(v, i, (n - 1) \div BLOCK_SIZE)
        IN  IF z = 0 THEN 0 ELSE v.word[z][(n - 1) % BLOCK_SIZE]]

\* A volume with a stale table is not looked at further.
Next ==
    \/ ~stale /\ inode_create
    \/ ~stale /\ \E i \in Inodes :
        \/ inode_destroy(i)
        \/ truncate(i)
        \/ inode_get(i)
        \/ inode_set(i)
        \/ \E n \in WriteSizes, start \in Starts, d \in DataWords[i] :
            /\ start \div BLOCK_SIZE <= size[i] \div BLOCK_SIZE + HoleBlocks
            /\ inode_write(i, n, start, d)

Spec == Init /\ [][Next]_vars

-----------------------------------------------------------------------------
(* Properties *)

\* The slots of file i that point at its blocks and its tables: <<zone, slot>>.
owned(i) ==
    LET blocks == 0..(size[i] \div BLOCK_SIZE)
        outer == {z0(b) : b \in blocks}
        first(b) == v.disk[i].zone[z0(b)]
        second(b) == v.word[first(b)][path(b)[1]]
    IN  {<<v.disk[i].zone[k], <<i, k>>>> : k \in outer}
          \cup {<<second(b), <<i, z0(b), path(b)[1]>>>> : b \in {c \in blocks : path(c) # <<>>}}
          \cup {<<get_block(v, i, b), <<i, z0(b), path(b)>>>> : b \in {c \in blocks : Len(path(c)) = 2}}

Owned == UNION {owned(i) : i \in imap}

\* As long as no table is stale, every block of every file, and every table on
\* the way to it, is a zone of its own that the bitmap has marked, however
\* files grow, shrink, vanish and run out of space between: no two files share
\* a zone, and none is given out a second time (extend_zone, shrink_zone,
\* inode_create, inode_destroy).
ZonesOwnedOnce ==
  ~stale =>
    /\ \A o \in Owned : o[1] \in v.zmap
    /\ \A o, p \in Owned : o[1] = p[1] => o = p

\* As long as nothing failed for want of space and no table is stale, every
\* marked zone is some file's: shrinking and destroying give back each data
\* zone and each table exactly when the last block that needs it goes.
NothingLeaks == ~enospc /\ ~stale => v.zmap = {o[1] : o \in Owned}

\* A call gives up for want of space only when no zone is free, whatever was
\* truncated, destroyed or left half extended before (mark_zmap, inode_truncate).
EnospcMeansFull == last = "ENOSPC" /\ ~stale => v.zmap = Zones

\* As long as no table is stale, a file reads back what was written to it, and
\* zeros in between, across direct zones, tables and short writes, also once
\* its inode is read from the volume again; no call changes another file, and
\* inode_write never meets a block without a zone.  So files are damaged in one
\* way only: extend_zone does not clear a zone it takes for a table.
ReadsBack ==
    ~stale => /\ \A i \in imap : inode_read(i) = content[i] /\ size[i] = v.disk[i].size
              /\ last # "EINVAL"
=============================================================================
