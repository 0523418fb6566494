-------------------------------- MODULE FileIO --------------------------------
(***************************************************************************)
(* Calls on open files of one inode (kernel/process.c): read, write,       *)
(* readv, writev, _llseek, fcntl's F_SETFL and getdents64, with the offset *)
(* and the flags each struct file has of its own.  The inode is a regular  *)
(* file or a directory.  Offsets count words of a file and records of a    *)
(* directory; inode_read and inode_write are what module Inode shows them  *)
(* to be, on a volume with room for Room words.                            *)
(*                                                                         *)
(* No call on an inode sleeps, so each is one step.  The C functions are   *)
(* operators from a record s (data, slots, file) to such a record, with    *)
(* the result in s.r and what was handed to the program in s.out.          *)
(***************************************************************************)
EXTENDS Integers, FiniteSets, SequencesExt

CONSTANTS
    OpenFiles,              \* the struct files of the inode
    Modes,                  \* their access modes: a function
    Room,                   \* words a file can grow to
    Vectors,                \* the lengths in the iovecs programs pass
    ULONG_MAX, LLONG_MAX,   \* size_t and the wider loff_t
    SeekOffsets,            \* offsets programs seek by
    MaxSlots,               \* bound on the records of the directory
    BufferSizes             \* buffers programs pass to getdents64

VARIABLES
    dir,        \* S_ISDIR(inode->mode)
    data,       \* the words of the file
    slots,      \* the records of the directory: live, reclen
    file,       \* offset and append of the struct files
    got,        \* the records getdents64 gave out since the last seek
    since       \* the records that were there at that seek, and still are

vars == <<dir, data, slots, file, got, since>>

State == [data |-> data, slots |-> slots, file |-> file, r |-> 0, out |-> <<>>]

\* process_open opens directories for reading only.
O_ACCMODE(f) == IF dir THEN "O_RDONLY" ELSE Modes[f]
FILE_FOR_READ(f) == O_ACCMODE(f) \in {"O_RDWR", "O_RDONLY"}
FILE_FOR_WRITE(f) == O_ACCMODE(f) \in {"O_RDWR", "O_WRONLY"}

\* Errors are negative.
EBADF == -9
EINVAL == -22
EISDIR == -21
ENOTDIR == -20
ENOSPC == -28
EOVERFLOW == -75

Size(s) == IF dir THEN Len(s.slots) ELSE Len(s.data)

-----------------------------------------------------------------------------
(* The inode *)

inode_read(s, n, start) == SubSeq(s.data, start + 1, Min({Len(s.data), start + n}))

\* The words w at start; a gap before them is zero.  What there is room for is
\* written; with none, nothing is and the call fails.
inode_write(s, w, start) ==
    LET n == Min({Len(w), Room - start})
        at(k) == CASE k \in (start + 1)..(start + n) -> w[k - start]
                   [] k <= Len(s.data) /\ k \notin (start + 1)..(start + n) -> s.data[k]
                   [] OTHER -> 0
    IN  IF n < 0 \/ (n = 0 /\ Len(w) > 0) THEN [s EXCEPT !.r = ENOSPC]
        ELSE [s EXCEPT !.r = n, !.data = [k \in 1..Max({Len(s.data), start + n}) |-> at(k)]]

-----------------------------------------------------------------------------
(* process.c, for files of type FF_INODE *)

process_read(s, f, n) ==
    LET w == inode_read(s, n, s.file[f].offset)
    IN  CASE ~FILE_FOR_READ(f) -> [s EXCEPT !.r = EBADF]
          [] FILE_FOR_READ(f) /\ dir -> [s EXCEPT !.r = EISDIR]
          [] OTHER -> [s EXCEPT !.r = Len(w), !.out = @ \o w, !.file[f].offset = @ + Len(w)]

process_write(s, f, w) ==
    LET start == IF s.file[f].append THEN Size(s) ELSE s.file[f].offset
        t == inode_write([s EXCEPT !.file[f].offset = start], w, start)
    IN  IF ~FILE_FOR_WRITE(f) THEN [s EXCEPT !.r = EBADF]
        ELSE [t EXCEPT !.file[f].offset = @ + Max({t.r, 0})]

\* Mutant: a short read does not end the loop.
emulate_readv_on(s, f, v) ==
    LET turn(x, n) ==
            LET t == process_read(x.s, f, n)
            IN  IF x.over \/ n = 0 THEN x
                ELSE [s |-> [t EXCEPT !.r = IF t.r < 0 THEN t.r ELSE x.s.r + n], over |-> t.r < 0]
    IN  FoldLeft(turn, [s |-> s, over |-> FALSE], v).s

\* The loop over the vector: it ends with an error or a short count, and an
\* error hides what was read or written before.
emulate_readv(s, f, v) ==
    LET turn(x, n) ==
            LET t == process_read(x.s, f, n)
            IN  IF x.over \/ n = 0 THEN x
                ELSE [s |-> [t EXCEPT !.r = IF t.r < 0 THEN t.r ELSE x.s.r + t.r],
                      over |-> t.r # n]
    IN  FoldLeft(turn, [s |-> s, over |-> FALSE], v).s

emulate_writev(s, f, v) ==
    LET turn(x, w) ==
            LET t == process_write(x.s, f, w)
            IN  IF x.over \/ w = <<>> THEN x
                ELSE [s |-> [t EXCEPT !.r = IF t.r < 0 THEN t.r ELSE x.s.r + t.r],
                      over |-> t.r # Len(w)]
    IN  FoldLeft(turn, [s |-> s, over |-> FALSE], v).s

add_overflow_long_long(a, b) ==
    (b > 0 /\ a > LLONG_MAX - b) \/ (b < 0 /\ a < -LLONG_MAX - 1 - b)

\* Mutant: an offset too large for a size_t is cut.
seekable_cut(next) == next >= 0

seekable(next) == next >= 0 /\ next <= ULONG_MAX

process_llseek(s, f, offset, whence) ==
    LET base == CASE whence = "SEEK_SET" -> 0
                  [] whence = "SEEK_CUR" -> s.file[f].offset
                  [] whence = "SEEK_END" -> Size(s)
        next == base + offset
    IN  IF add_overflow_long_long(base, offset) \/ ~seekable(next) THEN [s EXCEPT !.r = EOVERFLOW]
        ELSE [s EXCEPT !.r = next, !.file[f].offset = next % (ULONG_MAX + 1)]

\* Mutant: the offset moves past the record that no longer fits.
getdents_full_past(s, f, n) ==
    [s EXCEPT !.over = TRUE, !.r = IF @ = 0 THEN EINVAL ELSE @,
              !.file[f].offset = IF s.r = 0 THEN @ ELSE @ + 1]

\* The next record does not fit into what is left of the buffer.
getdents_full(s, f, n) == [s EXCEPT !.over = TRUE, !.r = IF @ = 0 THEN EINVAL ELSE @]

\* One turn of process_getdents64; s.over once the loop has ended.
getdents_turn(s, f, n) ==
    LET at == s.file[f].offset + 1
        skip == [s EXCEPT !.file[f].offset = @ + 1]
        full == s.r + s.slots[at].reclen
    IN  CASE s.over -> s
          [] ~s.over /\ at > Len(s.slots) -> [s EXCEPT !.over = TRUE]
          [] ~s.over /\ at <= Len(s.slots) /\ ~s.slots[at].live -> skip
          [] ~s.over /\ at <= Len(s.slots) /\ s.slots[at].live ->
                IF full > n THEN getdents_full(s, f, n)
                ELSE [skip EXCEPT !.r = full, !.out = Append(@, at), !.over = (full = n)]

process_getdents64(s, f, n) ==
    LET turn(t, k) == getdents_turn(t, f, n)
        start == [data |-> s.data, slots |-> s.slots, file |-> s.file, r |-> 0, out |-> <<>>, over |-> FALSE]
        t == FoldLeft(turn, start, [k \in 1..(Len(s.slots) + 1) |-> k])
    IN  CASE ~FILE_FOR_READ(f) -> [s EXCEPT !.r = EBADF]
          [] FILE_FOR_READ(f) /\ ~dir -> [s EXCEPT !.r = ENOTDIR]
          [] OTHER -> [s EXCEPT !.file = t.file, !.r = t.r, !.out = t.out]

-----------------------------------------------------------------------------
(* The program's calls *)

Init ==
    /\ dir \in BOOLEAN
    /\ data = <<>>
    /\ slots = <<>>
    /\ file = [f \in OpenFiles |-> [offset |-> 0, append |-> FALSE]]
    /\ got = [f \in OpenFiles |-> <<>>]
    /\ since = [f \in OpenFiles |-> {}]

Commit(t) == data' = t.data /\ slots' = t.slots /\ file' = t.file /\ UNCHANGED dir

\* The words a write brings: 1, 2, ...
words(n) == [k \in 1..n |-> k]
pieces(v) ==
    LET from(k) == FoldLeft(+, 0, SubSeq(v, 1, k - 1))
    IN  [k \in 1..Len(v) |-> [j \in 1..v[k] |-> from(k) + j]]
total(v) == FoldLeft(+, 0, v)

readv(f, v) ==
    /\ Commit(emulate_readv(State, f, v))
    /\ UNCHANGED <<got, since>>

writev(f, v) ==
    /\ Commit(emulate_writev(State, f, pieces(v)))
    /\ UNCHANGED <<got, since>>

llseek(f, offset, whence) ==
    LET t == process_llseek(State, f, offset, whence)
    IN  /\ Commit(t)
        /\ got' = IF t.r < 0 THEN got ELSE [got EXCEPT ![f] = <<>>]
        /\ since' = IF t.r < 0 THEN since
                    ELSE [since EXCEPT ![f] = {k \in (t.r + 1)..Len(slots) : slots[k].live}]

\* fcntl with F_SETFL: the status flags change, the access mode stays.  Only
\* writes look at the flag that is kept here.
process_fcntl_setfl(f, append) ==
    /\ FILE_FOR_WRITE(f)
    /\ Commit([State EXCEPT !.file[f].append = append])
    /\ UNCHANGED <<got, since>>

getdents64(f, n) ==
    LET t == process_getdents64(State, f, n)
    IN  /\ Commit(t)
        /\ got' = [got EXCEPT ![f] = @ \o t.out]
        /\ UNCHANGED since

\* A name is put at the end of the directory (write_child of dentry.c).
link(reclen) ==
    /\ dir /\ Len(slots) < MaxSlots
    /\ slots' = Append(slots, [live |-> TRUE, reclen |-> reclen])
    /\ UNCHANGED <<dir, data, file, got, since>>

\* A name is taken out: its record stays, with no inode (remove_child).
unlink(k) ==
    /\ slots[k].live
    /\ slots' = [slots EXCEPT ![k].live = FALSE]
    /\ since' = [f \in OpenFiles |-> since[f] \ {k}]
    /\ UNCHANGED <<dir, data, file, got>>

Next ==
    \/ \E f \in OpenFiles :
        \/ \E v \in Vectors : readv(f, v) \/ writev(f, v)
        \/ \E offset \in SeekOffsets, whence \in {"SEEK_SET", "SEEK_CUR", "SEEK_END"} :
            llseek(f, offset, whence)
        \/ \E append \in BOOLEAN : process_fcntl_setfl(f, append)
        \/ \E n \in BufferSizes : getdents64(f, n)
    \/ \E reclen \in 1..2 : link(reclen)
    \/ \E k \in DOMAIN slots : unlink(k)

Spec == Init /\ [][Next]_vars

-----------------------------------------------------------------------------
(* Properties *)

\* readv and writev come to one call on the buffers put end to end, in every
\* state of the file and at the end of the volume: the same words at the same
\* place, the same offset, the same count, empty buffers or not.  Only the
\* count differs when the volume fills up exactly between two buffers: writev
\* then returns the error although the words before it are written.
VectorsAreOne ==
    ~dir => \A f \in OpenFiles, v \in Vectors :
        LET w == emulate_writev(State, f, pieces(v))
            one == process_write(State, f, words(total(v)))
        IN  /\ emulate_readv(State, f, v) = process_read(State, f, total(v)) \/ total(v) = 0
            /\ total(v) > 0 => /\ w.data = one.data /\ w.file = one.file
                               /\ w.r = one.r \/ (w.r = ENOSPC /\ Len(w.data) = Room)
            /\ total(v) = 0 => w = State

\* A seek ends exactly where its operands add up to, or fails and moves
\* nothing: sums that overflow a loff_t, fall below zero or do not fit the
\* size_t of struct file are all refused (process_llseek).
SeekExact ==
    \A f \in OpenFiles, offset \in SeekOffsets, whence \in {"SEEK_SET", "SEEK_CUR", "SEEK_END"} :
        LET t == process_llseek(State, f, offset, whence)
            base == CASE whence = "SEEK_SET" -> 0
                      [] whence = "SEEK_CUR" -> file[f].offset
                      [] whence = "SEEK_END" -> Size(State)
        IN  IF base + offset \in 0..ULONG_MAX
            THEN t.r = base + offset /\ t.file = [file EXCEPT ![f].offset = base + offset]
            ELSE t.r < 0 /\ t.file = file

\* getdents64 with buffers of any sizes lists a directory that changes under
\* it: no record twice, and every record that was there when the reading
\* began and still is, once the offset is past it.
ListedOnce ==
    dir => \A f \in OpenFiles :
        /\ \A i, j \in DOMAIN got[f] : i < j => got[f][i] < got[f][j]
        /\ \A k \in since[f] : k <= file[f].offset => k \in Range(got[f])
=============================================================================
