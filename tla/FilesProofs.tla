---------------------------- MODULE FilesProofs -----------------------------
(***************************************************************************)
(* Proofs about module Files, for every number of processes, descriptors,  *)
(* files and pipes: the counts of every file and of every end of a pipe    *)
(* are the descriptors that hold it, so nothing is freed while it is held  *)
(* and nothing is held in vain, and only open descriptors are marked       *)
(* close-on-exec.                                                          *)
(*                                                                         *)
(* And what the system calls of module Syscall touch of the memory a       *)
(* program names is the program's: see the end of this module.             *)
(*                                                                         *)
(* First what each assignment of the code changes, then what counting up,  *)
(* releasing, opening and retyping do to the counts, then each call, then  *)
(* the loops of fork, exec and exit over the descriptors, each by          *)
(* induction over its turns.                                               *)
(***************************************************************************)
EXTENDS Files, Syscall, FiniteSetTheorems, WellFoundedInduction, TLAPS

\* The tables that the code can have.
Tables ==
    [files : [Procs -> [Fds -> FileIds \cup {NULL}]],
     close_on_exec : [Procs -> SUBSET Fds],
     file : [FileIds -> [type : {"UNUSED", "TTY", "INODE", "PIPE"},
                         flags : {"none", "O_RDWR", "O_RDONLY", "O_WRONLY"},
                         pipe : PipeIds \cup {NULL}, count : Nat]],
     readers : [PipeIds -> Nat], writers : [PipeIds -> Nat], bug : BOOLEAN]

\* A descriptor of a process, the file in it, and the slots of R that hold
\* a file of S.
Slots == Procs \X Fds
At(t, r) == t.files[r[1]][r[2]]
Holding(t, R, S) == {r \in R : At(t, r) \in S}

\* How many do.
Held(t, R, S) == Cardinality(Holding(t, R, S))

\* The files that are one end of pipe x.
EndFiles(t, x, flags) == {f \in FileIds : t.file[f].pipe = x /\ t.file[f].flags = flags}

\* A file has a pipe exactly when it is an end of one.
Sane(t) ==
    \A f \in FileIds :
        IF t.file[f].type = "PIPE"
        THEN t.file[f].pipe \in PipeIds /\ t.file[f].flags \in {"O_RDONLY", "O_WRONLY"}
        ELSE t.file[f].pipe = NULL

\* The counts are the slots of R that hold the file or the end. R is all
\* slots, but for the ones a fork has still to copy.
Exact(t, R) ==
    /\ \A f \in FileIds : t.file[f].count = Held(t, R, {f})
    /\ \A x \in PipeIds :
         /\ t.readers[x] = Held(t, R, EndFiles(t, x, "O_RDONLY"))
         /\ t.writers[x] = Held(t, R, EndFiles(t, x, "O_WRONLY"))

\* What every step keeps: no SYSTEM_BUG_ON, and the counts.
Sound(t, R) == t \in Tables /\ t.bug = FALSE /\ Sane(t) /\ Exact(t, R)

\* A set of numbers has a least one: the induction of this module.
LEMMA LeastNumber ==
    ASSUME NEW T, T \subseteq Nat, T # {}
    PROVE  \E x \in T : \A y \in T : x <= y
<1>1. IsWellFoundedOn(OpToRel(<, Nat), Nat)
  BY NatLessThanWellFounded, ZenonT(60)
<1>2. PICK x \in T : \A y \in T : ~ (<<y, x>> \in OpToRel(<, Nat))
  BY <1>1, WFMin, ZenonT(60)
<1>3. \A y \in T : ~ (y < x)
  BY <1>2, ZenonT(60) DEF OpToRel
<1> QED
  BY <1>3

\* The first free descriptor, file or pipe is a free one.
LEMMA MinIn ==
    ASSUME NEW T, T \subseteq Nat, T # {}
    PROVE  Min(T) \in T
<1>1. \E x \in T : \A y \in T : x <= y
  BY LeastNumber, ZenonT(60)
<1> QED
  BY <1>1, ZenonT(60) DEF Min

\* There are finitely many slots.
LEMMA SlotsFinite == ASSUME NEW R \in SUBSET Slots PROVE IsFiniteSet(R)
<1>1. IsFiniteSet(Procs) /\ IsFiniteSet(Fds)
  <2>1. 0 \in Int /\ MAX_FD_SIZE - 1 \in Int
    BY FilesAssumption
  <2>2. IsFiniteSet(0..(MAX_FD_SIZE - 1))
    BY <2>1, FS_Interval, Zenon
  <2> QED
    BY <2>2, FilesAssumption DEF Fds
<1>2. IsFiniteSet(Slots)
  BY <1>1, FS_Product DEF Slots
<1> QED
  BY <1>2, FS_Subset, Zenon

\* One slot more counts if it holds a file of S.
OneMore(t, R, r, S) ==
    /\ Held(t, R, S) \in Nat
    /\ At(t, r) \in S => Held(t, R \cup {r}, S) = Held(t, R, S) + 1
    /\ At(t, r) \notin S => Held(t, R \cup {r}, S) = Held(t, R, S)

\* Counting one slot more.
LEMMA AddSlot ==
    ASSUME NEW t, NEW R, R \in SUBSET Slots, NEW r, r \in Slots, r \notin R, NEW S
    PROVE  OneMore(t, R, r, S)
<1>1. Holding(t, R, S) \in SUBSET Slots /\ r \notin Holding(t, R, S)
  BY DEF Holding
<1>2. IsFiniteSet(Holding(t, R, S))
  BY <1>1, SlotsFinite, Zenon
<1>3. Held(t, R, S) \in Nat
  BY <1>2, FS_CardinalityType, Zenon DEF Held
<1>4. ASSUME At(t, r) \in S PROVE Held(t, R \cup {r}, S) = Held(t, R, S) + 1
  <2>1. Holding(t, R \cup {r}, S) = Holding(t, R, S) \cup {r}
    BY <1>4, Zenon DEF Holding
  <2>2. Cardinality(Holding(t, R, S) \cup {r}) = Cardinality(Holding(t, R, S)) + 1
    BY <1>1, <1>2, FS_AddElement, Zenon
  <2> QED
    BY <2>1, <2>2, Zenon DEF Held
<1>5. ASSUME At(t, r) \notin S PROVE Held(t, R \cup {r}, S) = Held(t, R, S)
  <2>1. Holding(t, R \cup {r}, S) = Holding(t, R, S)
    BY <1>5, Zenon DEF Holding
  <2> QED
    BY <2>1, Zenon DEF Held
<1> QED
  BY <1>3, <1>4, <1>5, Zenon DEF OneMore

\* Nobody holds: the count is zero exactly when no slot is left.
LEMMA NoneHold ==
    ASSUME NEW t, NEW R \in SUBSET Slots, NEW S, Held(t, R, S) = 0
    PROVE  \A r \in R : At(t, r) \notin S
<1>1. IsFiniteSet(Holding(t, R, S))
  <2>1. Holding(t, R, S) \in SUBSET Slots
    BY DEF Holding
  <2> QED
    BY <2>1, SlotsFinite, Zenon
<1>2. Holding(t, R, S) = {}
  BY <1>1, FS_EmptySet, Zenon DEF Held
<1> QED
  BY <1>2, Zenon DEF Holding

\* An entry of the file table.
FileType == [type : {"UNUSED", "TTY", "INODE", "PIPE"},
             flags : {"none", "O_RDWR", "O_RDONLY", "O_WRONLY"},
             pipe : PipeIds \cup {NULL}, count : Nat]

\* One file's count is set; nothing else changes.
Recounted(t, u, f, n) ==
    \A g \in FileIds :
        /\ u.file[g].type = t.file[g].type /\ u.file[g].flags = t.file[g].flags
        /\ u.file[g].pipe = t.file[g].pipe
        /\ u.file[g].count = IF g = f THEN n ELSE t.file[g].count

\* Nothing else changes in the tables.
OnlyCount(t, u, f, n) ==
    /\ u \in Tables /\ u.bug = t.bug /\ u.files = t.files
    /\ u.close_on_exec = t.close_on_exec
    /\ u.readers = t.readers /\ u.writers = t.writers
    /\ Recounted(t, u, f, n)

\* An assignment to the count of a file is that.
LEMMA UpFields ==
    ASSUME NEW t \in Tables, NEW f \in FileIds, NEW n \in Nat
    PROVE  OnlyCount(t, [t EXCEPT !.file[f].count = n], f, n)
<1> DEFINE u == [t EXCEPT !.file[f].count = n]
<1>1. /\ u.bug = t.bug /\ u.files = t.files /\ u.close_on_exec = t.close_on_exec
      /\ u.readers = t.readers /\ u.writers = t.writers
  BY Zenon DEF Tables
<1>2. u.file = [t.file EXCEPT ![f].count = n]
  BY Zenon DEF Tables
<1>3. t.file \in [FileIds -> FileType]
  BY Zenon DEF Tables, FileType
<1>4. [t.file[f] EXCEPT !.count = n] \in FileType
  BY <1>3, Zenon DEF FileType
<1>5. u.file \in [FileIds -> FileType]
  BY <1>2, <1>3, <1>4, ZenonT(60)
<1>6. u \in Tables
  BY <1>5, Zenon DEF Tables, FileType
<1> HIDE DEF u
<1>7. Recounted(t, u, f, n)
  <2> SUFFICES ASSUME NEW g \in FileIds
               PROVE  /\ u.file[g].type = t.file[g].type /\ u.file[g].flags = t.file[g].flags
                      /\ u.file[g].pipe = t.file[g].pipe
                      /\ u.file[g].count = IF g = f THEN n ELSE t.file[g].count
    BY Zenon DEF Recounted
  <2>1. CASE g = f
    <3>1. u.file[f] = [t.file[f] EXCEPT !.count = n]
      BY <1>2, <1>3, Zenon
    <3>2. t.file[f] \in FileType
      BY <1>3
    <3> QED
      BY <2>1, <3>1, <3>2, Zenon DEF FileType
  <2>2. CASE g # f
    <3>1. u.file[g] = t.file[g]
      BY <1>2, <1>3, <2>2, Zenon
    <3> QED
      BY <2>2, <3>1
  <2> QED
    BY <2>1, <2>2
<1> QED
  BY <1>1, <1>6, <1>7, Zenon DEF u, OnlyCount

\* What the writes to the other fields change.
OnlyFile(t, u, f, e) ==
    /\ u \in Tables /\ u.bug = t.bug /\ u.files = t.files
    /\ u.close_on_exec = t.close_on_exec
    /\ u.readers = t.readers /\ u.writers = t.writers
    /\ u.file = [t.file EXCEPT ![f] = e]

\* An assignment to a file is that.
LEMMA FileFields ==
    ASSUME NEW t \in Tables, NEW f \in FileIds, NEW e \in FileType
    PROVE  OnlyFile(t, [t EXCEPT !.file[f] = e], f, e)
<1> DEFINE u == [t EXCEPT !.file[f] = e]
<1>1. /\ u.bug = t.bug /\ u.files = t.files /\ u.close_on_exec = t.close_on_exec
      /\ u.readers = t.readers /\ u.writers = t.writers
  BY Zenon DEF Tables
<1>2. u.file = [t.file EXCEPT ![f] = e]
  BY Zenon DEF Tables
<1>3. u.file \in [FileIds -> FileType]
  <2>1. t.file \in [FileIds -> FileType]
    BY Zenon DEF Tables, FileType
  <2> QED
    BY <1>2, <2>1, ZenonT(60)
<1>4. u \in Tables
  BY <1>3, Zenon DEF Tables, FileType
<1> QED
  BY <1>1, <1>2, <1>4, Zenon DEF OnlyFile

\* The readers of pipe x become n.
OnlyReaders(t, u, x, n) ==
    /\ u \in Tables /\ u.bug = t.bug /\ u.files = t.files
    /\ u.close_on_exec = t.close_on_exec
    /\ u.file = t.file /\ u.writers = t.writers
    /\ u.readers = [t.readers EXCEPT ![x] = n]

\* An assignment to the readers of a pipe is that.
LEMMA ReadersFields ==
    ASSUME NEW t \in Tables, NEW x \in PipeIds, NEW n \in Nat
    PROVE  OnlyReaders(t, [t EXCEPT !.readers[x] = n], x, n)
<1> DEFINE u == [t EXCEPT !.readers[x] = n]
<1>1. /\ u.bug = t.bug /\ u.files = t.files /\ u.close_on_exec = t.close_on_exec
      /\ u.file = t.file /\ u.writers = t.writers
  BY Zenon DEF Tables
<1>2. u.readers = [t.readers EXCEPT ![x] = n] /\ u.readers \in [PipeIds -> Nat]
  BY Zenon DEF Tables
<1>3. u \in Tables
  BY <1>2, Zenon DEF Tables
<1> QED
  BY <1>1, <1>2, <1>3, Zenon DEF OnlyReaders

\* The writers of pipe x become n.
OnlyWriters(t, u, x, n) ==
    /\ u \in Tables /\ u.bug = t.bug /\ u.files = t.files
    /\ u.close_on_exec = t.close_on_exec
    /\ u.file = t.file /\ u.readers = t.readers
    /\ u.writers = [t.writers EXCEPT ![x] = n]

\* An assignment to the writers of a pipe is that.
LEMMA WritersFields ==
    ASSUME NEW t \in Tables, NEW x \in PipeIds, NEW n \in Nat
    PROVE  OnlyWriters(t, [t EXCEPT !.writers[x] = n], x, n)
<1> DEFINE u == [t EXCEPT !.writers[x] = n]
<1>1. /\ u.bug = t.bug /\ u.files = t.files /\ u.close_on_exec = t.close_on_exec
      /\ u.file = t.file /\ u.readers = t.readers
  BY Zenon DEF Tables
<1>2. u.writers = [t.writers EXCEPT ![x] = n] /\ u.writers \in [PipeIds -> Nat]
  BY Zenon DEF Tables
<1>3. u \in Tables
  BY <1>2, Zenon DEF Tables
<1> QED
  BY <1>1, <1>2, <1>3, Zenon DEF OnlyWriters

\* Descriptor fd of p becomes f.
OnlyFd(t, u, p, fd, f) ==
    /\ u \in Tables /\ u.bug = t.bug /\ u.close_on_exec = t.close_on_exec
    /\ u.file = t.file /\ u.readers = t.readers /\ u.writers = t.writers
    /\ \A q \in Procs, n \in Fds :
         u.files[q][n] = IF q = p /\ n = fd THEN f ELSE t.files[q][n]

\* set_fd does that.
LEMMA SetFdFields ==
    ASSUME NEW t \in Tables, NEW p \in Procs, NEW fd \in Fds, NEW f \in FileIds \cup {NULL}
    PROVE  OnlyFd(t, set_fd(t, p, fd, f), p, fd, f)
<1> DEFINE u == set_fd(t, p, fd, f)
<1>1. /\ u.bug = t.bug /\ u.close_on_exec = t.close_on_exec
      /\ u.file = t.file /\ u.readers = t.readers /\ u.writers = t.writers
  BY Zenon DEF Tables, set_fd
<1>2. u.files = [t.files EXCEPT ![p][fd] = f]
  BY Zenon DEF Tables, set_fd
<1>3. t.files \in [Procs -> [Fds -> FileIds \cup {NULL}]]
  BY Zenon DEF Tables
<1>4. /\ u.files \in [Procs -> [Fds -> FileIds \cup {NULL}]]
      /\ \A q \in Procs, n \in Fds :
           u.files[q][n] = IF q = p /\ n = fd THEN f ELSE t.files[q][n]
  <2> HIDE DEF u
  <2> QED BY <1>2, <1>3
<1>5. u \in Tables
  BY <1>4, Zenon DEF Tables, set_fd
<1> QED
  BY <1>1, <1>4, <1>5, Zenon DEF OnlyFd

\* The close-on-exec bit of descriptor fd of p becomes on.
OnlyBits(t, u, p, fd, on) ==
    /\ u \in Tables /\ u.bug = t.bug /\ u.files = t.files
    /\ u.file = t.file /\ u.readers = t.readers /\ u.writers = t.writers
    /\ \A q \in Procs : u.close_on_exec[q] =
         IF q # p THEN t.close_on_exec[q]
         ELSE IF on THEN t.close_on_exec[q] \cup {fd} ELSE t.close_on_exec[q] \ {fd}

\* set_cloexec does that.
LEMMA CloexecFields ==
    ASSUME NEW t \in Tables, NEW p \in Procs, NEW fd \in Fds, NEW on \in BOOLEAN
    PROVE  OnlyBits(t, set_cloexec(t, p, fd, on), p, fd, on)
<1> DEFINE u == set_cloexec(t, p, fd, on)
           bits == IF on THEN t.close_on_exec[p] \cup {fd} ELSE t.close_on_exec[p] \ {fd}
<1>1. u.bug = t.bug /\ u.files = t.files /\ u.file = t.file /\ u.readers = t.readers /\ u.writers = t.writers
  BY Zenon DEF Tables, set_cloexec
<1>2. u.close_on_exec = [t.close_on_exec EXCEPT ![p] = bits]
  BY Zenon DEF Tables, set_cloexec
<1>3. t.close_on_exec \in [Procs -> SUBSET Fds]
  BY Zenon DEF Tables
<1>4. bits \in SUBSET Fds
  BY <1>3
<1>5. u.close_on_exec \in [Procs -> SUBSET Fds]
  BY <1>2, <1>3, <1>4, Zenon
<1>6. u \in Tables
  BY <1>5, Zenon DEF Tables, set_cloexec
<1> HIDE DEF u
<1>7. \A q \in Procs : u.close_on_exec[q] =
                    IF q # p THEN t.close_on_exec[q]
                    ELSE IF on THEN t.close_on_exec[q] \cup {fd} ELSE t.close_on_exec[q] \ {fd}
  BY <1>2, <1>3, Zenon
<1> QED
  BY <1>1, <1>6, <1>7, Zenon DEF u, OnlyBits

\* The counts of the pipe end that file f is, if any, change by d.
Moved(t, u, f, d) ==
    \A x \in PipeIds :
        /\ u.readers[x] = IF t.file[f].pipe = x /\ t.file[f].flags = "O_RDONLY"
                          THEN t.readers[x] + d ELSE t.readers[x]
        /\ u.writers[x] = IF t.file[f].pipe = x /\ t.file[f].flags = "O_WRONLY"
                          THEN t.writers[x] + d ELSE t.writers[x]

\* One more descriptor for f (countup_file).
LEMMA CountupFields ==
    ASSUME NEW t \in Tables, NEW f \in FileIds, Sane(t)
    PROVE  LET u == countup_file(t, f)
           IN  /\ u \in Tables /\ u.bug = t.bug
               /\ u.files = t.files /\ u.close_on_exec = t.close_on_exec
               /\ Recounted(t, u, f, t.file[f].count + 1)
               /\ Moved(t, u, f, 1)
<1> DEFINE up == [t EXCEPT !.file[f].count = @ + 1]
           file == t.file[f]
           x == file.pipe
           w == countup_file(t, f)
<1>0. t.file[f].count + 1 \in Nat /\ t.readers \in [PipeIds -> Nat] /\ t.writers \in [PipeIds -> Nat]
  BY DEF Tables
<1>1. /\ up \in Tables /\ up.bug = t.bug /\ up.files = t.files /\ up.close_on_exec = t.close_on_exec
      /\ up.readers = t.readers /\ up.writers = t.writers
      /\ Recounted(t, up, f, t.file[f].count + 1)
  <2>1. OnlyCount(t, up, f, t.file[f].count + 1)
    BY <1>0, UpFields, Zenon
  <2> QED
    BY <2>1, Zenon DEF OnlyCount
<1>2. NULL \notin PipeIds
  BY DEF NULL, PipeIds
<1>3. CASE file.type # "PIPE"
  <2>1. w = up /\ x = NULL
    BY <1>3, Zenon DEF countup_file, Sane
  <2> HIDE DEF up, x, w
  <2>2. Moved(t, up, f, 1)
    BY <1>1, <1>2, <2>1 DEF Moved, x
  <2> QED
    BY <1>1, <2>1, <2>2, Zenon DEF w
<1>4. CASE file.type = "PIPE" /\ file.flags = "O_RDONLY"
  <2>1. w = [up EXCEPT !.readers[x] = up.readers[x] + 1]
    BY <1>4, Zenon DEF countup_file, pipe_countup
  <2>2. x \in PipeIds
    BY <1>4, Zenon DEF Sane
  <2> HIDE DEF up, x, w
  <2>3. up.readers[x] + 1 \in Nat
    BY <1>0, <1>1, <2>2
  <2>4. /\ w \in Tables /\ w.bug = up.bug /\ w.files = up.files /\ w.close_on_exec = up.close_on_exec
        /\ w.file = up.file /\ w.writers = up.writers
        /\ w.readers = [up.readers EXCEPT ![x] = up.readers[x] + 1]
    <3>1. OnlyReaders(up, w, x, up.readers[x] + 1)
      BY <1>1, <2>1, <2>2, <2>3, ReadersFields, ZenonT(60)
    <3> QED
      BY <3>1, Zenon DEF OnlyReaders
  <2>5. Moved(t, w, f, 1)
    BY <1>0, <1>1, <1>4, <2>2, <2>4 DEF Moved, x
  <2>6. Recounted(t, w, f, t.file[f].count + 1)
    BY <1>1, <2>4, ZenonT(60) DEF Recounted
  <2> QED
    BY <1>1, <2>4, <2>5, <2>6, Zenon DEF w
<1>5. CASE file.type = "PIPE" /\ file.flags = "O_WRONLY"
  <2>1. w = [up EXCEPT !.writers[x] = up.writers[x] + 1]
    BY <1>5, Zenon DEF countup_file, pipe_countup
  <2>2. x \in PipeIds
    BY <1>5, Zenon DEF Sane
  <2> HIDE DEF up, x, w
  <2>3. up.writers[x] + 1 \in Nat
    BY <1>0, <1>1, <2>2
  <2>4. /\ w \in Tables /\ w.bug = up.bug /\ w.files = up.files /\ w.close_on_exec = up.close_on_exec
        /\ w.file = up.file /\ w.readers = up.readers
        /\ w.writers = [up.writers EXCEPT ![x] = up.writers[x] + 1]
    <3>1. OnlyWriters(up, w, x, up.writers[x] + 1)
      BY <1>1, <2>1, <2>2, <2>3, WritersFields, Zenon
    <3> QED
      BY <3>1, Zenon DEF OnlyWriters
  <2>5. Moved(t, w, f, 1)
    BY <1>0, <1>1, <1>5, <2>2, <2>4 DEF Moved, x
  <2>6. Recounted(t, w, f, t.file[f].count + 1)
    BY <1>1, <2>4, ZenonT(60) DEF Recounted
  <2> QED
    BY <1>1, <2>4, <2>5, <2>6, Zenon DEF w
<1> QED
  BY <1>3, <1>4, <1>5, Zenon DEF Sane

\* File f is given up by its last descriptor: the object is freed.
Freed(t, u, f) ==
    \A g \in FileIds : u.file[g] = IF g = f THEN Unused ELSE t.file[g]

\* One descriptor fewer for f (release_file), whose SYSTEM_BUG_ONs are not met.
LEMMA ReleaseFields ==
    ASSUME NEW t \in Tables, NEW f \in FileIds, Sane(t), t.file[f].count # 0,
           \A x \in PipeIds : t.file[f].pipe = x =>
               /\ t.file[f].flags = "O_RDONLY" => t.readers[x] # 0
               /\ t.file[f].flags = "O_WRONLY" => t.writers[x] # 0
    PROVE  LET u == release_file(t, f)
           IN  /\ u \in Tables /\ u.bug = t.bug
               /\ u.files = t.files /\ u.close_on_exec = t.close_on_exec
               /\ IF t.file[f].count = 1 THEN Freed(t, u, f)
                                         ELSE Recounted(t, u, f, t.file[f].count - 1)
               /\ Moved(t, u, f, -1)
<1> DEFINE down == [t EXCEPT !.file[f].count = @ - 1]
           file == t.file[f]
           x == file.pipe
           w == IF file.type = "PIPE" THEN pipe_release(down, file.pipe, file.flags) ELSE down
<1>0. /\ t.file[f].count - 1 \in Nat /\ t.file[f].count \in Nat
      /\ t.readers \in [PipeIds -> Nat] /\ t.writers \in [PipeIds -> Nat]
      /\ t.file \in [FileIds -> FileType]
  BY DEF Tables, FileType
<1>1. /\ down \in Tables /\ down.bug = t.bug /\ down.files = t.files
      /\ down.close_on_exec = t.close_on_exec
      /\ down.readers = t.readers /\ down.writers = t.writers
      /\ Recounted(t, down, f, t.file[f].count - 1)
  <2>1. OnlyCount(t, down, f, t.file[f].count - 1)
    BY <1>0, UpFields, Zenon
  <2> QED
    BY <2>1, Zenon DEF OnlyCount
<1>2. NULL \notin PipeIds
  BY DEF NULL, PipeIds
<1>3. /\ w \in Tables /\ w.bug = t.bug /\ w.files = t.files /\ w.close_on_exec = t.close_on_exec
      /\ Recounted(t, w, f, t.file[f].count - 1) /\ Moved(t, w, f, -1)
  <2>1. CASE file.type # "PIPE"
    <3>1. w = down /\ x = NULL
      BY <2>1, Zenon DEF Sane
    <3> HIDE DEF down, x, w
    <3>2. Moved(t, down, f, -1)
      BY <1>1, <1>2, <3>1 DEF Moved, x
    <3> QED
      BY <1>1, <3>1, <3>2, Zenon
  <2>2. CASE file.type = "PIPE" /\ file.flags = "O_RDONLY"
    <3>1. x \in PipeIds
      BY <2>2, Zenon DEF Sane
    <3>2. down.readers[x] # 0
      BY <1>1, <2>2, <3>1, Zenon
    <3>3. w = [down EXCEPT !.readers[x] = down.readers[x] - 1]
      BY <2>2, <3>2, Zenon DEF pipe_release
    <3> HIDE DEF down, x, w
    <3>4. down.readers[x] - 1 \in Nat
      BY <1>0, <1>1, <3>1, <3>2
    <3>5. /\ w \in Tables /\ w.bug = down.bug /\ w.files = down.files /\ w.close_on_exec = down.close_on_exec
          /\ w.file = down.file /\ w.writers = down.writers
          /\ w.readers = [down.readers EXCEPT ![x] = down.readers[x] - 1]
      <4>1. OnlyReaders(down, w, x, down.readers[x] - 1)
        BY <1>1, <3>1, <3>3, <3>4, ReadersFields, ZenonT(60)
      <4> QED
        BY <4>1, Zenon DEF OnlyReaders
    <3>6. Moved(t, w, f, -1)
      BY <1>0, <1>1, <2>2, <3>1, <3>5 DEF Moved, x
    <3>7. Recounted(t, w, f, t.file[f].count - 1)
      BY <1>1, <3>5, ZenonT(60) DEF Recounted
    <3> QED
      BY <1>1, <3>5, <3>6, <3>7, Zenon
  <2>3. CASE file.type = "PIPE" /\ file.flags = "O_WRONLY"
    <3>1. x \in PipeIds
      BY <2>3, Zenon DEF Sane
    <3>2. down.writers[x] # 0 /\ file.flags # "O_RDONLY"
      BY <1>1, <2>3, <3>1, Zenon
    <3>3. w = [down EXCEPT !.writers[x] = down.writers[x] - 1]
      BY <2>3, <3>2, Zenon DEF pipe_release
    <3> HIDE DEF down, x, w
    <3>4. down.writers[x] - 1 \in Nat
      BY <1>0, <1>1, <3>1, <3>2
    <3>5. /\ w \in Tables /\ w.bug = down.bug /\ w.files = down.files /\ w.close_on_exec = down.close_on_exec
          /\ w.file = down.file /\ w.readers = down.readers
          /\ w.writers = [down.writers EXCEPT ![x] = down.writers[x] - 1]
      <4>1. OnlyWriters(down, w, x, down.writers[x] - 1)
        BY <1>1, <3>1, <3>3, <3>4, WritersFields, Zenon
      <4> QED
        BY <4>1, Zenon DEF OnlyWriters
    <3>6. Moved(t, w, f, -1)
      BY <1>0, <1>1, <2>3, <3>1, <3>5 DEF Moved, x
    <3>7. Recounted(t, w, f, t.file[f].count - 1)
      BY <1>1, <3>5, ZenonT(60) DEF Recounted
    <3> QED
      BY <1>1, <3>5, <3>6, <3>7, Zenon
  <2> QED
    BY <2>1, <2>2, <2>3, Zenon DEF Sane
<1>4. release_file(t, f) = IF t.file[f].count = 1 THEN [w EXCEPT !.file[f] = Unused] ELSE w
  BY Zenon DEF release_file
<1> HIDE DEF w
<1>5. CASE t.file[f].count # 1
  BY <1>3, <1>4, <1>5, Zenon
<1>6. CASE t.file[f].count = 1
  <2> DEFINE u == [w EXCEPT !.file[f] = Unused]
  <2>1. Unused \in FileType
    BY DEF Unused, FileType
  <2>2. /\ u \in Tables /\ u.bug = w.bug /\ u.files = w.files
        /\ u.close_on_exec = w.close_on_exec
        /\ u.readers = w.readers /\ u.writers = w.writers
        /\ u.file = [w.file EXCEPT ![f] = Unused]
    <3>1. OnlyFile(w, u, f, Unused)
      BY <1>3, <2>1, FileFields, Zenon
    <3> QED
      BY <3>1, Zenon DEF OnlyFile
  <2>3. w.file \in [FileIds -> FileType]
    BY <1>3, Zenon DEF Tables, FileType
  <2> HIDE DEF u
  <2>4. Moved(t, u, f, -1)
    BY <1>3, <2>2, ZenonT(30) DEF Moved
  <2>5. \A g \in FileIds \ {f} : w.file[g] = t.file[g]
    <3> SUFFICES ASSUME NEW g \in FileIds, g # f PROVE w.file[g] = t.file[g]
      OBVIOUS
    <3>1. /\ w.file[g].type = t.file[g].type /\ w.file[g].flags = t.file[g].flags
          /\ w.file[g].pipe = t.file[g].pipe /\ w.file[g].count = t.file[g].count
      BY <1>3 DEF Recounted
    <3>2. w.file[g] \in FileType /\ t.file[g] \in FileType
      BY <1>0, <2>3
    <3> QED
      BY <3>1, <3>2 DEF FileType
  <2>6. Freed(t, u, f)
    BY <2>2, <2>3, <2>5 DEF Freed
  <2> QED
    BY <1>3, <1>4, <1>6, <2>2, <2>4, <2>6, Zenon DEF u
<1> QED
  BY <1>5, <1>6, Zenon

-----------------------------------------------------------------------------
(* Counting *)

\* The slots of R hold what they held.
SameIn(t, u, R) == \A r \in R : At(u, r) = At(t, r)

\* Counts are exact after a step that leaves files, counts and slots alone.
LEMMA SameSound ==
    ASSUME NEW R \in SUBSET Slots, NEW t, NEW u \in Tables, Sound(t, R), SameIn(t, u, R), u.bug = t.bug,
           u.file = t.file, u.readers = t.readers, u.writers = t.writers
    PROVE  Sound(u, R)
<1>1. \A S : Holding(u, R, S) = Holding(t, R, S)
  BY Zenon DEF Holding, SameIn
<1>2. \A x, flags : EndFiles(u, x, flags) = EndFiles(t, x, flags)
  BY Zenon DEF EndFiles
<1>3. Exact(u, R)
  BY <1>1, <1>2, ZenonT(60) DEF Sound, Exact, Held
<1>4. Sane(u)
  BY Zenon DEF Sound, Sane
<1> QED
  BY <1>3, <1>4, Zenon DEF Sound

\* An empty slot may be counted or not.
LEMMA NullSlot ==
    ASSUME NEW R \in SUBSET Slots, NEW t, Sound(t, R), NEW r, At(t, r) = NULL
    PROVE  Sound(t, R \cup {r}) /\ Sound(t, R \ {r})
<1>1. \A S : NULL \notin S =>
        Holding(t, R \cup {r}, S) = Holding(t, R, S) /\ Holding(t, R \ {r}, S) = Holding(t, R, S)
  BY Zenon DEF Holding
<1>2. \A f \in FileIds : NULL \notin {f}
  BY DEF NULL, FileIds
<1>3. \A x, flags : NULL \notin EndFiles(t, x, flags)
  BY <1>2, Zenon DEF EndFiles
<1>4. Exact(t, R)
  BY Zenon DEF Sound
<1>5. Exact(t, R \cup {r})
  BY <1>1, <1>2, <1>3, <1>4, Zenon DEF Exact, Held
<1>6. Exact(t, R \ {r})
  BY <1>1, <1>2, <1>3, <1>4, Zenon DEF Exact, Held
<1> QED
  BY <1>5, <1>6, Zenon DEF Sound

\* A slot that comes to hold f and is counted: exact if f was counted up.
LEMMA CountupSound ==
    ASSUME NEW R \in SUBSET Slots, NEW t, NEW v \in Tables, NEW f \in FileIds, NEW r \in Slots \ R,
           Sound(t, R), v.bug = t.bug, SameIn(t, v, R), At(v, r) = f,
           Recounted(t, v, f, t.file[f].count + 1), Moved(t, v, f, 1)
    PROVE  Sound(v, R \cup {r})
<1>1. \A S : Holding(v, R, S) = Holding(t, R, S)
  BY Zenon DEF Holding, SameIn
<1>2. \A x, flags : EndFiles(v, x, flags) = EndFiles(t, x, flags)
  BY Zenon DEF EndFiles, Recounted
<1>3. \A S : /\ Held(t, R, S) \in Nat
             /\ f \in S => Held(v, R \cup {r}, S) = Held(t, R, S) + 1
             /\ f \notin S => Held(v, R \cup {r}, S) = Held(t, R, S)
  <2>1. \A S : Held(v, R, S) = Held(t, R, S)
    BY <1>1, Zenon DEF Held
  <2> QED
    <3> SUFFICES ASSUME NEW S
                 PROVE  /\ Held(t, R, S) \in Nat
                        /\ f \in S => Held(v, R \cup {r}, S) = Held(t, R, S) + 1
                        /\ f \notin S => Held(v, R \cup {r}, S) = Held(t, R, S)
      BY Zenon
    <3>1. R \in SUBSET Slots /\ r \in Slots /\ r \notin R
      OBVIOUS
    <3>2. OneMore(v, R, r, S)
      BY ONLY <3>1, AddSlot, Zenon
    <3> QED
      BY <2>1, <3>2, Zenon DEF OneMore
<1>4. Sane(v)
  BY ZenonT(60) DEF Sound, Sane, Recounted
<1>5. ASSUME NEW g \in FileIds PROVE v.file[g].count = Held(v, R \cup {r}, {g})
  <2>1. t.file[g].count = Held(t, R, {g})
    BY Zenon DEF Sound, Exact
  <2>2. v.file[g].count = IF g = f THEN t.file[g].count + 1 ELSE t.file[g].count
    BY DEF Recounted
  <2>3. /\ f \in {g} => Held(v, R \cup {r}, {g}) = Held(t, R, {g}) + 1
        /\ f \notin {g} => Held(v, R \cup {r}, {g}) = Held(t, R, {g})
    BY <1>3, Zenon
  <2> QED
    BY <2>1, <2>2, <2>3
<1>6. ASSUME NEW x \in PipeIds
      PROVE  /\ v.readers[x] = Held(v, R \cup {r}, EndFiles(v, x, "O_RDONLY"))
             /\ v.writers[x] = Held(v, R \cup {r}, EndFiles(v, x, "O_WRONLY"))
  <2>1. /\ t.readers[x] = Held(t, R, EndFiles(t, x, "O_RDONLY"))
        /\ t.writers[x] = Held(t, R, EndFiles(t, x, "O_WRONLY"))
    BY Zenon DEF Sound, Exact
  <2>2. \A flags : f \in EndFiles(t, x, flags) <=> t.file[f].pipe = x /\ t.file[f].flags = flags
    BY Zenon DEF EndFiles
  <2>3. \A flags :
          /\ f \in EndFiles(t, x, flags) =>
               Held(v, R \cup {r}, EndFiles(v, x, flags)) = Held(t, R, EndFiles(t, x, flags)) + 1
          /\ f \notin EndFiles(t, x, flags) =>
               Held(v, R \cup {r}, EndFiles(v, x, flags)) = Held(t, R, EndFiles(t, x, flags))
    BY <1>2, <1>3, Zenon
  <2> QED
    <3>1. v.readers[x] = IF f \in EndFiles(t, x, "O_RDONLY") THEN t.readers[x] + 1 ELSE t.readers[x]
      BY <2>2, Zenon DEF Moved
    <3>2. v.writers[x] = IF f \in EndFiles(t, x, "O_WRONLY") THEN t.writers[x] + 1 ELSE t.writers[x]
      BY <2>2, Zenon DEF Moved
    <3> QED
      BY <2>1, <2>3, <3>1, <3>2, SMTT(60)
<1>7. Exact(v, R \cup {r})
  BY <1>5, <1>6, Zenon DEF Exact
<1> QED
  BY <1>4, <1>7, Zenon DEF Sound

\* release_file meets no SYSTEM_BUG_ON for a file that a counted slot holds.
LEMMA ReleaseReady ==
    ASSUME NEW R \in SUBSET Slots, NEW t, NEW f \in FileIds, NEW r \in R, Sound(t, R), At(t, r) = f
    PROVE  /\ t.file[f].count # 0
           /\ \A x \in PipeIds : t.file[f].pipe = x =>
               /\ t.file[f].flags = "O_RDONLY" => t.readers[x] # 0
               /\ t.file[f].flags = "O_WRONLY" => t.writers[x] # 0
<1>1. \A S : f \in S => Held(t, R, S) # 0
  BY NoneHold, Zenon
<1>2. t.file[f].count # 0
  BY <1>1, Zenon DEF Sound, Exact
<1>3. ASSUME NEW x \in PipeIds, t.file[f].pipe = x
      PROVE  /\ t.file[f].flags = "O_RDONLY" => t.readers[x] # 0
             /\ t.file[f].flags = "O_WRONLY" => t.writers[x] # 0
  <2>1. f \in EndFiles(t, x, t.file[f].flags)
    BY <1>3, Zenon DEF EndFiles
  <2> QED
    BY <1>1, <2>1, Zenon DEF Sound, Exact
<1> QED
  BY <1>2, <1>3, Zenon

\* A slot that held f and is no longer counted: exact if f was released.
LEMMA ReleaseSound ==
    ASSUME NEW R \in SUBSET Slots, NEW t, NEW v \in Tables, NEW f \in FileIds, NEW r \in R,
           Sound(t, R), v.bug = t.bug, SameIn(t, v, R \ {r}), At(t, r) = f,
           IF t.file[f].count = 1 THEN Freed(t, v, f) ELSE Recounted(t, v, f, t.file[f].count - 1),
           Moved(t, v, f, -1)
    PROVE  Sound(v, R \ {r})
<1> DEFINE Q == R \ {r}
<1>0. Q \in SUBSET Slots /\ r \in Slots \ Q /\ Q \cup {r} = R
  OBVIOUS
<1>1. \A S : Holding(v, Q, S) = Holding(t, Q, S)
  BY Zenon DEF Holding, SameIn
<1> HIDE DEF Q
<1>2. \A S : /\ Held(t, Q, S) \in Nat
             /\ f \in S => Held(t, R, S) = Held(t, Q, S) + 1
             /\ f \notin S => Held(t, R, S) = Held(t, Q, S)
  <2> SUFFICES ASSUME NEW S
               PROVE  /\ Held(t, Q, S) \in Nat
                      /\ f \in S => Held(t, R, S) = Held(t, Q, S) + 1
                      /\ f \notin S => Held(t, R, S) = Held(t, Q, S)
    BY Zenon
  <2>1. Q \in SUBSET Slots /\ r \in Slots /\ r \notin Q
    BY <1>0
  <2>2. OneMore(t, Q, r, S)
    BY ONLY <2>1, AddSlot, Zenon
  <2> QED
    BY <1>0, <2>2, Zenon DEF OneMore
<1>3. /\ \A g \in FileIds : t.file[g].count = Held(t, R, {g})
      /\ \A x \in PipeIds :
         /\ t.readers[x] = Held(t, R, EndFiles(t, x, "O_RDONLY"))
         /\ t.writers[x] = Held(t, R, EndFiles(t, x, "O_WRONLY"))
  BY Zenon DEF Sound, Exact
<1>4. t \in Tables /\ t.bug = FALSE /\ Sane(t)
  BY Zenon DEF Sound
<1>5. NULL \notin PipeIds
  BY DEF NULL, PipeIds
<1>6. Sane(v)
  <2>1. CASE t.file[f].count = 1
    <3>1. Unused.type # "PIPE" /\ Unused.pipe = NULL
      BY DEF Unused
    <3> QED
      BY <1>4, <2>1, <3>1, Zenon DEF Sane, Freed
  <2>2. CASE t.file[f].count # 1
    BY <1>4, <2>2, ZenonT(60) DEF Sane, Recounted
  <2> QED
    BY <2>1, <2>2, Zenon
<1>7. ASSUME NEW g \in FileIds PROVE v.file[g].count = Held(v, Q, {g})
  <2>1. /\ Held(t, Q, {g}) \in Nat
        /\ f \in {g} => Held(t, R, {g}) = Held(t, Q, {g}) + 1
        /\ f \notin {g} => Held(t, R, {g}) = Held(t, Q, {g})
    BY <1>2, Zenon
  <2>2. t.file[g].count = Held(t, R, {g})
    BY <1>3
  <2>3. v.file[g].count = IF g = f THEN t.file[g].count - 1 ELSE t.file[g].count
    <3>1. CASE t.file[f].count = 1
      BY <3>1 DEF Freed, Unused
    <3>2. CASE t.file[f].count # 1
      BY <3>2 DEF Recounted
    <3> QED
      BY <3>1, <3>2
  <2>4. Held(v, Q, {g}) = Held(t, Q, {g})
    BY <1>1, Zenon DEF Held
  <2> QED
    BY <2>1, <2>2, <2>3, <2>4
<1>8. \A x \in PipeIds : \A flags :
        Holding(v, Q, EndFiles(v, x, flags)) = Holding(t, Q, EndFiles(t, x, flags))
  <2>1. CASE t.file[f].count = 1
    <3>1. Held(t, Q, {f}) = 0
      BY <1>2, <1>3, <2>1
    <3>2. \A q \in Q : At(t, q) \notin {f}
      BY <1>0, <3>1, NoneHold, Zenon
    <3>3. \A x \in PipeIds : \A flags : \A g \in FileIds \ {f} :
            g \in EndFiles(v, x, flags) <=> g \in EndFiles(t, x, flags)
      BY <2>1, Zenon DEF EndFiles, Freed
    <3>4. \A x, flags : EndFiles(v, x, flags) \subseteq FileIds /\ EndFiles(t, x, flags) \subseteq FileIds
      BY Zenon DEF EndFiles
    <3> QED
      BY <1>1, <3>2, <3>3, <3>4 DEF Holding
  <2>2. CASE t.file[f].count # 1
    <3>1. \A x, flags : EndFiles(v, x, flags) = EndFiles(t, x, flags)
      BY <2>2, ZenonT(60) DEF EndFiles, Recounted
    <3> QED
      BY <1>1, <3>1, Zenon
  <2> QED
    BY <2>1, <2>2, Zenon
<1>9. ASSUME NEW x \in PipeIds
      PROVE  /\ v.readers[x] = Held(v, Q, EndFiles(v, x, "O_RDONLY"))
             /\ v.writers[x] = Held(v, Q, EndFiles(v, x, "O_WRONLY"))
  <2>1. \A flags : f \in EndFiles(t, x, flags) <=> t.file[f].pipe = x /\ t.file[f].flags = flags
    BY Zenon DEF EndFiles
  <2>2. \A flags :
          /\ Held(t, Q, EndFiles(t, x, flags)) \in Nat
          /\ f \in EndFiles(t, x, flags) =>
               Held(t, R, EndFiles(t, x, flags)) = Held(t, Q, EndFiles(t, x, flags)) + 1
          /\ f \notin EndFiles(t, x, flags) =>
               Held(t, R, EndFiles(t, x, flags)) = Held(t, Q, EndFiles(t, x, flags))
    BY <1>2, Zenon
  <2>3. \A flags : Held(v, Q, EndFiles(v, x, flags)) = Held(t, Q, EndFiles(t, x, flags))
    BY <1>8, Zenon DEF Held
  <2> QED
    <3>1. v.readers[x] = IF f \in EndFiles(t, x, "O_RDONLY") THEN t.readers[x] + -1 ELSE t.readers[x]
      BY <2>1, Zenon DEF Moved
    <3>2. v.writers[x] = IF f \in EndFiles(t, x, "O_WRONLY") THEN t.writers[x] + -1 ELSE t.writers[x]
      BY <2>1, Zenon DEF Moved
    <3> QED
      BY <1>3, <2>2, <2>3, <3>1, <3>2
<1>10. Exact(v, Q)
  BY <1>7, <1>9, Zenon DEF Exact
<1> QED
  BY <1>4, <1>6, <1>10, Zenon DEF Sound, Q

-----------------------------------------------------------------------------
(* The operations on one descriptor *)

\* Descriptor fd of p holds f, and all others what they held.
Points(t, u, p, fd, f) ==
    \A q \in Procs, n \in Fds : u.files[q][n] = IF q = p /\ n = fd THEN f ELSE t.files[q][n]

\* The slots other than that one hold what they held.
LEMMA PointsIn ==
    ASSUME NEW t, NEW u, NEW p \in Procs, NEW fd \in Fds, NEW f, Points(t, u, p, fd, f)
    PROVE  SameIn(t, u, Slots \ {<<p, fd>>}) /\ At(u, <<p, fd>>) = f /\ <<p, fd>> \in Slots
<1>1. ASSUME NEW r \in Slots \ {<<p, fd>>} PROVE At(u, r) = At(t, r)
  <2>1. PICK q \in Procs, n \in Fds : r = <<q, n>>
    BY DEF Slots
  <2>2. ~ (q = p /\ n = fd)
    BY <1>1, <2>1
  <2>3. r[1] = q /\ r[2] = n
    BY <2>1
  <2> QED
    BY <2>2, <2>3, Zenon DEF Points, At
<1>2. At(u, <<p, fd>>) = f
  BY DEF At, Points
<1>3. <<p, fd>> \in Slots
  BY DEF Slots
<1> QED
  BY <1>1, <1>2, <1>3, Zenon DEF SameIn

\* The slots but one.
LEMMA Others ==
    ASSUME NEW r \in Slots
    PROVE  (Slots \ {r}) \in SUBSET Slots /\ r \notin Slots \ {r} /\ (Slots \ {r}) \cup {r} = Slots
OBVIOUS

\* An empty descriptor comes to hold a file that is counted up (dup).
LEMMA DupSound ==
    ASSUME NEW t, NEW v \in Tables, NEW f \in FileIds, NEW p \in Procs, NEW fd \in Fds,
           Sound(t, Slots), t.files[p][fd] = NULL, v.bug = t.bug, Points(t, v, p, fd, f),
           Recounted(t, v, f, t.file[f].count + 1), Moved(t, v, f, 1)
    PROVE  Sound(v, Slots)
<1> DEFINE r == <<p, fd>>
           R == Slots \ {r}
<1>1. SameIn(t, v, R) /\ At(v, r) = f /\ r \in Slots
  BY PointsIn, Zenon
<1>2. At(t, r) = NULL
  BY DEF At
<1>3. R \in SUBSET Slots /\ r \notin R /\ R \cup {r} = Slots
  BY <1>1, Others, Zenon
<1>4. Slots \in SUBSET Slots
  OBVIOUS
<1>5. Sound(t, R)
  BY <1>2, <1>4, NullSlot, Zenon
<1> HIDE DEF R, r
<1>6. r \in Slots \ R
  BY <1>1, <1>3
<1> QED
  BY <1>1, <1>3, <1>5, <1>6, CountupSound, ZenonT(30)

\* A descriptor is emptied and its file released (process_close, process_exit).
LEMMA DropSound ==
    ASSUME NEW t, NEW v \in Tables, NEW f \in FileIds, NEW p \in Procs, NEW fd \in Fds,
           Sound(t, Slots), t.files[p][fd] = f, v.bug = t.bug, Points(t, v, p, fd, NULL),
           IF t.file[f].count = 1 THEN Freed(t, v, f) ELSE Recounted(t, v, f, t.file[f].count - 1),
           Moved(t, v, f, -1)
    PROVE  Sound(v, Slots)
<1> DEFINE r == <<p, fd>>
           R == Slots \ {r}
<1>1. SameIn(t, v, R) /\ At(v, r) = NULL /\ r \in Slots
  BY PointsIn, Zenon
<1>2. At(t, r) = f
  BY DEF At
<1>3. R \in SUBSET Slots /\ r \notin R /\ R \cup {r} = Slots
  BY <1>1, Others, Zenon
<1>4. Slots \in SUBSET Slots
  OBVIOUS
<1>5. Sound(v, R)
  BY <1>1, <1>2, <1>4, ReleaseSound, ZenonT(30)
<1> HIDE DEF R, r
<1> QED
  BY <1>1, <1>3, <1>5, NullSlot, Zenon

\* What a step does to the files of a process other than through counts.
Bits(t, u, p, fd, on) ==
    \A q \in Procs : u.close_on_exec[q] =
        IF q # p THEN t.close_on_exec[q]
        ELSE IF on THEN t.close_on_exec[q] \cup {fd} ELSE t.close_on_exec[q] \ {fd}

\* process_close of an open descriptor.
LEMMA CloseSound ==
    ASSUME NEW t, Sound(t, Slots), NEW p \in Procs, NEW fd \in Fds, t.files[p][fd] # NULL
    PROVE  LET u == process_close(t, p, fd)
           IN  Sound(u, Slots) /\ Points(t, u, p, fd, NULL) /\ Bits(t, u, p, fd, FALSE)
<1> DEFINE f == t.files[p][fd]
           a == release_file(t, f)
           b == set_fd(a, p, fd, NULL)
           u == set_cloexec(b, p, fd, FALSE)
<1>1. t \in Tables /\ t.bug = FALSE /\ Sane(t)
  BY Zenon DEF Sound
<1>2. f \in FileIds
  BY <1>1, SMT DEF Tables
<1>3. /\ t.file[f].count # 0
      /\ \A x \in PipeIds : t.file[f].pipe = x =>
           /\ t.file[f].flags = "O_RDONLY" => t.readers[x] # 0
           /\ t.file[f].flags = "O_WRONLY" => t.writers[x] # 0
  <2>1. Slots \in SUBSET Slots /\ <<p, fd>> \in Slots /\ At(t, <<p, fd>>) = f
    BY DEF Slots, At
  <2> HIDE DEF f
  <2> QED BY <1>2, <2>1, ReleaseReady, Zenon
<1> HIDE DEF f
<1>4. /\ a \in Tables /\ a.bug = t.bug /\ a.files = t.files /\ a.close_on_exec = t.close_on_exec
      /\ IF t.file[f].count = 1 THEN Freed(t, a, f) ELSE Recounted(t, a, f, t.file[f].count - 1)
      /\ Moved(t, a, f, -1)
  BY <1>1, <1>2, <1>3, ReleaseFields, ZenonT(30)
<1> HIDE DEF a
<1>5. OnlyFd(a, b, p, fd, NULL)
  BY <1>4, SetFdFields, Zenon
<1> HIDE DEF b
<1>6. OnlyBits(b, u, p, fd, FALSE)
  BY <1>5, CloexecFields, Zenon DEF OnlyFd
<1>7. u = process_close(t, p, fd)
  BY DEF process_close, u, b, a, f
<1> HIDE DEF u
<1>8. /\ u \in Tables /\ u.bug = t.bug /\ u.file = a.file /\ u.readers = a.readers /\ u.writers = a.writers
      /\ Points(t, u, p, fd, NULL) /\ Bits(t, u, p, fd, FALSE)
  <2>1. /\ u \in Tables /\ u.bug = t.bug /\ u.file = a.file
        /\ u.readers = a.readers /\ u.writers = a.writers
        /\ u.files = b.files /\ b.close_on_exec = t.close_on_exec
    BY <1>4, <1>5, <1>6, Zenon DEF OnlyFd, OnlyBits
  <2>2. Points(a, b, p, fd, NULL)
    BY <1>5, Zenon DEF OnlyFd, Points
  <2>3. Points(t, u, p, fd, NULL)
    BY <1>4, <2>1, <2>2, ZenonT(60) DEF Points
  <2>4. Bits(b, u, p, fd, FALSE)
    BY <1>6, Zenon DEF OnlyBits, Bits
  <2>5. Bits(t, u, p, fd, FALSE)
    BY <2>1, <2>4, Zenon DEF Bits
  <2> QED
    BY <2>1, <2>3, <2>5, Zenon
<1>9. IF t.file[f].count = 1 THEN Freed(t, u, f) ELSE Recounted(t, u, f, t.file[f].count - 1)
  BY <1>4, <1>8, ZenonT(60) DEF Freed, Recounted
<1>10. Moved(t, u, f, -1)
  BY <1>4, <1>8, ZenonT(60) DEF Moved
<1>11. t.files[p][fd] = f
  BY DEF f
<1>12. Sound(u, Slots)
  BY <1>1, <1>2, <1>8, <1>9, <1>10, <1>11, DropSound, ZenonT(30)
<1> QED
  BY <1>7, <1>8, <1>12, Zenon

\* What replaces a file record that no slot holds or that is no pipe's: the
\* counts stay exact if the new record is of the same count and of no pipe.
LEMMA RetypeSound ==
    ASSUME NEW t, NEW u \in Tables, NEW f \in FileIds, Sound(t, Slots), SameIn(t, u, Slots), u.bug = t.bug,
           u.readers = t.readers, u.writers = t.writers,
           \A g \in FileIds \ {f} : u.file[g] = t.file[g],
           t.file[f].pipe = NULL, u.file[f].pipe = NULL, u.file[f].type # "PIPE",
           u.file[f].count = t.file[f].count
    PROVE  Sound(u, Slots)
<1>1. \A S : Held(u, Slots, S) = Held(t, Slots, S)
  BY Zenon DEF Holding, SameIn, Held
<1>2. \A x \in PipeIds : x # NULL
  BY DEF PipeIds, NULL
<1>3. \A x \in PipeIds : \A flags : EndFiles(u, x, flags) = EndFiles(t, x, flags)
  BY <1>2, ZenonT(60) DEF EndFiles
<1>4. \A g \in FileIds : u.file[g].count = t.file[g].count
  BY Zenon
<1>5. Sane(u)
  BY Zenon DEF Sound, Sane
<1>6. Exact(u, Slots)
  BY <1>1, <1>3, <1>4, ZenonT(60) DEF Sound, Exact
<1> QED
  BY <1>5, <1>6, Zenon DEF Sound

\* alloc_file: what is free, and what the tables are afterwards.
Opened(t, u, p, fd, f) ==
    /\ fd \in Fds /\ f \in FileIds
    /\ t.files[p][fd] = NULL /\ t.file[f].count = 0
    /\ u.close_on_exec = t.close_on_exec
    /\ Points(t, u, p, fd, f)
    /\ u.file[f].type = "UNUSED" /\ u.file[f].pipe = NULL /\ u.file[f].count = 1
    /\ \A g \in FileIds \ {f} : u.file[g] = t.file[g]
    /\ u.readers = t.readers /\ u.writers = t.writers

\* process_file's new file is that.
LEMMA AllocFields ==
    ASSUME NEW t \in Tables, NEW p \in Procs, FreeFds(t, p) # {}, FreeFiles(t) # {}
    PROVE  LET u == alloc_file(t, p)
           IN  /\ u \in Tables /\ u.bug = t.bug
               /\ Opened(t, u, p, alloc_fd(t, p), Min(FreeFiles(t)))
               /\ u.files[p][alloc_fd(t, p)] = Min(FreeFiles(t))
<1> DEFINE f == Min(FreeFiles(t))
           fd == alloc_fd(t, p)
           e == [Unused EXCEPT !.count = 1]
           u == alloc_file(t, p)
<1>1. f \in FreeFiles(t) /\ f \in FileIds /\ t.file[f].count = 0
  <2>1. FreeFiles(t) \subseteq Nat
    BY FilesAssumption DEF FreeFiles, FileIds
  <2>2. f \in FreeFiles(t)
    BY <2>1, MinIn, Zenon
  <2> QED
    BY <2>2, Zenon DEF FreeFiles
<1>2. fd \in FreeFds(t, p) /\ fd \in Fds /\ t.files[p][fd] = NULL
  <2>1. FreeFds(t, p) \subseteq Nat
    BY FilesAssumption DEF FreeFds, Fds
  <2>2. fd \in FreeFds(t, p)
    BY <2>1, MinIn, Zenon DEF alloc_fd
  <2> QED
    BY <2>2, Zenon DEF FreeFds
<1>3. /\ e.type = "UNUSED" /\ e.flags = "none" /\ e.pipe = NULL /\ e.count = 1
      /\ e \in FileType
  <2>1. e.type = "UNUSED" /\ e.flags = "none" /\ e.pipe = NULL /\ e.count = 1
    BY Zenon DEF Unused
  <2>2. 1 \in Nat /\ 0 \in Nat
    OBVIOUS
  <2>3. e \in FileType
    BY <2>2, Zenon DEF Unused, FileType, NULL
  <2> QED
    BY <2>1, <2>3, Zenon
<1> HIDE DEF f, fd, e
<1>4. u = [t EXCEPT !.file[f] = e, !.files[p][fd] = f]
  BY Zenon DEF alloc_file, u, f, fd, e
<1> DEFINE v == [t EXCEPT !.file[f] = e]
<1>5. u = set_fd(v, p, fd, f)
  BY <1>4, Zenon DEF set_fd
<1>6. OnlyFile(t, v, f, e)
  BY <1>1, <1>3, FileFields, Zenon
<1> HIDE DEF v, u
<1>7. OnlyFd(v, u, p, fd, f)
  BY <1>1, <1>2, <1>5, <1>6, SetFdFields, Zenon DEF OnlyFile
<1>8. /\ u.file[f] = e /\ \A g \in FileIds \ {f} : u.file[g] = t.file[g]
      /\ u \in Tables /\ u.bug = t.bug /\ u.close_on_exec = t.close_on_exec
      /\ u.readers = t.readers /\ u.writers = t.writers
      /\ Points(t, u, p, fd, f)
  <2>1. v.file[f] = e /\ \A g \in FileIds \ {f} : v.file[g] = t.file[g]
    BY <1>1, <1>6, Zenon DEF Tables, OnlyFile
  <2>2. Points(t, u, p, fd, f)
    BY <1>6, <1>7, ZenonT(60) DEF Points, OnlyFile, OnlyFd
  <2> QED
    BY <1>6, <1>7, <2>1, <2>2, Zenon DEF OnlyFile, OnlyFd
<1>9. u.files[p][fd] = f
  BY <1>2, <1>8, Zenon DEF Points
<1> QED
  BY <1>1, <1>2, <1>3, <1>8, <1>9, ZenonT(30) DEF Opened, u, f, fd

\* A new file on an empty descriptor is counted once, and by no pipe.
LEMMA AllocSound ==
    ASSUME NEW t, NEW u \in Tables, NEW p \in Procs, NEW fd, NEW f, Sound(t, Slots), u.bug = t.bug,
           Opened(t, u, p, fd, f)
    PROVE  Sound(u, Slots)
<1> DEFINE r == <<p, fd>>
           R == Slots \ {r}
<1>0. /\ fd \in Fds /\ f \in FileIds /\ Points(t, u, p, fd, f)
      /\ t.files[p][fd] = NULL /\ t.file[f].count = 0
      /\ u.file[f].type = "UNUSED" /\ u.file[f].pipe = NULL /\ u.file[f].count = 1
      /\ \A g \in FileIds \ {f} : u.file[g] = t.file[g]
      /\ u.readers = t.readers /\ u.writers = t.writers
  BY Zenon DEF Opened
<1>1. SameIn(t, u, R) /\ At(u, r) = f /\ r \in Slots
  BY <1>0, PointsIn, Zenon
<1>2. At(t, r) = NULL
  BY <1>0 DEF At
<1>3. R \in SUBSET Slots /\ r \notin R /\ R \cup {r} = Slots
  BY <1>1, Others, Zenon
<1>4. Slots \in SUBSET Slots
  OBVIOUS
<1>5. Sound(t, R)
  BY <1>2, <1>4, NullSlot, Zenon
<1> HIDE DEF R, r
<1>6. Held(t, R, {f}) = 0
  BY <1>0, <1>5, Zenon DEF Sound, Exact
<1>7. \A s \in R : At(t, s) # f
  <2>1. \A s \in R : At(t, s) \notin {f}
    BY <1>3, <1>6, NoneHold, Zenon
  <2> QED BY <2>1, Zenon
<1>8. ASSUME NEW S PROVE OneMore(u, R, r, S)
  BY <1>1, <1>3, AddSlot, Zenon
<1>9. ASSUME NEW S PROVE Held(u, R, S) = Held(t, R, S)
  BY <1>1, Zenon DEF Held, Holding, SameIn
<1>10. ASSUME NEW g \in FileIds PROVE u.file[g].count = Held(u, Slots, {g})
  <2>1. OneMore(u, R, r, {g}) /\ Held(u, R, {g}) = Held(t, R, {g})
    BY <1>8, <1>9, ZenonT(60)
  <2>2. CASE g = f
    <3>1. Held(u, Slots, {f}) = 0 + 1
      BY <1>1, <1>3, <1>6, <2>1, <2>2, ZenonT(60) DEF OneMore
    <3> QED BY <1>0, <2>2, <3>1
  <2>3. CASE g # f
    <3>1. Held(u, Slots, {g}) = Held(t, R, {g})
      BY <1>1, <1>3, <2>1, <2>3, Zenon DEF OneMore
    <3>2. t.file[g].count = Held(t, R, {g})
      BY <1>5, Zenon DEF Sound, Exact
    <3> QED BY <1>0, <2>3, <3>1, <3>2, Zenon
  <2> QED BY <2>2, <2>3, Zenon
<1>11. ASSUME NEW x \in PipeIds, NEW flags
       PROVE  Held(u, Slots, EndFiles(u, x, flags)) = Held(t, R, EndFiles(t, x, flags))
  <2>1. x # NULL
    BY DEF PipeIds, NULL
  <2>2. \A g \in FileIds : g \in EndFiles(u, x, flags) <=> g # f /\ g \in EndFiles(t, x, flags)
    BY <1>0, <2>1, Zenon DEF EndFiles
  <2>3. f \notin EndFiles(u, x, flags)
    BY <1>0, <2>2, Zenon
  <2>4. \A s \in R : At(t, s) \in EndFiles(u, x, flags) <=> At(t, s) \in EndFiles(t, x, flags)
    <3>1. EndFiles(u, x, flags) \subseteq FileIds /\ EndFiles(t, x, flags) \subseteq FileIds
      BY Zenon DEF EndFiles
    <3> QED BY <1>7, <2>2, <3>1, Zenon
  <2>5. Holding(t, R, EndFiles(u, x, flags)) = Holding(t, R, EndFiles(t, x, flags))
    BY <2>4, Zenon DEF Holding
  <2>6. OneMore(u, R, r, EndFiles(u, x, flags))
    BY <1>8, Zenon
  <2>7. Held(u, Slots, EndFiles(u, x, flags)) = Held(u, R, EndFiles(u, x, flags))
    BY <1>1, <1>3, <2>3, <2>6, ZenonT(60) DEF OneMore
  <2> QED
    BY <1>9, <2>5, <2>7, Zenon DEF Held
<1>12. ASSUME NEW x \in PipeIds
       PROVE  /\ u.readers[x] = Held(u, Slots, EndFiles(u, x, "O_RDONLY"))
              /\ u.writers[x] = Held(u, Slots, EndFiles(u, x, "O_WRONLY"))
  BY <1>0, <1>5, <1>11, Zenon DEF Sound, Exact
<1>13. Exact(u, Slots)
  BY <1>10, <1>12, Zenon DEF Exact
<1>14. Sane(u)
  BY <1>0, ZenonT(60) DEF Sound, Sane
<1> QED
  BY <1>13, <1>14, Zenon DEF Sound

\* A file record is that of an end of pipe x.
IsEnd(e, x, flags) == e.type = "PIPE" /\ e.flags = flags /\ e.pipe = x /\ e.count = 1

\* Two files, counted once each and of no pipe, are ready to be the ends of a
\* free pipe, and become them.
EndsReady(t, f, g, x) ==
    /\ f # g /\ t.readers[x] = 0 /\ t.writers[x] = 0
    /\ t.file[f].pipe = NULL /\ t.file[g].pipe = NULL /\ t.file[f].count = 1 /\ t.file[g].count = 1

\* They are the ends of pipe x.
EndsMade(t, u, f, g, x) ==
    /\ u \in Tables /\ u.bug = t.bug /\ u.files = t.files
    /\ u.readers[x] = 1 /\ u.writers[x] = 1
    /\ \A y \in PipeIds \ {x} : u.readers[y] = t.readers[y] /\ u.writers[y] = t.writers[y]
    /\ IsEnd(u.file[f], x, "O_RDONLY") /\ IsEnd(u.file[g], x, "O_WRONLY")
    /\ \A h \in FileIds \ {f, g} : u.file[h] = t.file[h]

\* Making a pipe keeps the counts.
LEMMA EndsSound ==
    ASSUME NEW t, NEW u, NEW f \in FileIds, NEW g \in FileIds, NEW x \in PipeIds,
           Sound(t, Slots), EndsReady(t, f, g, x), EndsMade(t, u, f, g, x)
    PROVE  Sound(u, Slots)
<1>a. /\ f # g /\ t.readers[x] = 0 /\ t.writers[x] = 0
      /\ t.file[f].pipe = NULL /\ t.file[g].pipe = NULL /\ t.file[f].count = 1 /\ t.file[g].count = 1
  BY Zenon DEF EndsReady
<1>b. u \in Tables /\ u.bug = t.bug /\ u.files = t.files
  BY Zenon DEF EndsMade
<1>c. /\ u.readers[x] = 1 /\ u.writers[x] = 1
      /\ \A y \in PipeIds \ {x} : u.readers[y] = t.readers[y] /\ u.writers[y] = t.writers[y]
  BY Zenon DEF EndsMade
<1>d. /\ IsEnd(u.file[f], x, "O_RDONLY") /\ IsEnd(u.file[g], x, "O_WRONLY")
      /\ \A h \in FileIds \ {f, g} : u.file[h] = t.file[h]
  BY ZenonT(60) DEF EndsMade
<1> USE <1>a, <1>b, <1>c, <1>d
<1>1. \A S : Holding(u, Slots, S) = Holding(t, Slots, S)
  BY Zenon DEF Holding, At
<1>2. Sane(u)
  <2>1. ASSUME NEW h \in FileIds \ {f, g}
        PROVE  IF u.file[h].type = "PIPE"
               THEN u.file[h].pipe \in PipeIds /\ u.file[h].flags \in {"O_RDONLY", "O_WRONLY"}
               ELSE u.file[h].pipe = NULL
    BY ZenonT(60) DEF Sound, Sane
  <2>2. \A h \in {f, g} : /\ u.file[h].type = "PIPE" /\ u.file[h].pipe \in PipeIds
                         /\ u.file[h].flags \in {"O_RDONLY", "O_WRONLY"}
    BY Zenon DEF IsEnd
  <2> QED
    BY <2>1, <2>2, ZenonT(60) DEF Sane
<1>3. \A h \in FileIds : u.file[h].count = t.file[h].count
  BY Zenon DEF IsEnd
<1>4. \A h \in FileIds : u.file[h].count = Held(u, Slots, {h})
  BY <1>1, <1>3, ZenonT(60) DEF Sound, Exact, Held
<1>5. \A y \in PipeIds : y # NULL
  BY DEF PipeIds, NULL
<1>6. ASSUME NEW y \in PipeIds, y # x, NEW flags PROVE EndFiles(u, y, flags) = EndFiles(t, y, flags)
  <2>1. ASSUME NEW h \in FileIds
        PROVE  (u.file[h].pipe = y /\ u.file[h].flags = flags)
               <=> (t.file[h].pipe = y /\ t.file[h].flags = flags)
    <3>1. CASE h \in {f, g}
      BY <1>5, <1>6, <3>1, ZenonT(60) DEF IsEnd
    <3>2. CASE h \notin {f, g}
      BY <3>2, Zenon
    <3> QED BY <3>1, <3>2, Zenon
  <2> QED
    BY <2>1, Zenon DEF EndFiles
<1>7. ASSUME NEW y \in PipeIds, y # x
      PROVE  /\ u.readers[y] = Held(u, Slots, EndFiles(u, y, "O_RDONLY"))
             /\ u.writers[y] = Held(u, Slots, EndFiles(u, y, "O_WRONLY"))
  <2>1. u.readers[y] = t.readers[y] /\ u.writers[y] = t.writers[y]
    BY <1>7, Zenon
  <2>2. /\ EndFiles(u, y, "O_RDONLY") = EndFiles(t, y, "O_RDONLY")
        /\ EndFiles(u, y, "O_WRONLY") = EndFiles(t, y, "O_WRONLY")
    BY <1>6, <1>7, Zenon
  <2>3. /\ t.readers[y] = Held(t, Slots, EndFiles(t, y, "O_RDONLY"))
        /\ t.writers[y] = Held(t, Slots, EndFiles(t, y, "O_WRONLY"))
    BY Zenon DEF Sound, Exact
  <2> QED
    BY <1>1, <2>1, <2>2, <2>3, Zenon DEF Held
<1>8. ASSUME NEW flags, NEW h \in FileIds, NEW other \in FileIds, f # g,
             {h, other} = {f, g}, h # other,
             IsEnd(u.file[h], x, flags), u.file[other].flags # flags,
             Held(t, Slots, EndFiles(t, x, flags)) = 0
      PROVE  Held(u, Slots, EndFiles(u, x, flags)) = u.file[h].count
  <2>1. \A e \in FileIds : e \in EndFiles(u, x, flags) <=> e = h \/ e \in EndFiles(t, x, flags)
    <3> SUFFICES ASSUME NEW e \in FileIds
                 PROVE  e \in EndFiles(u, x, flags) <=> e = h \/ e \in EndFiles(t, x, flags)
      OBVIOUS
    <3>1. CASE e = h
      BY <1>8, <3>1, Zenon DEF EndFiles, IsEnd
    <3>2. CASE e = other
      <4>1. t.file[e].pipe = NULL
        BY <1>8, <3>2, Zenon
      <4> QED
        BY <1>5, <1>8, <3>2, <4>1, ZenonT(60) DEF EndFiles
    <3>3. CASE e \notin {f, g}
      <4>1. e # h /\ u.file[e] = t.file[e]
        BY <1>8, <3>3, ZenonT(60)
      <4> QED BY <4>1, Zenon DEF EndFiles
    <3> QED BY <1>8, <3>1, <3>2, <3>3, Zenon
  <2>2. Slots \in SUBSET Slots
    OBVIOUS
  <2>3. \A r \in Slots : At(t, r) \notin EndFiles(t, x, flags)
    BY <1>8, <2>2, NoneHold, Zenon
  <2>4. \A S : \A e \in EndFiles(S, x, flags) : e \in FileIds
    BY Zenon DEF EndFiles
  <2>5. ASSUME NEW r \in Slots PROVE At(t, r) \in EndFiles(u, x, flags) <=> At(t, r) \in {h}
    BY <2>1, <2>3, <2>4, Zenon
  <2>6. Holding(t, Slots, EndFiles(u, x, flags)) = Holding(t, Slots, {h})
    BY <2>5, Zenon DEF Holding
  <2> QED
    BY <1>1, <1>4, <2>6, ZenonT(60) DEF Held
<1>9. u.readers[x] = Held(u, Slots, EndFiles(u, x, "O_RDONLY"))
  <2>1. Held(t, Slots, EndFiles(t, x, "O_RDONLY")) = 0
    BY ZenonT(60) DEF Sound, Exact
  <2>2. u.file[g].flags # "O_RDONLY"
    BY DEF IsEnd
  <2>3. {f, g} = {f, g}
    OBVIOUS
  <2> QED
    BY <1>8, <2>1, <2>2, <2>3, ZenonT(60) DEF IsEnd
<1>10. u.writers[x] = Held(u, Slots, EndFiles(u, x, "O_WRONLY"))
  <2>1. Held(t, Slots, EndFiles(t, x, "O_WRONLY")) = 0
    BY ZenonT(60) DEF Sound, Exact
  <2>2. u.file[f].flags # "O_WRONLY"
    BY DEF IsEnd
  <2>3. {g, f} = {f, g}
    BY Zenon
  <2> QED
    BY <1>8, <2>1, <2>2, <2>3, ZenonT(60) DEF IsEnd
<1> QED
  BY <1>2, <1>4, <1>7, <1>9, <1>10, Zenon DEF Sound, Exact

-----------------------------------------------------------------------------
(* The calls *)

\* A process marks only open descriptors close-on-exec.
BitsOpen(t, p) == \A fd \in t.close_on_exec[p] : t.files[p][fd] # NULL

\* The descriptors of every other process stay as they are.
OthersKept(t, u, p) ==
    \A q \in Procs \ {p} : /\ \A n \in Fds : u.files[q][n] = t.files[q][n]
                           /\ u.close_on_exec[q] = t.close_on_exec[q]

\* What every call of a process keeps.
Kept(t, u, p) == Sound(u, Slots) /\ OthersKept(t, u, p) /\ (BitsOpen(t, p) => BitsOpen(u, p))

\* Two calls of one process, one after the other.
LEMMA KeptTwice ==
    ASSUME NEW t, NEW u, NEW v, NEW p \in Procs, Kept(t, u, p), Kept(u, v, p)
    PROVE  Kept(t, v, p)
<1>1. OthersKept(t, v, p)
  <2>1. OthersKept(t, u, p) /\ OthersKept(u, v, p)
    BY Zenon DEF Kept
  <2> SUFFICES ASSUME NEW q \in Procs \ {p}
               PROVE  /\ \A n \in Fds : v.files[q][n] = t.files[q][n]
                      /\ v.close_on_exec[q] = t.close_on_exec[q]
    BY Zenon DEF OthersKept
  <2>2. /\ \A n \in Fds : u.files[q][n] = t.files[q][n]
        /\ u.close_on_exec[q] = t.close_on_exec[q]
    BY <2>1, Zenon DEF OthersKept
  <2>3. /\ \A n \in Fds : v.files[q][n] = u.files[q][n]
        /\ v.close_on_exec[q] = u.close_on_exec[q]
    BY <2>1, Zenon DEF OthersKept
  <2> QED BY <2>2, <2>3, Zenon
<1> QED
  BY <1>1, Zenon DEF Kept

\* One descriptor comes to hold f; its bit may change if f is a file, and must
\* be cleared if there is none.
LEMMA PointsKept ==
    ASSUME NEW t, NEW u, NEW p \in Procs, NEW fd \in Fds, NEW f, NEW on \in BOOLEAN,
           t \in Tables, Sound(u, Slots), Points(t, u, p, fd, f),
           \/ f # NULL /\ u.close_on_exec = t.close_on_exec
           \/ f # NULL /\ Bits(t, u, p, fd, on)
           \/ Bits(t, u, p, fd, FALSE)
    PROVE  Kept(t, u, p)
<1>1. ASSUME NEW q \in Procs \ {p} PROVE \A n \in Fds : u.files[q][n] = t.files[q][n]
  BY <1>1, Zenon DEF Points
<1>2. ASSUME NEW q \in Procs \ {p} PROVE u.close_on_exec[q] = t.close_on_exec[q]
  BY <1>2, Zenon DEF Bits
<1>3. ASSUME BitsOpen(t, p), NEW n \in u.close_on_exec[p] PROVE u.files[p][n] # NULL
  <2>1. t.close_on_exec[p] \subseteq Fds
    BY Zenon DEF Tables
  <2>2. n \in Fds /\ (n # fd => n \in t.close_on_exec[p]) /\ (n = fd => f # NULL)
    <3>1. CASE f # NULL /\ u.close_on_exec = t.close_on_exec
      BY <1>3, <2>1, <3>1, Zenon
    <3>2. CASE f # NULL /\ Bits(t, u, p, fd, on)
      <4>1. n \in t.close_on_exec[p] \cup {fd}
        BY <1>3, <3>2, Zenon DEF Bits
      <4> QED BY <2>1, <3>2, <4>1, Zenon
    <3>3. CASE Bits(t, u, p, fd, FALSE)
      <4>1. u.close_on_exec[p] = t.close_on_exec[p] \ {fd}
        BY <3>3, Zenon DEF Bits
      <4> QED BY <1>3, <2>1, <4>1, Zenon
    <3> QED BY <3>1, <3>2, <3>3, Zenon
  <2>3. CASE n = fd
    BY <2>2, <2>3, Zenon DEF Points
  <2>4. CASE n # fd
    BY <1>3, <2>2, <2>4, Zenon DEF Points, BitsOpen
  <2> QED BY <2>3, <2>4, Zenon
<1> QED
  BY <1>1, <1>2, <1>3, Zenon DEF Kept, OthersKept, BitsOpen

\* A call that moves no descriptor.
LEMMA SameKept ==
    ASSUME NEW t, NEW u, NEW p \in Procs, Sound(u, Slots),
           u.files = t.files, u.close_on_exec = t.close_on_exec
    PROVE  Kept(t, u, p)
BY Zenon DEF Kept, OthersKept, BitsOpen

\* Marking an open descriptor, or clearing a mark.
LEMMA MarkKept ==
    ASSUME NEW t, NEW p \in Procs, NEW fd \in Fds, NEW on \in BOOLEAN, Sound(t, Slots),
           t.files[p][fd] # NULL
    PROVE  Kept(t, set_cloexec(t, p, fd, on), p)
<1> DEFINE u == set_cloexec(t, p, fd, on)
<1>1. t \in Tables
  BY Zenon DEF Sound
<1>2. OnlyBits(t, u, p, fd, on)
  BY <1>1, CloexecFields, Zenon
<1> HIDE DEF u
<1>3. Slots \in SUBSET Slots
  OBVIOUS
<1>4. SameIn(t, u, Slots)
  BY <1>2, Zenon DEF OnlyBits, SameIn, At
<1>5. Sound(u, Slots)
  BY <1>2, <1>3, <1>4, SameSound, Zenon DEF OnlyBits
<1>6. Points(t, u, p, fd, t.files[p][fd])
  BY <1>2, Zenon DEF OnlyBits, Points
<1>7. Bits(t, u, p, fd, on)
  BY <1>2, Zenon DEF OnlyBits, Bits
<1>8. Kept(t, u, p)
  BY <1>1, <1>5, <1>6, <1>7, PointsKept, ZenonT(60)
<1> QED
  BY <1>8 DEF u

\* process_close.
LEMMA CloseKept ==
    ASSUME NEW t, NEW p \in Procs, NEW fd \in Fds, Sound(t, Slots), t.files[p][fd] # NULL
    PROVE  Kept(t, process_close(t, p, fd), p)
<1> DEFINE u == process_close(t, p, fd)
<1>1. Sound(u, Slots) /\ Points(t, u, p, fd, NULL) /\ Bits(t, u, p, fd, FALSE)
  BY CloseSound, Zenon
<1>2. t \in Tables
  BY Zenon DEF Sound
<1> HIDE DEF u
<1>3. Kept(t, u, p)
  BY <1>1, <1>2, PointsKept, Zenon
<1> QED
  BY <1>3 DEF u

\* A new descriptor with a new file.
LEMMA AllocKept ==
    ASSUME NEW t, NEW p \in Procs, Sound(t, Slots), FreeFds(t, p) # {}, FreeFiles(t) # {}
    PROVE  LET u == alloc_file(t, p)
           IN  /\ Kept(t, u, p)
               /\ Opened(t, u, p, alloc_fd(t, p), Min(FreeFiles(t)))
               /\ u.files[p][alloc_fd(t, p)] = Min(FreeFiles(t))
<1> DEFINE u == alloc_file(t, p)
           fd == alloc_fd(t, p)
           f == Min(FreeFiles(t))
<1>1. t \in Tables
  BY Zenon DEF Sound
<1>2. u \in Tables /\ u.bug = t.bug /\ Opened(t, u, p, fd, f) /\ u.files[p][fd] = f
  BY <1>1, AllocFields, Zenon
<1> HIDE DEF u, fd, f
<1>3. Sound(u, Slots)
  <2>1. Sound(t, Slots) /\ u \in Tables /\ p \in Procs /\ u.bug = t.bug /\ Opened(t, u, p, fd, f)
    BY <1>2, Zenon
  <2> QED
    BY ONLY <2>1, AllocSound, Zenon
<1>4. /\ fd \in Fds /\ f \in FileIds /\ u.close_on_exec = t.close_on_exec
      /\ Points(t, u, p, fd, f)
  BY <1>2, Zenon DEF Opened
<1>5. f # NULL
  BY <1>4 DEF FileIds, NULL
<1>6. TRUE \in BOOLEAN
  OBVIOUS
<1>7. Kept(t, u, p)
  BY <1>1, <1>3, <1>4, <1>5, <1>6, PointsKept, ZenonT(60)
<1> QED
  BY <1>2, <1>7, Zenon DEF u, fd, f

\* process_open gives the new file its type.
LEMMA RetypedKept ==
    ASSUME NEW t, NEW p \in Procs, NEW f \in FileIds, Sound(t, Slots), t.file[f].pipe = NULL
    PROVE  Kept(t, [t EXCEPT !.file[f].type = "INODE", !.file[f].flags = "O_RDWR"], p)
<1> DEFINE u == [t EXCEPT !.file[f].type = "INODE", !.file[f].flags = "O_RDWR"]
           e == [t.file[f] EXCEPT !.type = "INODE", !.flags = "O_RDWR"]
<1>1. t \in Tables /\ t.file \in [FileIds -> FileType] /\ t.file[f] \in FileType
  <2>1. t \in Tables
    BY Zenon DEF Sound
  <2>2. t.file \in [FileIds -> FileType]
    BY <2>1, Zenon DEF Tables, FileType
  <2> QED BY <2>1, <2>2, Zenon
<1>2. /\ u.bug = t.bug /\ u.files = t.files /\ u.close_on_exec = t.close_on_exec
      /\ u.readers = t.readers /\ u.writers = t.writers
  BY <1>1, Zenon DEF Tables
<1>3. u.file = [t.file EXCEPT ![f].type = "INODE", ![f].flags = "O_RDWR"]
  BY <1>1, Zenon DEF Tables
<1>4. e.type = "INODE" /\ e.pipe = t.file[f].pipe /\ e.count = t.file[f].count /\ e \in FileType
  BY <1>1, Zenon DEF FileType
<1>5. u.file[f] = e
  BY <1>1, <1>3, Zenon
<1>6. \A g \in FileIds \ {f} : u.file[g] = t.file[g]
  BY <1>1, <1>3, Zenon
<1> HIDE DEF e
<1>7. u.file \in [FileIds -> FileType]
  <2>1. u.file = [t.file EXCEPT ![f] = e]
    BY <1>1, <1>3, Zenon DEF e
  <2> QED
    BY <1>1, <1>4, <2>1, ZenonT(60)
<1>8. u \in Tables
  BY <1>1, <1>7, Zenon DEF Tables, FileType
<1> HIDE DEF u
<1>9. u.file[f].type # "PIPE"
  BY <1>4, <1>5
<1>10. SameIn(t, u, Slots)
  BY <1>2, Zenon DEF SameIn, At
<1>11. u.file[f].pipe = NULL /\ u.file[f].count = t.file[f].count
  BY <1>4, <1>5, Zenon
<1>12. Sound(u, Slots)
  BY <1>2, <1>6, <1>8, <1>9, <1>10, <1>11, RetypeSound, ZenonT(60)
<1>13. Kept(t, u, p)
  BY <1>2, <1>12, SameKept, ZenonT(60)
<1> QED
  BY <1>13 DEF u

\* process_open, whether the path resolves or not.
LEMMA OpenKept ==
    ASSUME NEW p \in Procs, NEW cloexec \in BOOLEAN, Sound(k, Slots), process_open(p, cloexec)
    PROVE  Kept(k, k', p)
<1> DEFINE t == alloc_file(k, p)
           fd == alloc_fd(k, p)
           f == t.files[p][fd]
           opened == [t EXCEPT !.file[f].type = "INODE", !.file[f].flags = "O_RDWR"]
<1>1. /\ FreeFds(k, p) # {} /\ FreeFiles(k) # {}
      /\ \/ k' = IF cloexec THEN set_cloexec(opened, p, fd, TRUE) ELSE opened
         \/ k' = process_close(t, p, fd)
  BY Zenon DEF process_open
<1>2. Kept(k, t, p) /\ Opened(k, t, p, fd, Min(FreeFiles(k))) /\ f = Min(FreeFiles(k))
  BY <1>1, AllocKept, Zenon
<1> HIDE DEF t, fd, f
<1>3. Opened(k, t, p, fd, f)
  BY <1>2, Zenon
<1>4. f \in FileIds /\ t.file[f].pipe = NULL /\ fd \in Fds /\ Sound(t, Slots)
  BY <1>2, <1>3, ZenonT(60) DEF Opened, Kept
<1>5. f # NULL /\ t.files[p][fd] = f
  BY <1>4 DEF FileIds, NULL, f
<1>6. CASE k' = process_close(t, p, fd)
  <2>1. Kept(t, process_close(t, p, fd), p)
    BY <1>4, <1>5, CloseKept, Zenon
  <2> QED
    BY <1>2, <1>6, <2>1, KeptTwice, ZenonT(60)
<1>7. Kept(t, opened, p)
  BY <1>4, RetypedKept, Zenon
<1>8. opened.files = t.files
  BY <1>4, Zenon DEF Sound, Tables
<1> HIDE DEF opened
<1>9. Kept(k, opened, p)
  BY <1>2, <1>7, KeptTwice, Zenon
<1>10. CASE k' = opened
  BY <1>9, <1>10, Zenon
<1>11. CASE k' = set_cloexec(opened, p, fd, TRUE)
  <2>1. Sound(opened, Slots) /\ opened.files[p][fd] # NULL /\ TRUE \in BOOLEAN
    BY <1>5, <1>7, <1>8, Zenon DEF Kept
  <2>2. Kept(opened, set_cloexec(opened, p, fd, TRUE), p)
    BY <1>4, <2>1, MarkKept, Zenon
  <2> QED
    BY <1>9, <1>11, <2>2, KeptTwice, ZenonT(60)
<1> QED
  BY <1>1, <1>6, <1>10, <1>11, ZenonT(60)

\* dup: an empty descriptor n comes to hold f, marked or not.
LEMMA DupKept ==
    ASSUME NEW t, NEW p \in Procs, NEW n \in Fds, NEW f \in FileIds, NEW cloexec \in BOOLEAN,
           Sound(t, Slots), t.files[p][n] = NULL
    PROVE  LET u == countup_file(t, f)
               v == IF cloexec THEN set_cloexec(u, p, n, TRUE) ELSE u
           IN  Kept(t, set_fd(v, p, n, f), p)
<1> DEFINE u == countup_file(t, f)
           v == IF cloexec THEN set_cloexec(u, p, n, TRUE) ELSE u
           w == set_fd(v, p, n, f)
<1>1. t \in Tables /\ Sane(t)
  BY Zenon DEF Sound
<1>2. /\ u \in Tables /\ u.bug = t.bug /\ u.files = t.files /\ u.close_on_exec = t.close_on_exec
      /\ Recounted(t, u, f, t.file[f].count + 1) /\ Moved(t, u, f, 1)
  BY <1>1, CountupFields, Zenon
<1> HIDE DEF u
<1>3. /\ v \in Tables /\ v.bug = u.bug /\ v.files = u.files
      /\ v.file = u.file /\ v.readers = u.readers /\ v.writers = u.writers
      /\ Bits(u, v, p, n, TRUE) \/ v.close_on_exec = u.close_on_exec
  <2>1. CASE cloexec
    <3>1. TRUE \in BOOLEAN
      OBVIOUS
    <3>2. OnlyBits(u, set_cloexec(u, p, n, TRUE), p, n, TRUE)
      BY <1>2, <3>1, CloexecFields, Zenon
    <3>3. v = set_cloexec(u, p, n, TRUE)
      BY <2>1, Zenon
    <3> HIDE DEF v
    <3> QED
      BY <3>2, <3>3, Zenon DEF OnlyBits, Bits
  <2>2. CASE ~ cloexec
    BY <1>2, <2>2, Zenon
  <2> QED BY <2>1, <2>2, Zenon
<1> HIDE DEF v
<1>4. OnlyFd(v, w, p, n, f)
  <2>1. f \in FileIds \cup {NULL}
    BY Zenon
  <2> QED BY <1>3, <2>1, SetFdFields, Zenon
<1> HIDE DEF w
<1>5. /\ w \in Tables /\ w.bug = t.bug /\ w.file = u.file
      /\ w.readers = u.readers /\ w.writers = u.writers
      /\ w.close_on_exec = v.close_on_exec
  BY <1>2, <1>3, <1>4, Zenon DEF OnlyFd
<1>6. Points(t, w, p, n, f)
  <2>1. Points(v, w, p, n, f)
    BY <1>4, Zenon DEF OnlyFd, Points
  <2>2. v.files = t.files
    BY <1>2, <1>3, Zenon
  <2> QED BY <2>1, <2>2, ZenonT(60) DEF Points
<1>7. Recounted(t, w, f, t.file[f].count + 1) /\ Moved(t, w, f, 1)
  <2>1. Recounted(t, w, f, t.file[f].count + 1)
    BY <1>2, <1>5, ZenonT(60) DEF Recounted
  <2>2. Moved(t, w, f, 1)
    BY <1>2, <1>5, ZenonT(60) DEF Moved
  <2> QED BY <2>1, <2>2, Zenon
<1>8. Sound(w, Slots)
  BY <1>5, <1>6, <1>7, DupSound, Zenon
<1>9. f # NULL
  BY DEF FileIds, NULL
<1>10. Bits(t, w, p, n, TRUE) \/ w.close_on_exec = t.close_on_exec
  BY <1>2, <1>3, <1>5, Zenon DEF Bits
<1>11. TRUE \in BOOLEAN
  OBVIOUS
<1>12. Kept(t, w, p)
  BY <1>1, <1>6, <1>8, <1>9, <1>10, <1>11, PointsKept, Zenon
<1> QED
  BY <1>12, Zenon DEF w, v, u

\* process_dup and F_DUPFD.
LEMMA DupfdKept ==
    ASSUME NEW p \in Procs, NEW fd \in Fds, NEW from \in Fds, NEW cloexec \in BOOLEAN, Sound(k, Slots),
           process_dupfd(p, fd, from, cloexec)
    PROVE  Kept(k, k', p)
<1> DEFINE free == {n \in FreeFds(k, p) : n >= from}
           n == Min(free)
           f == k.files[p][fd]
           u == countup_file(k, f)
           v == IF cloexec THEN set_cloexec(u, p, n, TRUE) ELSE u
<1>1. f # NULL /\ free # {} /\ k' = set_fd(v, p, n, f)
  BY Zenon DEF process_dupfd
<1>2. n \in Fds /\ k.files[p][n] = NULL
  <2>1. free \subseteq Nat
    BY FilesAssumption DEF FreeFds, Fds
  <2>2. n \in free
    BY <1>1, <2>1, MinIn, Zenon
  <2> HIDE DEF n
  <2> QED BY <2>2, Zenon DEF FreeFds
<1>3. f \in FileIds
  BY <1>1, SMT DEF Sound, Tables
<1> HIDE DEF free, n, f
<1>4. Kept(k, set_fd(v, p, n, f), p)
  BY <1>2, <1>3, DupKept, Zenon
<1> QED
  BY <1>1, <1>4, Zenon

\* process_dup3, which closes newfd first.
LEMMA Dup3Kept ==
    ASSUME NEW p \in Procs, NEW oldfd \in Fds, NEW newfd \in Fds, NEW cloexec \in BOOLEAN, Sound(k, Slots),
           process_dup3(p, oldfd, newfd, cloexec)
    PROVE  Kept(k, k', p)
<1> DEFINE t == IF k.files[p][newfd] # NULL THEN process_close(k, p, newfd) ELSE k
           f == k.files[p][oldfd]
           u == countup_file(t, f)
           v == IF cloexec THEN set_cloexec(u, p, newfd, TRUE) ELSE u
<1>1. f # NULL /\ k' = set_fd(v, p, newfd, f)
  BY Zenon DEF process_dup3
<1>2. f \in FileIds
  BY <1>1, SMT DEF Sound, Tables
<1>3. Kept(k, t, p) /\ t.files[p][newfd] = NULL
  <2>1. CASE k.files[p][newfd] # NULL
    <3> DEFINE c == process_close(k, p, newfd)
    <3>1. Kept(k, c, p)
      BY <2>1, CloseKept, Zenon
    <3>2. Points(k, c, p, newfd, NULL)
      BY <2>1, CloseSound, Zenon
    <3>3. t = c
      BY <2>1, Zenon
    <3> HIDE DEF c, t
    <3>4. c.files[p][newfd] = NULL
      BY <3>2, Zenon DEF Points
    <3> QED BY <3>1, <3>3, <3>4, ZenonT(60)
  <2>2. CASE k.files[p][newfd] = NULL
    <3>1. t = k
      BY <2>2, Zenon
    <3>2. Kept(k, k, p)
      BY SameKept, Zenon
    <3> QED BY <2>2, <3>1, <3>2, Zenon
  <2> QED BY <2>1, <2>2, Zenon
<1> HIDE DEF t, f
<1>4. Sound(t, Slots)
  BY <1>3, Zenon DEF Kept
<1>5. Kept(t, set_fd(v, p, newfd, f), p)
  BY <1>2, <1>3, <1>4, DupKept, ZenonT(60)
<1> QED
  BY <1>1, <1>3, <1>5, KeptTwice, ZenonT(60)

\* The files process_pipe2 allocates become the two ends.
LEMMA EndsKept ==
    ASSUME NEW t, NEW p \in Procs, NEW f \in FileIds, NEW g \in FileIds, NEW x \in PipeIds,
           Sound(t, Slots), EndsReady(t, f, g, x)
    PROVE  LET end(flags) == [type |-> "PIPE", flags |-> flags, pipe |-> x, count |-> 1]
           IN  Kept(t, [t EXCEPT !.readers[x] = 1, !.writers[x] = 1,
                                 !.file[f] = end("O_RDONLY"), !.file[g] = end("O_WRONLY")], p)
<1> DEFINE re == [type |-> "PIPE", flags |-> "O_RDONLY", pipe |-> x, count |-> 1]
           we == [type |-> "PIPE", flags |-> "O_WRONLY", pipe |-> x, count |-> 1]
           a == [t EXCEPT !.readers[x] = 1]
           b == [a EXCEPT !.writers[x] = 1]
           c == [b EXCEPT !.file[f] = re]
           u == [c EXCEPT !.file[g] = we]
<1>1. t \in Tables
  BY Zenon DEF Sound
<1>2. 1 \in Nat
  OBVIOUS
<1>3. re \in FileType /\ we \in FileType /\ IsEnd(re, x, "O_RDONLY") /\ IsEnd(we, x, "O_WRONLY")
  BY DEF FileType, IsEnd
<1>4. u = [t EXCEPT !.readers[x] = 1, !.writers[x] = 1, !.file[f] = re, !.file[g] = we]
  BY Zenon
<1> HIDE DEF re, we
<1>5. OnlyReaders(t, a, x, 1)
  BY <1>1, <1>2, ReadersFields, Zenon
<1> HIDE DEF a
<1>6. OnlyWriters(a, b, x, 1)
  BY <1>2, <1>5, WritersFields, Zenon DEF OnlyReaders
<1> HIDE DEF b
<1>7. OnlyFile(b, c, f, re)
  BY <1>3, <1>6, FileFields, Zenon DEF OnlyWriters
<1> HIDE DEF c
<1>8. OnlyFile(c, u, g, we)
  <2>1. c \in Tables
    BY <1>7, Zenon DEF OnlyFile
  <2> QED BY <1>3, <2>1, FileFields, ZenonT(60)
<1> HIDE DEF u
<1>9. /\ u \in Tables /\ u.bug = t.bug /\ u.files = t.files /\ u.close_on_exec = t.close_on_exec
      /\ u.readers = a.readers /\ u.writers = b.writers /\ a.writers = t.writers
      /\ b.file = t.file
  BY <1>5, <1>6, <1>7, <1>8, ZenonT(60) DEF OnlyReaders, OnlyWriters, OnlyFile
<1>10. u.readers[x] = 1 /\ \A y \in PipeIds \ {x} : u.readers[y] = t.readers[y]
  <2>1. t.readers \in [PipeIds -> Nat]
    BY <1>1, Zenon DEF Tables
  <2>2. u.readers = [t.readers EXCEPT ![x] = 1]
    BY <1>5, <1>9, Zenon DEF OnlyReaders
  <2> QED BY <2>1, <2>2, Zenon
<1>11. u.writers[x] = 1 /\ \A y \in PipeIds \ {x} : u.writers[y] = t.writers[y]
  <2>1. t.writers \in [PipeIds -> Nat]
    BY <1>1, Zenon DEF Tables
  <2>2. u.writers = [t.writers EXCEPT ![x] = 1]
    BY <1>6, <1>9, Zenon DEF OnlyWriters
  <2> QED BY <2>1, <2>2, Zenon
<1>12. u.file[g] = we /\ u.file[f] = re /\ \A h \in FileIds \ {f, g} : u.file[h] = t.file[h]
  <2>1. c.file[f] = re /\ \A h \in FileIds \ {f} : c.file[h] = t.file[h]
    <3>1. DOMAIN t.file = FileIds
      BY <1>1, Zenon DEF Tables
    <3>2. c.file = [t.file EXCEPT ![f] = re]
      BY <1>7, <1>9, Zenon DEF OnlyFile
    <3> QED BY <3>1, <3>2, Zenon
  <2>2. u.file[g] = we /\ \A h \in FileIds \ {g} : u.file[h] = c.file[h]
    <3>1. DOMAIN c.file = FileIds
      BY <1>7, Zenon DEF OnlyFile, Tables
    <3>2. u.file = [c.file EXCEPT ![g] = we]
      BY <1>8, Zenon DEF OnlyFile
    <3> QED BY <3>1, <3>2, Zenon
  <2> QED BY <2>1, <2>2, Zenon DEF EndsReady
<1>13. Sound(u, Slots)
  <2>1. EndsMade(t, u, f, g, x)
    BY <1>3, <1>9, <1>10, <1>11, <1>12, ZenonT(60) DEF EndsMade
  <2> QED BY <2>1, EndsSound, Zenon
<1>14. Kept(t, u, p)
  BY <1>9, <1>13, SameKept, ZenonT(60)
<1> QED
  BY <1>4, <1>14, Zenon DEF re, we

\* process_pipe2, with EMFILE on the second descriptor too.
LEMMA Pipe2Kept ==
    ASSUME NEW p \in Procs, NEW cloexec \in BOOLEAN, Sound(k, Slots), process_pipe2(p, cloexec)
    PROVE  Kept(k, k', p)
<1> DEFINE rfd == alloc_fd(k, p)
           t == alloc_file(k, p)
           wfd == alloc_fd(t, p)
           u == alloc_file(t, p)
           x == Min(FreePipes(k))
           f == Min(FreeFiles(k))
           g == Min(FreeFiles(t))
           end(flags) == [type |-> "PIPE", flags |-> flags, pipe |-> x, count |-> 1]
           made == [u EXCEPT !.readers[x] = 1, !.writers[x] = 1,
                             !.file[u.files[p][rfd]] = end("O_RDONLY"),
                             !.file[u.files[p][wfd]] = end("O_WRONLY")]
<1>1. /\ FreeFds(k, p) # {} /\ Cardinality(FreeFiles(k)) >= 2 /\ FreePipes(k) # {}
      /\ IF FreeFds(t, p) = {} THEN k' = process_close(t, p, rfd)
         ELSE k' = IF cloexec THEN set_cloexec(set_cloexec(made, p, rfd, TRUE), p, wfd, TRUE) ELSE made
  BY ZenonT(60) DEF process_pipe2
<1>2. \A h : \E e \in FreeFiles(k) : e # h
  <2> SUFFICES ASSUME NEW h, ~ \E e \in FreeFiles(k) : e # h PROVE FALSE
    OBVIOUS
  <2>1. FreeFiles(k) \subseteq {h}
    BY Zenon
  <2>2. IsFiniteSet({h}) /\ Cardinality({h}) = 1
    BY FS_Singleton, Zenon
  <2>3. Cardinality(FreeFiles(k)) <= Cardinality({h}) /\ IsFiniteSet(FreeFiles(k))
    BY <2>1, <2>2, FS_Subset, ZenonT(60)
  <2>4. Cardinality(FreeFiles(k)) \in Nat
    BY <2>3, FS_CardinalityType, Zenon
  <2> QED
    BY <1>1, <2>2, <2>3, <2>4, SMTT(60)
<1>3. FreeFiles(k) # {}
  BY <1>2, ZenonT(60)
<1>4. Kept(k, t, p) /\ Opened(k, t, p, rfd, f) /\ t.files[p][rfd] = f
  BY <1>1, <1>3, AllocKept, Zenon
<1>5. x \in PipeIds /\ k.readers[x] = 0 /\ k.writers[x] = 0
  <2>1. FreePipes(k) \subseteq Nat
    BY FilesAssumption DEF FreePipes, PipeIds
  <2>2. x \in FreePipes(k)
    BY <1>1, <2>1, MinIn, Zenon
  <2> HIDE DEF x
  <2> QED BY <2>2, Zenon DEF FreePipes
<1> HIDE DEF rfd, t, f, x
<1>6. /\ Sound(t, Slots) /\ rfd \in Fds /\ f \in FileIds
      /\ t.file[f].pipe = NULL /\ t.file[f].count = 1
      /\ t.readers = k.readers /\ t.writers = k.writers
      /\ \A h \in FileIds \ {f} : t.file[h] = k.file[h]
  BY <1>4, Zenon DEF Kept, Opened
<1>7. f # NULL
  BY <1>6 DEF FileIds, NULL
<1>8. CASE FreeFds(t, p) = {}
  <2>1. Kept(t, process_close(t, p, rfd), p)
    BY <1>4, <1>6, <1>7, CloseKept, ZenonT(60)
  <2> QED
    BY <1>1, <1>4, <1>8, <2>1, KeptTwice, ZenonT(60)
<1>9. CASE FreeFds(t, p) # {}
  <2>1. FreeFiles(t) # {}
    <3>1. PICK e \in FreeFiles(k) : e # f
      BY <1>2
    <3>2. e \in FileIds /\ k.file[e].count = 0
      BY <3>1, Zenon DEF FreeFiles
    <3>3. e \in FreeFiles(t)
      BY <1>6, <3>1, <3>2, ZenonT(60) DEF FreeFiles
    <3> QED BY <3>3, ZenonT(60)
  <2>2. Kept(t, u, p) /\ Opened(t, u, p, wfd, g) /\ u.files[p][wfd] = g
    BY <1>6, <1>9, <2>1, AllocKept, ZenonT(60)
  <2> HIDE DEF u, wfd, g
  <2>3. /\ Sound(u, Slots) /\ wfd \in Fds /\ g \in FileIds /\ t.file[g].count = 0
        /\ u.file[g].pipe = NULL /\ u.file[g].count = 1 /\ t.files[p][wfd] = NULL
        /\ u.readers = t.readers /\ u.writers = t.writers
        /\ \A h \in FileIds \ {g} : u.file[h] = t.file[h]
    BY <2>2, ZenonT(60) DEF Kept, Opened
  <2>4. f # g /\ rfd # wfd
    BY <1>4, <1>6, <1>7, <2>3, SMTT(60)
  <2>5. u.files[p][rfd] = f
    BY <1>4, <1>6, <2>2, <2>4, ZenonT(60) DEF Opened, Points
  <2>6. EndsReady(u, f, g, x)
    <3>1. u.file[f] = t.file[f]
      BY <1>6, <2>3, <2>4, ZenonT(60)
    <3> QED
      BY <1>5, <1>6, <2>3, <2>4, <3>1, ZenonT(60) DEF EndsReady
  <2> DEFINE v == [u EXCEPT !.readers[x] = 1, !.writers[x] = 1,
                            !.file[f] = end("O_RDONLY"), !.file[g] = end("O_WRONLY")]
  <2>7. Kept(u, v, p)
    BY <1>5, <1>6, <2>3, <2>6, EndsKept, ZenonT(60)
  <2>8. made = v
    BY <2>2, <2>5, ZenonT(60)
  <2>9. v.files = u.files
    BY <2>3, Zenon DEF Sound, Tables
  <2> HIDE DEF v, made
  <2>10. Kept(k, v, p)
    <3>1. Kept(k, u, p)
      BY <1>4, <2>2, KeptTwice, ZenonT(60)
    <3> QED BY <2>7, <3>1, KeptTwice, ZenonT(60)
  <2>11. CASE ~ cloexec
    BY <1>1, <1>9, <2>8, <2>10, <2>11, ZenonT(60)
  <2>12. CASE cloexec
    <3> DEFINE w == set_cloexec(v, p, rfd, TRUE)
               z == set_cloexec(w, p, wfd, TRUE)
    <3>1. TRUE \in BOOLEAN
      OBVIOUS
    <3>2. g # NULL
      BY <2>3 DEF FileIds, NULL
    <3>3. v.files[p][rfd] # NULL /\ v.files[p][wfd] # NULL /\ Sound(v, Slots)
      BY <1>7, <2>2, <2>5, <2>7, <2>9, <3>2, ZenonT(60) DEF Kept
    <3>4. Kept(v, w, p)
      BY <1>6, <3>1, <3>3, MarkKept, ZenonT(60)
    <3>5. w.files = v.files
      <4>1. OnlyBits(v, w, p, rfd, TRUE)
        BY <1>6, <3>1, <3>3, CloexecFields, ZenonT(60) DEF Sound
      <4> QED BY <4>1, Zenon DEF OnlyBits
    <3> HIDE DEF w
    <3>6. Sound(w, Slots) /\ w.files[p][wfd] # NULL
      BY <3>3, <3>4, <3>5, ZenonT(60) DEF Kept
    <3>7. Kept(w, z, p)
      BY <2>3, <3>1, <3>6, MarkKept, ZenonT(60)
    <3>8. k' = z
      BY <1>1, <1>9, <2>8, <2>12, ZenonT(60) DEF w
    <3> HIDE DEF z
    <3>9. Kept(k, w, p)
      BY <2>10, <3>4, KeptTwice, ZenonT(60)
    <3> QED BY <3>7, <3>8, <3>9, KeptTwice, ZenonT(60)
  <2> QED BY <2>11, <2>12, Zenon
<1> QED
  BY <1>8, <1>9, Zenon

-----------------------------------------------------------------------------
(* The loops over the descriptors: each is a run of its turns *)

\* The tables g[n] after n turns of process_fork's loop, which ends with g[MAX_FD_SIZE].
InheritRun(g, t, c) ==
    /\ g[0] = t /\ \A n \in Fds : g[n + 1] = inherit(g[n], c, n)
    /\ inherit_all(t, c) = g[MAX_FD_SIZE]

\* There are such tables.
LEMMA InheritRuns == ASSUME NEW t, NEW c PROVE \E g : InheritRun(g, t, c)
<1> DEFINE Run(g, m) == g = [n \in 0..m |-> IF n = 0 THEN t ELSE inherit(g[n - 1], c, n - 1)]
           T == {m \in Nat : ~ \E g : Run(g, m)}
<1>1. \E g : Run(g, 0)
  <2>1. Run([n \in 0..0 |-> t], 0)
    OBVIOUS
  <2> QED BY <2>1, Zenon
<1>2. ASSUME NEW m \in Nat, NEW g, Run(g, m) PROVE \E h : Run(h, m + 1)
  <2> DEFINE h == [n \in 0..(m + 1) |-> IF n = m + 1 THEN inherit(g[m], c, m) ELSE g[n]]
  <2>1. \A n \in 0..m : h[n] = g[n]
    OBVIOUS
  <2>2. \A n \in 0..m : g[n] = IF n = 0 THEN t ELSE inherit(g[n - 1], c, n - 1)
    BY <1>2, SMTT(30)
  <2>3. h[m + 1] = inherit(h[m], c, m)
    BY <2>1, SMTT(30)
  <2>4. \A n \in 0..(m + 1) : h[n] = IF n = 0 THEN t ELSE inherit(h[n - 1], c, n - 1)
    BY <2>1, <2>2, <2>3, SMTT(30)
  <2>5. Run(h, m + 1)
    BY <2>4, SMTT(30)
  <2> QED BY <2>5, Zenon
<1>3. T = {}
  <2> SUFFICES ASSUME T # {} PROVE FALSE
    OBVIOUS
  <2>1. PICK m \in T : \A y \in T : m <= y
    BY LeastNumber, Zenon
  <2>2. m \in Nat /\ ~ (\E g : Run(g, m))
    BY <2>1, Zenon
  <2> HIDE DEF Run
  <2>3. m # 0
    BY <1>1, <2>2, Zenon
  <2>4. m - 1 \in Nat /\ m - 1 \notin T
    BY <2>1, <2>2, <2>3, SMTT(30)
  <2>5. PICK g : Run(g, m - 1)
    BY <2>4, Zenon
  <2>6. \E h : Run(h, (m - 1) + 1)
    BY <1>2, <2>4, <2>5, ZenonT(60)
  <2>7. (m - 1) + 1 = m
    BY <2>2
  <2> QED BY <2>2, <2>6, <2>7, ZenonT(60)
<1>4. \E g : Run(g, MAX_FD_SIZE)
  BY <1>3, FilesAssumption, Zenon
<1>5. PICK after : Run(after, MAX_FD_SIZE) /\ inherit_all(t, c) = after[MAX_FD_SIZE]
  <2> DEFINE after == CHOOSE g : Run(g, MAX_FD_SIZE)
  <2>1. Run(after, MAX_FD_SIZE)
    BY <1>4, Zenon
  <2>2. inherit_all(t, c) = after[MAX_FD_SIZE]
    BY ZenonT(60) DEF inherit_all
  <2> QED BY <2>1, <2>2, Zenon
<1> QED
  <2>1. InheritRun(after, t, c)
    BY <1>5, FilesAssumption, SMTT(30) DEF Fds, InheritRun
  <2> QED BY <2>1, Zenon

\* The tables g[n] after n turns of process_exec's loop, which ends with g[MAX_FD_SIZE].
MarkedRun(g, t, p) ==
    /\ g[0] = t /\ \A n \in Fds : g[n + 1] = shut_marked(g[n], p, n)
    /\ shut_all_marked(t, p) = g[MAX_FD_SIZE]

\* There are such tables.
LEMMA MarkedRuns == ASSUME NEW t, NEW p PROVE \E g : MarkedRun(g, t, p)
<1> DEFINE Run(g, m) == g = [n \in 0..m |-> IF n = 0 THEN t ELSE shut_marked(g[n - 1], p, n - 1)]
           T == {m \in Nat : ~ \E g : Run(g, m)}
<1>1. \E g : Run(g, 0)
  <2>1. Run([n \in 0..0 |-> t], 0)
    OBVIOUS
  <2> QED BY <2>1, Zenon
<1>2. ASSUME NEW m \in Nat, NEW g, Run(g, m) PROVE \E h : Run(h, m + 1)
  <2> DEFINE h == [n \in 0..(m + 1) |-> IF n = m + 1 THEN shut_marked(g[m], p, m) ELSE g[n]]
  <2>1. \A n \in 0..m : h[n] = g[n]
    OBVIOUS
  <2>2. \A n \in 0..m : g[n] = IF n = 0 THEN t ELSE shut_marked(g[n - 1], p, n - 1)
    BY <1>2, SMTT(30)
  <2>3. h[m + 1] = shut_marked(h[m], p, m)
    BY <2>1, SMTT(30)
  <2>4. \A n \in 0..(m + 1) : h[n] = IF n = 0 THEN t ELSE shut_marked(h[n - 1], p, n - 1)
    BY <2>1, <2>2, <2>3, SMTT(30)
  <2>5. Run(h, m + 1)
    BY <2>4, SMTT(30)
  <2> QED BY <2>5, Zenon
<1>3. T = {}
  <2> SUFFICES ASSUME T # {} PROVE FALSE
    OBVIOUS
  <2>1. PICK m \in T : \A y \in T : m <= y
    BY LeastNumber, Zenon
  <2>2. m \in Nat /\ ~ (\E g : Run(g, m))
    BY <2>1, Zenon
  <2> HIDE DEF Run
  <2>3. m # 0
    BY <1>1, <2>2, Zenon
  <2>4. m - 1 \in Nat /\ m - 1 \notin T
    BY <2>1, <2>2, <2>3, SMTT(30)
  <2>5. PICK g : Run(g, m - 1)
    BY <2>4, Zenon
  <2>6. \E h : Run(h, (m - 1) + 1)
    BY <1>2, <2>4, <2>5, Zenon
  <2>7. (m - 1) + 1 = m
    BY <2>2
  <2> QED BY <2>2, <2>6, <2>7, Zenon
<1>4. \E g : Run(g, MAX_FD_SIZE)
  BY <1>3, FilesAssumption, Zenon
<1>5. PICK after : Run(after, MAX_FD_SIZE) /\ shut_all_marked(t, p) = after[MAX_FD_SIZE]
  <2> DEFINE after == CHOOSE g : Run(g, MAX_FD_SIZE)
  <2>1. Run(after, MAX_FD_SIZE)
    BY <1>4, Zenon
  <2>2. shut_all_marked(t, p) = after[MAX_FD_SIZE]
    BY Zenon DEF shut_all_marked
  <2> QED BY <2>1, <2>2, Zenon
<1> QED
  <2>1. MarkedRun(after, t, p)
    BY <1>5, FilesAssumption, SMTT(30) DEF Fds, MarkedRun
  <2> QED BY <2>1, Zenon

\* The tables g[n] after n turns of process_exit's loop, which ends with g[MAX_FD_SIZE].
ShutRun(g, t, p) ==
    /\ g[0] = t /\ \A n \in Fds : g[n + 1] = shut(g[n], p, n)
    /\ shut_all(t, p) = g[MAX_FD_SIZE]

\* There are such tables.
LEMMA ShutRuns == ASSUME NEW t, NEW p PROVE \E g : ShutRun(g, t, p)
<1> DEFINE Run(g, m) == g = [n \in 0..m |-> IF n = 0 THEN t ELSE shut(g[n - 1], p, n - 1)]
           T == {m \in Nat : ~ \E g : Run(g, m)}
<1>1. \E g : Run(g, 0)
  <2>1. Run([n \in 0..0 |-> t], 0)
    OBVIOUS
  <2> QED BY <2>1, Zenon
<1>2. ASSUME NEW m \in Nat, NEW g, Run(g, m) PROVE \E h : Run(h, m + 1)
  <2> DEFINE h == [n \in 0..(m + 1) |-> IF n = m + 1 THEN shut(g[m], p, m) ELSE g[n]]
  <2>1. \A n \in 0..m : h[n] = g[n]
    OBVIOUS
  <2>2. \A n \in 0..m : g[n] = IF n = 0 THEN t ELSE shut(g[n - 1], p, n - 1)
    BY <1>2, SMTT(30)
  <2>3. h[m + 1] = shut(h[m], p, m)
    BY <2>1, SMTT(30)
  <2>4. \A n \in 0..(m + 1) : h[n] = IF n = 0 THEN t ELSE shut(h[n - 1], p, n - 1)
    BY <2>1, <2>2, <2>3, SMTT(30)
  <2>5. Run(h, m + 1)
    BY <2>4, SMTT(30)
  <2> QED BY <2>5, Zenon
<1>3. T = {}
  <2> SUFFICES ASSUME T # {} PROVE FALSE
    OBVIOUS
  <2>1. PICK m \in T : \A y \in T : m <= y
    BY LeastNumber, Zenon
  <2>2. m \in Nat /\ ~ (\E g : Run(g, m))
    BY <2>1, Zenon
  <2> HIDE DEF Run
  <2>3. m # 0
    BY <1>1, <2>2, Zenon
  <2>4. m - 1 \in Nat /\ m - 1 \notin T
    BY <2>1, <2>2, <2>3, SMTT(30)
  <2>5. PICK g : Run(g, m - 1)
    BY <2>4, Zenon
  <2>6. \E h : Run(h, (m - 1) + 1)
    BY <1>2, <2>4, <2>5, Zenon
  <2>7. (m - 1) + 1 = m
    BY <2>2
  <2> QED BY <2>2, <2>6, <2>7, Zenon
<1>4. \E g : Run(g, MAX_FD_SIZE)
  BY <1>3, FilesAssumption, Zenon
<1>5. PICK after : Run(after, MAX_FD_SIZE) /\ shut_all(t, p) = after[MAX_FD_SIZE]
  <2> DEFINE after == CHOOSE g : Run(g, MAX_FD_SIZE)
  <2>1. Run(after, MAX_FD_SIZE)
    BY <1>4, Zenon
  <2>2. shut_all(t, p) = after[MAX_FD_SIZE]
    BY Zenon DEF shut_all
  <2> QED BY <2>1, <2>2, Zenon
<1> QED
  <2>1. ShutRun(after, t, p)
    BY <1>5, FilesAssumption, SMTT(30) DEF Fds, ShutRun
  <2> QED BY <2>1, Zenon

-----------------------------------------------------------------------------
(* What the loops compute *)

\* The slots of c from n on, which process_fork has yet to count.
Rest(c, n) == {r \in Slots : r[1] = c /\ r[2] >= n}

\* Empty slots can be left out of account.
LEMMA NullSlots ==
    ASSUME NEW t, Sound(t, Slots), NEW N \in SUBSET Slots, \A r \in N : At(t, r) = NULL
    PROVE  Sound(t, Slots \ N)
<1>1. \A S : NULL \notin S => Holding(t, Slots \ N, S) = Holding(t, Slots, S)
  BY Zenon DEF Holding
<1>2. \A f \in FileIds : NULL \notin {f}
  BY DEF NULL, FileIds
<1>3. \A x, flags : NULL \notin EndFiles(t, x, flags)
  BY <1>2, Zenon DEF EndFiles
<1>4. Exact(t, Slots)
  BY ZenonT(60) DEF Sound
<1>5. Exact(t, Slots \ N)
  BY <1>1, <1>2, <1>3, <1>4, ZenonT(60) DEF Exact, Held
<1> QED
  BY <1>5, Zenon DEF Sound

\* One turn of process_fork's loop counts one more slot of the child.
LEMMA InheritTurn ==
    ASSUME NEW t, NEW c \in Procs, NEW n \in Fds, Sound(t, Slots \ Rest(c, n))
    PROVE  LET u == inherit(t, c, n)
           IN  /\ Sound(u, Slots \ Rest(c, n + 1))
               /\ u.files = t.files /\ u.close_on_exec = t.close_on_exec
<1> DEFINE u == inherit(t, c, n)
           r == <<c, n>>
           R == Slots \ Rest(c, n)
           f == t.files[c][n]
<1>1. r \in Slots /\ r \notin R /\ R \in SUBSET Slots
  BY DEF Slots, Rest, Fds
<1>2. R \cup {r} = Slots \ Rest(c, n + 1)
  <2>1. ASSUME NEW q \in Slots PROVE q \in R \cup {r} <=> q \notin Rest(c, n + 1)
    <3>1. PICK a \in Procs, b \in Fds : q = <<a, b>>
      BY DEF Slots
    <3>2. q[1] = a /\ q[2] = b /\ a \in Procs /\ b \in Int /\ n \in Int
      BY <3>1 DEF Fds
    <3>3. q = r <=> a = c /\ b = n
      BY <3>1
    <3> HIDE DEF r
    <3> QED
      BY <3>2, <3>3 DEF Rest
  <2> HIDE DEF R, r
  <2> QED
    BY <1>1, <2>1, ZenonT(60)
<1>3. At(t, r) = f
  BY DEF At
<1>4. t \in Tables /\ Sane(t)
  BY Zenon DEF Sound
<1>5. CASE f = NULL
  <2>1. u = t
    BY <1>5, Zenon DEF inherit
  <2>2. Sound(t, R)
    OBVIOUS
  <2> HIDE DEF u, R, r, f
  <2>3. Sound(t, R \cup {r})
    BY <1>1, <1>3, <1>5, <2>2, NullSlot, ZenonT(60)
  <2> QED
    BY <1>2, <2>1, <2>3, ZenonT(60) DEF u
<1>6. CASE f # NULL
  <2>1. u = countup_file(t, f)
    BY <1>6, Zenon DEF inherit
  <2>2. Sound(t, R)
    OBVIOUS
  <2>3. f \in FileIds
    BY <1>4, <1>6, SMT DEF Tables
  <2> HIDE DEF u, R, r, f
  <2>4. /\ u \in Tables /\ u.bug = t.bug /\ u.files = t.files /\ u.close_on_exec = t.close_on_exec
        /\ Recounted(t, u, f, t.file[f].count + 1) /\ Moved(t, u, f, 1)
    BY <1>4, <2>1, <2>3, CountupFields, ZenonT(60)
  <2>5. SameIn(t, u, R) /\ At(u, r) = f
    BY <1>3, <2>4, ZenonT(60) DEF SameIn, At
  <2>6. r \in Slots \ R
    BY <1>1, Zenon
  <2>7. Sound(u, R \cup {r})
    BY <1>1, <2>2, <2>3, <2>4, <2>5, <2>6, CountupSound, ZenonT(30)
  <2> QED
    BY <1>2, <2>4, <2>7, ZenonT(60) DEF u
<1> QED
  BY <1>5, <1>6, ZenonT(60)

\* process_fork's loop counts all of the child's descriptors.
LEMMA InheritAll ==
    ASSUME NEW t, NEW c \in Procs, Sound(t, Slots \ Rest(c, 0))
    PROVE  LET u == inherit_all(t, c)
           IN  Sound(u, Slots) /\ u.files = t.files /\ u.close_on_exec = t.close_on_exec
<1>0. PICK g : InheritRun(g, t, c)
  BY InheritRuns, Zenon
<1>1. /\ g[0] = t /\ \A n \in Fds : g[n + 1] = inherit(g[n], c, n)
      /\ inherit_all(t, c) = g[MAX_FD_SIZE]
  BY <1>0, Zenon DEF InheritRun
<1> DEFINE Good(n) == /\ Sound(g[n], Slots \ Rest(c, n))
                      /\ g[n].files = t.files /\ g[n].close_on_exec = t.close_on_exec
           T == {n \in Nat : n <= MAX_FD_SIZE /\ ~ Good(n)}
<1>2. Good(0)
  BY <1>1, Zenon
<1>3. ASSUME NEW n \in Fds, Good(n) PROVE Good(n + 1)
  <2>1. g[n + 1] = inherit(g[n], c, n)
    BY <1>1, Zenon
  <2>2. /\ Sound(inherit(g[n], c, n), Slots \ Rest(c, n + 1))
        /\ inherit(g[n], c, n).files = g[n].files
        /\ inherit(g[n], c, n).close_on_exec = g[n].close_on_exec
    BY <1>3, InheritTurn, Zenon
  <2> QED
    BY <1>3, <2>1, <2>2, ZenonT(60)
<1> HIDE DEF Good
<1>4. T = {}
  <2> SUFFICES ASSUME T # {} PROVE FALSE
    OBVIOUS
  <2>1. PICK n \in T : \A y \in T : n <= y
    BY LeastNumber, Zenon
  <2>2. n \in Nat /\ n <= MAX_FD_SIZE /\ ~ Good(n)
    BY <2>1, Zenon
  <2>3. n # 0
    BY <1>2, <2>2, ZenonT(60)
  <2>4. n - 1 \in Fds /\ n - 1 \notin T /\ (n - 1) + 1 = n /\ n - 1 \in Nat /\ n - 1 <= MAX_FD_SIZE
    BY <2>1, <2>2, <2>3, FilesAssumption, SMTT(30) DEF Fds
  <2>5. Good(n - 1)
    BY <2>4, Zenon
  <2>6. Good((n - 1) + 1)
    BY <1>3, <2>4, <2>5, ZenonT(60)
  <2> QED BY <2>2, <2>4, <2>6, ZenonT(60)
<1>5. MAX_FD_SIZE \in Nat /\ MAX_FD_SIZE <= MAX_FD_SIZE
  BY FilesAssumption
<1>6. Good(MAX_FD_SIZE)
  BY <1>4, <1>5, ZenonT(60)
<1>7. Slots \ Rest(c, MAX_FD_SIZE) = Slots
  BY FilesAssumption, SMTT(30) DEF Rest, Slots, Fds
<1> QED
  BY <1>1, <1>6, <1>7, ZenonT(60) DEF Good

\* One turn of process_exec's loop.
LEMMA MarkedTurn ==
    ASSUME NEW t, NEW p \in Procs, NEW n \in Fds, Sound(t, Slots)
    PROVE  Kept(t, shut_marked(t, p, n), p)
<1>1. CASE t.files[p][n] # NULL /\ n \in t.close_on_exec[p]
  <2>1. Kept(t, process_close(t, p, n), p)
    BY <1>1, CloseKept, Zenon
  <2> QED
    BY <1>1, <2>1, Zenon DEF shut_marked
<1>2. CASE ~ (t.files[p][n] # NULL /\ n \in t.close_on_exec[p])
  <2>1. Kept(t, t, p)
    BY SameKept, Zenon
  <2> QED
    BY <1>2, <2>1, Zenon DEF shut_marked
<1> QED
  BY <1>1, <1>2, Zenon

\* process_exec's loop.
LEMMA MarkedAll ==
    ASSUME NEW t, NEW p \in Procs, Sound(t, Slots)
    PROVE  Kept(t, shut_all_marked(t, p), p)
<1>0. PICK g : MarkedRun(g, t, p)
  BY MarkedRuns, Zenon
<1>1. /\ g[0] = t /\ \A n \in Fds : g[n + 1] = shut_marked(g[n], p, n)
      /\ shut_all_marked(t, p) = g[MAX_FD_SIZE]
  BY <1>0, Zenon DEF MarkedRun
<1> DEFINE Good(n) == Kept(t, g[n], p)
           T == {n \in Nat : n <= MAX_FD_SIZE /\ ~ Good(n)}
<1>2. Good(0)
  <2>1. Kept(t, t, p)
    BY SameKept, Zenon
  <2> QED BY <1>1, <2>1, Zenon
<1>3. ASSUME NEW n \in Fds, Good(n) PROVE Good(n + 1)
  <2>1. g[n + 1] = shut_marked(g[n], p, n)
    BY <1>1, Zenon
  <2>2. Sound(g[n], Slots)
    BY <1>3, Zenon DEF Kept
  <2>3. Kept(g[n], shut_marked(g[n], p, n), p)
    BY <2>2, MarkedTurn, Zenon
  <2> DEFINE a == g[n]
             b == g[n + 1]
  <2>4. Kept(a, b, p) /\ Kept(t, a, p)
    BY <1>3, <2>1, <2>3, ZenonT(60)
  <2> HIDE DEF a, b
  <2>5. Kept(t, b, p)
    BY <2>4, KeptTwice, Zenon
  <2> QED
    BY <2>5, Zenon DEF b
<1> HIDE DEF Good
<1>4. T = {}
  <2> SUFFICES ASSUME T # {} PROVE FALSE
    OBVIOUS
  <2>1. PICK n \in T : \A y \in T : n <= y
    BY LeastNumber, Zenon
  <2>2. n \in Nat /\ n <= MAX_FD_SIZE /\ ~ Good(n)
    BY <2>1, Zenon
  <2>3. n # 0
    BY <1>2, <2>2, ZenonT(60)
  <2>4. n - 1 \in Fds /\ n - 1 \notin T /\ (n - 1) + 1 = n /\ n - 1 \in Nat /\ n - 1 <= MAX_FD_SIZE
    BY <2>1, <2>2, <2>3, FilesAssumption, SMTT(30) DEF Fds
  <2>5. Good(n - 1)
    BY <2>4, Zenon
  <2>6. Good((n - 1) + 1)
    BY <1>3, <2>4, <2>5, ZenonT(60)
  <2> QED BY <2>2, <2>4, <2>6, ZenonT(60)
<1>5. MAX_FD_SIZE \in Nat /\ MAX_FD_SIZE <= MAX_FD_SIZE
  BY FilesAssumption
<1>6. Good(MAX_FD_SIZE)
  BY <1>4, <1>5, Zenon
<1> QED
  BY <1>1, <1>6, Zenon DEF Good

\* One turn of process_exit's loop empties a descriptor and leaves its bit.
LEMMA ShutTurn ==
    ASSUME NEW t, NEW p \in Procs, NEW n \in Fds, Sound(t, Slots)
    PROVE  LET u == shut(t, p, n)
           IN  Sound(u, Slots) /\ Points(t, u, p, n, NULL) /\ u.close_on_exec = t.close_on_exec
<1> DEFINE f == t.files[p][n]
           a == set_fd(t, p, n, NULL)
           u == release_file(a, f)
<1>1. t \in Tables /\ t.bug = FALSE /\ Sane(t)
  BY Zenon DEF Sound
<1>2. CASE f = NULL
  <2>1. shut(t, p, n) = t
    BY <1>2, Zenon DEF shut
  <2>2. Points(t, t, p, n, NULL)
    BY <1>2, Zenon DEF Points
  <2> QED
    BY <2>1, <2>2, Zenon
<1>3. CASE f # NULL
  <2>1. shut(t, p, n) = u
    BY <1>3, Zenon DEF shut
  <2>2. f \in FileIds
    BY <1>1, <1>3, SMT DEF Tables
  <2>3. /\ t.file[f].count # 0
        /\ \A x \in PipeIds : t.file[f].pipe = x =>
             /\ t.file[f].flags = "O_RDONLY" => t.readers[x] # 0
             /\ t.file[f].flags = "O_WRONLY" => t.writers[x] # 0
    <3>1. Slots \in SUBSET Slots /\ <<p, n>> \in Slots /\ At(t, <<p, n>>) = f
      BY DEF Slots, At
    <3> HIDE DEF f
    <3> QED BY <2>2, <3>1, ReleaseReady, Zenon
  <2>4. t.files[p][n] = f
    OBVIOUS
  <2> HIDE DEF f
  <2>5. OnlyFd(t, a, p, n, NULL)
    BY <1>1, SetFdFields, Zenon
  <2> HIDE DEF a
  <2>6. /\ a \in Tables /\ a.bug = t.bug /\ a.close_on_exec = t.close_on_exec
        /\ a.file = t.file /\ a.readers = t.readers /\ a.writers = t.writers
    BY <2>5, Zenon DEF OnlyFd
  <2>7. Sane(a)
    BY <1>1, <2>6, Zenon DEF Sane
  <2>8. /\ a.file[f].count # 0
        /\ \A x \in PipeIds : a.file[f].pipe = x =>
             /\ a.file[f].flags = "O_RDONLY" => a.readers[x] # 0
             /\ a.file[f].flags = "O_WRONLY" => a.writers[x] # 0
    BY <2>3, <2>6, Zenon
  <2>9. /\ u \in Tables /\ u.bug = a.bug /\ u.files = a.files /\ u.close_on_exec = a.close_on_exec
        /\ IF a.file[f].count = 1 THEN Freed(a, u, f) ELSE Recounted(a, u, f, a.file[f].count - 1)
        /\ Moved(a, u, f, -1)
    BY <2>2, <2>6, <2>7, <2>8, ReleaseFields, ZenonT(30)
  <2> HIDE DEF u
  <2>10. IF t.file[f].count = 1 THEN Freed(t, u, f) ELSE Recounted(t, u, f, t.file[f].count - 1)
    BY <2>6, <2>9, ZenonT(60) DEF Freed, Recounted
  <2>11. Moved(t, u, f, -1)
    <3> DEFINE file == t.file
               readers == t.readers
               writers == t.writers
    <3>1. /\ \A x \in PipeIds :
               /\ u.readers[x] = IF file[f].pipe = x /\ file[f].flags = "O_RDONLY"
                                 THEN readers[x] + -1 ELSE readers[x]
               /\ u.writers[x] = IF file[f].pipe = x /\ file[f].flags = "O_WRONLY"
                                 THEN writers[x] + -1 ELSE writers[x]
      BY <2>6, <2>9, SMTT(30) DEF Moved
    <3> QED
      BY <3>1, SMTT(30) DEF Moved
  <2>12. Points(t, u, p, n, NULL)
    <3>1. Points(t, a, p, n, NULL)
      BY <2>5, Zenon DEF OnlyFd, Points
    <3> QED BY <2>9, <3>1, ZenonT(60) DEF Points
  <2>13. u \in Tables /\ u.bug = t.bug /\ u.close_on_exec = t.close_on_exec
    BY <2>6, <2>9, Zenon
  <2>14. Sound(u, Slots)
    BY <2>2, <2>4, <2>10, <2>11, <2>12, <2>13, DropSound, ZenonT(30)
  <2> QED
    BY <2>1, <2>12, <2>13, <2>14, ZenonT(60)
<1> QED
  BY <1>2, <1>3, Zenon

\* process_exit's loop empties all of p's descriptors.
LEMMA ShutAll ==
    ASSUME NEW t, NEW p \in Procs, Sound(t, Slots)
    PROVE  LET u == shut_all(t, p)
           IN  Sound(u, Slots) /\ OthersKept(t, u, p) /\ \A m \in Fds : u.files[p][m] = NULL
<1>0. PICK g : ShutRun(g, t, p)
  BY ShutRuns, Zenon
<1>1. /\ g[0] = t /\ \A n \in Fds : g[n + 1] = shut(g[n], p, n)
      /\ shut_all(t, p) = g[MAX_FD_SIZE]
  BY <1>0, Zenon DEF ShutRun
<1> DEFINE Good(n) == /\ Sound(g[n], Slots) /\ OthersKept(t, g[n], p)
                      /\ \A m \in Fds : m < n => g[n].files[p][m] = NULL
           T == {n \in Nat : n <= MAX_FD_SIZE /\ ~ Good(n)}
<1>2. Good(0)
  <2>1. \A m \in Fds : ~ (m < 0)
    BY FilesAssumption DEF Fds
  <2>2. OthersKept(t, t, p)
    BY Zenon DEF OthersKept
  <2> QED
    BY <1>1, <2>1, <2>2, ZenonT(60)
<1>3. ASSUME NEW n \in Fds, Good(n) PROVE Good(n + 1)
  <2>1. g[n + 1] = shut(g[n], p, n)
    BY <1>1, Zenon
  <2> DEFINE a == g[n]
             b == g[n + 1]
  <2>2. Sound(b, Slots) /\ Points(a, b, p, n, NULL) /\ b.close_on_exec = a.close_on_exec
    <3>1. Sound(a, Slots)
      BY <1>3, Zenon
    <3> DEFINE c == shut(a, p, n)
    <3>2. Sound(c, Slots) /\ Points(a, c, p, n, NULL) /\ c.close_on_exec = a.close_on_exec
      BY <3>1, ShutTurn, Zenon
    <3>3. b = c
      BY <2>1, Zenon
    <3> HIDE DEF a, b, c
    <3> QED BY <3>2, <3>3, Zenon
  <2>3. OthersKept(t, a, p) /\ \A m \in Fds : m < n => a.files[p][m] = NULL
    BY <1>3, Zenon
  <2> HIDE DEF a, b
  <2>4. OthersKept(t, b, p)
    <3> SUFFICES ASSUME NEW q \in Procs \ {p}
                 PROVE  /\ \A m \in Fds : b.files[q][m] = t.files[q][m]
                        /\ b.close_on_exec[q] = t.close_on_exec[q]
      BY Zenon DEF OthersKept
    <3>1. /\ \A m \in Fds : a.files[q][m] = t.files[q][m]
          /\ a.close_on_exec[q] = t.close_on_exec[q]
      BY <2>3, Zenon DEF OthersKept
    <3>2. \A m \in Fds : b.files[q][m] = a.files[q][m]
      BY <2>2, Zenon DEF Points
    <3> QED BY <2>2, <3>1, <3>2, ZenonT(60)
  <2>5. ASSUME NEW m \in Fds, m < n + 1 PROVE b.files[p][m] = NULL
    <3>1. m = n \/ m < n
      BY <2>5, SMTT(60) DEF Fds
    <3> QED BY <2>2, <2>3, <3>1, ZenonT(60) DEF Points
  <2> QED
    BY <2>2, <2>4, <2>5, ZenonT(60) DEF b
<1> HIDE DEF Good
<1>4. T = {}
  <2> SUFFICES ASSUME T # {} PROVE FALSE
    OBVIOUS
  <2>1. PICK n \in T : \A y \in T : n <= y
    BY LeastNumber, Zenon
  <2>2. n \in Nat /\ n <= MAX_FD_SIZE /\ ~ Good(n)
    BY <2>1, Zenon
  <2>3. n # 0
    BY <1>2, <2>2, Zenon
  <2>4. n - 1 \in Fds /\ n - 1 \notin T /\ (n - 1) + 1 = n /\ n - 1 \in Nat /\ n - 1 <= MAX_FD_SIZE
    BY <2>1, <2>2, <2>3, FilesAssumption, SMTT(30) DEF Fds
  <2>5. Good(n - 1)
    BY <2>4, Zenon
  <2>6. Good((n - 1) + 1)
    BY <1>3, <2>4, <2>5, Zenon
  <2> QED BY <2>2, <2>4, <2>6, Zenon
<1>5. MAX_FD_SIZE \in Nat /\ MAX_FD_SIZE <= MAX_FD_SIZE /\ \A m \in Fds : m < MAX_FD_SIZE
  BY FilesAssumption DEF Fds
<1>6. Good(MAX_FD_SIZE)
  BY <1>4, <1>5, Zenon
<1> QED
  BY <1>1, <1>5, <1>6, ZenonT(60) DEF Good

-----------------------------------------------------------------------------
(* The invariant *)

\* The inductive invariant: the counts are exact, files that are not pipes'
\* name no pipe, a process that is not live holds nothing, and only open
\* descriptors are marked.
IInv ==
    /\ Sound(k, Slots)
    /\ live \subseteq born /\ born \subseteq Procs
    /\ \A q \in Procs \ live : \A n \in Fds : k.files[q][n] = NULL
    /\ \A q \in live : BitsOpen(k, q)

\* process_fork.
LEMMA ForkStep == ASSUME IInv, NEW p \in Procs, NEW c \in Procs, process_fork(p, c) PROVE IInv'
<1> DEFINE t == [k EXCEPT !.files[c] = k.files[p], !.close_on_exec[c] = {}]
           R == Slots \ Rest(c, 0)
<1>1. /\ p \in live /\ c \notin born /\ k' = inherit_all(t, c)
      /\ live' = live \cup {c} /\ born' = born \cup {c}
  BY Zenon DEF process_fork, Call
<1>2. /\ Sound(k, Slots) /\ k \in Tables /\ live \subseteq born /\ born \subseteq Procs
      /\ \A n \in Fds : k.files[c][n] = NULL
      /\ c \notin live
  BY <1>1, Zenon DEF IInv, Sound
<1>3. /\ t.bug = k.bug /\ t.file = k.file /\ t.readers = k.readers /\ t.writers = k.writers
      /\ t.files = [k.files EXCEPT ![c] = k.files[p]]
      /\ t.close_on_exec = [k.close_on_exec EXCEPT ![c] = {}]
  BY <1>2, Zenon DEF Tables
<1>4. /\ t.files \in [Procs -> [Fds -> FileIds \cup {NULL}]]
      /\ t.close_on_exec \in [Procs -> SUBSET Fds]
      /\ \A q \in Procs \ {c} : t.files[q] = k.files[q] /\ t.close_on_exec[q] = k.close_on_exec[q]
      /\ t.close_on_exec[c] = {}
  <2>1. /\ k.files \in [Procs -> [Fds -> FileIds \cup {NULL}]]
        /\ k.close_on_exec \in [Procs -> SUBSET Fds]
    BY <1>2, Zenon DEF Tables
  <2> HIDE DEF t
  <2> QED BY <1>3, <2>1, ZenonT(60)
<1>5. t \in Tables
  BY <1>2, <1>4, Zenon DEF Tables
<1> HIDE DEF t
<1>6. R \in SUBSET Slots /\ Rest(c, 0) \in SUBSET Slots /\ \A r \in R : r[1] \in Procs \ {c}
  <2>1. R \in SUBSET Slots /\ Rest(c, 0) \in SUBSET Slots
    BY Zenon DEF Rest
  <2>2. ASSUME NEW r \in R PROVE r[1] \in Procs \ {c}
    BY <2>2 DEF Rest, Slots, Fds
  <2> QED BY <2>1, <2>2, Zenon
<1>7. \A r \in Rest(c, 0) : At(k, r) = NULL
  BY <1>2 DEF Rest, Slots, At
<1>8. Sound(k, R)
  BY <1>2, <1>6, <1>7, NullSlots, ZenonT(60)
<1> HIDE DEF R
<1>9. SameIn(k, t, R)
  BY <1>4, <1>6, Zenon DEF SameIn, At
<1>10. Sound(t, R)
  BY <1>3, <1>5, <1>6, <1>8, <1>9, SameSound, ZenonT(60)
<1>11. Sound(k', Slots) /\ k'.files = t.files /\ k'.close_on_exec = t.close_on_exec
  BY <1>1, <1>10, InheritAll, ZenonT(60) DEF R
<1>12. ASSUME NEW q \in Procs \ live', NEW n \in Fds PROVE k'.files[q][n] = NULL
  <2>1. q \in Procs \ {c} /\ q \notin live
    BY <1>1, <1>12, Zenon
  <2>2. k'.files[q] = k.files[q]
    BY <1>4, <1>11, <2>1, ZenonT(60)
  <2> QED BY <2>1, <2>2, Zenon DEF IInv
<1>13. ASSUME NEW q \in live' PROVE BitsOpen(k', q)
  <2>1. CASE q = c
    <3>1. k'.close_on_exec[q] = {}
      BY <1>4, <1>11, <2>1, ZenonT(60)
    <3> QED BY <3>1, Zenon DEF BitsOpen
  <2>2. CASE q # c
    <3>1. q \in live /\ q \in Procs \ {c}
      BY <1>1, <1>2, <1>13, <2>2, ZenonT(60)
    <3>2. k'.files[q] = k.files[q] /\ k'.close_on_exec[q] = k.close_on_exec[q]
      BY <1>4, <1>11, <3>1, ZenonT(60)
    <3>3. BitsOpen(k, q)
      BY <3>1, Zenon DEF IInv
    <3> QED BY <3>2, <3>3, Zenon DEF BitsOpen
  <2> QED BY <2>1, <2>2, Zenon
<1>14. live' \subseteq born' /\ born' \subseteq Procs
  BY <1>1, <1>2, Zenon
<1> QED
  BY <1>11, <1>12, <1>13, <1>14, ZenonT(60) DEF IInv

\* Any other call: the rest of the invariant follows from what the call keeps.
LEMMA KeptStep ==
    ASSUME IInv, NEW p \in Procs, p \in live, Same, Kept(k, k', p)
    PROVE  IInv'
<1>1. /\ Sound(k, Slots) /\ live \subseteq born /\ born \subseteq Procs
      /\ \A q \in Procs \ live : \A n \in Fds : k.files[q][n] = NULL
      /\ \A q \in live : BitsOpen(k, q)
  BY Zenon DEF IInv
<1>2. Sound(k', Slots) /\ OthersKept(k, k', p) /\ (BitsOpen(k, p) => BitsOpen(k', p))
  BY Zenon DEF Kept
<1>3. live' = live /\ born' = born
  BY Zenon DEF Same
<1>4. ASSUME NEW q \in Procs \ live', NEW n \in Fds PROVE k'.files[q][n] = NULL
  <2>1. q \in Procs \ {p} /\ q \in Procs \ live
    BY <1>3, <1>4, Zenon
  <2>2. k'.files[q][n] = k.files[q][n]
    BY <1>2, <2>1, Zenon DEF OthersKept
  <2>3. k.files[q][n] = NULL
    BY <1>1, <2>1, Zenon
  <2> QED BY <2>2, <2>3, Zenon
<1>5. ASSUME NEW q \in live' PROVE BitsOpen(k', q)
  <2>0. q \in live /\ q \in Procs
    BY <1>1, <1>3, <1>5, ZenonT(60)
  <2>1. CASE q = p
    BY <1>1, <1>2, <2>0, <2>1, Zenon
  <2>2. CASE q # p
    <3>1. /\ \A n \in Fds : k'.files[q][n] = k.files[q][n]
          /\ k'.close_on_exec[q] = k.close_on_exec[q]
      BY <1>2, <2>0, <2>2, Zenon DEF OthersKept
    <3>2. k.close_on_exec[q] \subseteq Fds
      BY <1>1, <2>0, Zenon DEF Sound, Tables
    <3>3. BitsOpen(k, q)
      BY <1>1, <2>0, Zenon
    <3> QED BY <3>1, <3>2, <3>3, Zenon DEF BitsOpen
  <2> QED BY <2>1, <2>2, Zenon
<1> QED
  BY <1>1, <1>2, <1>3, <1>4, <1>5, ZenonT(60) DEF IInv

\* process_exit.
LEMMA ExitStep == ASSUME IInv, NEW p \in Procs, process_exit(p) PROVE IInv'
<1>1. p \in live /\ k' = shut_all(k, p) /\ live' = live \ {p} /\ born' = born
  BY Zenon DEF process_exit, Call
<1>2. /\ Sound(k, Slots) /\ live \subseteq born /\ born \subseteq Procs
      /\ \A q \in Procs \ live : \A n \in Fds : k.files[q][n] = NULL
      /\ \A q \in live : BitsOpen(k, q)
  BY Zenon DEF IInv
<1>3. Sound(k', Slots) /\ OthersKept(k, k', p) /\ \A m \in Fds : k'.files[p][m] = NULL
  BY <1>1, <1>2, ShutAll, Zenon
<1>4. ASSUME NEW q \in Procs \ live', NEW n \in Fds PROVE k'.files[q][n] = NULL
  <2>1. CASE q = p
    BY <1>3, <2>1, Zenon
  <2>2. CASE q # p
    <3>1. q \in Procs \ {p} /\ q \in Procs \ live
      BY <1>1, <1>4, <2>2, Zenon
    <3>2. k'.files[q][n] = k.files[q][n]
      BY <1>3, <3>1, Zenon DEF OthersKept
    <3>3. k.files[q][n] = NULL
      BY <1>2, <3>1, Zenon
    <3> QED BY <3>2, <3>3, Zenon
  <2> QED BY <2>1, <2>2, Zenon
<1>5. ASSUME NEW q \in live' PROVE BitsOpen(k', q)
  <2>1. q \in live /\ q \in Procs \ {p}
    BY <1>1, <1>2, <1>5, Zenon
  <2>2. /\ \A n \in Fds : k'.files[q][n] = k.files[q][n]
        /\ k'.close_on_exec[q] = k.close_on_exec[q]
    BY <1>3, <2>1, Zenon DEF OthersKept
  <2>3. k.close_on_exec[q] \subseteq Fds
    BY <1>2, <2>1, Zenon DEF Sound, Tables
  <2>4. BitsOpen(k, q)
    BY <1>2, <2>1, Zenon
  <2> QED BY <2>2, <2>3, <2>4, Zenon DEF BitsOpen
<1>6. live' \subseteq born' /\ born' \subseteq Procs
  BY <1>1, <1>2, Zenon
<1> QED
  BY <1>3, <1>4, <1>5, <1>6, ZenonT(60) DEF IInv

\* process_create's tables: one tty file on three descriptors.
LEMMA InitIInv == Init => IInv
<1> SUFFICES ASSUME Init PROVE IInv
  OBVIOUS
<1> DEFINE tty == [Unused EXCEPT !.type = "TTY", !.flags = "O_RDWR", !.count = 3]
<1>1. /\ k.files = [p \in Procs |-> [fd \in Fds |-> IF p = Init1 /\ fd \in 0..2 THEN 1 ELSE NULL]]
      /\ k.close_on_exec = [p \in Procs |-> {}]
      /\ k.file = [f \in FileIds |-> IF f = 1 THEN tty ELSE Unused]
      /\ k.readers = [x \in PipeIds |-> 0] /\ k.writers = [x \in PipeIds |-> 0]
      /\ k.bug = FALSE
      /\ live = {Init1} /\ born = {Init1}
  BY Zenon DEF Init
<1>2. tty.type = "TTY" /\ tty.flags = "O_RDWR" /\ tty.pipe = NULL /\ tty.count = 3
  BY Zenon DEF Unused
<1>4. tty \in FileType /\ Unused \in FileType
  <2>1. 3 \in Nat /\ 0 \in Nat
    OBVIOUS
  <2>2. tty \in FileType
    BY <2>1, Zenon DEF Unused, FileType, NULL
  <2>3. Unused \in FileType
    BY DEF FileType, NULL, Unused
  <2> QED BY <2>2, <2>3, Zenon
<1> HIDE DEF tty
<1>5. Init1 \in Procs /\ 1 \in FileIds /\ 0..2 \subseteq Fds
  BY FilesAssumption DEF FileIds, Fds
<1>6. k \in Tables
  <2>1. k.files \in [Procs -> [Fds -> FileIds \cup {NULL}]]
    <3>1. \A p \in Procs, fd \in Fds : (IF p = Init1 /\ fd \in 0..2 THEN 1 ELSE NULL) \in FileIds \cup {NULL}
      BY <1>5, Zenon
    <3> QED BY <1>1, <3>1, SMTT(30)
  <2>2. k.close_on_exec \in [Procs -> SUBSET Fds]
    BY <1>1, Zenon
  <2>3. k.file \in [FileIds -> FileType]
    BY <1>1, <1>4, Zenon
  <2>4. k.readers \in [PipeIds -> Nat] /\ k.writers \in [PipeIds -> Nat]
    BY <1>1
  <2>5. k = [files |-> k.files, close_on_exec |-> k.close_on_exec, file |-> k.file,
             readers |-> k.readers, writers |-> k.writers, bug |-> k.bug]
    BY Zenon DEF Init
  <2> QED
    BY <1>1, <2>1, <2>2, <2>3, <2>4, <2>5, ZenonT(60) DEF Tables, FileType
<1>7. \A f \in FileIds : k.file[f] = IF f = 1 THEN tty ELSE Unused
  BY <1>1, Zenon
<1>8. Unused.type = "UNUSED" /\ Unused.pipe = NULL /\ Unused.count = 0
  BY DEF Unused
<1>9. Sane(k)
  BY <1>2, <1>7, <1>8, SMTT(60) DEF Sane
<1>10. \A r \in Slots : At(k, r) = IF r[1] = Init1 /\ r[2] \in 0..2 THEN 1 ELSE NULL
  <2> SUFFICES ASSUME NEW r \in Slots
               PROVE  At(k, r) = IF r[1] = Init1 /\ r[2] \in 0..2 THEN 1 ELSE NULL
    OBVIOUS
  <2>1. r[1] \in Procs /\ r[2] \in Fds
    BY DEF Slots
  <2>2. k.files = [p \in Procs |-> [fd \in Fds |-> IF p = Init1 /\ fd \in 0..2 THEN 1 ELSE NULL]]
    BY <1>1, Zenon
  <2> QED BY <2>1, <2>2, SMTT(30) DEF At
<1>11. Held(k, Slots, {}) = 0
  <2>1. Holding(k, Slots, {}) = {}
    BY Zenon DEF Holding
  <2> QED BY <2>1, FS_EmptySet, ZenonT(60) DEF Held
<1>12. ASSUME NEW f \in FileIds PROVE k.file[f].count = Held(k, Slots, {f})
  <2>1. CASE f = 1
    <3> DEFINE a == <<Init1, 0>>
               b == <<Init1, 1>>
               c == <<Init1, 2>>
    <3>1. Holding(k, Slots, {1}) = {a, b, c}
      <4>1. a \in Slots /\ b \in Slots /\ c \in Slots
        BY <1>5 DEF Slots
      <4>2. At(k, a) = 1 /\ At(k, b) = 1 /\ At(k, c) = 1
        BY <1>10, <4>1
      <4>3. ASSUME NEW r \in Slots, At(k, r) = 1 PROVE r \in {a, b, c}
        <5>1. r[1] = Init1 /\ r[2] \in 0..2
          BY <1>10, <4>3 DEF NULL
        <5>2. r = <<r[1], r[2]>>
          BY DEF Slots
        <5>3. r[2] = 0 \/ r[2] = 1 \/ r[2] = 2
          BY <5>1
        <5> QED BY <5>1, <5>2, <5>3, ZenonT(60)
      <4> HIDE DEF a, b, c
      <4> QED BY <4>1, <4>2, <4>3, ZenonT(60) DEF Holding
    <3>2. a # b /\ a # c /\ b # c
      OBVIOUS
    <3> HIDE DEF a, b, c
    <3>3. IsFiniteSet({}) /\ Cardinality({}) = 0
      BY FS_EmptySet, Zenon
    <3>4. IsFiniteSet({} \cup {a}) /\ Cardinality({} \cup {a}) = Cardinality({}) + 1
      BY <3>3, FS_AddElement
    <3>5. IsFiniteSet({} \cup {a} \cup {b})
          /\ Cardinality({} \cup {a} \cup {b}) = Cardinality({} \cup {a}) + 1
      BY <3>2, <3>4, FS_AddElement
    <3>6. Cardinality({} \cup {a} \cup {b} \cup {c}) = Cardinality({} \cup {a} \cup {b}) + 1
      BY <3>2, <3>5, FS_AddElement
    <3>7. {} \cup {a} \cup {b} \cup {c} = {a, b, c}
      BY Zenon
    <3>8. Cardinality({a, b, c}) = 3
      BY <3>3, <3>4, <3>5, <3>6, <3>7, SMTT(60)
    <3> QED BY <1>2, <1>7, <2>1, <3>1, <3>8, ZenonT(60) DEF Held
  <2>2. CASE f # 1
    <3>1. \A r \in Slots : At(k, r) # f
      BY <1>10, <2>2 DEF FileIds, NULL
    <3>2. Holding(k, Slots, {f}) = Holding(k, Slots, {})
      BY <3>1, Zenon DEF Holding
    <3> QED BY <1>7, <1>8, <1>11, <2>2, <3>2, ZenonT(60) DEF Held
  <2> QED BY <2>1, <2>2, Zenon
<1>13. ASSUME NEW x \in PipeIds, NEW flags PROVE EndFiles(k, x, flags) = {}
  <2>1. x # NULL
    BY DEF PipeIds, NULL
  <2> QED BY <1>2, <1>7, <1>8, <2>1, ZenonT(60) DEF EndFiles
<1>14. Exact(k, Slots)
  BY <1>1, <1>11, <1>12, <1>13, ZenonT(60) DEF Exact
<1>15. \A q \in live : BitsOpen(k, q)
  BY <1>1, <1>5, Zenon DEF BitsOpen
<1>16. \A q \in Procs \ live : \A n \in Fds : k.files[q][n] = NULL
  <2>1. k.files = [p \in Procs |-> [fd \in Fds |-> IF p = Init1 /\ fd \in 0..2 THEN 1 ELSE NULL]]
    BY <1>1, Zenon
  <2> QED BY <1>1, <2>1, SMTT(30)
<1> QED
  BY <1>1, <1>5, <1>6, <1>9, <1>14, <1>15, <1>16, ZenonT(60) DEF IInv, Sound

\* Every call keeps the invariant.
LEMMA NextIInv == IInv /\ [Next]_vars => IInv'
<1> SUFFICES ASSUME IInv, [Next]_vars PROVE IInv'
  OBVIOUS
<1>1. Sound(k, Slots)
  BY Zenon DEF IInv
<1>2. CASE UNCHANGED vars
  <2>1. k' = k /\ live' = live /\ born' = born
    BY <1>2 DEF vars
  <2> QED BY <2>1, Zenon DEF IInv
<1>3. ASSUME NEW p \in Procs, NEW cloexec \in Asks(p) PROVE cloexec \in BOOLEAN
  BY <1>3, Zenon DEF Asks
<1>4. ASSUME NEW p \in Procs, NEW cloexec \in BOOLEAN, process_open(p, cloexec) PROVE IInv'
  <2>1. Kept(k, k', p)
    BY <1>1, <1>4, OpenKept, ZenonT(60)
  <2> QED BY <1>4, <2>1, KeptStep, ZenonT(60) DEF process_open, Call
<1>5. ASSUME NEW p \in Procs, NEW cloexec \in BOOLEAN, process_pipe2(p, cloexec) PROVE IInv'
  <2>1. Kept(k, k', p)
    BY <1>1, <1>5, Pipe2Kept, Zenon
  <2> QED BY <1>5, <2>1, KeptStep, ZenonT(60) DEF process_pipe2, Call
<1>6. ASSUME NEW p \in Procs, NEW cloexec \in BOOLEAN, NEW fd \in Fds, NEW n \in Fds,
             process_dupfd(p, fd, n, cloexec)
      PROVE  IInv'
  <2>1. Kept(k, k', p)
    BY <1>1, <1>6, DupfdKept, ZenonT(60)
  <2> QED BY <1>6, <2>1, KeptStep, ZenonT(60) DEF process_dupfd, Call
<1>7. ASSUME NEW p \in Procs, NEW cloexec \in BOOLEAN, NEW fd \in Fds, NEW n \in Fds,
             process_dup3(p, fd, n, cloexec)
      PROVE  IInv'
  <2>1. Kept(k, k', p)
    BY <1>1, <1>7, Dup3Kept, Zenon
  <2> QED BY <1>7, <2>1, KeptStep, ZenonT(60) DEF process_dup3, Call
<1>8. ASSUME NEW p \in Procs, NEW cloexec \in BOOLEAN, NEW fd \in Fds, process_fcntl_setfd(p, fd, cloexec)
      PROVE  IInv'
  <2>1. Call(p) /\ k.files[p][fd] # NULL /\ k' = set_cloexec(k, p, fd, cloexec) /\ Same
    BY <1>8, Zenon DEF process_fcntl_setfd
  <2>2. Kept(k, k', p)
    BY <1>1, <2>1, MarkKept, ZenonT(60)
  <2> QED BY <2>1, <2>2, KeptStep, ZenonT(60) DEF Call
<1>9. ASSUME NEW p \in Procs, NEW fd \in Fds, close(p, fd) PROVE IInv'
  <2>1. Call(p) /\ k.files[p][fd] # NULL /\ k' = process_close(k, p, fd) /\ Same
    BY <1>9, Zenon DEF close
  <2>2. Kept(k, k', p)
    BY <1>1, <2>1, CloseKept, ZenonT(60)
  <2> QED BY <2>1, <2>2, KeptStep, ZenonT(60) DEF Call
<1>10. ASSUME NEW p \in Procs, process_exec(p) PROVE IInv'
  <2>1. Call(p) /\ k' = shut_all_marked(k, p) /\ Same
    BY <1>10, Zenon DEF process_exec
  <2>2. Kept(k, k', p)
    BY <1>1, <2>1, MarkedAll, ZenonT(60)
  <2> QED BY <2>1, <2>2, KeptStep, ZenonT(60) DEF Call
<1>11. ASSUME NEW p \in Procs, NEW c \in Procs, process_fork(p, c) PROVE IInv'
  BY <1>11, ForkStep, Zenon
<1>12. ASSUME NEW p \in Procs, process_exit(p) PROVE IInv'
  BY <1>12, ExitStep, Zenon
<1>13. CASE Next
  <2>1. PICK p \in Procs :
           \/ \E cloexec \in Asks(p) :
               \/ process_open(p, cloexec)
               \/ process_pipe2(p, cloexec)
               \/ \E fd, n \in Fds :
                   \/ process_dupfd(p, fd, n, cloexec)
                   \/ process_dup3(p, fd, n, cloexec)
               \/ \E fd \in Fds : process_fcntl_setfd(p, fd, cloexec)
           \/ \E fd \in Fds : close(p, fd)
           \/ \E c \in Procs : process_fork(p, c)
           \/ process_exec(p)
           \/ process_exit(p)
    BY <1>13, Zenon DEF Next
  <2> QED
    BY <1>3, <1>4, <1>5, <1>6, <1>7, <1>8, <1>9, <1>10, <1>11, <1>12, <2>1, ZenonT(60)
<1> QED
  BY <1>2, <1>13, Zenon

\* The inductive invariant holds in every reachable state, for any number of
\* processes, descriptors, files and pipes.
THEOREM FilesInvariant == Spec => []IInv
BY InitIInv, NextIInv, PTL DEF Spec

\* Every file's count is the number of descriptors that hold it and every
\* pipe's counts are the descriptors that hold its ends, so that no
\* SYSTEM_BUG_ON of release_file or pipe_release fires, and a dead process
\* holds nothing.
THEOREM CountsAreExact == Spec => []CountsExact
<1>1. IInv => CountsExact
  <2> SUFFICES ASSUME IInv PROVE CountsExact
    OBVIOUS
  <2>1. /\ k \in Tables /\ k.bug = FALSE /\ Exact(k, Slots)
        /\ live \subseteq born /\ born \subseteq Procs
    BY Zenon DEF IInv, Sound
  <2>2. TypeOK
    BY <2>1, Zenon DEF TypeOK, Tables
  <2>3. ASSUME NEW S PROVE Refs(S) = Held(k, Slots, S)
    BY Zenon DEF Refs, Held, Holding, Slots, At
  <2>4. \A f \in FileIds : k.file[f].count = Refs({f})
    BY <2>1, <2>3, Zenon DEF Exact
  <2>5. FilesCounted
    BY <2>1, <2>4, Zenon DEF FilesCounted, IInv
  <2>6. PipeEndsCounted
    BY <2>1, <2>3, ZenonT(60) DEF PipeEndsCounted, Exact, EndFiles
  <2> QED BY <2>2, <2>5, <2>6, ZenonT(60) DEF CountsExact
<1> QED
  BY <1>1, FilesInvariant, PTL

\* A live process marks only open descriptors close-on-exec.
THEOREM MarkedAreOpen == Spec => []CloexecOnlyOpen
<1>1. IInv => CloexecOnlyOpen
  BY Zenon DEF IInv, CloexecOnlyOpen, BitsOpen
<1> QED
  BY <1>1, FilesInvariant, PTL

-----------------------------------------------------------------------------
(* The addresses a program passes: module Syscall *)

\* check_address_range accepts exactly the ranges that lie in user space
\* together with the address after them, read without wrapping.
LEMMA RangeExact ==
    ASSUME NEW p \in Address, NEW s \in Address
    PROVE  check_address_range(p, s) <=> USER_ADDRESS_START <= p /\ p + s < USER_ADDRESS_END
<1>1. p + s <= ULONG_MAX => plus(p, s) = p + s
  BY SyscallAssumption DEF plus, Address
<1> QED
  BY <1>1, SyscallAssumption
     DEF check_address_range, add_overflow_unsigned_long, IS_USER_ADDRESSS, Address

\* Pointers wrap, so they stay among the addresses.
LEMMA PlusAddress ==
    ASSUME NEW p \in Address, NEW j \in Address
    PROVE  plus(p, j) \in Address
BY SyscallAssumption DEF plus, Address

\* The cells of a range check_address_range accepts are in user space.
LEMMA RangeSafe ==
    ASSUME NEW p \in Address, NEW s \in Address, check_address_range(p, s)
    PROVE  cells(p, s) \subseteq UserSpace
<1>1. USER_ADDRESS_START <= p /\ p + s < USER_ADDRESS_END
  BY RangeExact
<1>2. \A j \in 0..(s - 1) : plus(p, j) = p + j
  BY <1>1, SyscallAssumption DEF plus, Address
<1> QED
  BY <1>1, <1>2, SyscallAssumption DEF cells, UserSpace, IS_USER_ADDRESSS, Address

\* So are the characters of a string check_string accepts.
LEMMA StringSafe ==
    ASSUME NEW s \in Address, NEW m \in [Address -> Address], check_string(s, m)
    PROVE  string_cells(s, m) \subseteq UserSpace
<1> SUFFICES ASSUME NEW j \in reached(s, m) PROVE plus(s, j) \in UserSpace
  BY DEF string_cells
<1>1. j \in Address
  BY DEF reached
<1> QED
  BY <1>1, PlusAddress DEF check_string, UserSpace

\* And the entries and strings of a vector check_avep accepts.
LEMMA AvepSafe ==
    ASSUME NEW avep \in Address, NEW m \in [Address -> Address], check_avep(avep, m)
    PROVE  avep_cells(avep, m) \subseteq UserSpace
<1>1. CASE avep = 0
  BY <1>1 DEF avep_cells
<1>2. CASE avep # 0
  <2>1. check_string(avep, m)
    BY <1>2 DEF check_avep, check_string
  <2>2. string_cells(avep, m) \subseteq UserSpace
    BY <2>1, StringSafe
  <2>3. ASSUME NEW q \in string_cells(avep, m), m[q] # 0
        PROVE  string_cells(m[q], m) \subseteq UserSpace
    <3>1. m[q] \in Address
      BY <2>2, <2>3 DEF UserSpace
    <3>2. check_string(m[q], m)
      BY <1>2, <2>3 DEF check_avep, string_cells
    <3> QED
      BY <3>1, <3>2, StringSafe
  <2> QED
    BY <1>2, <2>2, <2>3 DEF avep_cells
<1> QED
  BY <1>1, <1>2

\* And the vector and the buffers check_iovec accepts, for any count.
LEMMA IovecSafe ==
    ASSUME NEW iov \in Address, NEW n \in Int, NEW m \in [Address -> Address],
           check_iovec(iov, n, m), n <= ULONG_MAX \div 2
    PROVE  iovec_cells(iov, n, m) \subseteq UserSpace
<1> SUFFICES ASSUME NEW i \in 0..(n - 1)
             PROVE  /\ cells(plus(iov, 2 * i), 2) \subseteq UserSpace
                    /\ cells(m[plus(iov, 2 * i)], m[plus(iov, 2 * i + 1)]) \subseteq UserSpace
  BY Zenon DEF iovec_cells
<1> DEFINE entry == plus(iov, 2 * i)
           len == m[plus(entry, 1)]
<1>1. entry \in Address /\ plus(entry, 1) \in Address
  <2>1. 2 * i \in Address /\ 1 \in Address
    BY SyscallAssumption DEF Address
  <2> QED
    BY <2>1, PlusAddress
<1>2. plus(iov, 2 * i + 1) = plus(entry, 1)
  BY SyscallAssumption DEF plus, Address
<1>3. check_address_range(entry, 2) /\ (len # 0 => check_address_range(m[entry], len))
  BY DEF check_iovec
<1>4. cells(entry, 2) \subseteq UserSpace
  <2>1. 2 \in Address
    BY SyscallAssumption DEF Address
  <2> QED
    BY <1>1, <1>3, <2>1, RangeSafe
<1>5. m[entry] \in Address /\ len \in Address
  BY <1>1
<1>6. CASE len = 0
  BY <1>2, <1>4, <1>6 DEF cells
<1>7. CASE len # 0
  BY <1>2, <1>3, <1>4, <1>5, <1>7, RangeSafe
<1> QED
  BY <1>6, <1>7

\* A wrapper that checks one buffer, or one path.
LEMMA BufferSafe ==
    ASSUME NEW p \in Address, NEW n \in Address
    PROVE  syscall_buffer(p, n).uses \subseteq UserSpace
BY RangeSafe DEF syscall_buffer, Calls, Returns

LEMMA PathSafe ==
    ASSUME NEW s \in Address, NEW m \in [Address -> Address]
    PROVE  syscall_path(s, m).uses \subseteq UserSpace
BY StringSafe DEF syscall_path, Calls, Returns

\* A wrapper that checks two structures, each only when it is there.
LEMMA PairSafe ==
    ASSUME NEW p \in Address, NEW q \in Address, NEW n \in Address
    PROVE  pair(p, q, n).uses \subseteq UserSpace
BY RangeSafe DEF pair, optional, Calls, Returns

\* getcwd uses two cells of the buffer it has checked.
LEMMA GetcwdSafe ==
    ASSUME NEW a \in [0..3 -> Address]
    PROVE  syscall_getcwd(a).uses \subseteq UserSpace
<1>1. CASE a[1] < 2 \/ ~check_address_range(a[0], a[1])
  BY <1>1 DEF syscall_getcwd, Calls, Returns
<1>2. CASE ~(a[1] < 2) /\ check_address_range(a[0], a[1])
  <2>1. a[0] \in Address /\ a[1] \in Address
    OBVIOUS
  <2>2. cells(a[0], 2) \subseteq cells(a[0], a[1])
    BY <1>2, <2>1, SyscallAssumption DEF cells, Address
  <2> QED
    BY <1>2, <2>1, <2>2, RangeSafe DEF syscall_getcwd, Calls
<1> QED
  BY <1>1, <1>2

\* execve uses what check_string and check_avep have accepted.
LEMMA ExecveSafe ==
    ASSUME NEW a \in [0..3 -> Address], NEW m \in [Address -> Address]
    PROVE  syscall_execve(a, m).uses \subseteq UserSpace
<1>1. a[0] \in Address /\ a[1] \in Address /\ a[2] \in Address
  OBVIOUS
<1> QED
  BY <1>1, StringSafe, AvepSafe DEF syscall_execve, Calls, Returns

\* stat64 uses a string and a buffer.
LEMMA StatSafe ==
    ASSUME NEW a \in [0..3 -> Address], NEW m \in [Address -> Address]
    PROVE  syscall_stat64(a, m).uses \subseteq UserSpace
<1>1. a[0] \in Address /\ a[1] \in Address /\ sizeof["stat64"] \in Address
  BY SyscallAssumption DEF Structures
<1> QED
  BY <1>1, StringSafe, RangeSafe DEF syscall_stat64, Calls, Returns

\* A count read from a register is at most half the registers' range.
LEMMA IntRange ==
    ASSUME NEW r \in Address
    PROVE  int(r) \in Int /\ int(r) <= ULONG_MAX \div 2
<1>1. r \in Int /\ ULONG_MAX \in Nat /\ r <= ULONG_MAX
  BY SyscallAssumption DEF Address
<1>2. ULONG_MAX \div 2 \in Nat
  BY <1>1
<1> QED
  BY <1>1, <1>2 DEF int

\* readv and writev with any count, negative ones too.
LEMMA ReadvSafe ==
    ASSUME NEW a \in [0..3 -> Address], NEW m \in [Address -> Address]
    PROVE  syscall_readv(a, m).uses \subseteq UserSpace
<1>1. a[1] \in Address /\ a[2] \in Address
  OBVIOUS
<1>2. int(a[2]) \in Int /\ int(a[2]) <= ULONG_MAX \div 2
  BY <1>1, IntRange
<1> QED
  BY <1>1, <1>2, IovecSafe DEF syscall_readv, Calls, Returns

\* CallsStayInUserSpace holds for every layout, every size of the structures
\* and every set of registers and memories: no wrapper of syscall.c lets the
\* kernel use an address outside user space on a program's behalf.
THEOREM CallsSafe == CallsStayInUserSpace
<1> SUFFICES ASSUME NEW n \in 0..400, NEW a \in [0..3 -> Address], NEW m \in [Address -> Address]
             PROVE  syscall_handler(n, a, m).uses \subseteq UserSpace
  BY SyscallAssumption, ZenonT(60) DEF CallsStayInUserSpace
<1>1. a[0] \in Address /\ a[1] \in Address /\ a[2] \in Address /\ a[3] \in Address
  OBVIOUS
<1>2. \A t \in Structures : sizeof[t] \in Address
  BY SyscallAssumption
<1>3. 2 * sizeof["int"] \in Address
  BY SyscallAssumption
<1>4. /\ syscall_read(a).uses \subseteq UserSpace
      /\ syscall_write(a).uses \subseteq UserSpace
      /\ syscall_getdents64(a).uses \subseteq UserSpace
  BY <1>1, BufferSafe DEF syscall_read, syscall_write, syscall_getdents64
<1>5. /\ syscall_pipe(a).uses \subseteq UserSpace
      /\ syscall_pipe2(a).uses \subseteq UserSpace
  BY <1>1, <1>3, BufferSafe DEF syscall_pipe, syscall_pipe2
<1>6. /\ syscall_wait4(a).uses \subseteq UserSpace
      /\ syscall_uname(a).uses \subseteq UserSpace
      /\ syscall__llseek(a).uses \subseteq UserSpace
      /\ syscall_fstat64(a).uses \subseteq UserSpace
  BY <1>1, <1>2, BufferSafe, SMTT(60)
     DEF syscall_wait4, syscall_uname, syscall__llseek, syscall_fstat64, Structures
<1>7. syscall_ioctl(a).uses \subseteq UserSpace
  BY <1>1, <1>2, BufferSafe DEF syscall_ioctl, NoPointer, Calls, Structures
<1>8. /\ syscall_open(a, m).uses \subseteq UserSpace
      /\ syscall_unlink(a, m).uses \subseteq UserSpace
      /\ syscall_mkdir(a, m).uses \subseteq UserSpace
      /\ syscall_rmdir(a, m).uses \subseteq UserSpace
  BY <1>1, PathSafe DEF syscall_open, syscall_unlink, syscall_mkdir, syscall_rmdir
<1>9. /\ syscall_rt_sigaction(a).uses \subseteq UserSpace
      /\ syscall_rt_sigprocmask(a).uses \subseteq UserSpace
  BY <1>1, <1>2, PairSafe, Zenon DEF syscall_rt_sigaction, syscall_rt_sigprocmask, Structures
<1>10. NoPointer.uses \subseteq UserSpace /\ \A r : Returns(r).uses \subseteq UserSpace
  BY DEF NoPointer, Calls, Returns
<1> QED
  BY <1>4, <1>5, <1>6, <1>7, <1>8, <1>9, <1>10, GetcwdSafe, ExecveSafe, StatSafe, ReadvSafe
     DEF syscall_handler, syscall_lstat64, syscall_writev
=============================================================================
