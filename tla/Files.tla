-------------------------------- MODULE Files --------------------------------
(***************************************************************************)
(* Descriptor tables (kernel/process.c): the struct file objects the       *)
(* descriptors of all processes share, their reference counts, the counts  *)
(* of pipe ends that go with them (pipe_create, pipe_countup and           *)
(* pipe_release of kernel/pipe.c), and the close-on-exec bits, under open, *)
(* close, dup, pipe2, fcntl, fork, exec and exit.                          *)
(*                                                                         *)
(* None of these calls sleeps, so each is one step.  `k` holds the tables, *)
(* and the C functions that change them are operators from k to k, called  *)
(* in the order the code calls them.                                       *)
(***************************************************************************)
EXTENDS Integers, FiniteSets, FiniteSetsExt

CONSTANTS
    Procs,          \* processes
    Init1,          \* the one process_create makes
    MAX_FD_SIZE,    \* descriptors per process
    MaxFiles,       \* bound on the struct files in file_cache
    MaxPipes,       \* bound on the struct pipes in pipe_cache
    Markers         \* the processes whose programs ask for close-on-exec

ASSUME FilesAssumption ==
    /\ IsFiniteSet(Procs) /\ Init1 \in Procs
    /\ MAX_FD_SIZE \in Nat /\ MAX_FD_SIZE >= 3
    /\ MaxFiles \in Nat \ {0} /\ MaxPipes \in Nat
    /\ Markers \subseteq Procs

Fds == 0..(MAX_FD_SIZE - 1)
FileIds == 1..MaxFiles
PipeIds == 1..MaxPipes
NULL == 0

VARIABLES
    k,      \* files, close_on_exec, file, readers, writers, bug: see TypeOK
    live,   \* processes that exist and are not DEAD
    born    \* processes ever created

vars == <<k, live, born>>

Unused == [type |-> "UNUSED", flags |-> "none", pipe |-> NULL, count |-> 0]

-----------------------------------------------------------------------------
(* pipe.c *)

pipe_countup(t, x, flags) ==
    IF flags = "O_RDONLY" THEN [t EXCEPT !.readers[x] = @ + 1]
                          ELSE [t EXCEPT !.writers[x] = @ + 1]

pipe_release(t, x, flags) ==
    IF flags = "O_RDONLY"
    THEN IF t.readers[x] = 0 THEN [t EXCEPT !.bug = TRUE] ELSE [t EXCEPT !.readers[x] = @ - 1]
    ELSE IF t.writers[x] = 0 THEN [t EXCEPT !.bug = TRUE] ELSE [t EXCEPT !.writers[x] = @ - 1]

\* A pipe whose counts are both 0 is freed.
FreePipes(t) == {x \in PipeIds : t.readers[x] = 0 /\ t.writers[x] = 0}

-----------------------------------------------------------------------------
(* struct file *)

FreeFiles(t) == {f \in FileIds : t.file[f].count = 0}
FreeFds(t, p) == {fd \in Fds : t.files[p][fd] = NULL}

\* alloc_file(p), when some descriptor is free: the lowest one, and a new file.
alloc_fd(t, p) == Min(FreeFds(t, p))
alloc_file(t, p) ==
    LET f == Min(FreeFiles(t))
    IN  [t EXCEPT !.file[f] = [Unused EXCEPT !.count = 1],
                  !.files[p][alloc_fd(t, p)] = f]

countup_file(t, f) ==
    LET up == [t EXCEPT !.file[f].count = @ + 1]
    IN  IF t.file[f].type = "PIPE" THEN pipe_countup(up, t.file[f].pipe, t.file[f].flags) ELSE up

release_file(t, f) ==
    LET file == t.file[f]
        down == [t EXCEPT !.file[f].count = @ - 1]
        released == IF file.type = "PIPE" THEN pipe_release(down, file.pipe, file.flags) ELSE down
    IN  IF file.count = 0 THEN [t EXCEPT !.bug = TRUE]
        ELSE IF file.count = 1 THEN [released EXCEPT !.file[f] = Unused]
        ELSE released

set_fd(t, p, fd, f) == [t EXCEPT !.files[p][fd] = f]
set_cloexec(t, p, fd, on) ==
    [t EXCEPT !.close_on_exec[p] = IF on THEN @ \cup {fd} ELSE @ \ {fd}]

\* Mutant: the close-on-exec bit stays.
process_close_bit(t, p, fd) == set_fd(release_file(t, t.files[p][fd]), p, fd, NULL)

process_close(t, p, fd) ==
    set_cloexec(set_fd(release_file(t, t.files[p][fd]), p, fd, NULL), p, fd, FALSE)

-----------------------------------------------------------------------------

\* process_create: one tty file on descriptors 0, 1 and 2.
Init ==
    /\ k = [files |-> [p \in Procs |-> [fd \in Fds |->
                         IF p = Init1 /\ fd \in 0..2 THEN 1 ELSE NULL]],
            close_on_exec |-> [p \in Procs |-> {}],
            file |-> [f \in FileIds |->
                        IF f = 1 THEN [Unused EXCEPT !.type = "TTY", !.flags = "O_RDWR", !.count = 3]
                        ELSE Unused],
            readers |-> [x \in PipeIds |-> 0],
            writers |-> [x \in PipeIds |-> 0],
            bug |-> FALSE]
    /\ live = {Init1}
    /\ born = {Init1}

Call(p) == p \in live /\ ~k.bug
Same == UNCHANGED <<live, born>>

\* process_open: the file gets its type only once the path resolved; every
\* failure goes through process_close.
process_open(p, cloexec) ==
    /\ Call(p)
    /\ FreeFds(k, p) # {} /\ FreeFiles(k) # {}
    /\ LET fd == alloc_fd(k, p)
           t == alloc_file(k, p)
           f == t.files[p][fd]
           opened == [t EXCEPT !.file[f].type = "INODE", !.file[f].flags = "O_RDWR"]
       IN  \/ k' = IF cloexec THEN set_cloexec(opened, p, fd, TRUE) ELSE opened
           \/ k' = process_close(t, p, fd)
    /\ Same

close(p, fd) ==
    /\ Call(p)
    /\ k.files[p][fd] # NULL
    /\ k' = process_close(k, p, fd)
    /\ Same

\* process_pipe2: two files for two ends; EMFILE on the second gives the
\* first one back.
process_pipe2(p, cloexec) ==
    /\ Call(p)
    /\ FreeFds(k, p) # {} /\ Cardinality(FreeFiles(k)) >= 2 /\ FreePipes(k) # {}
    /\ LET rfd == alloc_fd(k, p)
           t == alloc_file(k, p)
       IN  IF FreeFds(t, p) = {}
           THEN k' = process_close(t, p, rfd)
           ELSE LET wfd == alloc_fd(t, p)
                    u == alloc_file(t, p)
                    x == Min(FreePipes(k))
                    end(flags) == [type |-> "PIPE", flags |-> flags, pipe |-> x, count |-> 1]
                    v == [u EXCEPT !.readers[x] = 1, !.writers[x] = 1,
                                   !.file[u.files[p][rfd]] = end("O_RDONLY"),
                                   !.file[u.files[p][wfd]] = end("O_WRONLY")]
                IN  k' = IF cloexec
                         THEN set_cloexec(set_cloexec(v, p, rfd, TRUE), p, wfd, TRUE)
                         ELSE v
    /\ Same

\* process_dupfd (dup, F_DUPFD): the lowest free descriptor from `from` on.
process_dupfd(p, fd, from, cloexec) ==
    LET free == {n \in FreeFds(k, p) : n >= from}
        t == countup_file(k, k.files[p][fd])
        n == Min(free)
        u == IF cloexec THEN set_cloexec(t, p, n, TRUE) ELSE t
    IN  /\ Call(p)
        /\ k.files[p][fd] # NULL
        /\ free # {}
        /\ k' = set_fd(u, p, n, k.files[p][fd])
        /\ Same

\* Mutant: an open newfd is overwritten.
process_dup3_over(p, oldfd, newfd, cloexec) ==
    LET u == countup_file(k, k.files[p][oldfd])
        v == IF cloexec THEN set_cloexec(u, p, newfd, TRUE) ELSE u
    IN  /\ Call(p)
        /\ k.files[p][oldfd] # NULL
        /\ oldfd # newfd
        /\ k' = set_fd(v, p, newfd, k.files[p][oldfd])
        /\ Same

\* process_dup2 and process_dup3: newfd is closed first if it is open.
process_dup3(p, oldfd, newfd, cloexec) ==
    LET t == IF k.files[p][newfd] # NULL THEN process_close(k, p, newfd) ELSE k
        u == countup_file(t, k.files[p][oldfd])
        v == IF cloexec THEN set_cloexec(u, p, newfd, TRUE) ELSE u
    IN  /\ Call(p)
        /\ k.files[p][oldfd] # NULL
        /\ oldfd # newfd
        /\ k' = set_fd(v, p, newfd, k.files[p][oldfd])
        /\ Same

process_fcntl_setfd(p, fd, cloexec) ==
    /\ Call(p)
    /\ k.files[p][fd] # NULL
    /\ k' = set_cloexec(k, p, fd, cloexec)
    /\ Same

\* The loops over all descriptors: the tables once the turns for the first n
\* descriptors are done, for n = MAX_FD_SIZE.
inherit(t, c, fd) == IF t.files[c][fd] # NULL THEN countup_file(t, t.files[c][fd]) ELSE t
inherit_all(t, c) ==
    LET after[n \in 0..MAX_FD_SIZE] == IF n = 0 THEN t ELSE inherit(after[n - 1], c, n - 1)
    IN  after[MAX_FD_SIZE]

shut_marked(t, p, fd) ==
    IF t.files[p][fd] # NULL /\ fd \in t.close_on_exec[p] THEN process_close(t, p, fd) ELSE t
shut_all_marked(t, p) ==
    LET after[n \in 0..MAX_FD_SIZE] == IF n = 0 THEN t ELSE shut_marked(after[n - 1], p, n - 1)
    IN  after[MAX_FD_SIZE]

shut(t, p, fd) ==
    IF t.files[p][fd] # NULL THEN release_file(set_fd(t, p, fd, NULL), t.files[p][fd]) ELSE t
shut_all(t, p) ==
    LET after[n \in 0..MAX_FD_SIZE] == IF n = 0 THEN t ELSE shut(after[n - 1], p, n - 1)
    IN  after[MAX_FD_SIZE]

\* process_fork: the table is copied and every file counted up; the
\* close-on-exec bits are not copied.
process_fork(p, c) ==
    /\ Call(p)
    /\ c \notin born
    /\ k' = inherit_all([k EXCEPT !.files[c] = k.files[p], !.close_on_exec[c] = {}], c)
    /\ live' = live \cup {c}
    /\ born' = born \cup {c}

\* process_exec closes the descriptors marked close-on-exec.
process_exec(p) ==
    /\ Call(p)
    /\ k' = shut_all_marked(k, p)
    /\ Same

\* process_exit closes them all, and leaves the bits.
process_exit(p) ==
    /\ Call(p)
    /\ k' = shut_all(k, p)
    /\ live' = live \ {p}
    /\ UNCHANGED born

-----------------------------------------------------------------------------

\* The values of the close-on-exec flag programs of p pass.
Asks(p) == IF p \in Markers THEN BOOLEAN ELSE {FALSE}

Next ==
    \E p \in Procs :
        \/ \E cloexec \in Asks(p) :
            \/ process_open(p, cloexec)
            \/ process_pipe2(p, cloexec)
            \/ \E fd, n \in Fds :
                \/ process_dupfd(p, fd, n, cloexec)
                \/ process_dup3(p, fd, n, cloexec)
            \/ \E fd \in Fds : process_fcntl_setfd(p, fd, cloexec)
        \/ \E fd \in Fds : close(p, fd)
        \/ \E c \in Procs : process_fork(p, c)
        \/ process_exec(p)
        \/ process_exit(p)

Spec == Init /\ [][Next]_vars

-----------------------------------------------------------------------------
(* Properties *)

\* Every table keeps its type.
TypeOK ==
    /\ k.files \in [Procs -> [Fds -> FileIds \cup {NULL}]]
    /\ k.close_on_exec \in [Procs -> SUBSET Fds]
    /\ k.file \in [FileIds -> [type : {"UNUSED", "TTY", "INODE", "PIPE"},
                               flags : {"none", "O_RDWR", "O_RDONLY", "O_WRONLY"},
                               pipe : PipeIds \cup {NULL}, count : Nat]]
    /\ k.readers \in [PipeIds -> Nat] /\ k.writers \in [PipeIds -> Nat]
    /\ k.bug \in BOOLEAN
    /\ live \subseteq born /\ born \subseteq Procs

Refs(S) == Cardinality({r \in Procs \X Fds : k.files[r[1]][r[2]] \in S})

\* A file's count is the number of descriptors, of all processes, that point
\* at it: nothing is freed while a table still names it and nothing leaks,
\* whatever forks, dups over open descriptors, execs and exits happen; the
\* SYSTEM_BUG_ONs of release_file and pipe_release never fire, and the dead
\* hold nothing.
FilesCounted ==
    /\ ~k.bug
    /\ \A f \in FileIds : k.file[f].count = Refs({f})
    /\ \A p \in Procs \ live : \A fd \in Fds : k.files[p][fd] = NULL

\* A pipe's readers and writers are the descriptors that hold its two ends,
\* so it is freed exactly with the last of them, and its end of file and
\* EPIPE come exactly when the other side is really gone.
PipeEndsCounted ==
    \A x \in PipeIds :
        LET ends(flags) == {f \in FileIds : k.file[f].pipe = x /\ k.file[f].flags = flags}
        IN  k.readers[x] = Refs(ends("O_RDONLY")) /\ k.writers[x] = Refs(ends("O_WRONLY"))

\* A live process has the close-on-exec bit set only for open descriptors, so
\* a descriptor number that is used again never inherits a stale bit.
CloexecOnlyOpen ==
    \A p \in live : \A fd \in k.close_on_exec[p] : k.files[p][fd] # NULL

\* The counts of files and of pipe ends are the descriptors there are, through
\* fork, dup, exec and exit (countup_file, release_file, pipe_release).
CountsExact == TypeOK /\ FilesCounted /\ PipeEndsCounted
=============================================================================
