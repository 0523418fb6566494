-------------------------------- MODULE Pipe --------------------------------
(***************************************************************************)
(* A pipe (kernel/pipe.c): a ring buffer in one page, counted read and     *)
(* write ends, and two LIFO wait queues, used by processes that read,      *)
(* write, fork, dup and close.                                             *)
(*                                                                         *)
(* The kernel is not preempted: `running` is the process inside pipe_read  *)
(* or pipe_write, and nobody else takes a step until it returns or calls   *)
(* process_sleep.  A woken sleeper goes on when the scheduler picks it.    *)
(***************************************************************************)
EXTENDS Integers, Sequences, FiniteSets

CONSTANTS
    PAGE_SIZE,   \* bytes in the ring buffer
    Procs,       \* processes
    NULL,        \* nobody
    Bytes,       \* byte values
    ReadSizes,   \* sizes programs pass to read
    WriteSizes,  \* sizes programs pass to write
    Readers,     \* the processes whose programs read
    Writers,     \* the processes whose programs write
    MaxFds       \* bound on the descriptors a process has of one end

ASSUME PipeAssumption ==
    /\ PAGE_SIZE \in Nat \ {0}
    /\ NULL \notin Procs
    /\ Bytes # {}
    /\ ReadSizes \subseteq Nat /\ WriteSizes \subseteq Nat
    /\ Readers \subseteq Procs /\ Writers \subseteq Procs
    /\ MaxFds \in Nat

VARIABLES
    exists,         \* the struct and its page are allocated
    page,           \* the contents of pipe->page
    offset, length, readers, writers,   \* the fields of struct pipe
    readers_waitq, writers_waitq,
    rfds, wfds,     \* how many descriptors of each end a process has
    op,             \* the call a process is in: "none", "read" or "write"
    state,          \* process.state
    running,        \* the process running in the kernel
    want,           \* bytes a read still wants (size - read), 0 when it returned
    got,            \* bytes a read has copied to the user
    todo,           \* bytes a write has still to copy (data + written ...)
    sigpipe,        \* the processes this pipe sent SIGPIPE to
    halted          \* a SYSTEM_BUG_ON stopped the kernel

pipe == <<exists, page, offset, length>>
ends == <<readers, writers, rfds, wfds>>
queues == <<readers_waitq, writers_waitq, state>>
calls == <<op, want, got, todo>>
vars == <<pipe, ends, queues, calls, running, sigpipe, halted>>

InSeq(s) == {s[i] : i \in DOMAIN s}
Lesser(a, b) == IF a < b THEN a ELSE b

-----------------------------------------------------------------------------

Init ==
    /\ exists = FALSE
    /\ page \in [0..(PAGE_SIZE - 1) -> {CHOOSE b \in Bytes : TRUE}]
    /\ offset = 0 /\ length = 0 /\ readers = 0 /\ writers = 0
    /\ readers_waitq = <<>> /\ writers_waitq = <<>>
    /\ rfds = [p \in Procs |-> 0] /\ wfds = [p \in Procs |-> 0]
    /\ op = [p \in Procs |-> "none"]
    /\ state = [p \in Procs |-> "READY"]
    /\ running = NULL
    /\ want = [p \in Procs |-> 0]
    /\ got = [p \in Procs |-> <<>>]
    /\ todo = [p \in Procs |-> <<>>]
    /\ sigpipe = {}
    /\ halted = FALSE

\* p runs in user mode, so it can enter the kernel.
InUser(p) == ~halted /\ running = NULL /\ op[p] = "none"

\* process_pipe2 by p, once no other pipe is around: pipe_create clears the
\* struct, not the page.
pipe_create(p) ==
    /\ InUser(p)
    /\ ~exists
    /\ exists' = TRUE
    /\ offset' = 0 /\ length' = 0 /\ readers' = 1 /\ writers' = 1
    /\ readers_waitq' = <<>> /\ writers_waitq' = <<>>
    /\ rfds' = [rfds EXCEPT ![p] = 1]
    /\ wfds' = [wfds EXCEPT ![p] = 1]
    /\ sigpipe' = {}
    /\ UNCHANGED <<page, state, calls, running, halted>>

\* dup by p, and the part of p's fork that counts up every descriptor the
\* child c inherits.
pipe_countup_dup(p) ==
    /\ InUser(p)
    /\ \/ /\ rfds[p] \in 1..(MaxFds - 1)
          /\ rfds' = [rfds EXCEPT ![p] = @ + 1]
          /\ readers' = readers + 1
          /\ UNCHANGED <<writers, wfds>>
       \/ /\ wfds[p] \in 1..(MaxFds - 1)
          /\ wfds' = [wfds EXCEPT ![p] = @ + 1]
          /\ writers' = writers + 1
          /\ UNCHANGED <<readers, rfds>>
    /\ UNCHANGED <<pipe, queues, calls, running, sigpipe, halted>>

\* Mutant: the child's descriptors are not counted.
pipe_countup_fork_none(p, c) ==
    /\ InUser(p)
    /\ op[c] = "none" /\ rfds[c] = 0 /\ wfds[c] = 0
    /\ rfds' = [rfds EXCEPT ![c] = rfds[p]]
    /\ wfds' = [wfds EXCEPT ![c] = wfds[p]]
    /\ UNCHANGED <<pipe, readers, writers, queues, calls, running, sigpipe, halted>>

pipe_countup_fork(p, c) ==
    /\ InUser(p)
    /\ rfds[p] + wfds[p] > 0
    /\ op[c] = "none" /\ rfds[c] = 0 /\ wfds[c] = 0
    /\ rfds' = [rfds EXCEPT ![c] = rfds[p]]
    /\ wfds' = [wfds EXCEPT ![c] = wfds[p]]
    /\ readers' = readers + rfds[p]
    /\ writers' = writers + wfds[p]
    /\ UNCHANGED <<pipe, queues, calls, running, sigpipe, halted>>

\* Mutant: only one sleeper is woken.
left_asleep_one(n, q) == IF n = 1 /\ q # <<>> THEN Tail(q) ELSE q

\* Who still sleeps in q after the peers' count n went down by one: nobody when
\* that was the last peer (`while (process_wake(q))`).
left_asleep(n, q) == IF n = 1 THEN <<>> ELSE q

wake_all_but(q, rest) ==
    [p \in Procs |-> IF p \in InSeq(q) \ InSeq(rest) THEN "READY" ELSE state[p]]

\* close of a descriptor of the read end ...
pipe_release_reader(p) ==
    LET asleep == left_asleep(readers, writers_waitq)
    IN  /\ InUser(p)
        /\ rfds[p] > 0
        /\ rfds' = [rfds EXCEPT ![p] = @ - 1]
        /\ halted' = (readers = 0)
        /\ readers' = readers - 1
        /\ state' = wake_all_but(writers_waitq, asleep)
        /\ writers_waitq' = asleep
        /\ exists' = (readers # 1 \/ writers # 0)
        /\ UNCHANGED <<page, offset, length, writers, wfds, readers_waitq, calls, running, sigpipe>>

\* ... and of the write end.
pipe_release_writer(p) ==
    LET asleep == left_asleep(writers, readers_waitq)
    IN  /\ InUser(p)
        /\ wfds[p] > 0
        /\ wfds' = [wfds EXCEPT ![p] = @ - 1]
        /\ halted' = (writers = 0)
        /\ writers' = writers - 1
        /\ state' = wake_all_but(readers_waitq, asleep)
        /\ readers_waitq' = asleep
        /\ exists' = (writers # 1 \/ readers # 0)
        /\ UNCHANGED <<page, offset, length, readers, rfds, writers_waitq, calls, running, sigpipe>>

-----------------------------------------------------------------------------
(* Calls: entry, return to the kernel after a sleep, and the two loops *)

syscall_read(p, size) ==
    /\ InUser(p)
    /\ rfds[p] > 0
    /\ op' = [op EXCEPT ![p] = "read"]
    /\ want' = [want EXCEPT ![p] = size]
    /\ got' = [got EXCEPT ![p] = <<>>]
    /\ running' = p
    /\ UNCHANGED <<pipe, ends, queues, todo, sigpipe, halted>>

syscall_write(p, data) ==
    /\ InUser(p)
    /\ wfds[p] > 0
    /\ op' = [op EXCEPT ![p] = "write"]
    /\ todo' = [todo EXCEPT ![p] = data]
    /\ running' = p
    /\ UNCHANGED <<pipe, ends, queues, want, got, sigpipe, halted>>

\* The scheduler resumes a sleeper that was woken.
process_resume(p) ==
    /\ ~halted
    /\ running = NULL
    /\ op[p] # "none"
    /\ state[p] = "READY"
    /\ running' = p
    /\ UNCHANGED <<pipe, ends, queues, calls, sigpipe, halted>>

\* Mutant: the sleeper is not made READY.
woken_not(q) == state

\* process_wake(q): the states, and the queue, after it.
woken(q) == IF q = <<>> THEN state ELSE [state EXCEPT ![Head(q)] = "READY"]
rest(q) == IF q = <<>> THEN q ELSE Tail(q)

InRead(p) == ~halted /\ running = p /\ op[p] = "read"
InWrite(p) == ~halted /\ running = p /\ op[p] = "write"

\* End of file.
pipe_read_eof(p) ==
    /\ InRead(p)
    /\ length = 0
    /\ writers = 0
    /\ op' = [op EXCEPT ![p] = "none"]
    /\ want' = [want EXCEPT ![p] = 0]
    /\ running' = NULL
    /\ UNCHANGED <<pipe, ends, queues, got, todo, sigpipe, halted>>

pipe_read_sleep(p) ==
    /\ InRead(p)
    /\ length = 0
    /\ writers # 0
    /\ readers_waitq' = <<p>> \o readers_waitq
    /\ state' = [state EXCEPT ![p] = "BLOCKED"]
    /\ running' = NULL
    /\ UNCHANGED <<pipe, ends, writers_waitq, calls, sigpipe, halted>>

\* The contiguous bytes from offset on, and how many of them a read of
\* `size` more bytes copies.
read_length(size) ==
    LET start == (offset + length) % PAGE_SIZE
        remaining == IF start > offset THEN start - offset ELSE PAGE_SIZE - offset
    IN  Lesser(remaining, size)

advance(n) == (offset + n) % PAGE_SIZE

pipe_read_copy(p) ==
    LET n == read_length(want[p])
        left == length - n
    IN  /\ InRead(p)
        /\ length # 0
        /\ got' = [got EXCEPT ![p] = @ \o [i \in 1..n |-> page[offset + i - 1]]]
        /\ want' = [want EXCEPT ![p] = IF left = 0 THEN 0 ELSE @ - n]
        /\ offset' = advance(n)
        /\ length' = left
        /\ IF left >= PAGE_SIZE
           THEN halted' = TRUE /\ UNCHANGED <<state, writers_waitq, op, running>>
           ELSE /\ state' = woken(writers_waitq)
                /\ writers_waitq' = rest(writers_waitq)
                /\ IF left = 0 \/ want[p] = n
                   THEN op' = [op EXCEPT ![p] = "none"] /\ running' = NULL
                   ELSE UNCHANGED <<op, running>>
                /\ UNCHANGED halted
        /\ UNCHANGED <<exists, page, ends, readers_waitq, todo, sigpipe>>

\* No reader is left, whatever was written before: SIGPIPE and EPIPE.
pipe_write_broken(p) ==
    /\ InWrite(p)
    /\ readers = 0
    /\ sigpipe' = sigpipe \cup {p}
    /\ op' = [op EXCEPT ![p] = "none"]
    /\ todo' = [todo EXCEPT ![p] = <<>>]
    /\ running' = NULL
    /\ UNCHANGED <<pipe, ends, queues, want, got, halted>>

pipe_write_sleep(p) ==
    /\ InWrite(p)
    /\ readers # 0
    /\ length = PAGE_SIZE
    /\ writers_waitq' = <<p>> \o writers_waitq
    /\ state' = [state EXCEPT ![p] = "BLOCKED"]
    /\ running' = NULL
    /\ UNCHANGED <<pipe, ends, readers_waitq, calls, sigpipe, halted>>

\* Where a write puts its bytes, and how many fit before the end of the page
\* or the first unread byte.
write_start == (offset + length) % PAGE_SIZE

\* Mutant: the unread bytes are not seen.
write_length_blind(size) == Lesser(PAGE_SIZE - write_start, size)

write_length(size) ==
    LET remaining == IF write_start < offset THEN offset - write_start
                                             ELSE PAGE_SIZE - write_start
    IN  Lesser(remaining, size)

pipe_write_copy(p) ==
    LET start == write_start
        n == write_length(Len(todo[p]))
    IN  /\ InWrite(p)
        /\ readers # 0
        /\ length # PAGE_SIZE
        /\ page' = [i \in 0..(PAGE_SIZE - 1) |->
                      IF i \in start..(start + n - 1) THEN todo[p][i - start + 1] ELSE page[i]]
        /\ todo' = [todo EXCEPT ![p] = SubSeq(@, n + 1, Len(@))]
        /\ length' = length + n
        /\ state' = woken(readers_waitq)
        /\ readers_waitq' = rest(readers_waitq)
        /\ halted' = (length + n > PAGE_SIZE)
        /\ IF Len(todo[p]) = n
           THEN op' = [op EXCEPT ![p] = "none"] /\ running' = NULL
           ELSE UNCHANGED <<op, running>>
        /\ UNCHANGED <<exists, offset, ends, writers_waitq, want, got, sigpipe>>

-----------------------------------------------------------------------------

pipe_read(p) == pipe_read_eof(p) \/ pipe_read_sleep(p) \/ pipe_read_copy(p)
pipe_write(p) == pipe_write_broken(p) \/ pipe_write_sleep(p) \/ pipe_write_copy(p)

InKernel(p) == process_resume(p) \/ pipe_read(p) \/ pipe_write(p)

Next ==
    \/ \E p \in Procs :
        \/ InKernel(p)
        \/ pipe_create(p)
        \/ pipe_countup_dup(p)
        \/ \E c \in Procs : pipe_countup_fork(p, c)
        \/ pipe_release_reader(p)
        \/ pipe_release_writer(p)
    \/ \E p \in Readers, size \in ReadSizes : syscall_read(p, size)
    \/ \E p \in Writers, size \in WriteSizes :
          \E data \in [1..size -> Bytes] : syscall_write(p, data)

Spec == Init /\ [][Next]_vars

\* Kernel code runs on, and the scheduler resumes every woken process
\* (Process!ReadyRuns), however often others run in between.
FairSpec ==
    /\ Spec
    /\ \A p \in Procs : WF_vars(pipe_read(p) \/ pipe_write(p)) /\ SF_vars(process_resume(p))

-----------------------------------------------------------------------------
(* Properties *)

\* Every field of struct pipe keeps its range: offset stays inside the page
\* and length never exceeds it (what the SYSTEM_BUG_ONs of pipe.c guard).
TypeOK ==
    /\ exists \in BOOLEAN
    /\ page \in [0..(PAGE_SIZE - 1) -> Bytes]
    /\ offset \in 0..(PAGE_SIZE - 1)
    /\ length \in 0..PAGE_SIZE
    /\ readers \in Nat /\ writers \in Nat
    /\ readers_waitq \in Seq(Procs) /\ writers_waitq \in Seq(Procs)
    /\ rfds \in [Procs -> Nat] /\ wfds \in [Procs -> Nat]
    /\ op \in [Procs -> {"none", "read", "write"}]
    /\ state \in [Procs -> {"READY", "BLOCKED"}]
    /\ running \in Procs \cup {NULL}
    /\ want \in [Procs -> Nat]
    /\ got \in [Procs -> Seq(Bytes)]
    /\ todo \in [Procs -> Seq(Bytes)]
    /\ sigpipe \subseteq Procs
    /\ halted \in BOOLEAN

\* Reads, writes, countups and releases in any order keep offset, length and
\* the two counts where they must be, so no SYSTEM_BUG_ON of pipe.c fires but
\* one: a read of size 0 on a full pipe halts the kernel, since pipe_read
\* asserts after every copy that there is room.
OneBugOnly ==
    /\ TypeOK
    /\ halted => \E p \in Readers : running = p /\ op[p] = "read" /\ want[p] = 0 /\ length = PAGE_SIZE

\* The descriptors of one end: the k-th of process p, for all p and k.
Descriptors(fds) == UNION {{p} \X (1..fds[p]) : p \in Procs}

\* The counts in struct pipe are the descriptors that processes really have,
\* and the pipe is freed exactly when the last of them is closed, so no
\* process that sleeps in or returns to pipe_read or pipe_write finds it
\* freed (pipe_countup, pipe_release, process_fork).
EndsCounted ==
    LET r == Cardinality(Descriptors(rfds))
        w == Cardinality(Descriptors(wfds))
    IN  /\ exists => readers = r /\ writers = w
        /\ exists <=> r + w > 0
        /\ \A p \in Procs : op[p] # "none" => exists

\* Nobody sleeps for a peer that is gone: while a reader sleeps there is a
\* write end, while a writer sleeps there is a read end (pipe_release wakes
\* all when the last end closes; a call that starts later does not sleep).
SleepersHavePeers ==
    /\ readers_waitq # <<>> => writers > 0
    /\ writers_waitq # <<>> => readers > 0

\* Readers and writers never all sleep on each other: if a reader sleeps
\* while the pipe is full, or a writer while it is empty, somebody of the same
\* side has been woken and not run yet.  One wakeup per copy is enough for
\* that, with any number of readers and writers.
NoMutualWait ==
    /\ readers_waitq # <<>> /\ length = PAGE_SIZE =>
          \E p \in Procs : op[p] = "read" /\ state[p] = "READY"
    /\ writers_waitq # <<>> /\ length = 0 =>
          \E p \in Procs : op[p] = "write" /\ state[p] = "READY"

\* Nobody sleeps in vain: no reader or writer for a peer that is gone, and
\* the two sides never all on each other (pipe_release, pipe_read, pipe_write).
SleepersWoken == SleepersHavePeers /\ NoMutualWait

\* No wakeup is lost with one reader and one writer: a read returns once there
\* is something to return, data or no writer left, and a write goes on once
\* there is room, to its end or to a full pipe again (the single wakeups of
\* pipe_read and pipe_write, the draining ones of pipe_release).
CallsServed ==
    \A p \in Procs :
        /\ (op[p] = "read" /\ (length > 0 \/ writers = 0)) ~> op[p] = "none"
        /\ (op[p] = "write" /\ (length < PAGE_SIZE \/ readers = 0))
              ~> (op[p] = "none" \/ length = PAGE_SIZE)

\* The ring buffer is a FIFO channel: the bytes in the page, from offset on,
\* are those written and not yet read, in order.
Contents == [i \in 1..length |-> page[(offset + i - 1) % PAGE_SIZE]]

Channel == INSTANCE PipeChannel WITH
    Capacity <- PAGE_SIZE,
    open <- exists,
    chan <- IF exists THEN Contents ELSE <<>>,
    unsent <- todo,
    received <- got

\* pipe_read and pipe_write implement it.
ChannelSpec == Channel!Spec
=============================================================================
