------------------------------- MODULE Syscall --------------------------------
(***************************************************************************)
(* What the system calls do with the pointers a program passes             *)
(* (kernel/syscall.c): which of them each wrapper checks, and which        *)
(* addresses the function it then calls reads or writes.                   *)
(*                                                                         *)
(* Addresses and sizes are unsigned and wrap at ULONG_MAX.  m is the       *)
(* memory, a cell for every address; a cell holds a character, a pointer   *)
(* or a length, so a struct iovec is two cells and a vector of pointers    *)
(* has one per entry.  m stays what it is during a call: the buffers of    *)
(* one readv do not lie over its own vector.  A wrapper is a record: what  *)
(* the call comes to, and the addresses the kernel goes on to use.         *)
(***************************************************************************)
EXTENDS User

CONSTANTS
    ULONG_MAX,
    sizeof,                                 \* sizes of the structures
    TermiosRequests, TIOCGWINSZ,            \* TCGETS, TCSETS, TCSETSW, TCSETSF; the other request
    Registers, Memories                     \* argument values and memories looked at

Address == 0..ULONG_MAX
Structures == {"int", "termios", "winsize", "k_sigaction", "sigset_t", "utsname", "loff_t", "stat64"}

ASSUME SyscallAssumption ==
    /\ ULONG_MAX \in Nat \ {0, 1}
    /\ USER_ADDRESS_START \in Address \ {0}
    /\ USER_ADDRESS_END \in Address
    /\ sizeof \in [Structures -> Address] /\ 2 * sizeof["int"] \in Address
    /\ Registers \subseteq Address
    /\ Memories \subseteq [Address -> Address]

add_overflow_unsigned_long(a, b) == a > ULONG_MAX - b

\* A pointer moved on by k <= ULONG_MAX cells, and the n cells it points to.
plus(p, k) == IF p + k > ULONG_MAX THEN p + k - (ULONG_MAX + 1) ELSE p + k
cells(p, n) == {plus(p, k) : k \in 0..(n - 1)}

\* A register read as a signed int.
int(r) == IF r > ULONG_MAX \div 2 THEN r - (ULONG_MAX + 1) ELSE r

\* How far a loop gets that stops at the first zero: along a string or a vector.
reached(p, m) == {k \in Address : \A j \in 0..(k - 1) : m[plus(p, j)] # 0}

-----------------------------------------------------------------------------
(* The checks *)

\* Mutant: a range may wrap.
check_address_range_wraps(p, s) == IS_USER_ADDRESSS(p) /\ IS_USER_ADDRESSS(plus(p, s))

check_address_range(p, s) ==
    /\ ~add_overflow_unsigned_long(p, s)
    /\ IS_USER_ADDRESSS(p) /\ IS_USER_ADDRESSS(plus(p, s))

check_iovec(iov, iovcnt, m) ==
    \A i \in 0..(iovcnt - 1) :
        LET entry == plus(iov, 2 * i)
            len == m[plus(entry, 1)]
        IN  /\ check_address_range(entry, 2)
            /\ len # 0 => check_address_range(m[entry], len)

check_string(s, m) == \A k \in reached(s, m) : IS_USER_ADDRESSS(plus(s, k))

check_avep(avep, m) ==
    avep # 0 =>
        \A k \in reached(avep, m) :
            /\ IS_USER_ADDRESSS(plus(avep, k))
            /\ m[plus(avep, k)] # 0 => check_string(m[plus(avep, k)], m)

-----------------------------------------------------------------------------
(* What the callees use: buffers, iovecs, strings, vectors of strings *)

iovec_cells(iov, iovcnt, m) ==
    UNION {cells(plus(iov, 2 * i), 2)
             \cup cells(m[plus(iov, 2 * i)], m[plus(iov, 2 * i + 1)]) : i \in 0..(iovcnt - 1)}

string_cells(s, m) == {plus(s, k) : k \in reached(s, m)}

avep_cells(avep, m) ==
    IF avep = 0 THEN {}
    ELSE string_cells(avep, m)
           \cup UNION {string_cells(m[q], m) : q \in {p \in string_cells(avep, m) : m[p] # 0}}

optional(p, n) == IF p = 0 THEN {} ELSE cells(p, n)

-----------------------------------------------------------------------------
(* The wrappers: a is the registers r0.. *)

Returns(r) == [r |-> r, uses |-> {}]
Calls(ok, uses) == IF ok THEN [r |-> "called", uses |-> uses] ELSE Returns("EFAULT")
NoPointer == Calls(TRUE, {})

syscall_buffer(p, n) == Calls(check_address_range(p, n), cells(p, n))
syscall_path(s, m) == Calls(check_string(s, m), string_cells(s, m))

syscall_read(a) == syscall_buffer(a[1], a[2])
syscall_write(a) == syscall_buffer(a[1], a[2])
syscall_getdents64(a) == syscall_buffer(a[1], a[2])
syscall_pipe(a) == syscall_buffer(a[0], 2 * sizeof["int"])
syscall_pipe2(a) == syscall_buffer(a[0], 2 * sizeof["int"])
syscall_wait4(a) == syscall_buffer(a[1], sizeof["int"])
syscall_uname(a) == syscall_buffer(a[0], sizeof["utsname"])
syscall__llseek(a) == syscall_buffer(a[3], sizeof["loff_t"])
syscall_fstat64(a) == syscall_buffer(a[1], sizeof["stat64"])

\* strcpy of "/" and its end.
syscall_getcwd(a) ==
    IF a[1] < 2 THEN Returns("ERANGE") ELSE Calls(check_address_range(a[0], a[1]), cells(a[0], 2))

syscall_ioctl(a) ==
    CASE a[1] \in TermiosRequests -> syscall_buffer(a[2], sizeof["termios"])
      [] a[1] = TIOCGWINSZ /\ a[1] \notin TermiosRequests -> syscall_buffer(a[2], sizeof["winsize"])
      [] OTHER -> NoPointer

syscall_open(a, m) == syscall_path(a[0], m)
syscall_unlink(a, m) == syscall_path(a[0], m)
syscall_mkdir(a, m) == syscall_path(a[0], m)
syscall_rmdir(a, m) == syscall_path(a[0], m)

syscall_stat64(a, m) ==
    Calls(check_string(a[0], m) /\ check_address_range(a[1], sizeof["stat64"]),
          string_cells(a[0], m) \cup cells(a[1], sizeof["stat64"]))
syscall_lstat64(a, m) == syscall_stat64(a, m)

syscall_execve(a, m) ==
    Calls(check_string(a[0], m) /\ check_avep(a[1], m) /\ check_avep(a[2], m),
          string_cells(a[0], m) \cup avep_cells(a[1], m) \cup avep_cells(a[2], m))

pair(p, q, n) ==
    Calls((p # 0 => check_address_range(p, n)) /\ (q # 0 => check_address_range(q, n)),
          optional(p, n) \cup optional(q, n))

syscall_rt_sigaction(a) == pair(a[1], a[2], sizeof["k_sigaction"])
syscall_rt_sigprocmask(a) == pair(a[1], a[2], sizeof["sigset_t"])

syscall_readv(a, m) ==
    Calls(check_iovec(a[1], int(a[2]), m), iovec_cells(a[1], int(a[2]), m))
syscall_writev(a, m) == syscall_readv(a, m)

\* exit, fork, close, getpid, kill, dup, brk, dup2, getppid, sigreturn, fcntl64,
\* dup3 take no pointer.
WithoutPointers == {1, 2, 6, 20, 37, 41, 45, 63, 64, 119, 221, 358}

syscall_handler(n, a, m) ==
    CASE n = 3 -> syscall_read(a)
      [] n = 4 -> syscall_write(a)
      [] n = 5 -> syscall_open(a, m)
      [] n = 10 -> syscall_unlink(a, m)
      [] n = 11 -> syscall_execve(a, m)
      [] n = 39 -> syscall_mkdir(a, m)
      [] n = 40 -> syscall_rmdir(a, m)
      [] n = 42 -> syscall_pipe(a)
      [] n = 54 -> syscall_ioctl(a)
      [] n = 114 -> syscall_wait4(a)
      [] n = 122 -> syscall_uname(a)
      [] n = 140 -> syscall__llseek(a)
      [] n = 145 -> syscall_readv(a, m)
      [] n = 146 -> syscall_writev(a, m)
      [] n = 174 -> syscall_rt_sigaction(a)
      [] n = 175 -> syscall_rt_sigprocmask(a)
      [] n = 183 -> syscall_getcwd(a)
      [] n = 195 -> syscall_stat64(a, m)
      [] n = 196 -> syscall_lstat64(a, m)
      [] n = 197 -> syscall_fstat64(a)
      [] n = 217 -> syscall_getdents64(a)
      [] n = 359 -> syscall_pipe2(a)
      [] n \in WithoutPointers -> NoPointer
      [] n \in {248, 270} -> Returns("0")
      [] n \in 199..202 -> Returns("1")
      [] OTHER -> Returns("EINVAL")

-----------------------------------------------------------------------------
(* Properties *)

UserSpace == {p \in Address : IS_USER_ADDRESSS(p)}

\* Whatever registers and memory a program makes a system call with, every
\* address the kernel reads or writes for it lies in user space: each wrapper
\* checks all its callee is going to use, and no check can be passed by a
\* range that wraps, a vector that runs on or a string that does not end.
CallsStayInUserSpace ==
    \A n \in 0..400, a \in [0..3 -> Registers], m \in Memories :
        syscall_handler(n, a, m).uses \subseteq UserSpace
=============================================================================
