--------------------------------- MODULE Tty ---------------------------------
(***************************************************************************)
(* The terminal (kernel/tty.c over kernel/uart.c): processes that read     *)
(* lines and write characters through the UART, sleep when its receive     *)
(* FIFO is empty or its transmit FIFO is full, and are woken by its        *)
(* interrupt, whose mask they switch on before a sleep and off after it.   *)
(*                                                                         *)
(* `running` is the process in the kernel, as in Pipe.  The UART itself    *)
(* (characters coming in and going out, the interrupt line) is external:   *)
(* it is modelled from how uart.c uses it.                                 *)
(***************************************************************************)
EXTENDS Integers, Sequences

CONSTANTS
    Procs, NOBODY,
    Readers, Writers,   \* the processes whose programs read, write
    Sizes,              \* sizes programs pass to read and write
    RxMax, TxMax        \* depth of the two FIFOs

ASSUME TtyAssumption ==
    /\ NOBODY \notin Procs /\ Readers \subseteq Procs /\ Writers \subseteq Procs
    /\ Sizes \subseteq Nat \ {0}
    /\ RxMax \in Nat \ {0} /\ TxMax \in Nat \ {0}

VARIABLES
    rx, tx,             \* characters in the receive and transmit FIFOs
    rxim, txim,         \* UARTIMSC: receive and transmit interrupt enabled
    readq, writeq,      \* tty_read_waitq, tty_write_waitq
    task,               \* process.state
    running,            \* the process running in the kernel
    op,                 \* the call a process is in: "none", "read", "write"
    at,                 \* where it is in the call: "getc", "putc"
    left,               \* characters still to read or write
    newline             \* the character in hand ends the line

uart == <<rx, tx, rxim, txim>>
queues == <<readq, writeq, task>>
calls == <<op, at, left, newline>>
tty_vars == <<uart, queues, calls, running>>

InSeq(s) == {s[i] : i \in DOMAIN s}
uart_can_recv == rx > 0
uart_can_send == tx < TxMax

TtyInit ==
    /\ rx = 0 /\ tx = 0 /\ rxim = FALSE /\ txim = FALSE
    /\ readq = <<>> /\ writeq = <<>>
    /\ task = [p \in Procs |-> "READY"]
    /\ running = NOBODY
    /\ op = [p \in Procs |-> "none"]
    /\ at = [p \in Procs |-> "getc"]
    /\ left = [p \in Procs |-> 0]
    /\ newline = [p \in Procs |-> FALSE]

-----------------------------------------------------------------------------
(* The device *)

uart_receive ==
    /\ rx < RxMax
    /\ rx' = rx + 1
    /\ UNCHANGED <<tx, rxim, txim, queues, calls, running>>

uart_transmit ==
    /\ tx > 0
    /\ tx' = tx - 1
    /\ UNCHANGED <<rx, rxim, txim, queues, calls, running>>

-----------------------------------------------------------------------------
(* Wakeups *)

head(q) == {q[i] : i \in 1..(IF q = <<>> THEN 0 ELSE 1)}
rest(q) == IF q = <<>> THEN q ELSE Tail(q)

\* process_wake of the read queue if r, of the write queue if w.
wake(r, w) ==
    /\ task' = [p \in Procs |-> IF (r /\ p \in head(readq)) \/ (w /\ p \in head(writeq))
                                 THEN "READY" ELSE task[p]]
    /\ readq' = IF r THEN rest(readq) ELSE readq
    /\ writeq' = IF w THEN rest(writeq) ELSE writeq

\* Mutant: only readers are woken.
tty_resume_readers ==
    /\ running = NOBODY
    /\ (rxim /\ uart_can_recv) \/ (txim /\ uart_can_send)
    /\ wake(uart_can_recv, FALSE)
    /\ UNCHANGED <<uart, calls, running>>

\* The UART interrupt, in user mode or idle: tty_resume.
tty_resume ==
    /\ running = NOBODY
    /\ (rxim /\ uart_can_recv) \/ (txim /\ uart_can_send)
    /\ wake(uart_can_recv, uart_can_send)
    /\ UNCHANGED <<uart, calls, running>>

\* Mutant: the wakeup is not passed on.
wake_next_none(p) ==
    /\ op' = [op EXCEPT ![p] = "none"]
    /\ running' = NOBODY
    /\ UNCHANGED queues

\* wake_next, and the end of the call.
wake_next(p) ==
    /\ wake(TRUE, TRUE)
    /\ op' = [op EXCEPT ![p] = "none"]
    /\ running' = NOBODY

-----------------------------------------------------------------------------
(* Calls *)

tty_call(p, o, size) ==
    /\ running = NOBODY
    /\ op[p] = "none"
    /\ op' = [op EXCEPT ![p] = o]
    /\ at' = [at EXCEPT ![p] = IF o = "read" THEN "getc" ELSE "putc"]
    /\ left' = [left EXCEPT ![p] = size]
    /\ newline' \in {newline, [newline EXCEPT ![p] = ~@]}
    /\ running' = p
    /\ UNCHANGED <<uart, queues>>

\* A call with size 0 only passes a wakeup on.
tty_call_empty(p) ==
    /\ running = NOBODY
    /\ op[p] = "none"
    /\ wake(TRUE, TRUE)
    /\ UNCHANGED <<uart, calls, running>>

\* process_sleep returns, and the interrupt is masked again.
process_resume(p) ==
    /\ running = NOBODY
    /\ op[p] # "none"
    /\ task[p] = "READY"
    /\ running' = p
    /\ rxim' = (rxim /\ at[p] # "getc")
    /\ txim' = (txim /\ at[p] # "putc")
    /\ UNCHANGED <<rx, tx, queues, calls>>

tty_getc_sleep(p) ==
    /\ running = p /\ at[p] = "getc"
    /\ ~uart_can_recv
    /\ rxim' = TRUE
    /\ readq' = <<p>> \o readq
    /\ task' = [task EXCEPT ![p] = "BLOCKED"]
    /\ running' = NOBODY
    /\ UNCHANGED <<rx, tx, txim, writeq, calls>>

tty_getc(p) ==
    /\ running = p /\ at[p] = "getc"
    /\ uart_can_recv
    /\ rx' = rx - 1
    /\ newline' \in {[newline EXCEPT ![p] = b] : b \in BOOLEAN}
    /\ at' = [at EXCEPT ![p] = "putc"]
    /\ UNCHANGED <<tx, rxim, txim, queues, op, left, running>>

tty_putc_sleep(p) ==
    /\ running = p /\ at[p] = "putc"
    /\ ~uart_can_send
    /\ txim' = TRUE
    /\ writeq' = <<p>> \o writeq
    /\ task' = [task EXCEPT ![p] = "BLOCKED"]
    /\ running' = NOBODY
    /\ UNCHANGED <<rx, tx, rxim, readq, calls>>

\* uart_putc sends "\r\n" for a newline, and spins until the second one fits.
sent(p) == IF newline[p] /\ tx + 2 <= TxMax THEN tx + 2 ELSE tx + 1

\* The rest of the loop bodies of tty_read and tty_write.
tty_putc(p) ==
    /\ running = p /\ at[p] = "putc"
    /\ uart_can_send
    /\ tx' = sent(p)
    /\ left' = [left EXCEPT ![p] = @ - 1]
    /\ \/ /\ left[p] = 1 \/ (op[p] = "read" /\ newline[p])
          /\ wake_next(p)
          /\ UNCHANGED <<at, newline>>
       \/ /\ left[p] > 1 /\ ~(op[p] = "read" /\ newline[p])
          /\ at' = [at EXCEPT ![p] = IF op[p] = "read" THEN "getc" ELSE "putc"]
          /\ newline' \in {newline, [newline EXCEPT ![p] = ~@]}
          /\ UNCHANGED <<queues, op, running>>
    /\ UNCHANGED <<rx, rxim, txim>>

-----------------------------------------------------------------------------

InKernel(p) == tty_getc_sleep(p) \/ tty_getc(p) \/ tty_putc_sleep(p) \/ tty_putc(p)

TtyNext ==
    \/ uart_receive
    \/ uart_transmit
    \/ tty_resume
    \/ \E p \in Procs : process_resume(p) \/ InKernel(p)
    \/ \E p \in Readers, size \in Sizes : tty_call(p, "read", size)
    \/ \E p \in Readers \cup Writers : tty_call_empty(p)
    \/ \E p \in Writers, size \in Sizes : tty_call(p, "write", size)

TtySpec == TtyInit /\ [][TtyNext]_tty_vars

\* The kernel runs on, the scheduler resumes every woken process, the UART
\* sends what it holds and a pending interrupt is taken; nobody has to type.
\* A pending interrupt is only taken outside the kernel, hence SF.
TtyFairSpec ==
    /\ TtySpec
    /\ WF_tty_vars(uart_transmit) /\ SF_tty_vars(tty_resume)
    /\ \A p \in Procs : WF_tty_vars(InKernel(p)) /\ SF_tty_vars(process_resume(p))

-----------------------------------------------------------------------------
(* Properties *)

\* Every variable keeps its type; the FIFOs never overrun.
TtyTypeOK ==
    /\ rx \in 0..RxMax /\ tx \in 0..TxMax
    /\ rxim \in BOOLEAN /\ txim \in BOOLEAN
    /\ readq \in Seq(Procs) /\ writeq \in Seq(Procs)
    /\ task \in [Procs -> {"READY", "BLOCKED"}]
    /\ running \in Procs \cup {NOBODY}
    /\ op \in [Procs -> {"none", "read", "write"}]
    /\ at \in [Procs -> {"getc", "putc"}]
    /\ left \in [Procs -> Nat]
    /\ newline \in [Procs -> BOOLEAN]

Active == {p \in Procs : op[p] # "none" /\ task[p] = "READY"}

\* No sleeper is forgotten although each woken process masks its interrupt for
\* all: the interrupt is on, or a process is on its way through the tty that
\* will sleep with it on or pass the wakeup on.  Or the process that masked it
\* sleeps on the other queue with that interrupt on: a reader that waits for
\* room to echo, or that went on to wait for input while a writer sleeps.
SleepersWatched ==
    /\ readq # <<>> => rxim \/ Active # {} \/ (writeq # <<>> /\ txim)
    /\ writeq # <<>> => txim \/ Active # {} \/ (readq # <<>> /\ rxim)

\* Writers contending for the FIFO never all get stuck: when every one of
\* them is inside tty_write, one returns, unless somebody starts to read (see
\* SleepersWatched).  The shared mask and the single wakeups of tty_resume and
\* wake_next are enough for that.
WritersProgress ==
    (\A p \in Writers : op[p] = "write")
        ~> \/ \E p \in Writers : op[p] = "none"
           \/ \E p \in Procs : op[p] = "read"

\* The FIFOs never overrun, also when a newline takes two characters, and no
\* sleeper is forgotten (uart_write, tty_getc, tty_putc, tty_resume).
TtySound == TtyTypeOK /\ SleepersWatched
=============================================================================
