------------------------------- MODULE Process -------------------------------
(***************************************************************************)
(* The process core of the kernel (kernel/process.c with the exception     *)
(* handlers of kernel/system.c): the process table, the family tree, the   *)
(* run queue, wait queues, fork / exec / wait / exit and signal delivery.  *)
(*                                                                         *)
(* The machine has one CPU and the kernel runs with interrupts masked, so  *)
(* kernel code is never preempted: control leaves it only in               *)
(* system_dispatch (to user mode), system_resume (to the kernel stack of a *)
(* process that slept) and system_idle.  `cpu` is the kernel's program     *)
(* counter between those points; in every value but "user" and "idle"      *)
(* exactly the code it names can run next.                                 *)
(*                                                                         *)
(* Lists.  all_processes is kept newest first and never reordered, and     *)
(* process_schedule pushes its READY members onto the head of an EMPTY     *)
(* run_queue, so run_queue is always in increasing pid order: both are     *)
(* sets of pids here, run_queue taken from its least element.  Wait queues *)
(* are LIFO (list_add at the head, process_wake from the head): sequences. *)
(***************************************************************************)
EXTENDS Integers, Sequences, FiniteSets

CONSTANTS
    MaxPid,     \* bound on max_id: how many processes are ever created
    Forkers,    \* the processes whose programs call fork
    Signals,    \* the signal numbers in play
    MaskArgs,   \* the signal sets programs pass to sigprocmask / sigaction
    MaskDepth,  \* bound: handlers nested deeper than this call no sigprocmask
    ExitCodes,  \* the codes programs pass to exit
    IoQueues    \* the wait queues of the pipes and of the tty

NSIG == 65
SIGKILL == 9
SIGSEGV == 11
SIGPIPE == 13
SIGCHLD == 17
SIGSTOP == 19
SIGURG == 23
SIGWINCH == 28

\* Signal 64 passes every range check but indexes one past actions[NSIG-1].
ASSUME ConstantsAssumption ==
    /\ MaxPid \in Nat \ {0}
    /\ Signals \subseteq 1..(NSIG - 2)
    /\ MaskArgs \subseteq SUBSET Signals
    /\ MaskDepth \in Nat
    /\ ExitCodes \subseteq Nat
    /\ "child" \notin IoQueues

Pids == 1..MaxPid
Init1 == 1      \* "/sbin/init", the process kernel.c creates
NULL == 0
Queues == {"child"} \cup IoQueues    \* "child" is child_waitq
Handlers == {"DFL", "IGN", "HANDLER"}

VARIABLES
    procs,          \* all_processes
    max_id,         \* the next pid (static in process_alloc)
    parent,         \* process.parent, a pid
    children,       \* process.children, a set of pids
    state,          \* process.state
    exit_status,    \* process.exit_status
    suspend,        \* process.suspend: "none", or the loop that called process_sleep
    waitq,          \* the wait queues
    run_queue,
    current,        \* current_process
    cpu,            \* the kernel's program counter
    mask, pending,  \* process.signal.mask / .pending
    actions,        \* process.signal.actions
    frames          \* the masks saved on the user stack by running handlers

family == <<procs, max_id, parent, children>>
sched == <<state, exit_status, suspend, waitq, run_queue, current>>
signal == <<mask, pending, actions, frames>>
vars == <<family, sched, signal, cpu>>

Ready == {p \in procs : state[p] = "READY"}
InQueue(q) == {waitq[q][i] : i \in DOMAIN waitq[q]}

\* WAIT_EXIT_CODE and WAIT_SIGNAL: the status words wait4 hands out.
WAIT_EXIT_CODE(code) == (code % 256) * 256
WAIT_SIGNAL(sig) == sig % 128

-----------------------------------------------------------------------------

\* process_create of "/sbin/init" followed by process_switch (kernel.c).
Init ==
    /\ procs = {Init1}
    /\ max_id = 2
    /\ parent = [p \in Pids |-> IF p = Init1 THEN Init1 ELSE NULL]
    /\ children = [p \in Pids |-> {}]
    /\ state = [p \in Pids |-> "READY"]
    /\ exit_status = [p \in Pids |-> 0]
    /\ suspend = [p \in Pids |-> "none"]
    /\ waitq = [q \in Queues |-> <<>>]
    /\ run_queue = {}
    /\ current = NULL
    /\ cpu = "switch"
    /\ mask = [p \in Pids |-> {}]
    /\ pending = [p \in Pids |-> {}]
    /\ actions = [p \in Pids |-> [s \in Signals |-> [handler |-> "DFL", mask |-> {}]]]
    /\ frames = [p \in Pids |-> <<>>]

-----------------------------------------------------------------------------
(* Scheduling *)

\* Mutant: every process is scheduled, whatever its state.
process_schedule_all == procs

\* What process_schedule puts on the empty run queue.
process_schedule == Ready

\* process_dequeue: the head of the queue runs next, or the CPU idles.
process_dequeue(queue) ==
    /\ cpu = "switch"
    /\ \/ /\ queue = {}
          /\ current' = NULL
          /\ cpu' = "idle"
          /\ UNCHANGED run_queue
       \/ \E p \in queue :
          /\ \A q \in queue : p <= q
          /\ current' = p
          /\ run_queue' = queue \ {p}
          /\ cpu' = "dispatch"
    /\ UNCHANGED <<family, state, exit_status, suspend, waitq, signal>>

\* Mutant: the queue is rebuilt at every switch.
process_switch_rebuild == process_dequeue(process_schedule)

process_switch ==
    process_dequeue(IF run_queue = {} THEN process_schedule ELSE run_queue)

\* Mutant: the sleeper stays READY.
process_sleep_ready(q, loop) ==
    /\ waitq' = [waitq EXCEPT ![q] = <<current>> \o @]
    /\ suspend' = [suspend EXCEPT ![current] = loop]
    /\ cpu' = "switch"
    /\ UNCHANGED state

\* process_sleep: the caller's loop resumes where `loop` says.
process_sleep(q, loop) ==
    /\ state' = [state EXCEPT ![current] = "BLOCKED"]
    /\ waitq' = [waitq EXCEPT ![q] = <<current>> \o @]
    /\ suspend' = [suspend EXCEPT ![current] = loop]
    /\ cpu' = "switch"

\* The sleepers that one process_wake of each queue in `one` and the draining
\* of each queue in `all` wake.
woken(one, all) ==
    {Head(waitq[q]) : q \in {r \in one : waitq[r] # <<>>}} \cup UNION {InQueue(q) : q \in all}

\* Mutant: the entries stay in the queues.
process_wake_keep(one, all, s) ==
    /\ state' = [p \in Pids |-> IF p \in woken(one, all) THEN "READY" ELSE s[p]]
    /\ UNCHANGED waitq

\* process_wake once on each queue in `one`, and `while (process_wake(q))` on
\* each queue in `all`, when the process states are already s.
process_wake(one, all, s) ==
    /\ state' = [p \in Pids |-> IF p \in woken(one, all) THEN "READY" ELSE s[p]]
    /\ waitq' = [q \in Queues |->
                   CASE q \in all -> <<>>
                     [] q \in one \ all /\ waitq[q] # <<>> -> Tail(waitq[q])
                     [] OTHER -> waitq[q]]

-----------------------------------------------------------------------------
(* Exit and wait *)

\* The zombie's descriptors are released, which drains the queues of the pipes
\* that lose their last reader or writer (pipe_release), child_waitq is woken
\* once, and the last process powers the machine off.
process_exit(status) ==
    LET dead == [state EXCEPT ![current] = "DEAD"]
    IN  /\ exit_status' = [exit_status EXCEPT ![current] = status]
        /\ \E released \in SUBSET IoQueues : process_wake({"child"}, released, dead)
        /\ cpu' = IF Cardinality(procs) = 1 THEN "off" ELSE "switch"
        /\ UNCHANGED <<family, suspend, run_queue, current, signal>>

\* find_toplevel_process after c left all_processes.
toplevel(c) ==
    IF \E q \in procs \ {c} : parent[q] = q
    THEN CHOOSE q \in procs \ {c} : parent[q] = q
    ELSE NULL

\* Mutant: orphans keep the parent pointer they had.
new_parent_stale(c, q) == parent[q]

\* The parent of q once c is destroyed: c's children go to the toplevel process.
new_parent(c, q) ==
    IF q \in children[c]
    THEN IF toplevel(c) # NULL THEN toplevel(c) ELSE q
    ELSE parent[q]

process_destroy(c) ==
    /\ procs' = procs \ {c}
    /\ run_queue' = run_queue \ {c}
    /\ parent' = [q \in Pids |-> IF q = c THEN NULL ELSE new_parent(c, q)]
    /\ children' = [q \in Pids |->
                      CASE q = c -> {}
                        [] q # c /\ q = toplevel(c) -> (children[q] \ {c}) \cup children[c]
                        [] OTHER -> children[q] \ {c}]
    /\ UNCHANGED max_id

\* One turn of the loop in process_wait.
wait_loop ==
    \/ /\ \E c \in children[current] : state[c] = "DEAD" /\ process_destroy(c)
       /\ cpu' = "switch"
       /\ UNCHANGED <<state, exit_status, suspend, waitq, current, signal>>
    \/ /\ \A c \in children[current] : state[c] # "DEAD"
       /\ process_sleep("child", "wait")
       /\ UNCHANGED <<family, exit_status, run_queue, current, signal>>

\* wait4 from user mode: ECHILD at once, or the loop.
syscall_wait4 ==
    /\ cpu = "user"
    /\ \/ /\ children[current] = {}
          /\ cpu' = "switch"
          /\ UNCHANGED <<family, sched, signal>>
       \/ /\ children[current] # {}
          /\ wait_loop

\* The loop again, after system_resume brought the sleeper back.
process_wait == cpu = "wait" /\ wait_loop

syscall_exit(code) == cpu = "user" /\ process_exit(WAIT_EXIT_CODE(code))

-----------------------------------------------------------------------------
(* Fork and exec *)

\* process_alloc and process_fork: the child copies the whole signal state,
\* pending signals included, and the user stack with its handler frames.
syscall_fork ==
    /\ cpu = "user"
    /\ current \in Forkers
    /\ max_id <= MaxPid
    /\ procs' = procs \cup {max_id}
    /\ max_id' = max_id + 1
    /\ parent' = [parent EXCEPT ![max_id] = current]
    /\ children' = [children EXCEPT ![current] = @ \cup {max_id}]
    /\ state' = [state EXCEPT ![max_id] = "READY"]
    /\ mask' = [mask EXCEPT ![max_id] = mask[current]]
    /\ pending' = [pending EXCEPT ![max_id] = pending[current]]
    /\ actions' = [actions EXCEPT ![max_id] = actions[current]]
    /\ frames' = [frames EXCEPT ![max_id] = frames[current]]
    /\ cpu' = "switch"
    /\ UNCHANGED <<exit_status, suspend, waitq, run_queue, current>>

\* process_exec that succeeds: handlers go back to SIG_DFL, the descriptors
\* marked close-on-exec are released and the stack is new; mask, pending and
\* the handlers' masks stay.
syscall_execve ==
    /\ cpu = "user"
    /\ actions' = [actions EXCEPT ![current] =
                     [s \in Signals |-> IF @[s].handler = "HANDLER"
                                        THEN [@[s] EXCEPT !.handler = "DFL"]
                                        ELSE @[s]]]
    /\ frames' = [frames EXCEPT ![current] = <<>>]
    /\ \E released \in SUBSET IoQueues : process_wake({}, released, state)
    /\ cpu' = "switch"
    /\ UNCHANGED <<family, exit_status, suspend, run_queue, current, mask, pending>>

-----------------------------------------------------------------------------
(* Signals *)

unmaskable == {SIGKILL, SIGSTOP}
ignored_by_default == {SIGCHLD, SIGURG, SIGWINCH}

\* The unmasked pending signals; sigpeekset takes the least.
deliverable(p) == pending[p] \ mask[p]

\* process_dispatch of a process that slept in the kernel: no signal is looked at.
dispatch_resume ==
    /\ cpu = "dispatch"
    /\ suspend[current] # "none"
    /\ suspend' = [suspend EXCEPT ![current] = "none"]
    /\ cpu' = suspend[current]
    /\ UNCHANGED <<family, state, exit_status, waitq, run_queue, current, signal>>

dispatch_user ==
    /\ cpu = "dispatch"
    /\ suspend[current] = "none"
    /\ deliverable(current) = {}
    /\ cpu' = "user"
    /\ UNCHANGED <<family, sched, signal>>

\* Mutant: the mask is not looked at.
chosen_signal_any(sig) ==
    /\ cpu = "dispatch"
    /\ suspend[current] = "none"
    /\ sig \in pending[current]
    /\ \A t \in pending[current] : sig <= t

\* The signal process_dispatch takes.
chosen_signal(sig) ==
    /\ cpu = "dispatch"
    /\ suspend[current] = "none"
    /\ sig \in deliverable(current)
    /\ \A t \in deliverable(current) : sig <= t

dispatch_ignore(sig) ==
    /\ chosen_signal(sig)
    /\ \/ actions[current][sig].handler = "IGN"
       \/ actions[current][sig].handler = "DFL" /\ sig \in ignored_by_default
    /\ pending' = [pending EXCEPT ![current] = @ \ {sig}]
    /\ cpu' = "user"
    /\ UNCHANGED <<family, sched, mask, actions, frames>>

dispatch_fatal(sig) ==
    /\ chosen_signal(sig)
    /\ actions[current][sig].handler = "DFL"
    /\ sig \notin ignored_by_default
    /\ process_exit(WAIT_SIGNAL(sig))

dispatch_handler(sig) ==
    /\ chosen_signal(sig)
    /\ actions[current][sig].handler = "HANDLER"
    /\ frames' = [frames EXCEPT ![current] = <<mask[current]>> \o @]
    /\ mask' = [mask EXCEPT ![current] = @ \cup actions[current][sig].mask \cup {sig}]
    /\ pending' = [pending EXCEPT ![current] = @ \ {sig}]
    /\ cpu' = "user"
    /\ UNCHANGED <<family, sched, actions>>

\* The return of a handler, through its restorer.
syscall_sigreturn ==
    /\ cpu = "user"
    /\ frames[current] # <<>>
    /\ mask' = [mask EXCEPT ![current] = Head(frames[current])]
    /\ frames' = [frames EXCEPT ![current] = Tail(@)]
    /\ cpu' = "switch"
    /\ UNCHANGED <<family, sched, pending, actions>>

\* Mutant: sigaction stores the mask as it is.
sanitized_not(set) == set

\* The mask sigaction stores.
sanitized(set) == set \ unmaskable

syscall_rt_sigaction(sig, handler, set) ==
    /\ cpu = "user"
    /\ sig \notin unmaskable
    /\ actions' = [actions EXCEPT ![current][sig] =
                     [handler |-> handler, mask |-> sanitized(set)]]
    /\ cpu' = "switch"
    /\ UNCHANGED <<family, sched, mask, pending, frames>>

\* Mutant: SIG_BLOCK takes every signal.
new_mask_any(how, old, set) ==
    CASE how = "SIG_BLOCK"   -> old \cup set
      [] how = "SIG_UNBLOCK" -> old \ set
      [] how = "SIG_SETMASK" -> set \ unmaskable

\* The mask process_sigprocmask leaves.
new_mask(how, old, set) ==
    CASE how = "SIG_BLOCK"   -> (old \cup set) \ unmaskable
      [] how = "SIG_UNBLOCK" -> old \ set
      [] how = "SIG_SETMASK" -> set \ unmaskable

syscall_rt_sigprocmask(how, set) ==
    /\ cpu = "user"
    /\ Len(frames[current]) <= MaskDepth
    /\ mask' = [mask EXCEPT ![current] = new_mask(how, @, set)]
    /\ cpu' = "switch"
    /\ UNCHANGED <<family, sched, pending, actions, frames>>

\* process_kill marks the signal, even in a zombie, and wakes nobody.
process_kill(p, sig) ==
    /\ pending' = [pending EXCEPT ![p] = @ \cup {sig}]
    /\ UNCHANGED <<mask, actions, frames>>

syscall_kill(p, sig) ==
    /\ cpu = "user"
    /\ p \in procs
    /\ process_kill(p, sig)
    /\ cpu' = "switch"
    /\ UNCHANGED <<family, sched>>

-----------------------------------------------------------------------------
(* Other kernel entries *)

\* A data abort in user mode: process_demand_page adds the page, or SIGSEGV.
system_data_abort_handler ==
    /\ cpu = "user"
    /\ \/ UNCHANGED signal
       \/ SIGSEGV \in Signals /\ process_kill(current, SIGSEGV)
    /\ cpu' = "switch"
    /\ UNCHANGED <<family, sched>>

\* The timer interrupt, in user mode or in system_idle.
timer_irq ==
    /\ cpu \in {"user", "idle"}
    /\ cpu' = "switch"
    /\ UNCHANGED <<family, sched, signal>>

\* The UART interrupt: tty_resume wakes one sleeper of each queue that is ready.
uart_irq ==
    /\ cpu \in {"user", "idle"}
    /\ \E ready \in SUBSET IoQueues : process_wake(ready, {}, state)
    /\ cpu' = "switch"
    /\ UNCHANGED <<family, exit_status, suspend, run_queue, current, signal>>

\* close, dup2 and dup3 release a descriptor; every other call that neither
\* sleeps nor touches processes is the case where no queue is drained.
syscall_close ==
    /\ cpu = "user"
    /\ \E released \in SUBSET IoQueues : process_wake({}, released, state)
    /\ cpu' = "switch"
    /\ UNCHANGED <<family, exit_status, suspend, run_queue, current, signal>>

\* read and write on a pipe or the tty, as far as the scheduler sees them: a
\* loop that sleeps, wakes sleepers of other queues, or returns, with SIGPIPE
\* when a written pipe has no reader.
syscall_io ==
    /\ cpu = "user"
    /\ cpu' = "io"
    /\ UNCHANGED <<family, sched, signal>>

io_sleep ==
    /\ cpu = "io"
    /\ \E q \in IoQueues : process_sleep(q, "io")
    /\ UNCHANGED <<family, exit_status, run_queue, current, signal>>

io_wake ==
    /\ cpu = "io"
    /\ \E one \in SUBSET IoQueues : process_wake(one, {}, state)
    /\ UNCHANGED <<family, exit_status, suspend, run_queue, current, signal, cpu>>

io_return ==
    /\ cpu = "io"
    /\ \/ UNCHANGED signal
       \/ SIGPIPE \in Signals /\ process_kill(current, SIGPIPE)
    /\ cpu' = "switch"
    /\ UNCHANGED <<family, sched>>

\* After system_shutdown nothing runs.
powered_off == cpu = "off" /\ UNCHANGED vars

-----------------------------------------------------------------------------

process_dispatch ==
    \/ dispatch_resume
    \/ dispatch_user
    \/ \E sig \in Signals :
          dispatch_ignore(sig) \/ dispatch_fatal(sig) \/ dispatch_handler(sig)

Kernel ==
    \/ process_switch
    \/ process_dispatch
    \/ process_wait
    \/ io_sleep \/ io_wake \/ io_return

Syscall ==
    \/ \E code \in ExitCodes : syscall_exit(code)
    \/ syscall_fork
    \/ syscall_execve
    \/ syscall_wait4
    \/ syscall_sigreturn
    \/ syscall_io
    \/ syscall_close
    \/ \E p \in Pids, sig \in Signals : syscall_kill(p, sig)
    \/ \E sig \in Signals, handler \in Handlers, set \in MaskArgs :
          syscall_rt_sigaction(sig, handler, set)
    \/ \E how \in {"SIG_BLOCK", "SIG_UNBLOCK", "SIG_SETMASK"}, set \in MaskArgs :
          syscall_rt_sigprocmask(how, set)

Next ==
    \/ Kernel
    \/ Syscall
    \/ timer_irq
    \/ uart_irq
    \/ system_data_abort_handler
    \/ powered_off

Spec == Init /\ [][Next]_vars

\* Kernel code always runs on, and the timer fires every 10 ms; programs and
\* the UART owe nothing.
FairSpec == Spec /\ WF_vars(Kernel) /\ WF_vars(timer_irq)

-----------------------------------------------------------------------------
(* Properties *)

\* Every variable keeps its type: the fields of struct process and the
\* globals of process.c.
TypeOK ==
    /\ procs \subseteq Pids
    /\ max_id \in 2..(MaxPid + 1)
    /\ parent \in [Pids -> Pids \cup {NULL}]
    /\ children \in [Pids -> SUBSET Pids]
    /\ state \in [Pids -> {"READY", "BLOCKED", "DEAD"}]
    /\ exit_status \in [Pids -> Nat]
    /\ suspend \in [Pids -> {"none", "wait", "io"}]
    /\ waitq \in [Queues -> Seq(Pids)]
    /\ run_queue \subseteq Pids
    /\ current \in Pids \cup {NULL}
    /\ cpu \in {"user", "switch", "dispatch", "wait", "io", "idle", "off"}
    /\ mask \in [Pids -> SUBSET Signals]
    /\ pending \in [Pids -> SUBSET Signals]
    /\ actions \in [Pids -> [Signals -> [handler : Handlers, mask : SUBSET Signals]]]
    /\ frames \in [Pids -> Seq(SUBSET Signals)]

\* The run queue holds only live READY processes, never the running one, so
\* process_dequeue cannot hand the CPU to a zombie, a sleeper or freed memory;
\* and the CPU runs on behalf of a live READY process whenever it is not
\* between two (process_schedule, process_dequeue, process_destroy).
RunQueueReady ==
    /\ run_queue \subseteq Ready \ {current}
    /\ cpu \in {"user", "dispatch", "wait", "io"} => current \in Ready

\* A process is BLOCKED exactly while one entry of one wait queue points at
\* it, it then has a suspended kernel context to go back to, and a zombie has
\* none to leak (process_sleep, process_wake, process_exit, process_destroy).
WaitersBlocked ==
    /\ \A p \in Pids : p \in procs /\ state[p] = "BLOCKED"
                          <=> \E q \in Queues : p \in InQueue(q)
    /\ \A q, r \in Queues : q # r => InQueue(q) \cap InQueue(r) = {}
    /\ \A q \in Queues : \A i, j \in DOMAIN waitq[q] :
          waitq[q][i] = waitq[q][j] => i = j
    /\ \A p \in InQueue("child") : suspend[p] = "wait"
    /\ \A q \in IoQueues : \A p \in InQueue(q) : suspend[p] = "io"
    /\ \A p \in Pids : state[p] = "DEAD" => suspend[p] = "none"

\* The family tree survives every fork, reap and reparenting: init is the one
\* toplevel process and is never reaped, every other live process has a live
\* parent that is older than it (so there are no cycles), and the children
\* lists say the same as the parent pointers (process_fork, process_destroy).
FamilyTree ==
    /\ Init1 \in procs /\ parent[Init1] = Init1
    /\ \A p \in procs \ {Init1} : parent[p] \in procs /\ parent[p] < p
    /\ \A p, c \in Pids : c \in children[p] <=> c \in procs \ {Init1} /\ parent[c] = p
    /\ \A p \in procs : p < max_id

\* The CPU waits for an interrupt only when no process could run
\* (process_switch falling through to system_idle).
IdleMeansNoReady ==
    cpu = "idle" => Ready = {} /\ run_queue = {}

\* A zombie is never brought back: process_wake sets STATE_READY without
\* looking, so this needs that no dead process is left in a wait queue.
DeadStaysDead ==
    [][\A p \in procs : state[p] = "DEAD" => state'[p] = "DEAD"]_vars

\* No sequence of sigprocmask, sigaction, handlers, sigreturn, fork and exec
\* masks SIGKILL or SIGSTOP or changes what they do.
KillNotMaskable ==
    \A p \in procs : \A s \in unmaskable \cap Signals :
        /\ s \notin mask[p]
        /\ \A i \in DOMAIN frames[p] : s \notin frames[p][i]
        /\ actions[p][s].handler = "DFL"
        /\ \A t \in Signals : s \notin actions[p][t].mask

\* A process that died of a signal had it pending, unmasked and with the
\* default action, of which the default is to terminate (process_dispatch).
KilledOnlyByDefault ==
    \A p \in procs : \A s \in Signals :
        state[p] = "DEAD" /\ exit_status[p] = s =>
            /\ s \in deliverable(p)
            /\ actions[p][s].handler = "DFL"
            /\ s \notin ignored_by_default

\* Round robin: a READY process is eventually dispatched, whatever the others
\* do (process_schedule refills the queue only when it is empty).
ReadyRuns ==
    \A p \in Pids : p \in Ready ~> (cpu = "off" \/ current = p)

\* SIGKILL ends every process that is not asleep in the kernel.
KillKills ==
    \A p \in Pids :
        (p \in Ready /\ SIGKILL \in pending[p]) ~> state[p] \in {"DEAD", "BLOCKED"}

\* wait4 returns: a process asleep in process_wait with a dead child is
\* eventually back out of the loop.
WaitReturns ==
    \A p \in Pids :
        (p \in InQueue("child") /\ \E c \in children[p] : state[c] = "DEAD")
            ~> p \notin InQueue("child")
=============================================================================
