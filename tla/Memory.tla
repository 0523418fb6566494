------------------------------- MODULE Memory --------------------------------
(***************************************************************************)
(* The memory of processes: page tables (kernel/mmu.c), executables        *)
(* (kernel/elf.c), and the segments, fork, exec, brk and demand paging of  *)
(* kernel/process.c, with the data abort of kernel/system.c.               *)
(*                                                                         *)
(* The kernel is not preempted, so every call is one step; its functions   *)
(* are operators on a record s of the page frames and tables, applied in   *)
(* the order of the code.  The kernel works on user memory through the     *)
(* table in TTBR0 and stops for ever (halted) when it touches an address   *)
(* that table does not map.  The frames for the tables themselves and for  *)
(* kernel stacks are left out, and so are the straight mappings of the     *)
(* kernel, which every table has.  An address is a number of words.        *)
(***************************************************************************)
EXTENDS User, FiniteSets, SequencesExt

CONSTANTS
    PAGE_SIZE, L2_ENTRY_NUM,        \* words of a page, pages of a second-level table
    STACK_START, STACK_END,
    AddressMax,                     \* the largest address (2^32 - 1)
    ARG_MAX,                        \* words of arguments; the initial stack
    FrameNum,                       \* page frames
    MaxPid, MaxLive,                \* bounds: processes ever, and at a time
    Executables, FirstExecutable,   \* files, as elf_load reads them
    Stored, Breaks                  \* the addresses that programs and calls store to, or pass to brk

Pids == 1..MaxPid
Frames == 1..FrameNum
Values == {"old", "text", "data", "zero", "arg", "user"}
OldPage == [k \in 0..(PAGE_SIZE - 1) |-> "old"]
SegmentTypes == <<"text", "data", "stack", "heap">>

ASSUME MemoryAssumption ==
    /\ PAGE_SIZE \in Nat \ {0} /\ L2_ENTRY_NUM \in Nat \ {0} /\ ARG_MAX = PAGE_SIZE
    /\ \A a \in {USER_ADDRESS_START, BRK_ADDRESS_END, STACK_START, STACK_END} : a % PAGE_SIZE = 0
    /\ 0 < USER_ADDRESS_START /\ USER_ADDRESS_START < BRK_ADDRESS_END
    /\ BRK_ADDRESS_END <= STACK_START /\ STACK_START + ARG_MAX <= STACK_END /\ STACK_END <= AddressMax
    /\ USER_ADDRESS_END = STACK_END

VARIABLES
    free,       \* frames buddy_alloc can give out
    owned,      \* frames in the page list of a process's mapping
    table,      \* its page table: from page numbers to frames
    mem,        \* what the frames hold
    ttb,        \* whose table TTBR0 points to
    segments, brk,
    state,      \* "none", "ready", "dead"
    current,    \* the process that runs
    leaked,     \* frames elf_load did not give back
    halted

mmu == <<free, owned, table, mem, ttb>>
proc == <<segments, brk, state, current>>
vars == <<mmu, proc, leaked, halted>>

page(addr) == addr \div PAGE_SIZE
PAGE_MASK(addr) == page(addr) * PAGE_SIZE
PAGE_ALIGN(addr) == PAGE_MASK(addr + PAGE_SIZE - 1)
GET_L2_INDEX(addr) == page(addr) % L2_ENTRY_NUM
GET_PAGE_SIZE(size) == page(size + PAGE_SIZE - 1)

-----------------------------------------------------------------------------
(* kernel/mmu.c *)

\* buddy_alloc(PAGE_SIZE): the free frames are all alike, so a choice that
\* depends on the page only loses nothing and keeps the states few.
buddy_alloc(s, pid, pg) ==
    LET wish == pid * (STACK_END \div PAGE_SIZE) - pg
    IN  IF wish \in s.free THEN wish ELSE Max(s.free)

\* mmu_create_page, and the entry made for it: an older one is overwritten,
\* and the frame is not cleared.
mmu_create_page(s, pid, pg) ==
    LET f == buddy_alloc(s, pid, pg)
    IN  [s EXCEPT !.free = @ \ {f}, !.owned[pid] = @ \cup {f}, !.table[pid] = (pg :> f) @@ @]

\* mmu_alloc (mmu_create_mapping): nothing, when the range leaves its table.
mmu_alloc(s, pid, addr, size) ==
    LET n == GET_PAGE_SIZE(size)
        map(t, k) == mmu_create_page(t, pid, page(addr) + k - 1)
    IN  IF L2_ENTRY_NUM < GET_L2_INDEX(addr) + n THEN s
        ELSE FoldLeft(map, s, [k \in 1..n |-> k])

\* Mutant: only the frames the table still maps are released.
release_mapped(s, pid) == Range(s.table[pid])

\* release_pages frees the whole page list.
release_pages(s, pid) == s.owned[pid]

\* mmu_destroy.  "old" is whatever a frame holds from its use before.
mmu_destroy(s, pid) ==
    [s EXCEPT !.free = @ \cup release_pages(s, pid), !.owned[pid] = {}, !.table[pid] = <<>>, !.ttb = 0,
              !.mem = [f \in Frames |-> IF f \in release_pages(s, pid) THEN OldPage ELSE @[f]]]

mmu_set_ttb(s, pid) == [s EXCEPT !.ttb = pid]

\* The kernel at a user address.
mapped(s, addr) == page(addr) \in DOMAIN s.table[s.ttb]
kernel_read(s, addr) == s.mem[s.table[s.ttb][page(addr)]][addr % PAGE_SIZE]
kernel_write(s, addr, v) ==
    IF ~mapped(s, addr) THEN [s EXCEPT !.halted = TRUE]
    ELSE [s EXCEPT !.mem[s.table[s.ttb][page(addr)]][addr % PAGE_SIZE] = v]

\* Words n of them from addr on, as memcpy and memset write them.
fill(s, addr, n, v) ==
    LET write(t, k) == kernel_write(t, addr + k - 1, v) IN FoldLeft(write, s, [k \in 1..n |-> k])

-----------------------------------------------------------------------------
(* kernel/elf.c.  A file has a header that fits (`magic`) or not, and a       *)
(* sequence of program headers; `kind` is what type and flags say, "short"    *)
(* is one the file ends in, `whole` says that the file has all of the data.   *)

NoSegment == [addr |-> 0, file_size |-> 0, memory_size |-> 0]

validate_segment(h) ==
    /\ h.file_size <= h.memory_size
    /\ h.addr + h.memory_size <= AddressMax
    /\ IS_EXECUTABLE_ADDRESS(h.addr)
    /\ IS_EXECUTABLE_ADDRESS(h.addr + h.memory_size)

load_segment(x, h) ==
    IF x[h.kind] # NoSegment \/ ~validate_segment(h) \/ ~h.whole THEN [x EXCEPT !.result = "fail"]
    ELSE [x EXCEPT ![h.kind] = [addr |-> h.addr, file_size |-> h.file_size, memory_size |-> h.memory_size]]

\* elf_load: "fail" gives the segments back, "short" returns at once.
elf_load(file) ==
    LET load(x, h) ==
            CASE x.result # "ok" \/ h.kind = "other" -> x
              [] h.kind = "short" -> [x EXCEPT !.result = "short"]
              [] OTHER -> load_segment(x, h)
        none == [text |-> NoSegment, data |-> NoSegment, result |-> "ok"]
    IN  IF ~file.magic THEN [none EXCEPT !.result = "fail"] ELSE FoldLeft(load, none, file.headers)

\* The frames that hold the segments of a file read so far.
elf_pages(x) == GET_PAGE_SIZE(x.text.file_size) + GET_PAGE_SIZE(x.data.file_size)

copy_segment(s, seg, v) ==
    fill(fill(s, seg.addr, seg.file_size, v),
         seg.addr + seg.file_size, seg.memory_size - seg.file_size, "zero")

elf_copy(s, x) == copy_segment(copy_segment(s, x.text, "text"), x.data, "data")

-----------------------------------------------------------------------------
(* Segments (kernel/process.c) *)

create_segments(x) ==
    LET text_end == PAGE_ALIGN(x.text.addr + x.text.memory_size)
        data_end == PAGE_ALIGN(x.data.addr + x.data.memory_size)
        heap == IF data_end # 0 THEN data_end ELSE text_end
    IN  [text |-> [start |-> x.text.addr, current |-> text_end, end |-> text_end],
         data |-> [start |-> PAGE_MASK(x.data.addr), current |-> data_end, end |-> data_end],
         stack |-> [start |-> STACK_START, current |-> STACK_END - ARG_MAX, end |-> STACK_END],
         heap |-> [start |-> heap, current |-> heap, end |-> heap]]

NoSegments == [type \in Range(SegmentTypes) |-> [start |-> 0, current |-> 0, end |-> 0]]

\* The part of a segment that has memory; the stack grows down.
first(type, seg) == IF type = "stack" THEN seg.current ELSE seg.start
limit(type, seg) == IF type = "stack" THEN seg.end ELSE seg.current

alloc_segments(s, pid, segs) ==
    LET alloc(t, type) ==
            mmu_alloc(t, pid, first(type, segs[type]), limit(type, segs[type]) - first(type, segs[type]))
    IN  FoldLeft(alloc, s, SegmentTypes)

\* Mutants: the copy is written while the table of the parent is in place; the
\* table of the child stays in place.
copy_page_self(s, pid, cur) ==
    LET w == [k \in 1..PAGE_SIZE |-> kernel_read(s, cur + k - 1)]
        put(u, k) == kernel_write(u, cur + k - 1, w[k])
    IN  IF \E k \in 1..PAGE_SIZE : ~mapped(s, cur + k - 1) THEN [s EXCEPT !.halted = TRUE]
        ELSE FoldLeft(put, mmu_alloc(s, pid, cur, PAGE_SIZE), [k \in 1..PAGE_SIZE |-> k])

copy_page_stay(s, pid, cur) ==
    LET w == [k \in 1..PAGE_SIZE |-> kernel_read(s, cur + k - 1)]
        put(u, k) == kernel_write(u, cur + k - 1, w[k])
        t == mmu_set_ttb(mmu_alloc(s, pid, cur, PAGE_SIZE), pid)
    IN  IF \E k \in 1..PAGE_SIZE : ~mapped(s, cur + k - 1) THEN [s EXCEPT !.halted = TRUE]
        ELSE FoldLeft(put, t, [k \in 1..PAGE_SIZE |-> k])

\* One turn of copy_segment: out of the parent's table through a buffer into
\* the child's.  An unaligned `cur` makes both memcpy run into the next page.
copy_page(s, pid, cur) ==
    LET w == [k \in 1..PAGE_SIZE |-> kernel_read(s, cur + k - 1)]
        put(u, k) == kernel_write(u, cur + k - 1, w[k])
        t == mmu_set_ttb(mmu_alloc(s, pid, cur, PAGE_SIZE), pid)
    IN  IF \E k \in 1..PAGE_SIZE : ~mapped(s, cur + k - 1) THEN [s EXCEPT !.halted = TRUE]
        ELSE mmu_set_ttb(FoldLeft(put, t, [k \in 1..PAGE_SIZE |-> k]), s.ttb)

copy_segments(s, pid, segs) ==
    LET copy(t, type) ==
            LET from == first(type, segs[type])
                turns == IF from < limit(type, segs[type]) THEN GET_PAGE_SIZE(limit(type, segs[type]) - from) ELSE 0
                turn(u, k) == IF u.halted THEN u ELSE copy_page(u, pid, from + (k - 1) * PAGE_SIZE)
            IN  FoldLeft(turn, t, [k \in 1..turns |-> k])
    IN  FoldLeft(copy, s, SegmentTypes)

\* find_segment, in the order of the segments' numbers.
find_segment(segs, addr) ==
    LET in(type) == segs[type].start <= addr /\ addr < segs[type].end
    IN  SelectSeq(SegmentTypes, in)

-----------------------------------------------------------------------------
(* Steps *)

Now == [free |-> free, owned |-> owned, table |-> table, mem |-> mem, ttb |-> ttb, halted |-> halted]

Keep(t) == free' = t.free /\ owned' = t.owned /\ table' = t.table /\ mem' = t.mem /\ ttb' = t.ttb

\* A call comes back, or the kernel stopped in it.
Done(t, segs, b, st) ==
    IF t.halted THEN halted' = TRUE /\ UNCHANGED <<mmu, proc, leaked>>
    ELSE Keep(t) /\ segments' = segs /\ brk' = b /\ state' = st /\ UNCHANGED <<current, leaked, halted>>

\* What exec and create do with a loaded executable: a new table, its
\* segments, the image, and the arguments at the end of the stack.
load(s, pid, x, args) ==
    LET t == alloc_segments(mmu_set_ttb(s, pid), pid, create_segments(x))
    IN  fill(elf_copy(t, x), STACK_END - args, args, "arg")

\* process_create of the first program, dispatched.
Init ==
    LET x == elf_load(FirstExecutable)
        none == [free |-> Frames, owned |-> [p \in Pids |-> {}], table |-> [p \in {0} \cup Pids |-> <<>>],
                 mem |-> [f \in Frames |-> OldPage], ttb |-> 0, halted |-> FALSE]
        t == load(none, 1, x, 1)
    IN  /\ free = t.free /\ owned = t.owned /\ table = t.table /\ mem = t.mem /\ ttb = t.ttb
        /\ segments = [p \in Pids |-> IF p = 1 THEN create_segments(x) ELSE NoSegments]
        /\ brk = [p \in Pids |-> segments[p].heap.start]
        /\ state = [p \in Pids |-> IF p = 1 THEN "ready" ELSE "none"]
        /\ current = 1
        /\ leaked = {}
        /\ halted = t.halted

Live == {p \in Pids : state[p] \in {"ready", "dead"}}
Running == ~halted /\ state[current] = "ready"

process_exec(file, args) ==
    LET x == elf_load(file)
        t == load(mmu_destroy(Now, current), current, x, args)
        segs == create_segments(x)
    IN  /\ Running
        /\ IF args > ARG_MAX THEN UNCHANGED vars        \* -E2BIG
           ELSE CASE x.result = "fail" -> UNCHANGED vars   \* -EACCES
                  [] x.result = "short" ->
                       /\ leaked = {}                       \* bound: once
                       /\ leaked' = {f \in free : Cardinality({g \in free : g > f}) < elf_pages(x)}
                       /\ free' = free \ leaked'
                       /\ UNCHANGED <<owned, table, mem, ttb, proc, halted>>
                  [] OTHER -> Done(t, [segments EXCEPT ![current] = segs],
                                   [brk EXCEPT ![current] = segs.heap.start], state)

\* process_fork: process_alloc never uses an id twice.
process_fork ==
    LET pid == Min({p \in Pids : state[p] = "none"})
        t == copy_segments(Now, pid, segments[current])
    IN  /\ Running
        /\ \E p \in Pids : state[p] = "none"
        /\ Cardinality(Live) < MaxLive
        /\ Done(t, [segments EXCEPT ![pid] = segments[current]], [brk EXCEPT ![pid] = brk[current]],
                [state EXCEPT ![pid] = "ready"])

process_brk(addr) ==
    LET heap == segments[current].heap
        end == IF heap.end < addr THEN PAGE_ALIGN(addr) ELSE heap.end
        turns == (end - heap.current) \div PAGE_SIZE
        turn(t, k) == mmu_alloc(t, current, heap.current + (k - 1) * PAGE_SIZE, PAGE_SIZE)
    IN  /\ Running
        /\ brk[current] <= addr /\ addr < BRK_ADDRESS_END
        /\ Done(FoldLeft(turn, Now, [k \in 1..turns |-> k]),
                [segments EXCEPT ![current].heap = [start |-> heap.start, current |-> end, end |-> end]],
                [brk EXCEPT ![current] = addr], state)

\* The program stores a word.
user_store(addr) ==
    /\ Running
    /\ mapped(Now, addr)
    /\ Done(kernel_write(Now, addr, "user"), segments, brk, state)

\* The pages between the stack and the page it is to grow to.
stack_pages(low, base) == (low - base) \div PAGE_SIZE

\* system_data_abort_handler and process_demand_page: the stack grows down to
\* the page, anything else is SIGSEGV, of which the program dies.
data_abort(addr) ==
    LET found == find_segment(segments[current], addr)
        stack == segments[current].stack
        base == PAGE_MASK(addr)
        turns == stack_pages(stack.current, base)
        turn(t, k) == mmu_alloc(t, current, stack.current - k * PAGE_SIZE, PAGE_SIZE)
    IN  /\ Running
        /\ ~mapped(Now, addr)
        /\ IF found # <<>> /\ Head(found) = "stack"
           THEN Done(FoldLeft(turn, Now, [k \in 1..turns |-> k]),
                     [segments EXCEPT ![current].stack.current = IF base < @ THEN base ELSE @], brk, state)
           ELSE Done(Now, segments, brk, [state EXCEPT ![current] = "dead"])

\* A call stores to a user address (a result, a buffer, a signal frame): the
\* wrappers only check that it is one.
syscall_store(addr) ==
    /\ Running
    /\ IS_USER_ADDRESSS(addr)
    /\ Done(kernel_write(Now, addr, "user"), segments, brk, state)

process_exit ==
    /\ Running
    /\ current # 1
    /\ Done(Now, segments, brk, [state EXCEPT ![current] = "dead"])

\* process_destroy, for a dead child the running process waited for.
process_destroy(p) ==
    /\ Running
    /\ p # current /\ state[p] = "dead"
    /\ Done(mmu_set_ttb(mmu_destroy(Now, p), current),
            [segments EXCEPT ![p] = NoSegments], [brk EXCEPT ![p] = 0], [state EXCEPT ![p] = "gone"])

\* process_switch to a ready process: process_dispatch loads its table.
process_dispatch(p) ==
    /\ ~halted
    /\ p # current /\ state[p] = "ready"
    /\ current' = p
    /\ ttb' = mmu_set_ttb(Now, p).ttb
    /\ UNCHANGED <<free, owned, table, mem, segments, brk, state, leaked, halted>>

Next ==
    \/ \E file \in Executables : process_exec(file, 1)
    \/ process_exec(FirstExecutable, ARG_MAX + 1)
    \/ process_fork
    \/ \E addr \in Breaks : process_brk(addr)
    \/ \E addr \in Stored : user_store(addr) \/ data_abort(addr) \/ syscall_store(addr)
    \/ process_exit
    \/ \E p \in Pids : process_destroy(p) \/ process_dispatch(p)

Spec == Init /\ [][Next]_vars

-----------------------------------------------------------------------------
(* Properties *)

TypeOK ==
    /\ free \subseteq Frames /\ leaked \subseteq Frames
    /\ owned \in [Pids -> SUBSET Frames]
    /\ \A p \in {0} \cup Pids : Range(table[p]) \subseteq Frames
    /\ mem \in [Frames -> [0..(PAGE_SIZE - 1) -> Values]]
    /\ ttb \in {0} \cup Pids /\ current \in Pids
    /\ state \in [Pids -> {"none", "ready", "dead", "gone"}]
    /\ halted \in BOOLEAN

\* Every frame is free, in the page list of one process, or was lost by
\* elf_load; no two pages of any processes share one; and a process that is
\* gone has none.  mmu_destroy can so free a page list without harm.
FramesAccounted ==
    /\ free \cup leaked \cup UNION {owned[p] : p \in Pids} = Frames
    /\ \A p \in Pids :
         /\ owned[p] \cap (free \cup leaked) = {}
         /\ \A q \in Pids \ {p} : owned[p] \cap owned[q] = {}
         /\ Range(table[p]) \subseteq owned[p] /\ IsInjective(table[p])
         /\ p \notin Live => owned[p] = {}
    /\ free \cap leaked = {}

\* The page table of every process maps exactly the pages its segments have
\* grown to, although exec, brk, fork and demand paging each build it their
\* own way, and the running process is the one whose table is in TTBR0.
SegmentsMapped ==
    /\ \A p \in Live :
         DOMAIN table[p] =
           UNION {page(first(type, segments[p][type])) .. page(limit(type, segments[p][type]) - 1) :
                    type \in {t \in Range(SegmentTypes) :
                                first(t, segments[p][t]) < limit(t, segments[p][t])}}
    /\ ~halted => ttb = current

\* A kernel that halts was asked to store where no segment of the process has
\* memory yet, or to load or fork a program it does not support: a text that
\* does not start on a page, or a segment that crosses a second-level table.
Unsupported(segs) ==
    \/ segs.text.start % PAGE_SIZE # 0
    \/ \E type \in {"text", "data"} :
         GET_L2_INDEX(segs[type].start) + GET_PAGE_SIZE(segs[type].end - segs[type].start) > L2_ENTRY_NUM
HaltsExplained ==
    [][ halted' /\ ~halted =>
          \/ \E addr \in Stored : syscall_store(addr) /\ page(addr) \notin DOMAIN table[current]
          \/ process_fork /\ Unsupported(segments[current])
          \/ \E file \in Executables : process_exec(file, 1) /\ Unsupported(create_segments(elf_load(file))) ]_vars

\* The image of an executable: its text and data, and zeroes after them.
Image(x) ==
    LET at(seg, v) == [a \in seg.addr..(seg.addr + seg.memory_size - 1) |->
                         IF a < seg.addr + seg.file_size THEN v ELSE "zero"]
    IN  at(x.data, "data") @@ at(x.text, "text")

Images == {Image(elf_load(file)) : file \in {f \in Executables : elf_load(f).result = "ok"}}

\* What the processes see through their page tables.
Space == [p \in Live |->
            [a \in {a \in 0..(STACK_END - 1) : page(a) \in DOMAIN table[p]} |->
               mem[table[p][page(a)]][a % PAGE_SIZE]]]

Private == INSTANCE AddressSpace WITH space <- Space, Images <- Images

\* Frames and page tables implement spaces that belong to one process each:
\* no store of one is seen by another, pages that are there keep their words
\* when the heap or the stack grows, a child starts with a copy, and after exec
\* the image is in place (mmu.c, and all of its users in process.c and elf.c).
AddressSpaceSpec == Private!Spec

\* Every frame has its owner and every page table its segments' pages (mmu.c
\* and its users in process.c and elf.c).
MemoryAccounted == TypeOK /\ FramesAccounted /\ SegmentsMapped
=============================================================================
