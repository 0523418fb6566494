------------------------------ MODULE MCMemory --------------------------------
(***************************************************************************)
(* The executables of the run on Memory: a plain one; one whose text and   *)
(* data share a page; ones with a text that is not on a page boundary,     *)
(* with a segment that crosses a second-level table, with a segment out of *)
(* the user's range, with a second text, with data the file does not hold, *)
(* that ends in its program headers, and that is no ELF file at all.  And  *)
(* the memories system calls are made with: one cell of user space and all *)
(* around it set to one value, and a vector and a string at its end.       *)
(***************************************************************************)
EXTENDS Memory, Syscall

Header(kind, addr, file_size, memory_size) ==
    [kind |-> kind, addr |-> addr, file_size |-> file_size, memory_size |-> memory_size, whole |-> TRUE]
Elf(headers) == [magic |-> TRUE, headers |-> headers]

Plain == Elf(<<Header("other", 0, 0, 0), Header("text", 2, 2, 2), Header("data", 4, 1, 2)>>)
Shared == Elf(<<Header("text", 2, 1, 1), Header("data", 3, 1, 2)>>)
MCExecutables ==
    { Plain, Shared,
      Elf(<<Header("text", 3, 1, 1)>>),
      Elf(<<Header("text", 6, 2, 4)>>),
      Elf(<<Header("text", 2, 1, 20)>>),
      Elf(<<Header("text", 2, 1, 1), Header("text", 4, 1, 1)>>),
      Elf(<<[Header("text", 2, 1, 1) EXCEPT !.whole = FALSE]>>),
      Elf(<<Header("text", 2, 1, 1), Header("short", 0, 0, 0)>>),
      [magic |-> FALSE, headers |-> <<>>] }

MCsizeof == [t \in Structures |-> 2]
MCMemories ==
    { [p \in Address |-> 0], [p \in Address |-> USER_ADDRESS_START],
      [p \in Address |-> CASE p < 4 -> 0 [] p \in 4..7 -> 14 [] p = 15 -> 0 [] OTHER -> 15],
      [p \in Address |-> CASE p % 2 = 0 -> 13 [] p % 2 = 1 -> 2 * ((p \div 2) % 2)] }

\* The calls are looked at once, in the initial state.
CallsStayInUserSpaceAtBoot == Init => CallsStayInUserSpace
=============================================================================
