----------------------------- MODULE BlockDevice ------------------------------
(***************************************************************************)
(* What the file system takes the volume for: blocks that read as they     *)
(* were last written, of which a power failure can only leave the one that *)
(* is being written with its first sectors new and its last ones old.      *)
(***************************************************************************)
EXTENDS Integers

CONSTANTS Blocks, Sectors, Data     \* a block is a function from its sectors to Data

VARIABLES
    disk,       \* the blocks
    result      \* what the last read returned

Contents == [Sectors -> Data]

Init == disk \in [Blocks -> Contents] /\ result = <<>>

Read(i) == result' = disk[i] /\ UNCHANGED disk

Write(i, d) == disk' = [disk EXCEPT ![i] = d] /\ UNCHANGED result

\* The write of d to block i is cut short before sector n.
Fail(i, d, n) ==
    /\ disk' = [disk EXCEPT ![i] = [k \in Sectors |-> IF k < n THEN d[k] ELSE disk[i][k]]]
    /\ result' = <<>>

Next ==
    \E i \in Blocks : Read(i) \/ \E d \in Contents : Write(i, d) \/ \E n \in Sectors : Fail(i, d, n)

Spec == Init /\ [][Next]_<<disk, result>>
=============================================================================
