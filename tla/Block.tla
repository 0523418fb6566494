-------------------------------- MODULE Block ---------------------------------
(***************************************************************************)
(* The block layer: the cache of blocks (kernel/block.c), the transfers of *)
(* sectors under it (kernel/mmc.c) and the check of the volume at boot     *)
(* (kernel/superblock.c).  Calls do not sleep, so each is one step; a      *)
(* power failure may come between two sectors of a write.                  *)
(***************************************************************************)
EXTENDS Integers, Sequences, FiniteSetsExt

CONSTANTS
    BlockNum,               \* blocks on the card
    SECTORS,                \* BLOCK_SIZE / MMC_BLOCK_SIZE
    BLOCKS_PER_PAGE,        \* PAGE_SIZE / BLOCK_SIZE
    Data,                   \* what a sector holds
    Magic                   \* the sectors superblock_init accepts

ASSUME BlockAssumption ==
    BlockNum \in Nat \ {0} /\ SECTORS \in Nat \ {0} /\ BLOCKS_PER_PAGE \in Nat \ {0}

Blocks == 0..(BlockNum - 1)
Sectors == 0..(SECTORS - 1)
Contents == [Sectors -> Data]

VARIABLES
    card,                       \* the sectors of the card
    used_blocks, free_blocks,   \* the two lists, first entry first
    memory,                     \* what the blocks of the pages hold
    running,                    \* superblock_init accepted the volume
    result                      \* what the last block_read returned

block_vars == <<card, used_blocks, free_blocks, memory, running, result>>

-----------------------------------------------------------------------------
(* mmc.c *)

mmc_read_block(s, address) == s.card[address]
mmc_write_block(sectors, address, d) == [sectors EXCEPT ![address] = d]

\* size is in sectors; one that is not a whole number of them is refused.
mmc_read(s, address) == [k \in Sectors |-> mmc_read_block(s, address + k)]

\* The first n sectors of the transfer.
mmc_write(s, address, d, n) ==
    LET after[k \in 0..n] ==
          IF k = 0 THEN s.card ELSE mmc_write_block(after[k - 1], address + k - 1, d[k - 1])
    IN  [s EXCEPT !.card = after[n]]

-----------------------------------------------------------------------------
(* block.c *)

\* prepare_blocks: a new page, its blocks put in front of the free ones.
prepare_blocks(s) ==
    LET at == Len(s.memory)
    IN  [s EXCEPT !.memory = @ \o [k \in 1..BLOCKS_PER_PAGE |-> <<>>],
                  !.free = [k \in 1..BLOCKS_PER_PAGE |-> at + BLOCKS_PER_PAGE + 1 - k] \o @]

fetched(s, index, slot) == [s EXCEPT !.memory[slot] = mmc_read(s, index * SECTORS)]

entries(s, index) == {i \in 1..Len(s.used) : s.used[i].index = index}

\* get_block: s.at is the block found or fetched.
get_block(s, index) ==
    LET cached == entries(s, index)
        t == IF s.free = <<>> THEN prepare_blocks(s) ELSE s
        slot == Head(t.free)
        u == [t EXCEPT !.free = Tail(@), !.used = <<[index |-> index, slot |-> slot]>> \o @]
    IN  IF cached # {} THEN [s EXCEPT !.at = s.used[Min(cached)].slot]
        ELSE [fetched(u, index, slot) EXCEPT !.at = slot]

State == [card |-> card, used |-> used_blocks, free |-> free_blocks, memory |-> memory, at |-> 0]

Commit(t) == card' = t.card /\ used_blocks' = t.used /\ free_blocks' = t.free /\ memory' = t.memory

-----------------------------------------------------------------------------

\* Any volume.
BlockInit ==
    /\ card \in [0..(BlockNum * SECTORS - 1) -> Data]
    /\ used_blocks = <<>> /\ free_blocks = <<>> /\ memory = <<>>
    /\ running = FALSE
    /\ result = <<>>

block_read(index) ==
    LET t == get_block(State, index)
    IN  /\ running
        /\ Commit(t)
        /\ result' = t.memory[t.at]
        /\ UNCHANGED running

\* Mutant: the write does not reach the cache.
written_past(s, index, d, n) == mmc_write(s, index * SECTORS, d, n)

written(s, index, d, n) ==
    mmc_write([s EXCEPT !.memory[s.at] = d], index * SECTORS, d, n)

block_write(index, d) ==
    /\ running
    /\ Commit(written(get_block(State, index), index, d, SECTORS))
    /\ UNCHANGED <<running, result>>

\* The power goes after n sectors of a write: all but the card is lost.
power_fails(index, d, n) ==
    /\ running
    /\ card' = written(get_block(State, index), index, d, n).card
    /\ used_blocks' = <<>> /\ free_blocks' = <<>> /\ memory' = <<>>
    /\ running' = FALSE
    /\ result' = <<>>

\* block_init and superblock_init: block 0 is read, and the kernel halts
\* unless its superblock is one of this file system.
superblock_init ==
    LET t == get_block(State, 0)
    IN  /\ ~running /\ used_blocks = <<>>
        /\ Commit(t)
        /\ running' = (t.memory[t.at][SECTORS - 1] \in Magic)
        /\ result' = t.memory[t.at]

BlockNext ==
    \/ superblock_init
    \/ \E index \in Blocks :
        \/ block_read(index)
        \/ \E d \in Contents :
            \/ block_write(index, d)
            \/ \E n \in Sectors : power_fails(index, d, n)

BlockSpec == BlockInit /\ [][BlockNext]_block_vars

-----------------------------------------------------------------------------
(* Properties *)

\* The blocks as they are on the card.
Disk == [i \in Blocks |-> [k \in Sectors |-> card[i * SECTORS + k]]]

Device == INSTANCE BlockDevice WITH disk <- Disk

\* Through the cache, the pages it grows by and the sectors under it, the
\* volume is a plain disk: a block reads as it was last written, also when it
\* was written while uncached, and after a power failure and a new boot, and
\* a failure damages no block but the one being written (get_block,
\* block_write, mmc_write).
DeviceSpec == Device!Spec
=============================================================================
