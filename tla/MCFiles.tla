------------------------------- MODULE MCFiles --------------------------------
(***************************************************************************)
(* The descriptor tables of Files and the calls on open files of FileIO.   *)
(* They share no state, so the run looks at each with the other as it was  *)
(* at first, rather than at every pair of their states.                    *)
(***************************************************************************)
EXTENDS Files, TLC

CONSTANTS OpenFiles, Modes, Room, Vectors, ULONG_MAX, LLONG_MAX, SeekOffsets, MaxSlots, BufferSizes

VARIABLES dir, data, slots, file, got, since

io == <<dir, data, slots, file, got, since>>

IO == INSTANCE FileIO

\* A file for both, a file for writing; vectors with empty buffers at both
\* ends; seeks past both ends of a loff_t.
MCModes == (1 :> "O_RDWR") @@ (2 :> "O_WRONLY")
MCVectors == {<<>>, <<0>>, <<1>>, <<1, 2>>, <<0, 1, 1>>}
MCSeekOffsets == {-LLONG_MAX - 1, -1, 0, 3, LLONG_MAX}

MCInit == Init /\ IO!Init
MCNext ==
    \/ IO!Init /\ ~dir /\ Next /\ UNCHANGED io
    \/ Init /\ IO!Next /\ UNCHANGED vars
MCSpec == MCInit /\ [][MCNext]_<<vars, io>>

\* readv and writev come to one call on all the buffers (emulate_readv,
\* emulate_writev).
VectorsAreOne == Init => IO!VectorsAreOne

\* A seek ends where its operands add up to or moves nothing (process_llseek).
SeekExact == Init => IO!SeekExact

\* getdents64 lists a changing directory without doubles or gaps.
ListedOnce == Init => IO!ListedOnce
=============================================================================
