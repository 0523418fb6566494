-------------------------------- MODULE MCVfs ---------------------------------
(***************************************************************************)
(* The paths of the run on Fs: a directory, one inside it, a file next     *)
(* to each, a name and a path that are too long.                           *)
(***************************************************************************)
EXTENDS Fs, Libgen

MCFilePaths == {<<"f">>, <<"a", "f">>, <<"nn">>}
MCDirPaths == {<<"a">>, <<"a", "b">>, <<"x", "x">>}
MCLongPaths == {<<"x", "x">>}

\* Libgen!PathsSplit, about functions alone, is evaluated once: at boot.
PathsSplitAtBoot == Init => PathsSplit
=============================================================================
