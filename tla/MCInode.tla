------------------------------- MODULE MCInode --------------------------------
(***************************************************************************)
(* Two files, one of zeros and one of ones: a zone that held the first can *)
(* become a table of the second, a zone that held the second cannot.       *)
(***************************************************************************)
EXTENDS Inode

MCDataWords == <<{0}, {1}>>
=============================================================================
