---------------------------- MODULE MCInodeAlloc ----------------------------
(***************************************************************************)
(* InodeAlloc with chunks of two inodes on two blocks and nodes of two     *)
(* entries: the tree reaches three levels.                                 *)
(***************************************************************************)
EXTENDS InodeAlloc
=============================================================================
