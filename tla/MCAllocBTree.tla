---------------------------- MODULE MCAllocBTree ----------------------------
(***************************************************************************)
(* AllocBTree from the layout mkfs writes, with blocks of a few records.   *)
(* Only Searchable states are expanded (the cfgs' CONSTRAINT): each call   *)
(* starts from trees that are in order, and is checked where it ends.      *)
(***************************************************************************)
EXTENDS AllocBTree
=============================================================================
