---------------------------- MODULE MCFreeSpace ----------------------------
(* TLC instance of FreeSpace: a six-block data area, leaves of two records *)
(* and split reserves of two or three blocks.                              *)
EXTENDS FreeSpace
=============================================================================
