----------------------------- MODULE Allocator -----------------------------
(***************************************************************************)
(* What the block allocator of one allocation group promises its callers   *)
(* (file data, directory blocks, inode chunks): allocBlocks hands out a    *)
(* contiguous run of blocks nobody holds, freeBlocks takes back blocks the *)
(* caller holds, and neither disturbs the blocks of anybody else.  How     *)
(* free space is indexed is not visible here; FreeSpace and AllocBTree are *)
(* shown to implement this module.                                         *)
(***************************************************************************)
EXTENDS Integers

CONSTANTS FirstBlk, LastBlk   \* the data area of the allocation group

VARIABLE held           \* blocks owned by the callers of the allocator

Area == FirstBlk .. LastBlk

\* An extent [start, count] and the blocks it covers.
Extent == [start : Area, count : 1 .. (LastBlk - FirstBlk + 1)]

Run(e) == e.start .. (e.start + e.count - 1)

Init == held = {}

AllocBlocks ==
  \E e \in Extent :
    /\ Run(e) \subseteq Area \ held
    /\ held' = held \cup Run(e)

FreeBlocks ==
  \E e \in Extent :
    /\ Run(e) \subseteq held
    /\ held' = held \ Run(e)

Next == AllocBlocks \/ FreeBlocks

Spec == Init /\ [][Next]_held
=============================================================================
