------------------------------- MODULE Refcount -------------------------------
(***************************************************************************)
(* The reference-count tree of one allocation group under its two          *)
(* operations, refcountShareExtent and refcountFreeExtent (reflink.go),    *)
(* against the definition it stands for: `owners' gives for every block    *)
(* how many inodes own it (0: it is free).                                 *)
(*                                                                         *)
(* An operation reads the records, computes the new list and writes it     *)
(* back; a list that does not fit the root block is refused before         *)
(* anything is written (errRefcountFull).  Blocks that lose their last     *)
(* owner go to freeBlocks, which FreeSpace and AllocBTree model.           *)
(***************************************************************************)
EXTENDS RefcountRecords

CONSTANTS
  FirstBlk, LastBlk,  \* the blocks files may own
  RefcMaxRecs,        \* the records that fit the root block
  MaxOwners           \* bound: inodes that own one block

ASSUME BoundsAssumption ==
  /\ FirstBlk \in Nat /\ LastBlk \in Nat /\ FirstBlk <= LastBlk
  /\ RefcMaxRecs \in Nat /\ MaxOwners \in Nat \ {0}

Blocks == FirstBlk .. LastBlk

Run(s, n) == s .. s + n - 1

VARIABLES
  recs,    \* the records in the root block
  free,    \* the blocks in the free-space trees
  owners   \* the inodes that really own each block: what recs stands for

vars == <<recs, free, owners>>

Init ==
  /\ recs = <<>>
  /\ free = Blocks
  /\ owners = [b \in Blocks |-> 0]

Own(s, n, d) ==
  owners' = [b \in Blocks |-> IF b \in Run(s, n) THEN owners[b] + d ELSE owners[b]]

\* allocBlocks hands a free run to one inode.
AllocRun(s, n) ==
  /\ Run(s, n) \subseteq free
  /\ free' = free \ Run(s, n)
  /\ Own(s, n, 1)
  /\ UNCHANGED recs

\* refcountWriteRecs: all or nothing.
RefcountWriteRecs(out) == Len(out) <= RefcMaxRecs /\ recs' = out

\* A further inode comes to own a run that is owned already.
RefcountShareExtent(s, n) ==
  /\ Run(s, n) \subseteq Blocks
  /\ \A b \in Run(s, n) : owners[b] \in 1 .. MaxOwners - 1
  /\ RefcountWriteRecs(RefcIncrRange(recs, s, n))
  /\ Own(s, n, 1)
  /\ UNCHANGED free

\* One of the owners of a run lets go of it.
RefcountFreeExtent(s, n) ==
  /\ Run(s, n) \subseteq Blocks
  /\ \A b \in Run(s, n) : owners[b] > 0
  /\ LET dec == RefcDecrRange(recs, s, n)
     IN  /\ RefcountWriteRecs(dec.out)
         /\ free' = free \cup UNION {Run(r.start, r.count) : r \in dec.free}
  /\ Own(s, n, -1)

Next ==
  \E s \in Blocks, n \in 1 .. LastBlk - FirstBlk + 1 :
    \/ AllocRun(s, n)
    \/ RefcountShareExtent(s, n)
    \/ RefcountFreeExtent(s, n)

Spec == Init /\ [][Next]_vars

-----------------------------------------------------------------------------
\* The list the root block holds is well formed and fits it: sorted, disjoint,
\* refcounts of two and more, no two records that refcMerge should have joined.
TypeOK ==
  /\ owners \in [Blocks -> 0 .. MaxOwners]
  /\ free \subseteq Blocks
  /\ CanonicalRecs(recs)
  /\ Len(recs) <= RefcMaxRecs

\* The records say exactly who shares what: a block with two or more owners
\* has a record with their number, every other block has none, however the
\* ranges of shares and releases overlap, split and join.
RecordsMatchOwners ==
  \A b \in Blocks : CountOf(recs, b) = IF owners[b] >= 2 THEN owners[b] ELSE 0

\* The records are exact and, as refcountWriteRecs writes them, canonical: split
\* and joined in any order they stay sorted, and never outgrow the root block.
RecordsSound == TypeOK /\ RecordsMatchOwners

\* refcountFreeExtent returns a block to the free-space trees when its last
\* owner lets go of it: neither while another inode still reads it, nor never.
FreedByLastOwner == free = {b \in Blocks : owners[b] = 0}
=============================================================================
