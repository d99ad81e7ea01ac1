---------------------------- MODULE MCAddresses -----------------------------
(* Images Format makes, with format.go's numbers; images made elsewhere, with *)
(* groups of four to six blocks and a short last one, that are worked on; and *)
(* superblocks with every combination of a few values of each field, that are *)
(* opened or refused.                                                         *)
EXTENDS Addresses, TLC

Geometry(blockSize, inodeSize, inop, agBlocks, agCount, dBlocks) ==
  [blockSize |-> blockSize, sectSize |-> 2, agBlocks |-> agBlocks, agCount |-> agCount,
   dBlocks |-> dBlocks, agBlkLog |-> CeilLog(agBlocks), inodeSize |-> inodeSize,
   inopBlock |-> inop, inopBLog |-> CeilLog(inop), dirBlkLog |-> 0, reflink |-> FALSE,
   fmt |-> FALSE]

Image(s, blocks, cs) == [sb |-> s, devUnits |-> blocks * s.blockSize, chunks |-> cs]

Worked ==
  {Image(Geometry(32, 1, 32, 5, 2, 10), 10, {<<1, 64>>}),
   Image(Geometry(64, 1, 64, 6, 3, 15), 15, {}),
   Image(Geometry(64, 2, 32, 5, 2, 0), 10, {}),
   Image(Geometry(32, 1, 32, 4, 2, 8), 8, {})}

Candidates ==
  {Image([Geometry(bs, is, ip, ab, ac, db) EXCEPT !.agBlkLog = al, !.inopBLog = il], blocks, {}) :
     bs \in {16, 32}, is \in {1, 2}, ip \in {16, 32}, il \in {4, 5},
     ab \in {4, 5}, al \in {2, 3}, ac \in {1, 2, 3}, db \in {0, 9, 15}, blocks \in {9, 15}}

\* One field out of its range.
Malformed ==
  LET s == Geometry(32, 1, 32, 5, 2, 10)
  IN  {Image(t, 10, {}) :
         t \in {[s EXCEPT !.blockSize = b] : b \in {1, 24, 512}}
            \cup {[s EXCEPT !.inodeSize = i] : i \in {0, 3, 16}}
            \cup {[s EXCEPT !.sectSize = x] : x \in {0, 64}}
            \cup {[s EXCEPT !.inopBlock = i] : i \in {0, 24}}
            \cup {[s EXCEPT !.dirBlkLog = 32], [s EXCEPT !.inopBLog = 16]}}

MCImported == Worked \cup Candidates \cup Malformed

\* Of the superblocks Open accepts a few are worked on, and not beyond the
\* point where growInobt has written astray.
Explored ==
  ~stray /\ (opened = "yes" => sb \in {im.sb : im \in Worked \cup FormattedImages})
\* Files are interchangeable.
Names == Permutations(Ids)
=============================================================================
