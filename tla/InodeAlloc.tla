----------------------------- MODULE InodeAlloc -----------------------------
(***************************************************************************)
(* Inode allocation in one allocation group: the inode B+tree (inobt), its *)
(* search for a free inode, its growth by a chunk of inodes with leaf,     *)
(* node and root splits, and the AGI counters.  Blocks come from           *)
(* allocBlocks, known here by what it promises (module Allocator): it      *)
(* hands out free runs, and it may refuse.  An operation is a function     *)
(* from the AG's state to its next state; a refusal sets err, and what was *)
(* written before it stays written.                                        *)
(***************************************************************************)
EXTENDS Integers, Sequences, FiniteSets, SequencesExt

CONSTANTS FirstBlk, LastBlk,  \* blocks allocBlocks can hand out
          InobtRoot,          \* the root block mkfs lays out
          ChunkInodes,        \* inobtChunkInodes
          InopBlock,          \* sb_inopblock
          Reserved,           \* inodes mkfs uses in the chunk it seeds in AG 0
          MaxLeaf,            \* records of a leaf
          MaxInternal,        \* keys of an interior node (inobtMaxInternal)
          MaxDepth,           \* bound: levels of the tree
          MaxFree             \* bound: free inodes of an expanded state

ASSUME GeometryAssumption ==
  /\ FirstBlk \in Nat /\ LastBlk \in Nat /\ InobtRoot \in 1 .. (FirstBlk - 1)
  /\ InopBlock \in 1 .. ChunkInodes /\ ChunkInodes % InopBlock = 0
  /\ Reserved \in 0 .. ChunkInodes
  /\ MaxLeaf \in Nat \ {0, 1} /\ MaxInternal \in Nat \ {0, 1}

NULL == 0

NoSplit == <<>>

Area == FirstBlk .. LastBlk

Run(start, n) == start .. (start + n - 1)

BlocksPerChunk == ChunkInodes \div InopBlock

-----------------------------------------------------------------------------
(* A leaf record is <<startino, freecount, free bits>>, an interior entry   *)
(* is <<key, child>>.                                                       *)

Fresh(start) == <<start, ChunkInodes, 0 .. (ChunkInodes - 1)>>

MaxRecs(node) == IF node.lvl = 0 THEN MaxLeaf ELSE MaxInternal

Put(s, b, node) == [s EXCEPT !.disk[b] = node]

SetLeft(s, b, left) == IF b = NULL THEN s ELSE [s EXCEPT !.disk[b].left = left]

\* The first entry above key, or the end.
InsertPos(recs, key) ==
  LET i == SelectInSeq(recs, LAMBDA x : x[1] > key)
  IN  IF i = 0 THEN Len(recs) + 1 ELSE i

\* Faulty variants, named Bad..., stand before the definition they alter; each
\* is a mistake that one of the properties below must notice.
BadChildIdx(node, key) ==
  LET i == SelectInSeq(node.recs, LAMBDA x : x[1] >= key)
  IN  CASE i = 0 -> Len(node.recs)
        [] i = 1 -> 1
        [] OTHER -> i - 1

\* The last child whose key is not above key, else the first.
ChildIdx(node, key) ==
  LET i == SelectInSeq(node.recs, LAMBDA x : x[1] > key)
  IN  CASE i = 0 -> Len(node.recs)
        [] i = 1 -> 1
        [] OTHER -> i - 1

RECURSIVE FindFreeFrom(_, _)

\* inobtFindFree: down the first pointers, then along the right siblings, to
\* the first record whose freecount is not 0.
FindFreeFrom(s, b) ==
  LET node == s.disk[b]
      i    == SelectInSeq(node.recs, LAMBDA x : x[2] > 0)
  IN  CASE b = NULL               -> [leaf |-> NULL, idx |-> 0]
        [] b # NULL /\ node.lvl > 0 -> FindFreeFrom(s, node.recs[1][2])
        [] b # NULL /\ node.lvl = 0 /\ i # 0 -> [leaf |-> b, idx |-> i]
        [] OTHER                  -> FindFreeFrom(s, node.right)

InobtFindFree(s) == FindFreeFrom(s, s.root)

RECURSIVE FindRecordFrom(_, _, _)

\* inobtFindRecord: down by key, then the record whose chunk covers ino.
FindRecordFrom(s, b, ino) ==
  LET node == s.disk[b]
      i    == SelectInSeq(node.recs, LAMBDA x : ino \in x[1] .. (x[1] + ChunkInodes - 1))
  IN  CASE node.lvl > 0 -> FindRecordFrom(s, node.recs[ChildIdx(node, ino)][2], ino)
        [] node.lvl = 0 /\ i # 0 -> [leaf |-> b, idx |-> i]
        [] OTHER        -> [leaf |-> NULL, idx |-> 0]

InobtFindRecord(s, ino) == FindRecordFrom(s, s.root, ino)

-----------------------------------------------------------------------------
(* The block allocator, as this code uses it *)

FreeArea(s) == Area \ s.held

Fits(s, n) == {b \in Area : Run(b, n) \subseteq FreeArea(s)}

AllocBlocks(s, start, n) == [s EXCEPT !.held = @ \cup Run(start, n)]

FreeBlocks(s, start, n) == [s EXCEPT !.held = @ \ Run(start, n)]

\* The block of a new tree node; s.grants is how many more requests are met.
\* Which free block it is does not matter to the tree: take the highest, which
\* leaves the low blocks to chunks.
AllocNode(s) ==
  LET b == Max(FreeArea(s))
  IN  IF s.grants = 0 \/ FreeArea(s) = {}
      THEN [s EXCEPT !.err = TRUE, !.torn = @ \/ s.split # NoSplit]
      ELSE [AllocBlocks(s, b, 1) EXCEPT !.grants = @ - 1, !.blk = b]

-----------------------------------------------------------------------------
(* Insert of a chunk record *)

BadSplitBlock(s, b, recs) ==
  LET node  == s.disk[b]
      m     == AllocNode(s)
      half  == Len(recs) \div 2
      left  == [node EXCEPT !.recs = SubSeq(recs, 1, half), !.right = m.blk]
      right == [node EXCEPT !.recs = SubSeq(recs, half + 1, Len(recs)), !.left = b]
  IN  IF m.err THEN m
      ELSE [Put(Put(m, b, left), m.blk, right)
              EXCEPT !.split = <<right.recs[1][1], m.blk>>]

\* inobtSplitLeaf and inobtSplitNode: recs is the full block with the new
\* entry; the lower half stays in b, the upper half goes to a new right sibling.
SplitBlock(s, b, recs) ==
  LET node  == s.disk[b]
      m     == AllocNode(s)
      half  == Len(recs) \div 2
      left  == [node EXCEPT !.recs = SubSeq(recs, 1, half), !.right = m.blk]
      right == [node EXCEPT !.recs = SubSeq(recs, half + 1, Len(recs)), !.left = b]
  IN  IF m.err THEN m
      ELSE [SetLeft(Put(Put(m, b, left), m.blk, right), node.right, m.blk)
              EXCEPT !.split = <<right.recs[1][1], m.blk>>]

RECURSIVE InobtInsertInto(_, _, _)

InobtInsertInto(s, b, r) ==
  LET node == s.disk[b]
      ci   == ChildIdx(node, r[1])
      low  == node.lvl > 0 /\ r[1] < node.recs[1][1]
      k    == IF node.lvl = 0 THEN s
              ELSE InobtInsertInto([s EXCEPT !.low = @ \/ low], node.recs[ci][2], r)
      recs == IF node.lvl = 0 THEN InsertAt(node.recs, InsertPos(node.recs, r[1]), r)
              ELSE InsertAt(node.recs, ci + 1, k.split)
      dup  == node.lvl = 0 /\ \E x \in ToSet(node.recs) : x[1] = r[1]
  IN  CASE dup -> [s EXCEPT !.err = TRUE]
        [] ~dup /\ node.lvl # 0 /\ (k.err \/ k.split = NoSplit) -> k
        [] OTHER -> IF Len(node.recs) < MaxRecs(node)
                    THEN [Put(k, b, [node EXCEPT !.recs = recs]) EXCEPT !.split = NoSplit]
                    ELSE SplitBlock(k, b, recs)

\* A split root gets a new root above it; the AGI is written by the caller.
InobtInsertChunkRecord(s, start) ==
  LET k    == InobtInsertInto(s, s.root, Fresh(start))
      m    == AllocNode(k)
      old  == m.disk[s.root]
      root == [lvl |-> old.lvl + 1, recs |-> <<<<old.recs[1][1], s.root>>, k.split>>,
               left |-> NULL, right |-> NULL]
  IN  CASE k.err \/ k.split = NoSplit -> k
        [] m.err                      -> m
        [] OTHER -> [Put(m, m.blk, root) EXCEPT !.root = m.blk, !.level = @ + 1]

-----------------------------------------------------------------------------
(* growInobt *)

AlignUp(b) == ((b + BlocksPerChunk - 1) \div BlocksPerChunk) * BlocksPerChunk

BadTrim(s, raw) ==
  LET want == 2 * BlocksPerChunk - 1
      base == AlignUp(raw)
  IN  [FreeBlocks(AllocBlocks(s, raw, want), raw, base - raw) EXCEPT !.blk = base]

\* The misaligned probe was handed back; of a run of twice the chunk less one
\* block the aligned chunk is kept, and the head and tail are freed.
Trim(s, raw) ==
  LET want == 2 * BlocksPerChunk - 1
      base == AlignUp(raw)
      head == base - raw
      tail == want - head - BlocksPerChunk
      a    == AllocBlocks(s, raw, want)
      f    == FreeBlocks(FreeBlocks(a, raw, head), base + BlocksPerChunk, tail)
  IN  [f EXCEPT !.blk = base]

\* The states in which a chunk has been taken, one for each run that
\* allocBlocks may have answered the two requests with.
ChunkTaken(s) ==
  LET probes == Fits(s, BlocksPerChunk)
  IN  {[AllocBlocks(s, p, BlocksPerChunk) EXCEPT !.blk = p] :
         p \in {p \in probes : p % BlocksPerChunk = 0}}
      \cup (IF \A p \in probes : p % BlocksPerChunk = 0 THEN {}
            ELSE {Trim(s, raw) : raw \in Fits(s, 2 * BlocksPerChunk - 1)})

Credit(s) == [s EXCEPT !.count = @ + ChunkInodes, !.freecount = @ + ChunkInodes]

Counted(s) == IF s.err THEN [s EXCEPT !.leaked = TRUE] ELSE Credit(s)

\* The rest of growInobt once block s.blk starts the chunk.
GrowInobt(s) == Counted(InobtInsertChunkRecord(s, s.blk * InopBlock))

-----------------------------------------------------------------------------
VARIABLES st, live   \* live: inodes in the hands of callers

vars == <<st, live>>

Settle(s) == [s EXCEPT !.split = NoSplit, !.blk = NULL, !.grants = 0, !.err = FALSE]

BadMarkUsed(s, hit) ==
  LET r   == s.disk[hit.leaf].recs[hit.idx]
      bit == Min(r[3])
  IN  [s EXCEPT !.disk[hit.leaf].recs[hit.idx] = <<r[1], r[2] - 1, r[3]>>,
                !.freecount = @ - 1, !.blk = r[1] + bit]

\* The lowest free bit of the record is taken; blk carries the inode number.
MarkUsed(s, hit) ==
  LET r   == s.disk[hit.leaf].recs[hit.idx]
      bit == Min(r[3])
  IN  [s EXCEPT !.disk[hit.leaf].recs[hit.idx] = <<r[1], r[2] - 1, r[3] \ {bit}>>,
                !.freecount = @ - 1, !.blk = r[1] + bit]

HandOut(s) ==
  LET a == MarkUsed(s, InobtFindFree(s))
  IN  st' = Settle(a) /\ live' = live \cup {a.blk}

\* allocInode when some record has a free inode.
AllocInode == InobtFindFree(st).leaf # NULL /\ HandOut(st)

AfterGrowing(s) == IF s.err THEN st' = Settle(s) /\ UNCHANGED live ELSE HandOut(s)

\* allocInode when every record is full: growInobt, then the search again.
AllocInodeGrows ==
  /\ InobtFindFree(st).leaf = NULL
  /\ \E s \in ChunkTaken(st), grants \in 0 .. (MaxDepth + 1) :
       AfterGrowing(GrowInobt([s EXCEPT !.grants = grants]))

\* freeInode of an inode a caller holds, not one mkfs made; an unfindable inode is an error.
FreeInode(ino) ==
  LET hit == InobtFindRecord(st, ino)
      r   == st.disk[hit.leaf].recs[hit.idx]
  IN  /\ ino \in live \ st.fixed
      /\ hit.leaf # NULL
      /\ st' = [st EXCEPT !.disk[hit.leaf].recs[hit.idx] =
                            <<r[1], r[2] + 1, r[3] \cup {ino - r[1]}>>,
                          !.freecount = @ + 1]
      /\ live' = live \ {ino}

Blank == [lvl |-> 0, recs |-> <<>>, left |-> NULL, right |-> NULL]

\* mkfs: an empty root leaf, or in AG 0 one with the seeded chunk.
Mkfs(recs, held, count, freecount, fixed) ==
  [disk |-> [b \in 1 .. LastBlk |-> IF b = InobtRoot THEN [Blank EXCEPT !.recs = recs] ELSE Blank],
   root |-> InobtRoot, level |-> 1, count |-> count, freecount |-> freecount, held |-> held,
   split |-> NoSplit, blk |-> NULL, grants |-> 0, err |-> FALSE,
   fixed |-> fixed, torn |-> FALSE, low |-> FALSE, leaked |-> FALSE]

Init ==
  LET base  == AlignUp(FirstBlk)
      start == base * InopBlock
      seed  == <<start, ChunkInodes - Reserved, Reserved .. (ChunkInodes - 1)>>
  IN  \/ /\ st = Mkfs(<<>>, {}, 0, 0, {})
         /\ live = {}
      \/ /\ st = Mkfs(<<seed>>, Run(base, BlocksPerChunk), ChunkInodes, ChunkInodes - Reserved,
                      Run(start, Reserved))
         /\ live = Run(start, Reserved)

Next == AllocInode \/ AllocInodeGrows \/ \E ino \in live : FreeInode(ino)

Spec == Init /\ [][Next]_vars

-----------------------------------------------------------------------------
(* What the tree says *)

RECURSIVE LeafChain(_, _)

LeafChain(b, seen) ==
  IF b = NULL \/ b \in seen THEN <<>> ELSE <<b>> \o LeafChain(st.disk[b].right, seen \cup {b})

RECURSIVE Leftmost(_)

Leftmost(b) == IF st.disk[b].lvl = 0 THEN b ELSE Leftmost(st.disk[b].recs[1][2])

Records ==
  LET chain == LeafChain(Leftmost(st.root), {})
  IN  FlattenSeq([i \in 1 .. Len(chain) |-> st.disk[chain[i]].recs])

RECURSIVE LeavesUnder(_)

LeavesUnder(b) ==
  IF st.disk[b].lvl = 0 THEN <<b>>
  ELSE FlattenSeq([i \in 1 .. Len(st.disk[b].recs) |-> LeavesUnder(st.disk[b].recs[i][2])])

RECURSIVE Reach(_)

Reach(b) ==
  {b} \cup (IF st.disk[b].lvl = 0 THEN {}
            ELSE UNION {Reach(x[2]) : x \in ToSet(st.disk[b].recs)})

ChunkBlocks(r) == Run(r[1] \div InopBlock, BlocksPerChunk)

FewFree == Cardinality(UNION {{r[1] + i : i \in r[3]} : r \in ToSet(Records)}) <= MaxFree

-----------------------------------------------------------------------------
(* Properties *)

\* torn: a split was refused after a block below it had been split already.
\* low: a chunk went in below the first separator of a node on its way.
Sound == ~st.torn /\ ~st.low

\* Type invariant: records hold a chunk's inode numbers and its free bits, and
\* the AGI counters never go below zero (they are unsigned on disk).
TypeOK ==
  /\ st.held \subseteq Area
  /\ st.root \in 1 .. LastBlk /\ st.level \in Nat \ {0}
  /\ st.count \in Nat /\ (st.torn \/ st.freecount \in Nat)
  /\ \A r \in ToSet(Records) : r[2] \in 0 .. ChunkInodes /\ r[3] \subseteq 0 .. (ChunkInodes - 1)
  /\ st.torn \in BOOLEAN /\ st.low \in BOOLEAN /\ st.leaked \in BOOLEAN

\* allocInode never hands out an inode that is still in use: whatever was
\* refused, no two records of the leaf chain cover the same inode, and an inode
\* in a caller's hands is marked used in the one record that covers it.
NeverHandedOutTwice ==
  LET recs == Records
  IN  /\ \A i, j \in 1 .. Len(recs) : i # j => recs[i][1] # recs[j][1]
      /\ \A ino \in live : \E r \in ToSet(recs) :
           ino - r[1] \in (0 .. (ChunkInodes - 1)) \ r[3]

\* Every chunk is aligned to its size and occupies blocks of its own, apart
\* from the other chunks and from the tree's nodes; unless a grow failed after
\* taking its chunk, these are exactly the blocks the inobt took, so the probe
\* and the slack of a misaligned chunk went back.
ChunksOwnTheirBlocks ==
  LET recs  == ToSet(Records)
      nodes == Reach(st.root) \cup ToSet(LeafChain(Leftmost(st.root), {}))
  IN  /\ \A r \in recs : r[1] % ChunkInodes = 0 /\ ChunkBlocks(r) \subseteq st.held \ nodes
      /\ \A q, r \in recs : q # r => ChunkBlocks(q) \cap ChunkBlocks(r) = {}
      /\ st.leaked \/ st.held = (nodes \ {InobtRoot}) \cup UNION {ChunkBlocks(r) : r \in recs}

\* Unless a split was refused half-way, the AGI counters are the sums over the
\* records, the records' counters match their bits, and agi_level is the height.
CountersExact ==
  LET recs == ToSet(Records)
  IN  st.torn \/
      /\ st.count = ChunkInodes * Cardinality(recs)
      /\ \A r \in recs : r[2] = Cardinality(r[3])
      /\ st.freecount = st.count - Cardinality(live)
      /\ st.level = st.disk[st.root].lvl + 1

\* After every call, refused ones included, the blocks the inode tree took and
\* the counters of the AGI are those of its chunks.
AccountsExact == TypeOK /\ ChunksOwnTheirBlocks /\ CountersExact

\* In a sound tree the sibling chain that the search for
\* a free inode walks is the list of leaves under the root, in inode order.
ChainMatchesTree ==
  LET chain == LeafChain(Leftmost(st.root), {})
      recs  == Records
  IN  Sound =>
      /\ chain = LeavesUnder(st.root)
      /\ \A i \in 2 .. Len(chain) : st.disk[chain[i]].left = chain[i - 1]
      /\ \A i, j \in 1 .. Len(recs) : i < j => recs[i][1] < recs[j][1]

LiveInodesFound == \A ino \in live : InobtFindRecord(st, ino).leaf # NULL

\* In a sound tree every inode in use is found again by key, and so can be
\* freed; in AG 0 the tree stays sound unless a split is refused half-way.
FoundWhenSound ==
  /\ Sound => LiveInodesFound
  /\ st.fixed # {} => ~st.low

\* inobtFindRecord "returns the leaf block + record index that contains
\* agRelIno" for every inode in use, if no split was ever refused.
FoundUnlessTorn == st.torn \/ LiveInodesFound

\* The same, if no chunk was ever put below a first separator.
FoundUnlessLow == st.low \/ LiveInodesFound
=============================================================================
