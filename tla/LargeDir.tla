------------------------------ MODULE LargeDir ------------------------------
(***************************************************************************)
(* One directory through all its forms: inline in the inode ("sf"), one    *)
(* block, several data blocks with a leaf, several with a hash tree.       *)
(* Names are added and removed (addDirEntry, removeDirEntry) and the       *)
(* parent changes (xfsUpdateDotDot); outside the inline form every change  *)
(* reads the whole directory back and writes it anew (writeWholeDir).      *)
(*                                                                         *)
(* A call is a sequence of steps on the image.  It carries out its first   *)
(* `cut` steps only: a block is refused, a write fails or the process      *)
(* stops.  The image after a cut call is what the next reader finds.       *)
(***************************************************************************)
EXTENDS DirLayout

CONSTANTS
  Names,      \* the names in use
  Ino,        \* name -> inode number
  Parents,    \* inode numbers of possible parents
  Word,       \* inode numbers from Word on need eight bytes inline
  SfCap,      \* names the inode holds inline
  LastBlk,    \* the group's blocks are 1 .. LastBlk
  FreeLog,    \* logical number of the first free-index block
  MaxCut,     \* steps of the longest call
  Imported    \* i8count of the directories the image comes with

ASSUME BlkAssumption == LastBlk > 0 /\ LeafLog > LastBlk /\ FreeLog > LeafLog + LastBlk

VARIABLES
  st,     \* dir: the inode; disk: its blocks; free: free blocks; err, cut, got,
          \* freed: the call's progress
  want,   \* the names the completed calls left in the directory
  up,     \* the parent the completed calls gave it
  cutting \* what the last call was about, if it was cut: [names, relaid]

vars == <<st, want, up, cutting>>

Whole == [names |-> {}, relaid |-> FALSE, cut |-> FALSE]

Blank == [kind |-> "blank", best |-> 0, cells |-> <<>>]

\* One step on the image: not taken when the call has been cut.
Step(s, t) ==
  IF s.err \/ s.cut = 0 THEN [s EXCEPT !.err = TRUE] ELSE [t EXCEPT !.cut = @ - 1]

-----------------------------------------------------------------------------
(* The inode: inline entries or extents. *)

IsLocal(dir) == dir.fmt = "local"

Blocks(e) == e.blk .. e.blk + e.cnt - 1

AllBlocks(dir) == UNION {Blocks(dir.exts[i]) : i \in DOMAIN dir.exts}

\* The blocks before the index, in logical order.
DataBlocks(dir) ==
  FlattenSeq([i \in DOMAIN dir.exts |->
     IF dir.exts[i].log >= LeafLog THEN <<>>
     ELSE [b \in 1 .. dir.exts[i].cnt |-> dir.exts[i].blk + b - 1]])

HasLeaf(dir) == \E i \in DOMAIN dir.exts : dir.exts[i].log >= LeafLog

\* An inline entry of four bytes in a fork of eight-byte numbers reads as its
\* number shifted.
SfIno(dir, e) == IF dir.i8 /\ e.bytes = 4 THEN e.ino * Word ELSE e.ino

SfReadDir(dir) == [i \in DOMAIN dir.sf |-> [name |-> dir.sf[i].name, ino |-> SfIno(dir, dir.sf[i])]]

ReadDir(s) ==
  IF IsLocal(s.dir) THEN SfReadDir(s.dir)
  ELSE FoldLeft(LAMBDA found, b : found \o ParseDirBlock(s.disk[b]), <<>>, DataBlocks(s.dir))

SfLookup(dir, n) ==
  LET at == {i \in DOMAIN dir.sf : dir.sf[i].name = n}
  IN  IF at = {} THEN 0 ELSE SfIno(dir, dir.sf[Min(at)])

\* The first data block that has the name gives the number.
BadBlockDirLookup(s, n) == SearchDirBlock(s.disk[DataBlocks(s.dir)[1]], n)

BlockDirLookup(s, n) ==
  FoldLeft(LAMBDA ino, b : IF ino # 0 THEN ino ELSE SearchDirBlock(s.disk[b], n), 0, DataBlocks(s.dir))

LookupInDir(s, n) == IF IsLocal(s.dir) THEN SfLookup(s.dir, n) ELSE BlockDirLookup(s, n)

\* The parent: in the inline header, or the ".." of logical block 0.
DirParentIno(s) ==
  IF IsLocal(s.dir) THEN s.dir.parent ELSE BlockDirParent(s.disk[DataBlocks(s.dir)[1]])

-----------------------------------------------------------------------------
(* writeWholeDir. *)

FreeExtent(s, e) == Step(s, [s EXCEPT !.free = @ \cup Blocks(e), !.freed = TRUE])

BadFreeDirBlocks(s) ==
  FoldLeft(FreeExtent, s, SelectSeq(s.dir.exts, LAMBDA e : e.log < LeafLog))

FreeDirBlocks(s) == FoldLeft(FreeExtent, s, s.dir.exts)

Runs(s, n) == {b \in 1 .. LastBlk + 1 - n : b .. b + n - 1 \subseteq s.free}

\* allocBlocks: some free run, here the first; none is an error.
AllocBlocks(s, n) ==
  LET Take(b) == Step(s, [s EXCEPT !.free = @ \ (b .. b + n - 1), !.got = Append(@, b)])
  IN  IF s.err \/ Runs(s, n) = {} THEN [s EXCEPT !.err = TRUE] ELSE Take(Min(Runs(s, n)))

\* Writes a run of blocks at the i-th run the call was given.
WriteBlocks(s, i, blocks) ==
  IF s.err THEN s
  ELSE Step(s, [s EXCEPT !.disk = [b \in DOMAIN @ \cup (s.got[i] .. s.got[i] + Len(blocks) - 1) |->
                                     IF b \in s.got[i] .. s.got[i] + Len(blocks) - 1
                                     THEN blocks[b - s.got[i] + 1] ELSE @[b]]])

\* Writes the inode with one extent for each run.
WriteInode(s, logs, cnts) ==
  IF s.err THEN s
  ELSE Step(s, [s EXCEPT !.dir =
         [fmt |-> "extents", i8 |-> FALSE, parent |-> 0, sf |-> <<>>,
          nblocks |-> SumFunction(cnts),
          exts |-> [i \in DOMAIN logs |-> [log |-> logs[i], blk |-> s.got[i], cnt |-> cnts[i]]]]])

BadWriteOneBlock(s, blk) ==
  WriteBlocks(WriteInode(AllocBlocks(s, 1), <<0>>, <<1>>), 1, <<blk>>)

WriteOneBlock(s, blk) == WriteInode(WriteBlocks(AllocBlocks(s, 1), 1, <<blk>>), <<0>>, <<1>>)

WriteLeaf1Index(s, D, leaf) ==
  WriteInode(WriteBlocks(AllocBlocks(s, 1), 2, <<leaf>>), <<0, LeafLog>>, <<D, 1>>)

WriteNodeIndex(s, D, region, free) ==
  WriteInode(
    WriteBlocks(WriteBlocks(AllocBlocks(AllocBlocks(s, Len(region)), Len(free)), 2, region), 3, free),
    <<0, LeafLog, FreeLog>>, <<D, Len(region), Len(free)>>)

\* Leaf form, or node form when the hashes do not fit one block.
BuildLeafDir(s, pack) ==
  LET Index(t, lents) ==
        IF t.err THEN t
        ELSE IF FitsLeaf1(lents, Len(pack.ends))
        THEN WriteLeaf1Index(t, Len(pack.ends), Leaf1(lents, pack.ends))
        ELSE WriteNodeIndex(t, Len(pack.ends), DirNodeBuild(lents), FreeIndex(pack.ends))
  IN  Index(WriteBlocks(AllocBlocks(s, Len(pack.ends)), 1, DataRegion(pack)), LeafEntries(pack.placed))

\* A block-form directory that stays one is rebuilt in place.
InPlace(s, all) == FitsOneBlock(all) /\ Len(DataBlocks(s.dir)) = 1 /\ ~HasLeaf(s.dir)

WriteWholeDir(s, all) ==
  CASE InPlace(s, all) ->
         Step(s, [s EXCEPT !.disk[DataBlocks(s.dir)[1]] = BuildBlockDirBlock(all)])
    [] FitsOneBlock(all) /\ ~InPlace(s, all) ->
         WriteOneBlock(FreeDirBlocks(s), BuildBlockDirBlock(all))
    [] OTHER ->
         BuildLeafDir(FreeDirBlocks(s), PackDirEntries(all))

-----------------------------------------------------------------------------
(* addDirEntry, removeDirEntry, xfsUpdateDotDot. *)

\* The offset field of a new inline entry: past the entries there are.
DataOff(dir) == 4 + SumFunction([i \in DOMAIN dir.sf |-> Size[dir.sf[i].name]])

SfHasRoom(dir, n) == Len(dir.sf) < SfCap /\ Ino[n] < Word

AddEntryToSFDir(s, n) ==
  Step(s, [s EXCEPT !.dir.sf = Append(@, [name |-> n, ino |-> Ino[n], bytes |-> 4,
                                          off |-> DataOff(s.dir)])])

AddDirEntry(s, n) ==
  IF IsLocal(s.dir) /\ SfHasRoom(s.dir, n) THEN AddEntryToSFDir(s, n)
  ELSE WriteWholeDir(s, Dot(DirParentIno(s)) \o ReadDir(s) \o <<[name |-> n, ino |-> Ino[n]]>>)

RemoveDirEntry(s, n) ==
  IF IsLocal(s.dir) THEN Step(s, [s EXCEPT !.dir.sf = RemoveFirstMatch(@, LAMBDA e : e.name = n)])
  ELSE WriteWholeDir(s, Dot(DirParentIno(s)) \o SelectSeq(ReadDir(s), LAMBDA e : e.name # n))

\* Inline: four bytes unless i8count says eight.  Otherwise the first data
\* block with a ".." entry.
UpdateDotDot(s, p) ==
  Step(s, IF IsLocal(s.dir) THEN [s EXCEPT !.dir.parent = IF s.dir.i8 THEN p ELSE p % Word]
          ELSE [s EXCEPT !.disk[DataBlocks(s.dir)[1]] = SetDotDot(@, p)])

-----------------------------------------------------------------------------
(* The calls. *)

\* makeDir writes a parent above four bytes with eight, but i8count 0: its
\* high half is what a reader finds.
NewDir(p, i8) ==
  [fmt |-> "local", i8 |-> i8, parent |-> IF p < Word \/ i8 THEN p ELSE p \div Word,
   sf |-> <<>>, exts |-> <<>>, nblocks |-> 0]

Init ==
  \E p \in Parents, i8 \in Imported :
    /\ st = [dir |-> NewDir(p, i8), disk |-> <<>>, free |-> 1 .. LastBlk,
             err |-> FALSE, cut |-> 0, got |-> <<>>, freed |-> FALSE]
    /\ want = {} /\ up = p /\ cutting = Whole

\* Blocks that nothing maps are not looked at again; one that was mapped but
\* not written holds nothing.
Settled(s) ==
  [s EXCEPT !.err = FALSE, !.cut = 0, !.got = <<>>, !.freed = FALSE,
            !.disk = [b \in AllBlocks(s.dir) |-> IF b \in DOMAIN @ THEN @[b] ELSE Blank]]

Return(s, names, parent) ==
  /\ st' = Settled(s)
  /\ want' = IF s.err THEN want ELSE names
  /\ up' = IF s.err THEN up ELSE parent
  /\ cutting' = IF s.err
                THEN [names |-> names, relaid |-> s.freed, cut |-> TRUE]
                ELSE Whole

Add(n, cut) ==
  /\ n \notin want
  /\ Return(AddDirEntry([st EXCEPT !.cut = cut], n), want \cup {n}, up)

RemoveName(n, cut) ==
  /\ n \in want
  /\ Return(RemoveDirEntry([st EXCEPT !.cut = cut], n), want \ {n}, up)

Reparent(p, cut) ==
  /\ p # up
  /\ Return(UpdateDotDot([st EXCEPT !.cut = cut], p), want, p)

Next ==
  \E cut \in 0 .. MaxCut :
    \/ \E n \in Names : Add(n, cut) \/ RemoveName(n, cut)
    \/ \E p \in Parents : Reparent(p, cut)

Spec == Init /\ [][Next]_vars

-----------------------------------------------------------------------------
(* What the directory is. *)

Entries(names) == {[name |-> n, ino |-> Ino[n]] : n \in names}

Lists(names) == ToSet(ReadDir(st)) = Entries(names) /\ Len(ReadDir(st)) = Cardinality(names)

\* The block at a logical number.
BlockAt(log) ==
  LET e == CHOOSE x \in ToSet(st.dir.exts) : log \in x.log .. x.log + x.cnt - 1
  IN  st.disk[e.blk + log - e.log]

IndexLogs ==
  UNION {e.log .. e.log + e.cnt - 1 : e \in {x \in ToSet(st.dir.exts) : x.log = LeafLog}}

HashCells(blk) == SelectSeq(blk.cells, LAMBDA c : c.k = "hash")

\* The addresses a reader of the format finds for a hash: down the tree to the
\* first leaf whose last hash is not smaller, then along the leaves.
RECURSIVE Descend(_, _)
Descend(log, h) ==
  LET blk == BlockAt(log)
  IN  IF blk.kind = "node"
      THEN LET at == SelectInSeq(blk.ents, LAMBDA e : e.hash >= h)
           IN  IF at = 0 THEN {} ELSE Descend(blk.ents[at].before, h)
      ELSE {l.addr : l \in {x \in ToSet(blk.lents) : x.hash = h}}
           \cup (IF blk.kind = "leafn" /\ Last(blk.lents).hash = h /\ blk.forw # 0
                 THEN Descend(blk.forw, h) ELSE {})

Found(h) ==
  IF HasLeaf(st.dir) THEN Descend(LeafLog, h)
  ELSE {c.addr : c \in {x \in ToSet(HashCells(BlockAt(0))) : x.hash = h}}

IndexSize ==
  IF HasLeaf(st.dir)
  THEN MapThenSumSet(LAMBDA log : IF BlockAt(log).kind = "node" THEN 0 ELSE Len(BlockAt(log).lents), IndexLogs)
  ELSE Len(HashCells(BlockAt(0)))

\* The free cells at the end of a data block.
Trailing(blk) ==
  LET u == SelectInSeq(blk.cells, LAMBDA c : c.k = "unused")
  IN  IF u = 0 THEN 0 ELSE blk.cells[u].len

\* The bests the index records, and the first data block of each window.
Bests ==
  IF BlockAt(LeafLog).kind = "leaf1" THEN <<BlockAt(LeafLog).bests>>
  ELSE LET e == Last(st.dir.exts) IN [i \in 1 .. e.cnt |-> BlockAt(e.log + i - 1).bests]

Windows ==
  IF BlockAt(LeafLog).kind = "leaf1" THEN <<0>>
  ELSE LET e == Last(st.dir.exts) IN [i \in 1 .. e.cnt |-> BlockAt(e.log + i - 1).first]

\* Of an index block: its height, its last hash and its first.
Height(blk) == IF blk.kind = "node" THEN blk.level ELSE 0

Keys(blk) == LET s == IF blk.kind = "node" THEN blk.ents ELSE blk.lents IN [i \in DOMAIN s |-> s[i].hash]

InBlocks == ~cutting.cut /\ ~IsLocal(st.dir)

-----------------------------------------------------------------------------
(* Properties. *)

\* The directory has one of its two formats, and blocks are blocks of the volume.
TypeOK ==
  /\ st.dir.fmt \in {"local", "extents"}
  /\ st.free \subseteq 1 .. LastBlk
  /\ DOMAIN st.disk \subseteq 1 .. LastBlk
  /\ want \subseteq Names
  /\ up \in Parents

\* After calls that completed, a listing (readDir) gives each name once with its
\* inode number and the parent is the one last set, whatever forms the directory
\* went through (writeWholeDir, parseDirBlock, dirParentIno).
ListingExact == ~cutting.cut => Lists(want) /\ DirParentIno(st) = up

\* lookupInDir finds exactly the names the listing has: it walks the same blocks
\* by other rules, and does not stop at the hash array (searchDirBlock).
LookupAgrees ==
  ~cutting.cut => \A n \in Names : LookupInDir(st, n) = IF n \in want THEN Ino[n] ELSE 0

\* The two readers (readDir and lookupInDir) agree with each other and with what
\* the callers put into the directory and took out of it.
NamesExact == TypeOK /\ ListingExact /\ LookupAgrees

\* The hash index the code writes and never reads (leafEntries, dirNodeBuild)
\* leads from each name's hash to the entry, equal hashes included, and holds
\* nothing else.
IndexFindsEveryName ==
  InBlocks =>
    /\ IndexSize = Cardinality(want) + 2
    /\ \A n \in want \cup {".", ".."} :
         \E a \in Found(Hash[n]) :
           BlockAt(a \div DataRoom).cells[(a % DataRoom) + 2] = [k |-> "name", name |-> n]

\* The hash tree is one tree: the root is first and alone, no node has a single
\* entry, a key is the last hash of its child, and the siblings of a level are
\* linked both ways in hash order (dirNodeBuild).
HashTreeSound ==
  InBlocks /\ HasLeaf(st.dir) =>
    \A log \in IndexLogs :
      LET blk == BlockAt(log)
      IN  /\ blk.kind = "node" =>
               /\ Len(blk.ents) \in 2 .. NodeCap
               /\ \A i \in DOMAIN blk.ents :
                    /\ Last(Keys(BlockAt(blk.ents[i].before))) = blk.ents[i].hash
                    /\ Height(BlockAt(blk.ents[i].before)) = blk.level - 1
          /\ blk.kind # "leaf1" =>
               /\ (log = LeafLog) => blk.forw = 0 /\ blk.back = 0
               /\ (log # LeafLog) =>
                    Cardinality({p \in IndexLogs :
                      BlockAt(p).kind = "node" /\ \E e \in ToSet(BlockAt(p).ents) : e.before = log}) = 1
               /\ blk.forw # 0 =>
                    /\ BlockAt(blk.forw).back = log
                    /\ Height(BlockAt(blk.forw)) = Height(blk)
                    /\ Last(Keys(blk)) <= Head(Keys(BlockAt(blk.forw)))

\* The free space recorded for each data block, in its header and in the leaf or
\* free index, is what the block really has, and the windows of the free index
\* follow each other without gap (writeDataRegion, dirWriteFreeIndex).
FreeSpaceIndexed ==
  InBlocks =>
    /\ \A i \in DOMAIN DataBlocks(st.dir) :
         LET blk == st.disk[DataBlocks(st.dir)[i]]
         IN  Len(blk.cells) = DataRoom /\ blk.best = Trailing(blk)
    /\ HasLeaf(st.dir) =>
         /\ FlattenSeq(Bests) = [i \in DOMAIN DataBlocks(st.dir) |-> Trailing(st.disk[DataBlocks(st.dir)[i]])]
         /\ \A i \in DOMAIN Bests : Windows[i] = SumFunction([j \in 1 .. i - 1 |-> Len(Bests[j])])

\* The index blocks that this code writes for the kernel and never reads itself
\* are right: every name by its hash, the tree and its chain, and the free space
\* of every data block (writeWholeDir, dirNodeBuild).
IndexSound == IndexFindsEveryName /\ HashTreeSound /\ FreeSpaceIndexed

\* After calls that completed every block is free or mapped once by the
\* directory, none is lost in a change of form, and di_nblocks counts them
\* (freeDirBlocks, setInodeNBlocks).
BlocksAccounted ==
  ~cutting.cut =>
    /\ st.free \cap AllBlocks(st.dir) = {}
    /\ st.free \cup AllBlocks(st.dir) = 1 .. LastBlk
    /\ Cardinality(AllBlocks(st.dir)) = st.dir.nblocks

\* A call cut anywhere leaves the directory with the old names or with the new
\* ones and none of its blocks free, if it had not begun to free the blocks of
\* the old layout: inline changes, the conversion of an inline directory and
\* the rebuild in place write what readers see in one last step (writeWholeDir).
AllOrNothing ==
  cutting.cut /\ ~cutting.relaid =>
    /\ Lists(want) \/ Lists(cutting.names)
    /\ st.free \cap AllBlocks(st.dir) = {}

-----------------------------------------------------------------------------
(* What the comments say and the code does not do. *)

\* dir.go:524 "xfs_repair validates these offsets, so they must match the
\* canonical dir2 layout": inline entries' offsets do not overlap.
SfOffsetsCanonical ==
  \A i, j \in DOMAIN st.dir.sf :
    i < j => st.dir.sf[i].off + Size[st.dir.sf[i].name] <= st.dir.sf[j].off

\* dir.go:231 "the block also contains a leaf section at its end which we skip":
\* a lookup finds only names that were added.
LeafSectionSkipped ==
  ~cutting.cut => \A n \in Names \ want : LookupInDir(st, n) = 0

\* mkdir.go:83 "[count=0][i8count=0][parent_ino: 4 or 8 bytes]": the parent that
\* was written is the parent that is read.
ParentReadBack == ~cutting.cut => DirParentIno(st) = up

\* leafdir.go:47 "conversions, growth and shrink free the current blocks and
\* allocate fresh": a change that is refused a block leaves the names.
RefusedCallKeepsNames == cutting.cut => Lists(want) \/ Lists(cutting.names)

=============================================================================
