------------------------------ MODULE Addresses ------------------------------
(***************************************************************************)
(* Where things are on the image: the geometry Open accepts                *)
(* (superblock.go, limits.go), packed block numbers, inode numbers and     *)
(* extent records (superblock.go, inode.go, extent.go), the layout Format  *)
(* gives an allocation group (format.go), and the reads and writes that go *)
(* through these addresses (fs.go, write.go, inode.go, growInobt).         *)
(*                                                                         *)
(* The device is a partial function from addresses to what was last        *)
(* written there; an address counts units of 256 bytes, the smallest inode *)
(* size, and every size below is in these units.  An address that was      *)
(* never written reads as Blank.  A block number (fsbno) is packed: the    *)
(* group above the low sb_agblklog bits.  Format makes groups of a power   *)
(* of two blocks, and then a packed number is also the block's place on    *)
(* the device; other writers do not.                                       *)
(*                                                                         *)
(* allocBlocks is its promise: any free run of one group.  `stray' records *)
(* that growInobt has written a chunk in a group above the first of an     *)
(* image whose groups are not a power of two blocks long: what it then     *)
(* overwrites is shown apart (SlotsAtTheirPlace).                          *)
(***************************************************************************)
EXTENDS Integers, FiniteSets, FiniteSetsExt, Functions

CONSTANTS
  Imported,       \* images other writers made: [sb, devUnits, chunks]
  FmtGroups,      \* group counts Format is called with
  OffBits, HiBits, LoBits, CntBits,   \* widths of the fields of an extent record
  Ids,            \* files
  MaxRun,         \* bound: blocks of a file
  MaxChunks,      \* bound: chunks of an image
  MaxLive,        \* bound: inodes created
  Low, High       \* bound: free blocks at the start and at the end of a group's
                  \* space; what is between belongs to files that are left alone

ASSUME RunAssumption == MaxRun < 2 ^ CntBits

Blank == <<"blank">>

\* The number of bits of n - 1, for n > 0.
CeilLog(n) == CHOOSE k \in 0 .. n : 2 ^ k >= n /\ (k = 0 \/ 2 ^ (k - 1) < n)

PowerOfTwo(n) == \E k \in 0 .. 16 : n = 2 ^ k

-----------------------------------------------------------------------------
(* Open *)

\* What readSuperblock takes an unset sector size for.
SectSize(sb) == IF sb.sectSize = 0 THEN 2 ELSE sb.sectSize

\* Mutant: sb_agblklog is believed.
BadValidateGeometry(sb) ==
  /\ sb.agBlocks # 0 /\ sb.agCount # 0
  /\ sb.blockSize \in 2 .. 256 /\ PowerOfTwo(sb.blockSize) /\ sb.blockSize >= SectSize(sb)
  /\ sb.inodeSize \in 1 .. 8 /\ PowerOfTwo(sb.inodeSize)
  /\ sb.inopBlock # 0 /\ sb.inopBLog < 16 /\ 2 ^ sb.inopBLog = sb.inopBlock
  /\ sb.dirBlkLog < 32

\* Each field by itself, and the two logarithms: neither inopBlock with the
\* sizes it should be the quotient of, nor dBlocks with the groups.
ValidateGeometry(sb) ==
  /\ sb.agBlocks # 0 /\ sb.agCount # 0
  /\ sb.blockSize \in 2 .. 256 /\ PowerOfTwo(sb.blockSize) /\ sb.blockSize >= SectSize(sb)
  /\ sb.inodeSize \in 1 .. 8 /\ PowerOfTwo(sb.inodeSize)
  /\ sb.inopBlock # 0 /\ sb.inopBLog < 16 /\ 2 ^ sb.inopBLog = sb.inopBlock
  /\ sb.agBlkLog = CeilLog(sb.agBlocks)
  /\ sb.agBlkLog + sb.inopBLog < 64 /\ sb.dirBlkLog < 32

CheckGeometryFitsDevice(sb, devUnits) ==
  devUnits > 0 => (sb.agCount - 1) * sb.agBlocks <= devUnits \div sb.blockSize

-----------------------------------------------------------------------------
(* Addresses *)

AGLength(sb, ag) ==
  IF sb.dBlocks = 0 \/ ag < sb.dBlocks \div sb.agBlocks THEN sb.agBlocks
  ELSE sb.dBlocks % sb.agBlocks

AgByteOffset(sb, ag) == ag * sb.agBlocks * sb.blockSize

AgAbsBlock(sb, ag, rel) == ag * 2 ^ sb.agBlkLog + rel

\* Mutant: the packed number is taken for a place on the device.
BadFsbToPhysBlock(sb, fsbno) == fsbno

FsbToPhysBlock(sb, fsbno) ==
  (fsbno \div 2 ^ sb.agBlkLog) * sb.agBlocks + (fsbno % 2 ^ sb.agBlkLog)

\* Mutant: unpacked by division.
BadFsbToAgAgbno(sb, fsbno) == <<fsbno \div sb.agBlocks, fsbno % sb.agBlocks>>

FsbToAgAgbno(sb, fsbno) == <<fsbno \div 2 ^ sb.agBlkLog, fsbno % 2 ^ sb.agBlkLog>>

InoBits(sb) == sb.agBlkLog + sb.inopBLog
InoAG(sb, ino) == ino \div 2 ^ InoBits(sb)
InoAGRel(sb, ino) == ino % 2 ^ InoBits(sb)
InoFromAGRel(sb, ag, rel) == ag * 2 ^ InoBits(sb) + rel

InodeByteOff(sb, ino) ==
  AgByteOffset(sb, InoAG(sb, ino))
    + (InoAGRel(sb, ino) \div 2 ^ sb.inopBLog) * sb.blockSize
    + (InoAGRel(sb, ino) % 2 ^ sb.inopBLog) * sb.inodeSize

\* What readInode and writeInode read and write.
InodeUnits(sb, ino) == InodeByteOff(sb, ino) .. InodeByteOff(sb, ino) + sb.inodeSize - 1

\* Where readRawBlock and writeRawBlock go with a packed block number.
BlockUnits(sb, fsbno) ==
  FsbToPhysBlock(sb, fsbno) * sb.blockSize .. (FsbToPhysBlock(sb, fsbno) + 1) * sb.blockSize - 1

\* An extent record is two words: flag, file offset and the high bits of the
\* block; its low bits and the count, cut to its width.
EncodeExtent(e) ==
  <<(IF e.unw THEN 2 ^ (OffBits + HiBits) ELSE 0)
      + (e.off % 2 ^ OffBits) * 2 ^ HiBits + e.blk \div 2 ^ LoBits,
    (e.blk % 2 ^ LoBits) * 2 ^ CntBits + (e.cnt % 2 ^ CntBits)>>

DecodeExtent(rec) ==
  [unw |-> rec[1] \div 2 ^ (OffBits + HiBits) # 0,
   off |-> (rec[1] \div 2 ^ HiBits) % 2 ^ OffBits,
   blk |-> (rec[1] % 2 ^ HiBits) * 2 ^ LoBits + rec[2] \div 2 ^ CntBits,
   cnt |-> rec[2] % 2 ^ CntBits]

-----------------------------------------------------------------------------
(* Format *)

FmtBlockSize == 16
FmtSectorSize == 2
FmtInodeSize == 2
FmtInopBlock == 8
FmtInopBLog == 3
FmtAgBlocks == 16384
FmtAgBlkLog == 14
FmtLogBlocks == 2560
FmtFirstData == 4
FmtAGFLCount == 4
ChunkInodes == 64
FmtChunkBlocks == ChunkInodes \div FmtInopBlock
FmtInoAlignmt == 4

FmtLogBlocksFor(reflink) == IF reflink THEN FmtLogBlocks + FmtInoAlignmt - 1 ELSE FmtLogBlocks

\* The first group has the log and the inode chunk; with reflink the root of the
\* refcount tree stands before the chunk, and elsewhere before the free extent.
FmtAGLayoutFor(ag, reflink) ==
  LET rest  == FmtFirstData + FmtAGFLCount
      refc  == IF ag = 0 THEN rest + FmtLogBlocksFor(reflink) ELSE rest
      after == IF reflink THEN refc + 1 ELSE refc
  IN  [agfl |-> FmtFirstData, hasLog |-> ag = 0, logStartRel |-> rest,
       hasRefcount |-> reflink, refcountRoot |-> refc,
       hasInodeChunk |-> ag = 0, inodeChunkBlock |-> after,
       freeStart |-> IF ag = 0 THEN after + FmtChunkBlocks ELSE after]

FmtRootIno(reflink) == FmtAGLayoutFor(0, reflink).inodeChunkBlock * FmtInopBlock

\* sb_fdblocks; a last group that Grow made short has a shorter free extent.
FmtTotalFreeBlocks(agCount, reflink, dblocks) ==
  LET d == IF dblocks = 0 THEN agCount * FmtAgBlocks ELSE dblocks
      AgLen(ag) == IF ag >= d \div FmtAgBlocks THEN d % FmtAgBlocks ELSE FmtAgBlocks
  IN  SumFunction([ag \in 0 .. agCount - 1 |->
        AgLen(ag) - FmtAGLayoutFor(ag, reflink).freeStart + FmtAGFLCount])

FmtSuperblock(agCount, reflink) ==
  [blockSize |-> FmtBlockSize, sectSize |-> FmtSectorSize, agBlocks |-> FmtAgBlocks,
   agCount |-> agCount, dBlocks |-> agCount * FmtAgBlocks, agBlkLog |-> FmtAgBlkLog,
   inodeSize |-> FmtInodeSize, inopBlock |-> FmtInopBlock, inopBLog |-> FmtInopBLog,
   dirBlkLog |-> 0, reflink |-> reflink, fmt |-> TRUE]

-----------------------------------------------------------------------------
(* The state machine *)

VARIABLES
  sb,      \* the superblock
  devUnits, \* the length of the device
  opened,  \* "no", "yes" or "refused"
  dev,     \* address -> what was last written there
  free,    \* <<group, block>> that the free-space trees have
  files,   \* file -> its extent record
  chunks,  \* the records of the inode trees: <<group, first inode of the group>>
  live,    \* inodes in use
  stray    \* see above

vars == <<sb, devUnits, opened, dev, free, files, chunks, live, stray>>

At(a) == IF a \in DOMAIN dev THEN dev[a] ELSE Blank

\* The device after what w has was written at its addresses.
Written(w) == [a \in DOMAIN dev \cup DOMAIN w |-> IF a \in DOMAIN w THEN w[a] ELSE dev[a]]

Groups(s) == 0 .. s.agCount - 1
BlocksPerChunk(s) == ChunkInodes \div s.inopBlock
ChunkBlocks(s, c) ==
  {<<c[1], b>> : b \in c[2] \div s.inopBlock .. c[2] \div s.inopBlock + BlocksPerChunk(s) - 1}
InodesOf(s, c) == {InoFromAGRel(s, c[1], c[2] + i) : i \in 0 .. ChunkInodes - 1}

\* Superblock, AGF, AGI and AGFL: the first four sectors of a group.
HeaderUnits(s, ag) == AgByteOffset(s, ag) .. AgByteOffset(s, ag) + 4 * SectSize(s) - 1

\* The record fmtWriteLog stamps: two sectors.
LogUnits(s) ==
  LET start == FmtAGLayoutFor(0, s.reflink).logStartRel * s.blockSize
  IN  IF s.fmt THEN start .. start + 2 * FmtSectorSize - 1 ELSE {}

\* The root directory and the two inodes of the realtime section.
FixedInodes(s) == IF s.fmt THEN FmtRootIno(s.reflink) .. FmtRootIno(s.reflink) + 2 ELSE {}

InodeMark(i, inUse) == <<"inode", i, IF inUse THEN "live" ELSE "free">>

\* What Format, or another writer, leaves: superblock and group headers, the
\* stamped log, initialised inode slots.
FirstImage(s, cs) ==
  LET inos == UNION {InodesOf(s, c) : c \in cs}
      hdrs == UNION {HeaderUnits(s, ag) : ag \in Groups(s)}
  IN  [a \in hdrs \cup LogUnits(s) \cup UNION {InodeUnits(s, i) : i \in inos} |->
         IF a \in hdrs THEN <<"header", a \div (s.agBlocks * s.blockSize)>>
         ELSE IF a \in LogUnits(s) THEN <<"log">>
         ELSE LET i == CHOOSE i \in inos : a \in InodeUnits(s, i)
              IN  InodeMark(i, i \in FixedInodes(s))]

FirstData(s, ag) ==
  IF s.fmt THEN FmtAGLayoutFor(ag, s.reflink).freeStart
  ELSE (4 * SectSize(s) + s.blockSize - 1) \div s.blockSize

FirstFree(s, cs) ==
  UNION {{<<ag, b>> : b \in FirstData(s, ag) .. AGLength(s, ag) - 1
                            \ (FirstData(s, ag) + Low .. AGLength(s, ag) - High - 1)}
           : ag \in Groups(s)}
    \ UNION {ChunkBlocks(s, c) : c \in cs}

FormattedImages ==
  {[sb |-> FmtSuperblock(n, r), devUnits |-> n * FmtAgBlocks * FmtBlockSize,
    chunks |-> {<<0, FmtRootIno(r)>>}] : n \in FmtGroups, r \in BOOLEAN}

Init ==
  \E im \in Imported \cup FormattedImages :
    /\ sb = im.sb /\ devUnits = im.devUnits /\ chunks = im.chunks
    /\ dev = FirstImage(im.sb, im.chunks)
    /\ free = FirstFree(im.sb, im.chunks)
    /\ opened = "no" /\ files = << >> /\ live = FixedInodes(im.sb) /\ stray = FALSE

OpenFromDevice ==
  /\ opened = "no"
  /\ opened' = IF ValidateGeometry(sb) /\ CheckGeometryFitsDevice(sb, devUnits)
               THEN "yes" ELSE "refused"
  /\ UNCHANGED <<sb, devUnits, dev, free, files, chunks, live, stray>>

\* Where allocBlocks may find n free blocks of a group.
FreeRuns(ag, n) ==
  {b \in {u[2] : u \in {u \in free : u[1] = ag}} : \A i \in 1 .. n - 1 : <<ag, b + i>> \in free}

\* A new file of n blocks: allocBlocks, writeBlocksData from the first block's
\* place on, and the extent record in its inode.
WriteFile(f, ag, n) ==
  /\ opened = "yes" /\ f \notin DOMAIN files
  /\ \E rel \in FreeRuns(ag, n) :
       LET abs  == AgAbsBlock(sb, ag, rel)
           base == FsbToPhysBlock(sb, abs) * sb.blockSize
       IN  /\ free' = free \ {<<ag, rel + i>> : i \in 0 .. n - 1}
           /\ files' = [g \in DOMAIN files \cup {f} |->
                 IF g = f THEN EncodeExtent([unw |-> FALSE, off |-> 0, blk |-> abs, cnt |-> n])
                 ELSE files[g]]
           /\ dev' = Written([a \in base .. base + n * sb.blockSize - 1 |->
                               <<"data", f, (a - base) \div sb.blockSize>>])
  /\ UNCHANGED <<sb, devUnits, opened, chunks, live, stray>>

\* freeBlocks of the decoded extent: group and block from the packed number.
\* (What is left in freed blocks is dropped: who gets them next writes them whole.)
DeleteFile(f) ==
  /\ f \in DOMAIN files
  /\ LET e  == DecodeExtent(files[f])
         at == FsbToAgAgbno(sb, e.blk)
     IN  free' = free \cup {<<at[1], at[2] + i>> : i \in 0 .. e.cnt - 1}
  /\ files' = [g \in DOMAIN files \ {f} |-> files[g]]
  /\ dev' = Restrict(dev, {a \in DOMAIN dev : dev[a][1] # "data" \/ dev[a][2] # f})
  /\ UNCHANGED <<sb, devUnits, opened, chunks, live, stray>>

\* The aligned runs growInobt may end with: the probe's, or one carved from a
\* longer run when the probe's is not aligned (the rest is freed again).
ChunkBases(ag) ==
  LET n == BlocksPerChunk(sb)
      probes == FreeRuns(ag, n)
  IN  {b \in probes : b % n = 0} \cup
      {((b + n - 1) \div n) * n :
         b \in IF \E p \in probes : p % n # 0 THEN FreeRuns(ag, 2 * n - 1) ELSE {}}

\* growInobt: every slot of the new chunk is written, inopBlock slots to a block
\* from absStart on, which is the packed number (a slot that overlaps an earlier
\* one wins); then the record goes into the inode tree.
GrowInobt(ag) ==
  /\ opened = "yes" /\ sb.inopBlock <= ChunkInodes
  /\ \E base \in ChunkBases(ag) :
       LET first    == AgAbsBlock(sb, ag, base) * sb.blockSize
           startIno == base * sb.inopBlock
           At0(j)   == first + j * sb.blockSize
           Slots(j) == At0(j) .. At0(j) + sb.inopBlock * sb.inodeSize - 1
           rows     == 0 .. BlocksPerChunk(sb) - 1
           Slot(a)  == Max({j * sb.inopBlock + (a - At0(j)) \div sb.inodeSize :
                              j \in {j \in rows : a \in Slots(j)}})
       IN  /\ chunks' = chunks \cup {<<ag, startIno>>}
           /\ free' = free \ ChunkBlocks(sb, <<ag, startIno>>)
           /\ dev' = Written([a \in UNION {Slots(j) : j \in rows} |->
                               InodeMark(InoFromAGRel(sb, ag, startIno + Slot(a)), FALSE)])
  /\ stray' = (stray \/ (ag > 0 /\ 2 ^ sb.agBlkLog # sb.agBlocks))
  /\ UNCHANGED <<sb, devUnits, opened, files, live>>

\* allocInode (the first free inode of a group) and writeInode; freeInode and
\* zeroInode.
CreateInode(ag) ==
  /\ opened = "yes"
  /\ LET avail == UNION {InodesOf(sb, c) : c \in {c \in chunks : c[1] = ag}} \ live
     IN  /\ avail # {}
         /\ dev' = Written([a \in InodeUnits(sb, Min(avail)) |-> InodeMark(Min(avail), TRUE)])
         /\ live' = live \cup {Min(avail)}
  /\ UNCHANGED <<sb, devUnits, opened, free, files, chunks, stray>>

DeleteInode(ino) ==
  /\ ino \in live
  /\ dev' = Written([a \in InodeUnits(sb, ino) |-> InodeMark(ino, FALSE)])
  /\ live' = live \ {ino}
  /\ UNCHANGED <<sb, devUnits, opened, free, files, chunks, stray>>

Created == live \ FixedInodes(sb)

Next ==
  \/ OpenFromDevice
  \/ \E f \in Ids, ag \in Groups(sb), n \in 1 .. MaxRun : WriteFile(f, ag, n)
  \/ \E f \in Ids : DeleteFile(f)
  \/ Cardinality(chunks) < MaxChunks /\ \E ag \in Groups(sb) : GrowInobt(ag)
  \/ Cardinality(Created) < MaxLive /\ \E ag \in Groups(sb) : CreateInode(ag)
  \/ \E i \in Created : DeleteInode(i)

Spec == Init /\ [][Next]_vars

-----------------------------------------------------------------------------
(* Properties *)

\* The inodes of a block fit it, and sb_dblocks ends in the last group or is
\* unset: what mkfs and Format write, and Open does not look at.
SizesAgree(s) == s.inopBlock * s.inodeSize <= s.blockSize
LengthAgrees(s) ==
  s.dBlocks = 0 \/ s.dBlocks \in (s.agCount - 1) * s.agBlocks + 1 .. s.agCount * s.agBlocks

BlocksOfFile(f) ==
  LET e == DecodeExtent(files[f])
  IN  {FsbToAgAgbno(sb, e.blk + i) : i \in 0 .. e.cnt - 1}

\* The trees hold blocks of the volume, and what is in use was allocated.
TypeOK ==
  /\ opened \in {"no", "yes", "refused"} /\ stray \in BOOLEAN
  /\ opened = "yes" /\ LengthAgrees(sb) =>
       /\ \A u \in free : u[1] \in Groups(sb) /\ u[2] \in 0 .. AGLength(sb, u[1]) - 1
       /\ live \subseteq UNION {InodesOf(sb, c) : c \in chunks}

\* The blocks of a group whose addresses are compared: all of a small one, the
\* ends of a large one.
Ends(s) == 0 .. s.agBlocks - 1 \ (Low .. s.agBlocks - Low - 1)

\* Block and inode numbers are unpacked to what they were packed from, and two
\* blocks have two places, which follow one another through the groups.
NumbersExact(s) ==
  \A ag \in Groups(s), b \in Ends(s) :
    /\ FsbToAgAgbno(s, AgAbsBlock(s, ag, b)) = <<ag, b>>
    /\ FsbToPhysBlock(s, AgAbsBlock(s, ag, b)) * s.blockSize
         = AgByteOffset(s, ag) + b * s.blockSize
    /\ \A i \in 0 .. s.inopBlock - 1 :
         LET ino == InoFromAGRel(s, ag, b * s.inopBlock + i)
         IN  <<InoAG(s, ino), InoAGRel(s, ino)>> = <<ag, b * s.inopBlock + i>>

\* An inode has its bytes for itself, inside the block its number names.
SlotsApart(s) ==
  \A ag \in Groups(s), b \in Ends(s), i \in 0 .. s.inopBlock - 1 :
    LET ino == InoFromAGRel(s, ag, b * s.inopBlock + i)
    IN  /\ InodeByteOff(s, ino) \in BlockUnits(s, AgAbsBlock(s, ag, b))
        /\ InodeByteOff(s, ino) + s.inodeSize - 1 \in BlockUnits(s, AgAbsBlock(s, ag, b))
        /\ i > 0 => InodeByteOff(s, ino) >= InodeByteOff(s, ino - 1) + s.inodeSize

\* The groups have sb_dblocks blocks, and none is empty.
GroupsCover(s) ==
  /\ \A ag \in Groups(s) : AGLength(s, ag) > 0
  /\ s.dBlocks # 0 => SumFunction([ag \in Groups(s) |-> AGLength(s, ag)]) = s.dBlocks

\* With format.go's numbers: the regions of a group follow one another without
\* overlap or gap up to the free extent, the inode chunk is aligned to
\* sb_inoalignmt with and without reflink, and sb_fdblocks is what the regions
\* leave, a short last group included (the free list counts as free).
LayoutSound ==
  \A r \in BOOLEAN, n \in FmtGroups :
    LET Regions(ag) ==
          LET l == FmtAGLayoutFor(ag, r)
          IN  << <<0, FmtFirstData>>, <<l.agfl, FmtAGFLCount>>,
                 <<l.logStartRel, IF l.hasLog THEN FmtLogBlocksFor(r) ELSE 0>>,
                 <<l.refcountRoot, IF l.hasRefcount THEN 1 ELSE 0>>,
                 <<l.inodeChunkBlock, IF l.hasInodeChunk THEN FmtChunkBlocks ELSE 0>>,
                 <<l.freeStart, FmtAgBlocks - l.freeStart>> >>
        Fixed(ag) == SumFunction([i \in {1, 3, 4, 5} |-> Regions(ag)[i][2]])
    IN  /\ \A ag \in 0 .. n - 1 :
             /\ \A i \in 1 .. 5 : Regions(ag)[i + 1][1] = Regions(ag)[i][1] + Regions(ag)[i][2]
             /\ FmtAGLayoutFor(ag, r).inodeChunkBlock % FmtInoAlignmt = 0 \/ ag > 0
        /\ \A short \in {0, 1, FmtAgBlocks - 64} :
             (n > 1 \/ short = 0) =>
               FmtTotalFreeBlocks(n, r, n * FmtAgBlocks - short)
                 = n * FmtAgBlocks - short - SumFunction([ag \in 0 .. n - 1 |-> Fixed(ag)])

\* Open accepts only superblocks under which block and inode numbers are exact.
\* When the inodes of a block fit it, every inode has its bytes for itself; when
\* sb_dblocks ends in the last group, the groups make up the volume.  On what
\* Format made all of it holds, and its regions are in their places.
\* (validateGeometry; fsbToPhysBlock, fsbToAgAgbno, inodeByteOff, agLength,
\* fmtAGLayoutFor.)
GeometrySound ==
  [][opened = "no" /\ opened' = "yes" =>
       /\ NumbersExact(sb)
       /\ SizesAgree(sb) => SlotsApart(sb)
       /\ LengthAgrees(sb) => GroupsCover(sb)
       /\ sb.fmt => SizesAgree(sb) /\ LengthAgrees(sb) /\ LayoutSound]_vars

\* A file reads back, block by block through its extent record, whatever was
\* written to other files, chunks and inodes of any group since.
FilesReadBack ==
  \A f \in DOMAIN files :
    LET e == DecodeExtent(files[f])
    IN  \A i \in 0 .. e.cnt - 1 : \A a \in BlockUnits(sb, e.blk + i) : At(a) = <<"data", f, i>>

\* readInode finds every inode the inode trees know where it looks for it, with
\* its own number and state: also in chunks growInobt added.
InodesReadBack ==
  \A c \in chunks : \A i \in InodesOf(sb, c) :
    \A a \in InodeUnits(sb, i) : At(a) = InodeMark(i, i \in live)

\* No write lands on the headers of a group or on the log.
HeadersKept ==
  /\ \A ag \in Groups(sb) : \A a \in HeaderUnits(sb, ag) : At(a) = <<"header", ag>>
  /\ \A a \in LogUnits(sb) : At(a) = <<"log">>

\* What was written to the image is what is read: files through their extent
\* records, inodes through their numbers, and the headers, whoever wrote next to
\* them (writeFileData, readInode, writeInode).  Not claimed once growInobt has
\* written astray, and of an image whose sizes or length disagree.
ImageReadsBack ==
  opened = "yes" /\ ~stray /\ SizesAgree(sb) /\ LengthAgrees(sb) =>
    FilesReadBack /\ InodesReadBack /\ HeadersKept

\* What the free-space trees have is what the image began with less what files
\* and chunks have, each block once: freeBlocks gives a file's blocks back to
\* the group they came from.
BlocksOwned ==
  opened = "yes" /\ LengthAgrees(sb) =>
    /\ free = FirstFree(sb, chunks) \ UNION {BlocksOfFile(f) : f \in DOMAIN files}
    /\ \A f \in DOMAIN files :
         /\ BlocksOfFile(f) \subseteq FirstFree(sb, chunks)
         /\ \A g \in DOMAIN files \ {f} : BlocksOfFile(f) \cap BlocksOfFile(g) = {}

\* Freeing by number gives back the blocks that were taken, in their group
\* (fsbToAgAgbno in freeFileExtents), and they are blocks of the volume.
SpaceOwned == TypeOK /\ BlocksOwned

-----------------------------------------------------------------------------
(* What the comments say and the code does not do *)

\* growInobt: "Write the inode slot directly to its physical location".
SlotsAtTheirPlace ==
  opened = "yes" /\ SizesAgree(sb) => InodesReadBack

\* validateGeometry: "Every field an inode/extent read indexes against is
\* constrained to a sane range here, once, at open time."
AcceptedInodesApart == opened = "yes" => SlotsApart(sb)

=============================================================================
