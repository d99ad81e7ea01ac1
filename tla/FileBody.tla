------------------------------- MODULE FileBody -------------------------------
(***************************************************************************)
(* The contents of regular files: WriteFile (write.go), Truncate           *)
(* (truncate.go), Reflink (reflink.go) and DeleteFile (delete.go), down to *)
(* the inode's fork, the file's blocks and the reference-count records,    *)
(* and the content a reader gets back, whole (read.go) or a window at a    *)
(* time through an open handle (openfile.go).                              *)
(*                                                                         *)
(* Contents are sequences of cells; a block holds CellsPerBlock of them,   *)
(* an inode's data fork ForkCells.  A call runs alone under FS.mu, so a    *)
(* call is one step.  Names are flat (the directories are not the subject  *)
(* here), and the allocator is its promise: allocBlocks hands out any free *)
(* run of the right length, or refuses (AllocBTree shows that it may       *)
(* refuse although there is room); inode allocation is left to InodeAlloc. *)
(*                                                                         *)
(* The operations are functions from one state of the image to the next.   *)
(* `want' is what the callers have asked for, and `mark' and `hurt' record *)
(* the histories after which the image is known not to deliver it:         *)
(*   mark[f] = "shrunk"   Truncate made f smaller since it was written;    *)
(*   mark[f] = "exposed"  and Truncate made it larger again;               *)
(*   mark[f] = "inlined"  Truncate left f a size but no extents;           *)
(*   "refused" \in hurt   a call gave blocks back, was then refused new    *)
(*                        ones, and left the old inode on disk;            *)
(*   "cut" \in hurt       Truncate shortened a reflinked file.             *)
(***************************************************************************)
EXTENDS RefcountRecords, SequencesExt

CONSTANTS
  Files,          \* names
  FirstBlk, LastBlk,
  CellsPerBlock,  \* cells in a block
  ForkCells,      \* cells in an inode's data fork
  RefcMaxRecs,    \* records in the refcount root block
  Values,         \* what a writer puts in a cell
  MaxCells,       \* bound: the largest size asked for, in cells
  MaxRead,        \* the limit SetMaxReadSize configured, in cells
  Imported        \* extent lists of a file another writer left on the image

ASSUME SizesAssumption ==
  /\ CellsPerBlock \in Nat \ {0} /\ ForkCells \in Nat \ {0}
  /\ FirstBlk \in Nat /\ LastBlk \in Nat /\ MaxCells \in Nat /\ MaxRead \in Nat
  /\ Values \subseteq Nat \ {0}

NULL == 0 - 1
Junk == 0 - 2      \* a cell that holds the bytes of extent records
NoFile == [fmt |-> "none"]

Blocks == FirstBlk .. LastBlk
Run(s, n) == s .. s + n - 1
Max0(n) == IF n > 0 THEN n ELSE 0
BlocksFor(n) == (n + CellsPerBlock - 1) \div CellsPerBlock
Zeros(n) == [i \in 1 .. n |-> 0]
Pad(data, n) == [i \in 1 .. n |-> IF i <= Len(data) THEN data[i] ELSE 0]
Filled(n, v) == [i \in 1 .. n |-> v]

\* An extent record; unw is its "unwritten" flag, which decodeExtent decodes and
\* encodeExtent puts back, and no reader or writer asks.
Ext(o, b, n) == [off |-> o, blk |-> b, cnt |-> n, unw |-> FALSE]
Unwritten(e) == [e EXCEPT !.unw = TRUE]
ExtBlocks(e) == Run(e.blk, e.cnt)
BlocksOf(in) == IF in.fmt = "extents" THEN UNION {ExtBlocks(e) : e \in ToSet(in.exts)} ELSE {}
ExtentsTotal(exts) == FoldLeft(LAMBDA n, e: n + e.cnt, 0, exts)

-----------------------------------------------------------------------------
(* Reading *)

\* The ceiling on di_size before a buffer is made: a block more than the file
\* has, the volume (its blocks are 0 .. LastBlk), and the read limit.
FileCeiling(in) == Min({(in.nblocks + 1) * CellsPerBlock, (LastBlk + 1) * CellsPerBlock, MaxRead})

\* readFileData asks it of a file with extents, and the room of the fork of an
\* inline one.
Readable(in) == in.size <= IF in.fmt = "local" THEN ForkCells ELSE FileCeiling(in)

\* The block behind file block j, NULL for a hole.
Mapped(in, j) ==
  LET on == {e \in ToSet(in.exts) : j \in Run(e.off, e.cnt)}
  IN  IF on = {} THEN NULL
      ELSE LET e == CHOOSE e \in on : TRUE IN e.blk + (j - e.off)

Content(s, in) ==
  [i \in 1 .. in.size |->
     IF in.fmt = "local" THEN in.inline[i]
     ELSE LET j == (i - 1) \div CellsPerBlock
          IN  IF Mapped(in, j) = NULL THEN 0
              ELSE s.disk[Mapped(in, j)][((i - 1) % CellsPerBlock) + 1]]

\* OpenFile: the handle keeps the size, and the inline bytes or the extents in
\* the order of their file offsets.  The ceiling of readFileData is not asked.
Opens(in) == in.fmt = "local" => in.size <= ForkCells

OpenFile(in) ==
  [size |-> in.size, local |-> in.fmt = "local",
   inline |-> IF in.fmt = "local" THEN SubSeq(in.inline, 1, in.size) ELSE <<>>,
   exts |-> SortSeq(in.exts, LAMBDA d, e: d.off < e.off)]

\* Mutant: the loop over the extents stops one extent early.
BadUpTo(exts, hi) ==
  LET past == {i \in DOMAIN exts : exts[i].off >= hi \div CellsPerBlock}
  IN  IF past = {} THEN exts ELSE SubSeq(exts, 1, Min(past) - 1)

\* The extents xfsFile.readExtents looks at for a window that ends before hi.
UpTo(exts, hi) ==
  LET past == {i \in DOMAIN exts : exts[i].off > hi \div CellsPerBlock + 1}
  IN  IF past = {} THEN exts ELSE SubSeq(exts, 1, Min(past) - 1)

\* Cell at of the file, 0 where no extent lies over it.
CellAt(s, exts, at) ==
  LET j  == at \div CellsPerBlock
      on == {e \in exts : j \in Run(e.off, e.cnt)}
  IN  IF on = {} THEN 0
      ELSE LET e == CHOOSE e \in on : TRUE
           IN  s.disk[e.blk + (j - e.off)][(at % CellsPerBlock) + 1]

\* ReadAt: n cells from off, or what there is of them and io.EOF.
ReadAt(s, h, off, n) ==
  LET Window(len, exts) ==
        [cells |-> [k \in 1 .. len |-> IF h.local THEN h.inline[off + k]
                                       ELSE CellAt(s, exts, off + k - 1)],
         eof |-> len < n]
      Clipped(len) == Window(len, ToSet(UpTo(h.exts, off + len)))
  IN  IF off >= h.size THEN [cells |-> <<>>, eof |-> TRUE]
      ELSE Clipped(IF off + n > h.size THEN h.size - off ELSE n)

-----------------------------------------------------------------------------
(* Blocks *)

\* freeBlocks.  A block that is free already would be recorded twice.
FreeBlocks(s, blk, n) ==
  [s EXCEPT !.free = @ \cup Run(blk, n),
            !.twice = @ \/ Run(blk, n) \cap s.free # {}]

FreeExtents(s, exts) == FoldLeft(LAMBDA t, e: FreeBlocks(t, e.blk, e.cnt), s, exts)

\* refcountFreeExtent: the records first, then the blocks nobody shares.
RefcountFreeExtent(s, e) ==
  LET dec == RefcDecrRange(s.refc, e.blk, e.cnt)
      t   == [s EXCEPT !.refc = dec.out]
  IN  IF s.err \/ Len(dec.out) > RefcMaxRecs THEN [s EXCEPT !.err = TRUE]
      ELSE FoldLeft(LAMBDA u, r: FreeBlocks(u, r.start, r.count), t, ByStart(dec.free))

RefcountShareExtent(s, e) ==
  LET out == RefcIncrRange(s.refc, e.blk, e.cnt)
  IN  IF s.err \/ Len(out) > RefcMaxRecs THEN [s EXCEPT !.err = TRUE]
      ELSE [s EXCEPT !.refc = out]

Fits(s, n) == {b \in Blocks : Run(b, n) \subseteq s.free}

\* The cells of block number k of a file whose contents are data.
BlockCells(data, k) ==
  [c \in 1 .. CellsPerBlock |->
     LET i == k * CellsPerBlock + c IN IF i <= Len(data) THEN data[i] ELSE 0]

\* writeBlocksData: every block of the run is written whole.
WriteBlocksData(s, blk, n, data) ==
  [s EXCEPT !.disk = [b \in Blocks |->
     IF b \in Run(blk, n) THEN BlockCells(data, b - blk) ELSE s.disk[b]]]

-----------------------------------------------------------------------------
(* WriteFile *)

\* writeExtentList: n records laid over the first bytes of the fork.
WriteExtentList(fork, n) == [i \in DOMAIN fork |-> IF i <= n THEN Junk ELSE fork[i]]

\* An inode that has just been given the run at blk.
Extents(fork, blk, data) ==
  [fmt |-> "extents", size |-> Len(data), nblocks |-> BlocksFor(Len(data)),
   exts |-> <<Ext(0, blk, BlocksFor(Len(data)))>>, inline |-> WriteExtentList(fork, 1),
   refl |-> FALSE]

Local(data) ==
  [fmt |-> "local", size |-> Len(data), nblocks |-> 0, exts |-> <<>>,
   inline |-> Pad(data, ForkCells), refl |-> FALSE]

\* What reflinkBreakAndWrite leaves of a file whose new content is empty.
EmptyExtents ==
  [fmt |-> "extents", size |-> 0, nblocks |-> 0, exts |-> <<>>,
   inline |-> Zeros(ForkCells), refl |-> FALSE]

\* Mutant: a reflinked file is rewritten in place as well.
BadInPlace(in, data) ==
  \/ in.fmt = "local" /\ Len(data) <= ForkCells
  \/ /\ in.fmt = "extents"
     /\ BlocksFor(Len(data)) <= ExtentsTotal(in.exts)

\* overwriteFile's choice: the file is not flagged (an inline one may be, after a
\* shrink to nothing), and the new content fits where the old one is.
InPlace(in, data) ==
  /\ ~in.refl
  /\ \/ in.fmt = "local" /\ Len(data) <= ForkCells
     \/ in.fmt = "extents" /\ BlocksFor(Len(data)) <= ExtentsTotal(in.exts)

\* writeExtentsInPlace: the data goes through the extents in order.
WriteExtentsInPlace(s, f, data) ==
  LET in == s.file[f]
      order == FlattenSeq([i \in DOMAIN in.exts |->
                             [k \in 1 .. in.exts[i].cnt |-> in.exts[i].blk + k - 1]])
  IN  [s EXCEPT
        !.file[f].size = Len(data),
        !.disk = [b \in Blocks |->
                    IF b \in ToSet(order)
                    THEN BlockCells(data, (CHOOSE k \in DOMAIN order : order[k] = b) - 1)
                    ELSE s.disk[b]]]

\* What a file gives back before it asks for new blocks: nothing when it is
\* inline, its extents (reallocAndWrite), or its share (reflinkBreakAndWrite).
Released(s, in) ==
  IF in.fmt # "extents" THEN s
  ELSE IF in.refl THEN FoldLeft(RefcountFreeExtent, s, in.exts)
  ELSE FreeExtents(s, in.exts)

\* The call stops here; the inode on disk is the old one.
Refuse(s, t) ==
  [t EXCEPT !.err = TRUE,
            !.hurt = IF t.free = s.free /\ t.refc = s.refc THEN @ ELSE @ \cup {"refused"}]

\* The end reallocAndWrite, promoteAndWrite, reflinkBreakAndWrite and
\* createInodeWithData have in common: one run, the inode, the data.
AllocAndWrite(s, f, fork, b, data) ==
  LET n == BlocksFor(Len(data))
  IN  WriteBlocksData([s EXCEPT !.free = @ \ Run(b, n),
                                !.file[f] = Extents(fork, b, data)], b, n, data)

OverwriteFile(s, f, data) ==
  LET in == s.file[f]
      t  == Released(s, in)
      fork == IF in.refl THEN Zeros(ForkCells) ELSE in.inline
  IN  IF InPlace(in, data)
      THEN {IF in.fmt = "local" THEN [s EXCEPT !.file[f] = Local(data)]
            ELSE WriteExtentsInPlace(s, f, data)}
      ELSE IF t.err THEN {Refuse(s, t)}
      ELSE IF data = <<>> THEN {[t EXCEPT !.file[f] = EmptyExtents]}
      ELSE {Refuse(s, t)}
             \cup {AllocAndWrite(t, f, fork, b, data) :
                     b \in Fits(t, BlocksFor(Len(data)))}

\* createInodeWithData: data of a new file is never inline.
CreateFile(s, f, data) ==
  IF data = <<>> THEN {[s EXCEPT !.file[f] = Local(<<>>)]}
  ELSE {AllocAndWrite(s, f, Zeros(ForkCells), b, data) :
          b \in Fits(s, BlocksFor(Len(data)))}

-----------------------------------------------------------------------------
(* Truncate *)

\* The blocks of an extent that a size of n cells still needs.
KeepBlocks(e, n) ==
  LET need == BlocksFor(Max0(n - e.off * CellsPerBlock))
  IN  IF need < e.cnt THEN need ELSE e.cnt

\* The extents beyond the new size go to freeBlocks, shared or not.  When none
\* is left the inode becomes inline and the fork keeps its bytes.
Shrink(s, f, n) ==
  LET in   == s.file[f]
      Trim(e) == [e EXCEPT !.cnt = KeepBlocks(e, n)]
      kept == SelectSeq([i \in DOMAIN in.exts |-> Trim(in.exts[i])], LAMBDA e: e.cnt > 0)
      t    == FreeExtents(s, [i \in DOMAIN in.exts |->
                 LET k == KeepBlocks(in.exts[i], n)
                 IN  Ext(0, in.exts[i].blk + k, in.exts[i].cnt - k)])
  IN  [t EXCEPT
        !.file[f] = [in EXCEPT !.size = n, !.exts = kept, !.nblocks = ExtentsTotal(kept),
                               !.fmt = IF kept = <<>> THEN "local" ELSE "extents",
                               !.inline = WriteExtentList(@, Len(kept))],
        !.hurt = IF in.refl /\ t.free # s.free THEN @ \cup {"cut"} ELSE @]

TruncateInode(s, f, n) ==
  LET in == s.file[f]
  IN  IF n >= in.size \/ in.fmt = "local" THEN [s EXCEPT !.file[f].size = n]
      ELSE Shrink(s, f, n)

-----------------------------------------------------------------------------
(* Reflink and delete *)

\* Mutant: only the copy is flagged.
BadReflinkFile(s, src, dst) ==
  LET in == s.file[src]
      t  == FoldLeft(RefcountShareExtent, s, in.exts)
  IN  IF in.fmt = "local"
      THEN IF Readable(in) THEN CreateFile(s, dst, Content(s, in)) ELSE {}
      ELSE IF t.err THEN {[t EXCEPT !.hurt = @ \cup {"leaked"}]}
      ELSE {[t EXCEPT !.file[dst] = [in EXCEPT !.refl = TRUE]]}

\* reflinkFile: both inodes are flagged, then the extents are shared one by
\* one; when the records no longer fit the new inode never gets a name.
\* An inline source is copied (reflinkCopyLocal).
ReflinkFile(s, src, dst) ==
  LET in == s.file[src]
      t  == FoldLeft(RefcountShareExtent, [s EXCEPT !.file[src].refl = TRUE], in.exts)
  IN  IF in.fmt = "local"
      THEN IF Readable(in) THEN CreateFile(s, dst, Content(s, in)) ELSE {}
      ELSE IF t.err THEN {[t EXCEPT !.hurt = @ \cup {"leaked"}]}
      ELSE {[t EXCEPT !.file[dst] =
               [in EXCEPT !.refl = TRUE,
                          !.inline = WriteExtentList(Zeros(ForkCells), Len(in.exts))]]}

\* deleteFile: the entry goes first, then the blocks, then the inode.
DeleteFile(s, f) ==
  LET t == Released(s, s.file[f])
  IN  [t EXCEPT !.file[f] = NoFile,
                !.hurt = IF t.err THEN @ \cup {"leaked"} ELSE @]

-----------------------------------------------------------------------------
(* The state machine *)

VARIABLES
  st,    \* the image
  want,  \* the content each file was asked to have
  mark   \* "clean", "shrunk", "exposed" or "inlined"

vars == <<st, want, mark>>

\* What lies in free blocks no longer matters: allocated runs are written whole.
Settle(s) ==
  [s EXCEPT !.err = FALSE,
            !.disk = [b \in Blocks |-> IF b \in s.free THEN Zeros(CellsPerBlock) ELSE @[b]]]

Exists(f) == st.file[f].fmt # "none"

WriteFile(f, data) ==
  \E s \in IF Exists(f) THEN OverwriteFile(st, f, data) ELSE CreateFile(st, f, data) :
    /\ st' = Settle(s)
    /\ want' = IF s.err THEN want ELSE [want EXCEPT ![f] = data]
    /\ mark' = IF s.err THEN mark ELSE [mark EXCEPT ![f] = "clean"]

Truncate(f, n) ==
  /\ Exists(f)
  /\ st' = Settle(TruncateInode(st, f, n))
  /\ want' = [want EXCEPT ![f] = Pad(@, n)]
  /\ mark' = [mark EXCEPT ![f] =
                IF n > 0 /\ st.file[f].fmt # st'.file[f].fmt THEN "inlined"
                ELSE IF n < st.file[f].size /\ @ = "clean" THEN "shrunk"
                ELSE IF n > st.file[f].size /\ @ = "shrunk" THEN "exposed" ELSE @]

Reflink(src, dst) ==
  /\ Exists(src) /\ ~Exists(dst)
  /\ \E s \in ReflinkFile(st, src, dst) :
       /\ st' = Settle(s)
       /\ want' = IF s.err THEN want ELSE [want EXCEPT ![dst] = want[src]]
       /\ mark' = IF s.err THEN mark
                  ELSE [mark EXCEPT ![dst] =
                          IF st.file[src].fmt = "local" /\ mark[src] = "shrunk"
                          THEN "clean" ELSE mark[src]]

Delete(f) ==
  /\ Exists(f)
  /\ st' = Settle(DeleteFile(st, f))
  /\ want' = [want EXCEPT ![f] = <<>>]
  /\ mark' = [mark EXCEPT ![f] = "clean"]

\* A file another implementation left on the image, v in every cell of its
\* blocks; the blocks of an unwritten extent are not yet part of its content.
ImportedInode(exts) ==
  [fmt |-> "extents", size |-> CellsPerBlock * (Last(exts).off + Last(exts).cnt),
   nblocks |-> ExtentsTotal(exts), exts |-> exts,
   inline |-> WriteExtentList(Zeros(ForkCells), Len(exts)), refl |-> FALSE]

Blank ==
  [file |-> [f \in Files |-> NoFile], free |-> Blocks, refc |-> <<>>,
   disk |-> [b \in Blocks |-> Zeros(CellsPerBlock)],
   twice |-> FALSE, err |-> FALSE, hurt |-> {}]

InitEmpty ==
  /\ st = Blank
  /\ want = [f \in Files |-> <<>>]

InitImported ==
  \E f \in Files, exts \in Imported, v \in Values :
    LET in == ImportedInode(exts)
        s  == [Blank EXCEPT
                 !.file[f] = in, !.free = @ \ BlocksOf(in),
                 !.disk = [b \in Blocks |->
                             IF b \in BlocksOf(in) THEN Filled(CellsPerBlock, v) ELSE @[b]]]
        written == [in EXCEPT !.exts = SelectSeq(@, LAMBDA e: ~e.unw)]
    IN  /\ st = s
        /\ want = [g \in Files |-> IF g = f THEN Content(s, written) ELSE <<>>]

Init ==
  /\ InitEmpty \/ InitImported
  /\ mark = [f \in Files |-> "clean"]

Next ==
  \E f \in Files :
    \/ \E n \in 0 .. MaxCells, v \in Values : WriteFile(f, Filled(n, v))
    \/ \E n \in 0 .. MaxCells : Truncate(f, n)
    \/ \E g \in Files : Reflink(f, g)
    \/ Delete(f)

Spec == Init /\ [][Next]_vars

-----------------------------------------------------------------------------
(* Properties *)

Present == {f \in Files : Exists(f)}

Owners(b) == {f \in Present : b \in BlocksOf(st.file[f])}

\* No call has given back blocks that a file on disk still points at.
Unhurt == st.hurt \subseteq {"leaked"}

HasHole(in) ==
  in.fmt = "extents" /\ \E j \in 0 .. BlocksFor(in.size) - 1 :
    Mapped(in, j) = NULL /\ \E k \in j + 1 .. MaxCells : Mapped(in, k) # NULL

\* Inodes are well formed: di_nblocks counts the blocks of the extents, an
\* inline inode has none, and the refcount records are in order and fit.
TypeOK ==
  /\ CanonicalRecs(st.refc) /\ Len(st.refc) <= RefcMaxRecs
  /\ st.free \subseteq Blocks
  /\ \A f \in Present :
       /\ Len(want[f]) = st.file[f].size
       /\ st.file[f].nblocks = ExtentsTotal(st.file[f].exts)
       /\ Len(st.file[f].inline) = ForkCells
       /\ st.file[f].fmt = "local" => st.file[f].exts = <<>>

\* A reader gets what the last calls asked for: whatever was written to this
\* and to other files, shared with them, shrunk and deleted in between.  Not
\* claimed of a file that was shrunk and grown again or shrunk into a hole, of
\* one grown past what a reader accepts, and of an imported file with a hole:
\* the further configurations show what happens to these.
ReadsBack ==
  Unhurt =>
    \A f \in Present :
      mark[f] \in {"clean", "shrunk"} /\ Readable(st.file[f]) /\ ~HasHole(st.file[f])
        => Content(st, st.file[f]) = want[f]

\* A window read through a handle is that window of what was asked for: wherever
\* it starts and ends, over several extents, in an inline file, across the end
\* of the file (io.EOF, and only then), and past the ceiling up to which ReadFile
\* reads a file that Truncate made larger.  A handle is a function of the inode,
\* so this also holds of one that was opened before other files changed.
PositionalReads ==
  Unhurt =>
    \A f \in Present :
      mark[f] \in {"clean", "shrunk"} /\ Opens(st.file[f]) /\ ~HasHole(st.file[f])
        => \A off \in 0 .. MaxCells, n \in 1 .. MaxCells :
             ReadAt(st, OpenFile(st.file[f]), off, n) =
               [cells |-> [k \in 1 .. Min({n, Max0(Len(want[f]) - off)}) |-> want[f][off + k]],
                eof   |-> off + n > Len(want[f])]

\* Every block is accounted for: it is free exactly when no file has it, and
\* the refcount records give the number of its owners exactly when there are
\* two or more.  (An inode left without a name keeps its blocks.)
BlocksCounted ==
  Unhurt =>
    /\ ~st.twice
    /\ \A b \in Blocks :
         LET n == Cardinality(Owners(b))
         IN  /\ n > 0 => b \notin st.free
             /\ st.hurt = {} => /\ n = 0 => b \in st.free
                               /\ CountOf(st.refc, b) = IF n > 1 THEN n ELSE 0

\* Blocks are accounted for in all three places: free space, refcount records
\* and inodes.  No file owns a free block, the records count the files that own
\* one, and di_nblocks follows every write, shrink and share (freeFileExtents,
\* refcDecrRange, truncateInode).
BlocksSound == TypeOK /\ BlocksCounted

\* Whoever shares a block knows it: all its owners carry the reflink flag, so
\* none of them rewrites it in place or frees it outright (overwriteFile and
\* deleteFile ask the flag, not the records).
SharersAreMarked ==
  \A b \in Blocks :
    CountOf(st.refc, b) > 0 => \A f \in Owners(b) : st.file[f].refl

-----------------------------------------------------------------------------
(* What the comments say and the code does not do *)

\* truncateInode on an extension: "the new region reads back as zeros via
\* readExtents' implicit hole-fill".  So every file can be read ...
GrownFileReadable ==
  \A f \in Present : mark[f] # "inlined" => Readable(st.file[f])

\* ... and what can be read is what was asked for.
GrownRegionIsZero ==
  Unhurt =>
    \A f \in Present :
      mark[f] # "inlined" /\ Readable(st.file[f]) /\ ~HasHole(st.file[f])
        => Content(st, st.file[f]) = want[f]

\* overwriteFile: freeing the extents of a reflinked file outright "would
\* corrupt the peer".  So no call does that: what a file has is not free.
SharedBlocksKept ==
  "refused" \notin st.hurt => \A b \in st.free : Owners(b) = {}

\* overwriteFile "rewrites the content of an existing regular file": also one
\* that has a hole.
ContentReplaced ==
  Unhurt =>
    \A f \in Present :
      mark[f] \in {"clean", "shrunk"} /\ Readable(st.file[f])
        => Content(st, st.file[f]) = want[f]

\* OpenFile: "Holes and unwritten extents read as zeros, as in ReadFile"
\* (where nothing has been written since).
UnwrittenReadsZero ==
  \A f \in Present, off \in 0 .. MaxCells :
    Opens(st.file[f]) /\ off < st.file[f].size /\ want[f][off + 1] = 0
      /\ (\E e \in ToSet(st.file[f].exts) : e.unw /\ off \div CellsPerBlock \in Run(e.off, e.cnt))
      => ReadAt(st, OpenFile(st.file[f]), off, 1).cells = <<0>>

=============================================================================
