# TLA+ models of the XFS image library

The library reads and writes XFS images without a kernel: it formats an image,
allocates blocks and inodes in B+trees, and offers files, directories, reflinks,
quotas, labels and growth. Each open image has one read/write lock
(`fs.mu`); every mutation runs alone under it, writes straight to the device
and has no journal. What is hard to test is therefore not thread interleaving
but (a) calls nested in calls that edit the same trees, (b) calls that stop
half-way, by an error or by a crash, and (c) long sequences of legal calls.

## Inventory

| Part | Source | Module | State |
|---|---|---|---|
| Block allocation protocol | `alloc.go`, `alloc_btree*.go` | `Allocator`, `FreeSpace`, `FreeSpace_proofs` | modelled, proved |
| Free-space B+trees | `alloc.go`, `alloc_btree*.go` | `AllocBTree` | modelled |
| Inode allocation | `alloc.go` | `InodeAlloc` | modelled |
| Reference counts | `reflink.go` | `RefcountRecords`, `Refcount`, `RefcountRecords_proofs`, `Refcount_proofs` | modelled, proved |
| File contents, positional reads | `write.go`, `truncate.go`, `reflink.go`, `delete.go`, `read.go`, `openfile.go` | `FileBody` | local and extents forks |
| Names | `dir.go`, `write.go`, `mkdir.go`, `link.go`, `delete.go`, `rename.go` | `Namespace` | modelled; symbolic links inline only |
| Directories in all their forms | `leafdir.go`, `dir.go`, `write.go`, `delete.go` | `DirLayout`, `LargeDir` | modelled for images with checksums |
| Quotas | `quota*.go`, `fs.go` | `Quota`, `QuotaWrites_proofs`, `Quota_proofs` | modelled, proved |
| Superblocks, Grow, SetLabel, counters | `fs.go`, `format.go`, `label.go`, `alloc.go` | `Volume`, `Volume_proofs` | modelled, proved; the inode counters are in `Quota` |
| Addresses, extent records, geometry checks | `superblock.go`, `extent.go`, `inode.go`, `alloc.go` | `Addresses` | without the search for a partition |
| Format | `format.go` | `Addresses`, `Quota` | layout of the groups, quota set-up |
| Attributes, extended stat | `setattr.go`, `extended_stat.go` | | left out: one inode's fields are rewritten |
| Checksums, interfaces | `crc.go`, `xfs.go` | | left out: no state |

How the modules fit: `Allocator` says what callers may rely on. `FreeSpace` (the
protocol on sets of records) and `AllocBTree` (the same calls on tree blocks)
both implement it. `InodeAlloc`, `FileBody` and `Namespace` sit on top and know
the allocator by that promise, refusal included. `Refcount` checks the record
arithmetic of `RefcountRecords`, which `FileBody` uses too. `LargeDir` is one
directory of `Namespace` with its blocks, on the layouts of `DirLayout`.
`Volume` is the level above the groups, and `Quota` what else is written when a
mutation ends. `Addresses` is below all of them: they speak of blocks, extents
and inodes by number, it says where on the device these are.

## Modules

**FreeSpace.** `bno` and `cnt` are sets of extents, `agf` the three counters.
An `allocBlocks` call edits `cnt`, then `bno`, then the AGF (`AllocCnt`, `AllocBno`,
`AllocAGF`), for a caller, for a split reserve or for a split that carves its
block out of the trees. A `freeBlocks` call is a sequence of actions in the order of
the code: `ReserveSplitBlocks` (or `ReserveFails`), splits that take a block from the
reserve, the queue or by carving, `InsertBno`, the same for `cnt`, `WriteAGF`, then
`DrainMergedFree` for every block that a merge queued. `sub` is the `freeBlocks`
nested in a release or the drain. Each state between two actions is one a
crash can leave; the writes of one edit of one tree are not told apart. Tree shape is
abstracted, and with it whether an edit finds its record: the second edit of an
allocation may miss it (`AllocBnoMissed`), a carve may be refused, and a split may
write back nodes it read before the carve (`SplitStale`). Each of these sets
`astray`, where the behaviour ends: `AllocBTree` has the trees themselves.

**AllocBTree.** The same calls on blocks with keys, pointers and sibling links;
one operator per function of the source, an operation being a function from
state record to state record. `carved` records that a split took its block by
`allocBlocks` in the middle of an insert, after which the passing properties
say nothing.

**InodeAlloc.** The inode tree, chunks, alignment and the AGI counters. A node
takes the highest free block, since only its being free matters; `agi_newino`
and the initial inode contents are left out. `low` and `torn` record the two
histories after which the tree cannot find a live inode.

**RefcountRecords, Refcount.** `refcMerge`, `refcClipInside`, `refcIncrRange` and
`refcDecrRange` as operators on record sequences, compared with `owners`, the
number of owners of each block.

**FileBody.** Content is a sequence of cells, a few per block; `want` is what the
callers asked for. `mark` and `hurt` record histories after which the image is
known not to deliver it (the module's header lists them). A handle of `OpenFile`
is the record of what was read at open; `PositionalReads` reads every window
of every file through one in every state. Cells have one length, `MaxRead` stands
for the limit of `SetMaxReadSize` in them.

**Namespace.** Inodes with type, link count, `..` and entries. A directory is
short-form until full; the next entry needs a block, which may be refused
(`room`). A new file is empty. `hurt` as in FileBody.

**DirLayout, LargeDir.** `DirLayout` has the pure part: packing entries into data
blocks, the sorted hash array, the leaf block, the hash tree built bottom-up, the
free index, and the readers that walk a block's cells. A cell is eight bytes, so
entries have sizes, do not always fit the rest of a block, and a reader that walks
on finds a hash array in place of entries. `LargeDir` has the calls:
`AddDirEntry`, `RemoveDirEntry` and `UpdateDotDot`, each a chain of steps (free a
run, take a run, write a block, write the inode), of which only the first `cut`
are carried out. That one number stands for a refused block, a failed write and a
crash. The hash of a name is a constant function, with collisions.

**Quota.** A call is the list `todo` of its writes. `SetupQuota` is the end of
Format; mutations (create, write, chown, delete) end in `syncSuperblockCounts` and
one rewrite of the dquots per type. `Fail` returns with what was written,
`Reopen` is a crash followed by Open. An id that the single block of dquots does
not hold makes the rewrite of its type refuse.

**Addresses.** `ValidateGeometry` and `CheckGeometryFitsDevice` decide what Open
accepts; `FsbToPhysBlock`, `FsbToAgAgbno`, `AgAbsBlock` and inode numbers are the code's
arithmetic, the two words of an extent record too, with small fields. Sizes and
addresses count units of 256 bytes, the smallest inode, so that a superblock has
its block, sector and inode sizes; Format's layout is computed from `format.go`'s own
numbers (groups of 16384 blocks, a log of 2560). Files and inodes are written
and read through these addresses on a device that is a function from address to
content, so an address that is wrong by one hits somebody else. Of a group's free
space only its first `Low` and last `High` blocks are used; the rest belongs to
files left alone. `stray` records the one place where the code uses a packed number
as a physical one. Open compares neither `sb_inopblock` with the two sizes nor
`sb_dblocks` with the groups: where the sizes disagree `GeometrySound` claims only
that numbers pack and unpack, and `AcceptedInodesApart` is refuted.

**Volume.** One action per block written by `Grow`, `SetLabel` and
`syncSuperblockCounts`; `Fail` ends a call anywhere with an error, `Reopen` is a
crash (or close) followed by `Open`. All groups have `Meta` fixed blocks, while in
the code the first has more. `free` stands for the sum of `agf_freeblks`,
`agf_flcount` and `agf_btreeblks`. `dirty`, `base`, `over` and `skipped` record why
counters or superblocks may disagree. On a partition (`PartOffset` > 0) the writers that
Grow shares with Format forget the offset: their blocks land before the volume,
or in it, at another block than meant. The first write inside the volume sets
`stray`, and the properties claim nothing from there on.

Every write may fail in `Volume`, `Quota` and `LargeDir`; the other modules have
refusals for want of space only.

## Runs

| Run | Bounds | States | What it shows |
|---|---|---|---|
| `free_space` | 6 blocks, leaves of 2, reserves of 2 or 3 | 240,261 | blocks in one place, trees apart by the records in flight only, counters exact, refines `Allocator`, every call returns or goes astray |
| `alloc_btree` | 11 blocks, nodes of 4, requests to 3 | 12,118 | calls succeed, trees equal, no block lost, chains intact, room is found, refines `Allocator` |
| `alloc_btree_deep` | 78 blocks, three levels, 9 calls after a fixed prefix | 4,491 | the same for node splits, node merges and root collapse |
| `inode_alloc` | 16 blocks, chunks of 2, nodes of 2, three levels | 125,059 | no inode handed out twice, chunks own their blocks, counters, chain, lookup |
| `refcount` | 5 blocks, 3 records, 4 owners | 2,669 | records canonical and equal to owners, freed by the last owner |
| `file_body` | 2 files, 4 blocks of 2 cells, 1 record | 75,863 | files read back, whole and by windows, blocks counted, sharers flagged |
| `namespace` | 2 names, 4 inodes, paths of 2 | 46,440 | no dangling name, directories sound and `..` correct, link counts exact |
| `large_dir` | 6 names of 2 to 6 cells, 14 blocks, calls of up to 10 steps | 4,106 | readers agree with callers, index and free index right, no block lost, a rebuild in place is all or nothing |
| `quota` | 5 inodes, 2 ids per block, 2 files, 1 fault | 1,321,143 | dquots and counters exact after a completed call, quota inodes ready before they are named, quotas stay on, a rewrite refused for one type leaves the earlier ones exact |
| `addresses` | Format's groups; groups of 4 to 6 blocks; 2 files, 2 chunks | 26,312 | numbers and places correspond, files, inodes and headers read back, frees go to the right group |
| `volume` | 3 groups of 3 blocks, the last short, 2 labels | 1,892,820 | crash-safe geometry, superblocks, labels and counters agree after a completed call |

`slots_packed` expects a violation: `growInobt` multiplies a packed block number by
the block size, so in a group above the first of an image whose groups are not a
power of two blocks it writes the new inodes elsewhere (PROJECT.json quotes the
comment it contradicts). The passing run `addresses` stops at such a state.

`TreesSound`, `AccountsExact`, `RecordsSound`, `BlocksSound`, `DirectoriesSound`,
`VolumeSound`, `NamesExact`, `IndexSound`, `UsageExact`, `GeometrySound`,
`ImageReadsBack` and `SpaceOwned` are conjunctions; the modules define and comment
their parts, the type invariant among them.

Why the bounds are enough: nodes hold the fewest records for which split, borrow,
merge and collapse all differ; areas are large enough for two extents of the same
size, for a full tree and for no room at all. In `large_dir` the capacities are such
that every form and both depths of the hash tree are reached with six names, and a
call can be cut after each of its steps; in `quota` one id is beyond the block of
dquots; in `addresses` the groups are a power of two, not one, and short at the end,
each field of a record has at least two bits, and Open meets every combination of two
or three values of each field of the superblock, consistent or not. Not met by
the bounds of `large_dir`: a hash tree with a single leaf, and parents whose number
takes eight bytes. `CONSTRAINT`s stop at states that
are already marked as spoilt (`Searchable`, `Unspoilt`, `Sane`, `Uncut`), limit free inodes
(`FewFree`), or limit work to a few of the images (`Explored`); TLC still checks the
properties in the first such state. Symmetry is over file names, entry names and
labels, none of which the code orders.
Deadlock is not checked in four runs: a call gone astray (`free_space`), a full
group (`inode_alloc`), the end of a bounded sequence (`alloc_btree_deep`), and an
image that Open refuses (`addresses`).

Fairness is used once, `WF(Continue)` in `FreeSpace`: a call that was begun runs on,
as the caller's goroutine does under the lock. Starting calls is not fair.

### Further configurations

Each property below is a sentence of the code that TLC refutes. They are kept because
the passing properties exempt exactly these histories. An `_exempted` configuration
lists several: check one at a time.

| Configuration | Property | Sentence |
|---|---|---|
| `MCAllocBTree_step` | `NeverOutOfStep` | `alloc.go:713` the reserve keeps the two inserts from editing a tree in use |
| `MCAllocBTree_room` | `RoomIsFound` | `alloc.go:424` a leaf with count >= need |
| `MCAllocBTree_miss` | `TreesAgree` | `alloc.go:637` the leaf and index of the record with that start (a descent may miss it, cnt being edited already) |
| `MCInodeAlloc_exempted` | `FoundUnlessTorn`, `FoundUnlessLow` | `alloc.go:1031` the leaf that contains the inode |
| `MCFileBody_exempted` | `GrownFileReadable`, `GrownRegionIsZero` | `truncate.go:20` the new region reads back as zeros |
| | `ContentReplaced` | `write.go:67` rewrites the content of a file (imported sparse files) |
| | `SharedBlocksKept` | `write.go:77` freeing a shared file's extents outright would corrupt the peer (Truncate does) |
| `MCFileBody_unwritten` | `UnwrittenReadsZero` | `openfile.go:19` holes and unwritten extents read as zeros |
| `MCNamespace_exempted` | `LinksKeepTheInode` | `link.go:11` POSIX hard links (deleting one name frees the inode) |
| | `ReplacedDirsAreEmpty` | `rename.go:30` directories must be empty |
| | `ParentsCountSubdirs` | `mkdir.go:106` the parent's count includes child directories |
| | `DeleteDirFinishes` | `fs.go:482` all contents are removed (symbolic links are refused) |
| `MCVolume_exempted` | `GrownCountsFollow` | `format.go:692` reconciled by syncSuperblockCounts (Grow does not call it) |
| | `RetryFinishes` | `fs.go:195` Grow may be repeated (after a failure it returns nil and writes nothing) |
| | `MutationsReconcile` | `format.go:692` the counters are derived from the group headers (after a failed Grow of more groups than the primary has) |
| `MCVolume_partition` | `GrownOnDisk` | `fs.go:188` new groups and the primary are written (not on a partition) |
| `MCLargeDir_skip` | `LeafSectionSkipped` | `dir.go:231` the leaf section of a block is skipped (a hash can spell a name) |
| `MCLargeDir_exempted` | `SfOffsetsCanonical` | `dir.go:524` inline offsets match the canonical layout (not after a removal) |
| | `RefusedCallKeepsNames` | `leafdir.go:47` conversions free the blocks and allocate fresh (refused, names are lost) |
| `MCLargeDir_parent` | `ParentReadBack` | `mkdir.go:83` the parent takes 4 or 8 bytes (a reader is not told which) |
| `MCAddresses_sizes` | `AcceptedInodesApart` | `superblock.go:221` every field an inode read indexes against is constrained (`sb_inopblock` is not compared with the sizes) |
| `MCQuota_secondary` | `SecondariesWithoutQuota` | `quota_setup.go:147` quota fields go to the primary only (Grow writes them to all) |

## Proofs

A proof module extends the module it is about, and its theorems hold for every value
of the constants that the named ASSUMEs of that module allow. TLC has checked each
`IInv` below on the instance of the run as well.

| Module | Theorems | Run |
|---|---|---|
| `FreeSpace_proofs` | `TypeCorrect`, `NeverDoublyUsed`, `TreesStayInStep`, `CountersStayExact`, `Refinement` | `free_space` |
| `RefcountRecords_proofs` | `IncrementsRange`, `DecrementsRange` | |
| `Refcount_proofs` | `RecordsHold`, `FreedHolds` | `refcount` |
| `Volume_proofs` | `VolumeIsSound`, `LabelsHold`, `GrownHolds`, `CountsHold` | `volume` |
| `Quota_proofs`, on `QuotaWrites_proofs` | `UsageHolds`, `QuotaInodesHold`, `QuotasHold`, `RefusalHolds` | `quota` |

**FreeSpace** (`AreaAssumption`, `BoundAssumption`: any data area, leaf size, request
and reserve). The properties are not inductive by themselves. `NoDoubleUse` does not
mention the run that a free has taken from its owner and not yet put into `bno`, so
`OwnerInv` makes every block of the group belong to exactly one of seven sets, that
run, the nested one and the blocks of an allocation under way included.
`CountersExact` speaks of idle states only, so `CountInv` says at every step what the
AGF still owes. `AgreeInv` is `TreesAgree` with the two kinds of record in flight named,
and `AllocInv` says how far the allocation has come, in particular that the
remainder it has put into `cnt` is not yet in `bno`. `ControlInv` says which frames
are active together. One lemma per action preserves `IInv`; between allocations it
reduces to `QuietInv`, on which the lemmas on frees work. Lemmas on runs, covers and
cardinalities (`TakeCover`, `InsertCover`, `DisjointSum`) carry the arithmetic.
`Refinement` shows that each step is an allocation or a free of a held run, or leaves
the allocator's view alone. All of it is about behaviours up to the first `astray`:
that no call misses its record is not proved, and `MCAllocBTree_miss` shows it false.

**RefcountRecords** (no assumption on constants; any well-formed records, any range).
`IncrementsRange` and `DecrementsRange` say what `refcIncrRange` and `refcDecrRange`
compute: the count of each block of the range changes by one, that of every other block
does not, the result is sorted, disjoint and joined, and the blocks reported free are
the blocks of the range that had no record. The argument goes through what the
pieces cover: those outside the range, those clipped to it and the gaps between them
partition the blocks, `refcMerge` of a set of disjoint records covers what the set
covers with the same counts. Coalescing is a fold over a sorted list, so this last
fact needs an induction over data. `Induction_proofs` has it in a form the provers can
use: a set of naturals that contains 0 and the successor of each of its members
contains all naturals. The set is `{n : the claim holds for the first n records}`.

**Refcount** (`BoundsAssumption`). `IInv` is `RecordsSound`, `FreedByLastOwner` and the
well-formedness the two theorems above ask for. Neither property is inductive alone:
which blocks a release frees is decided by the records.

**Volume** (`VolumeAssumption`: any group size, smallest group, volume size, partition
offset and labels). `GrowInv`, `SuperblocksInv` and `LabelInv` say how far the call
under way has come (all groups below `run.at` are written, all superblocks below
it agree), `CountsInv` that counters are exact in the middle of a call too, but for
the histories `dirty`, `base`, `over` and `skipped` name. The
arithmetic is that of rounding up to whole groups (`AGCountBounds`, `MineExact`).
On a partition behaviours end at the first write inside the volume that was meant for
elsewhere (`stray`); up to there `VolumeIsSound`, `LabelsHold` and `CountsHold` hold for
any offset. `GrownHolds` is for a volume at the start of its device, `PartOffset = 0`:
on a partition it is false, which `MCVolume_partition` shows.

**Quota** (`QuotaAssumption`: any finite set of inodes, owners, selections of types,
dquots of a block, space and number of faults). `todo` is the list of writes a call
still has to do. `TodoInv` orders them: what the call itself writes, superblocks, the
counters, then the dquots of each type, and no two primaries. `SetupInv` says that until
the primary is written each type has its inode or still gets it, `LaterInv` that
afterwards no pending write touches a quota inode and the handle equals the
superblock, `ExactInv` that what was counted stays exact once only counters
and dquots are left. The proof found one thing the model had wrong: a Format that
fails drops its handle, so a refused call has to reread the fields (`Refuse`).
The lists have symbolic length; the lemmas on `Lists` speak of the set of what is
pending and of its order only. `QuotaWrites_proofs` has the calls and the writes up to
the counters, `Quota_proofs` the dquots and the theorems.

Only model-checked:

- `CallsReturn`: liveness.
- `AllocBTree`, `InodeAlloc`, `Namespace`, `DirLayout`, `LargeDir`: trees and paths
  of any depth are walked by recursive operators, behind which the prover has no
  arithmetic.
- `FileBody`: its bookkeeping of blocks could be proved from `IncrementsRange`
  and `DecrementsRange`; it has not been.
- `Addresses`: packed numbers are made with powers of two, and `2 ^ n` with a variable
  exponent is not known to the provers.

## Not modelled

- The bmbt fork of large fragmented files (`read.go`, `btreeExtents`). The driver
  never writes one, so the only definition of those blocks in the repository is
  the reader itself: keys of 16 bytes, a right sibling of four bytes at offset 12.
  A model would compare the reader with itself. What callers then do with the extents
  is what `FileBody` has for an extents fork, except that the tree's own blocks
  are never given back.
- Large directories without checksums (v4): the same forms with shorter headers.
- Symbolic links whose target is in blocks: written once at creation, one header
  per block is stripped on reading.
- `partition.go`: yields the offset that `Volume` has as `PartOffset`.
- Attributes and extended stat: fields of one inode, rewritten in one write.
- Checksums: computed for each block as it is written; no module has a damaged block.
- Two images mutated at once. They would share the allocator's package variables
  (`alloc_btree.go:509`); comments there restrict the package to one writer.
- Concurrency on one image: `fs.mu` admits readers together and a writer alone, so
  calls are atomic to each other. A handle of `OpenFile` lives across calls: see
  `PositionalReads`.

## Plan

1. Proofs: `BlocksSound` in `FileBody`; unpacking as the inverse of packing in
   `Addresses`, with powers of two as a recursive function.
2. The refinement of `Allocator` by the callers' view in `FileBody`.
