-------------------------------- MODULE Volume --------------------------------
(***************************************************************************)
(* The volume as a whole: the superblocks (one in every allocation group,  *)
(* the first is the primary), the headers of the groups, and the handle an *)
(* open file system keeps in memory.  Grow and SetLabel (fs.go, label.go)  *)
(* write many blocks one after the other, and so does every mutation that  *)
(* ends in afterMutation: its group header first, the primary superblock's *)
(* counters last.  There is no journal; a write may fail, upon which the   *)
(* call returns, and the process may stop and open the image again between *)
(* any two writes.                                                         *)
(*                                                                         *)
(* Sizes are in blocks.  A group has Meta blocks of its own, the rest is   *)
(* free or in files.  A superblock is its size, its label and its free     *)
(* count; the number of groups follows from the size.                      *)
(***************************************************************************)
EXTENDS Integers, FiniteSets, Functions

CONSTANTS
  AgBlocks,     \* sb_agblocks
  Meta,         \* blocks of a group that are never free
  MinAG,        \* growMinAGBlocks
  MaxBlocks,    \* bound: the largest volume
  PartOffset,   \* the block of its device at which the volume starts
  Labels

ASSUME VolumeAssumption ==
  /\ AgBlocks \in Nat \ {0} /\ Meta \in 1 .. MinAG - 1 /\ MinAG \in 1 .. AgBlocks
  /\ MaxBlocks \in Nat /\ AgBlocks <= MaxBlocks /\ PartOffset \in Nat

None == [len |-> 0, whole |-> FALSE]    \* a block that was never written

AGCount(len) == (len + AgBlocks - 1) \div AgBlocks

AGs == 0 .. AGCount(MaxBlocks) - 1

\* agLength
AGLength(len, ag) ==
  IF (ag + 1) * AgBlocks <= len THEN AgBlocks ELSE len - ag * AgBlocks

\* fmtTotalFreeBlocks: what an empty volume of this size has free.
BaseFree(len) == SumFunction([ag \in 0 .. AGCount(len) - 1 |-> AGLength(len, ag) - Meta])

VARIABLES
  sbs,    \* the superblock in each group, as on disk
  hdr,    \* the header of each group, as on disk
  mem,    \* the open handle: size and label
  run,    \* the call under way
  done,   \* how the last call ended
  dirty,  \* a group header changed and the counters have not followed
  base,   \* the primary has the counters of an empty volume
  over,   \* the counters cover groups of the handle that the primary lacks
  skipped,\* groups were passed over: Grow ran on a size only the handle had
  stray   \* Grow wrote into the volume at a place that is not its own

marks == <<dirty, base, over, skipped, stray>>

vars == <<sbs, hdr, mem, run, done, dirty, base, over, skipped, stray>>

Idle == [op |-> "idle"]

Mine(len) == 0 .. AGCount(len) - 1

FreeIn(h, len) == SumFunction([ag \in Mine(len) |-> h[ag].free])

\* A call has published a size that the primary does not have.
Ahead == mem.len # sbs[0].len

Formatted(len, label) ==
  /\ sbs = [ag \in AGs |-> IF ag \in Mine(len)
                           THEN [len |-> len, label |-> label, free |-> BaseFree(len)]
                           ELSE None]
  /\ hdr = [ag \in AGs |-> IF ag \in Mine(len)
                           THEN [len |-> AgBlocks, free |-> AgBlocks - Meta, whole |-> TRUE]
                           ELSE None]
  /\ mem = [len |-> len, label |-> label]

Init ==
  /\ \E label \in Labels : Formatted(AgBlocks, label)
  /\ run = Idle /\ done = "none"
  /\ dirty = FALSE /\ base = FALSE /\ over = FALSE /\ skipped = FALSE /\ stray = FALSE

-----------------------------------------------------------------------------
(* Grow *)

\* The size is accepted: larger, the last group is full now, and the new last
\* one is large enough.
GrowAccepts(n) ==
  /\ n > mem.len
  /\ mem.len % AgBlocks = 0
  /\ AGLength(n, AGCount(n) - 1) >= MinAG

GrowNothing(n) ==
  /\ run = Idle /\ n = mem.len
  /\ done' = "same"
  /\ UNCHANGED <<sbs, hdr, mem, run, marks>>

\* The handle has the new size before any group is written.
GrowStart(n) ==
  /\ run = Idle /\ GrowAccepts(n)
  /\ mem' = [mem EXCEPT !.len = n]
  /\ run' = [op |-> "ag", at |-> AGCount(mem.len)]
  /\ done' = "none"
  /\ skipped' = (skipped \/ Ahead)
  /\ UNCHANGED <<sbs, hdr, dirty, base, over, stray>>

\* fmtWriteAG and fmtWriteSuperblock do not add the volume's offset: on a
\* partition the block they mean stays as it is, and they write to the device's
\* blocks from ag * AgBlocks on: before the partition, over the partition table
\* for the first group, or inside it.
Lands(block, new) == IF PartOffset = 0 THEN new ELSE block

\* One of the n blocks written for group ag is some other block of the volume.
\* What that destroys is not modelled: the behaviour ends there.
Strays(ag, n) == PartOffset # 0 /\ ag * AgBlocks + n > PartOffset

\* fmtWriteAGLen begins with the AGF: everything from freeStart on is free.
FreshHeader(len, ag) ==
  [len |-> AGLength(len, ag), free |-> AGLength(len, ag) - Meta, whole |-> FALSE]

\* buildSuperblockBuffer: the counters are those of an empty volume.
SuperblockBuffer == [len |-> mem.len, label |-> mem.label, free |-> BaseFree(mem.len)]

GrowWriteAGF ==
  /\ run.op = "ag"
  /\ hdr' = [hdr EXCEPT ![run.at] = Lands(@, FreshHeader(mem.len, run.at))]
  /\ run' = [run EXCEPT !.op = "rest"]
  /\ stray' = Strays(run.at, 1)
  /\ UNCHANGED <<sbs, mem, done, dirty, base, over, skipped>>

\* It goes on with the AGI, the AGFL and the roots of the trees.
GrowWriteRest ==
  /\ run.op = "rest"
  /\ hdr' = [hdr EXCEPT ![run.at] = Lands(@, [@ EXCEPT !.whole = TRUE])]
  /\ run' = [run EXCEPT !.op = "sec"]
  /\ stray' = Strays(run.at, Meta)
  /\ UNCHANGED <<sbs, mem, done, dirty, base, over, skipped>>

\* Mutant: the primary is rewritten as soon as the first new group is there.
BadAfterSecondary(at) == [op |-> "sb", at |-> 0]

AfterSecondary(at) ==
  IF at + 1 \in Mine(mem.len) THEN [op |-> "ag", at |-> at + 1] ELSE [op |-> "sb", at |-> 0]

GrowWriteSecondary ==
  /\ run.op = "sec"
  /\ sbs' = [sbs EXCEPT ![run.at] = SuperblockBuffer]
  /\ run' = AfterSecondary(run.at)
  /\ UNCHANGED <<hdr, mem, done, marks>>

\* Mutant: the old groups' superblocks are left as they were.
BadAfterSuperblock(at) == [op |-> "flush"]

\* fmtWriteSuperblock: the primary, then every secondary once more.
AfterSuperblock(at) ==
  IF at + 1 \in Mine(mem.len) THEN [op |-> "sb", at |-> at + 1] ELSE [op |-> "flush"]

GrowWriteSuperblock ==
  /\ run.op = "sb"
  /\ sbs' = [sbs EXCEPT ![run.at] = Lands(@, SuperblockBuffer)]
  /\ run' = AfterSuperblock(run.at)
  /\ base' = (base \/ PartOffset = 0)
  /\ stray' = Strays(run.at, 1)
  /\ UNCHANGED <<hdr, mem, done, dirty, over, skipped>>

\* The final Sync; the call has succeeded.
GrowFlush ==
  /\ run.op = "flush"
  /\ run' = Idle /\ done' = "grown"
  /\ UNCHANGED <<sbs, hdr, mem, marks>>

-----------------------------------------------------------------------------
(* SetLabel *)

SetLabel(label) ==
  /\ run = Idle
  /\ run' = [op |-> "label", at |-> 0, label |-> label]
  /\ done' = "none"
  /\ UNCHANGED <<sbs, hdr, mem, marks>>

\* Mutant: only the primary is relabelled.
BadAfterLabel == [run EXCEPT !.op = "named"]

AfterLabel ==
  IF run.at + 1 \in Mine(mem.len) THEN [run EXCEPT !.at = @ + 1] ELSE [run EXCEPT !.op = "named"]

\* One superblock is read, changed and written.
LabelWrite ==
  /\ run.op = "label" /\ sbs[run.at] # None
  /\ sbs' = [sbs EXCEPT ![run.at].label = run.label]
  /\ run' = AfterLabel
  /\ UNCHANGED <<hdr, mem, done, marks>>

\* The final Sync, after which the handle has the label too.
LabelFlush ==
  /\ run.op = "named"
  /\ mem' = [mem EXCEPT !.label = run.label]
  /\ run' = Idle /\ done' = "label"
  /\ UNCHANGED <<sbs, hdr, marks>>

-----------------------------------------------------------------------------
(* Mutations *)

\* Some call takes blocks from a group, or gives some back.  Which blocks of a
\* group are there that a Grow left unfinished, beyond its AGF, is not told
\* apart: it may serve already.
Mutate(ag, free) ==
  /\ run = Idle
  /\ ag \in Mine(mem.len) /\ hdr[ag] # None
  /\ free \in 0 .. hdr[ag].len - Meta
  /\ hdr' = [hdr EXCEPT ![ag].free = free]
  /\ run' = [op |-> "sync"]
  /\ done' = "none" /\ dirty' = TRUE
  /\ UNCHANGED <<sbs, mem, base, over, skipped, stray>>

\* Mutant: the counter is moved by what the call did to the first group.
BadCounted == sbs[0].free

Counted == FreeIn(hdr, mem.len)

\* syncSuperblockCounts: the sum over all groups of the handle, each of which
\* must have its AGF, goes into the primary.  The AGI it reads too is one of
\* the blocks that an unfinished group may lack: then the call fails.
SyncCounts ==
  /\ run.op = "sync" /\ \A ag \in Mine(mem.len) : hdr[ag] # None
  /\ sbs' = [sbs EXCEPT ![0].free = Counted]
  /\ dirty' = FALSE /\ base' = FALSE /\ over' = Ahead
  /\ run' = Idle /\ done' = "mutation"
  /\ UNCHANGED <<hdr, mem, skipped, stray>>

-----------------------------------------------------------------------------
(* Faults *)

\* A read or a write fails, or finds a block that was never written.
Fail ==
  /\ run # Idle
  /\ run' = Idle /\ done' = "error"
  /\ UNCHANGED <<sbs, hdr, mem, marks>>

\* The process stops, wherever it is, and the image is opened again.
Reopen ==
  /\ mem' = [len |-> sbs[0].len, label |-> sbs[0].label]
  /\ run' = Idle /\ done' = "none"
  /\ UNCHANGED <<sbs, hdr, marks>>

Next ==
  /\ ~stray
  /\ \/ \E n \in 1 .. MaxBlocks : GrowNothing(n) \/ GrowStart(n)
     \/ GrowWriteAGF \/ GrowWriteRest \/ GrowWriteSecondary
     \/ GrowWriteSuperblock \/ GrowFlush
     \/ \E label \in Labels : SetLabel(label)
     \/ LabelWrite \/ LabelFlush
     \/ \E ag \in AGs, free \in 0 .. AgBlocks : Mutate(ag, free)
     \/ SyncCounts
     \/ Fail
     \/ Reopen

Spec == Init /\ [][Next]_vars

-----------------------------------------------------------------------------
(* What holds *)

Header(len) == [len : 1 .. len, free : 0 .. len - Meta, whole : BOOLEAN]

\* The blocks have the shape of a superblock or a header or were never
\* written, and no group has more free blocks than it can have.
TypeOK ==
  /\ \A ag \in AGs :
       /\ sbs[ag] = None \/ (sbs[ag].label \in Labels /\ sbs[ag].len \in 1 .. MaxBlocks)
       /\ hdr[ag] = None \/ hdr[ag] \in Header(hdr[ag].len)
  /\ mem \in [len : 1 .. MaxBlocks, label : Labels]
  /\ run.op \in {"idle", "ag", "rest", "sec", "sb", "flush", "label", "named", "sync"}
  /\ done \in {"none", "same", "grown", "label", "mutation", "error"}
  /\ {dirty, base, over, skipped, stray} \subseteq BOOLEAN

WrittenFor(len) ==
  \A ag \in Mine(len) : hdr[ag].whole /\ hdr[ag].len = AGLength(len, ag)

\* Wherever a Grow or any other call is interrupted, each group that the
\* primary superblock speaks of has its headers and trees, of its length:
\* Grow writes the primary after the last group.  Not claimed once a second,
\* larger Grow has run on the handle of a failed one (it passes over the groups
\* the first left out), nor once Grow has written into a partition.
EveryGroupIsWritten == ~skipped /\ ~stray => WrittenFor(sbs[0].len)

\* Wherever a call stopped, the groups the superblock covers have been written,
\* and no header has more free blocks than its group (growAppendAG), with the
\* two exceptions of EveryGroupIsWritten.
VolumeSound == TypeOK /\ EveryGroupIsWritten

\* When Grow returns from its last write, the groups are there and all
\* superblocks, old and new, are the same block.  Not claimed of a Grow on the
\* handle of a failed one, to a larger size than that.
GrownOnDisk ==
  done = "grown" /\ ~skipped =>
    WrittenFor(mem.len) /\ \A ag \in Mine(mem.len) : sbs[ag] = SuperblockBuffer

\* When SetLabel returns, every superblock and the handle have one label,
\* whichever calls failed or were interrupted before.
LabelsAgree ==
  done = "label" => \A ag \in Mine(mem.len) : sbs[ag] # None /\ sbs[ag].label = mem.label

CountsExact == sbs[0].free = FreeIn(hdr, sbs[0].len)

\* Between calls the primary's free count is the sum over its groups, with
\* three exceptions: a mutation was cut short, Grow has put the empty volume's
\* count there, or a mutation has completed on the handle of a failed Grow and
\* counted groups that the primary does not have.  The next mutation that
\* completes on a handle of the primary's size (syncSuperblockCounts) ends each
\* of them.  The exceptions of EveryGroupIsWritten apply too.
CountsFollow ==
  run = Idle /\ ~dirty /\ ~base /\ ~over /\ ~skipped /\ ~stray => CountsExact

-----------------------------------------------------------------------------
(* What the code's comments say and the code does not do *)

\* "callers may re-run Grow to retry" (fs.go): a Grow that returns nil leaves
\* the volume at that size, after a failed one too.
RetryFinishes ==
  done \in {"same", "grown"} =>
    WrittenFor(mem.len) /\ \A ag \in Mine(mem.len) : sbs[ag].len = mem.len

\* "derives the authoritative counters from the per-AG AGI/AGF headers"
\* (format.go, of syncSuperblockCounts): a mutation that succeeds leaves the
\* free count exact, after a failed Grow too.
MutationsReconcile == done = "mutation" /\ ~skipped => CountsExact

\* "any post-layout allocation ... is reconciled by syncSuperblockCounts"
\* (format.go): a Grow that succeeds leaves the free count exact if it was.
GrownCountsFollow ==
  done = "grown" /\ ~dirty /\ ~skipped => CountsExact

=============================================================================
