-------------------------------- MODULE Quota ---------------------------------
(***************************************************************************)
(* Quota accounting (quota_setup.go, quotacheck.go) and the end of every   *)
(* mutation (afterMutation in fs.go).  Format makes one inode with one     *)
(* block of dquots for each selected type and then writes the quota fields *)
(* to the primary superblock.  A call that changes the volume ends by      *)
(* counting the group headers into the primary superblock and by           *)
(* rebuilding the dquots of each type from a scan of the inodes.           *)
(*                                                                         *)
(* A call is the sequence of writes it still has to make.  A write may     *)
(* fail or be refused, upon which the call returns with what it has        *)
(* written, and the process may stop between two writes.  What a file      *)
(* holds is left out; of its inode there is whether the inode B-tree has   *)
(* it allocated, whether its mode is set, its owners and di_nblocks.       *)
(***************************************************************************)
EXTENDS Integers, Sequences, FiniteSets, Functions

CONSTANTS
  Inos,        \* the slots of the inode chunk, 1 .. n; 1 is the root directory
  Owners,      \* the <<uid, gid>> that Chown is given
  Configs,     \* the sets of types that Format is given
  PerBlock,    \* dquotsPerBlock
  MaxFiles,    \* bound: files that have a name
  MaxNBlocks,  \* bound: blocks of a file
  Space,       \* free blocks of the formatted volume
  MaxFaults    \* bound: failed writes and stops

Root == 1
None == 0      \* no quota inode

Types == {"user", "group", "proj"}

\* The order in which the types are set up and rewritten.
Before(t, u) == (t = "user" /\ u # "user") \/ (t = "group" /\ u = "proj")

ASSUME QuotaAssumption ==
  /\ Inos \subseteq Nat \ {None} /\ IsFiniteSet(Inos) /\ Root .. Root + 3 \subseteq Inos
  /\ Owners \subseteq Nat \X Nat /\ Configs \subseteq SUBSET Types
  /\ PerBlock \in Nat \ {0} /\ MaxFiles \in Nat /\ MaxNBlocks \in Nat \ {0}
  /\ Space \in Nat /\ MaxFaults \in Nat

VARIABLES
  ino,     \* slot -> [bit, live, user, group, proj, nblk]
  named,   \* the inodes a directory entry leads to
  free,    \* free blocks, by the headers of the groups that Format made
  sb,      \* the primary superblock: quota fields and counters
  sec,     \* the quota fields of the secondaries
  dq,      \* type -> id -> [b, i], the dquot blocks; <<>> while not written
  mem,     \* the quota fields of the open handle
  todo,    \* the writes the call under way still has to make
  done,    \* the call that is under way or has returned nil, or "error"
  faults

vars == <<ino, named, free, sb, sec, dq, mem, todo, done, faults>>

NoQuota == [on |-> {}, q |-> [t \in Types |-> None]]

Fields(s) == [on |-> s.on, q |-> s.q]

FreeSlots(in) == {i \in Inos : ~in[i].bit}

NBlocks(in, S) == SumFunction([i \in S |-> in[i].nblk])

-----------------------------------------------------------------------------
(* The writes. *)

Slot(i, b)    == [w |-> "slot", i |-> i, b |-> b]         \* allocInode, freeInode
Blocks(d)     == [w |-> "blocks", d |-> d]                \* allocBlocks, freeBlocks
Core(i, rec)  == [w |-> "core", i |-> i, rec |-> rec]     \* writeInode
Entry(i, b)   == [w |-> "entry", i |-> i, b |-> b]        \* addDirEntry, removeDirEntry
Cluster(t, i) == [w |-> "cluster", t |-> t, i |-> i]      \* a block of fresh dquots
Primary(on)   == [w |-> "primary", on |-> on]
Secondary     == [w |-> "secondary"]
Counts        == [w |-> "counts"]
Dquots(t)     == [w |-> "dquots", t |-> t]

\* initInodeV3: a new inode belongs to id 0 of every type.
NewInode(n) == [bit |-> TRUE, live |-> TRUE, user |-> 0, group |-> 0, proj |-> 0, nblk |-> n]

FreeInode == [bit |-> FALSE, live |-> FALSE, user |-> 0, group |-> 0, proj |-> 0, nblk |-> 0]

\* mkQuotaInode, for the type that gets slot i.
MkQuotaInode(t, i) == <<Slot(i, TRUE), Blocks(-1), Core(i, NewInode(1)), Cluster(t, i)>>

\* allocInode takes the first free slot for each type in turn.
QuotaSlot(on, t) ==
  Root + 1 + (IF "user" \in on /\ Before("user", t) THEN 1 ELSE 0)
           + (IF "group" \in on /\ Before("group", t) THEN 1 ELSE 0)

Making(on, t) == IF t \in on THEN MkQuotaInode(t, QuotaSlot(on, t)) ELSE <<>>

Rewriting(on, t) == IF t \in on THEN <<Dquots(t)>> ELSE <<>>

\* Mutant: the last type is rewritten first.
BadRecompute(on) == Rewriting(on, "proj") \o Rewriting(on, "group") \o Rewriting(on, "user")

\* quotaRecompute writes each type that is on; without quotas it does nothing.
Recompute(on) == Rewriting(on, "user") \o Rewriting(on, "group") \o Rewriting(on, "proj")

\* Mutant: the superblock names the quota inodes before they are made.
BadSetupQuota(on) ==
  <<Primary(on)>> \o Making(on, "user") \o Making(on, "group") \o Making(on, "proj")
  \o <<Counts>> \o Recompute(on)

SetupQuota(on) ==
  Making(on, "user") \o Making(on, "group") \o Making(on, "proj")
  \o <<Primary(on), Counts>> \o Recompute(on)

Init ==
  /\ ino = [i \in Inos |-> IF i = Root THEN NewInode(0) ELSE FreeInode]
  /\ named = {Root}
  /\ free = Space
  /\ sb = [on |-> {}, q |-> NoQuota.q, ifree |-> Cardinality(Inos) - 1, fdblocks |-> Space]
  /\ sec = NoQuota
  /\ dq = [t \in Types |-> <<>>]
  /\ mem = NoQuota
  /\ \E on \in Configs : todo = SetupQuota(on)
  /\ done = "setup"
  /\ faults = 0

-----------------------------------------------------------------------------
(* The calls. *)

Call(name, writes) ==
  /\ todo = <<>>
  /\ todo' = writes /\ done' = name
  /\ UNCHANGED <<ino, named, free, sb, sec, dq, mem, faults>>

\* afterMutation follows what the call itself writes.
Mutation(writes) == Call("mutation", writes \o <<Counts>> \o Recompute(mem.on))

Files == {i \in named \ {Root} : ino[i].live}

\* The slot allocInode takes.
FirstFree(i) == i \in FreeSlots(ino) /\ \A j \in FreeSlots(ino) : i <= j

Taking(n) == IF n = 0 THEN <<>> ELSE <<Blocks(-n)>>

Giving(n) == IF n = 0 THEN <<>> ELSE <<Blocks(n)>>

\* writeFile on a new name, makeDir, symlinkInode.
CreateFile(i, n) ==
  /\ FirstFree(i) /\ Cardinality(Files) < MaxFiles
  /\ Mutation(<<Slot(i, TRUE)>> \o Taking(n) \o <<Core(i, NewInode(n)), Entry(i, TRUE)>>)

\* overwriteFile with more blocks than there are: frees, allocates, repoints.
OverwriteFile(i, n) ==
  /\ i \in Files /\ n > ino[i].nblk
  /\ Mutation(Giving(ino[i].nblk) \o <<Blocks(-n), Core(i, [ino[i] EXCEPT !.nblk = n])>>)

Truncate(i, n) ==
  /\ i \in Files /\ n < ino[i].nblk
  /\ Mutation(<<Blocks(ino[i].nblk - n), Core(i, [ino[i] EXCEPT !.nblk = n])>>)

\* deleteFile: the entry, the blocks, the mode, the bit of the inode B-tree.
DeleteFile(i) ==
  /\ i \in Files
  /\ Mutation(<<Entry(i, FALSE)>> \o Giving(ino[i].nblk)
              \o <<Core(i, [ino[i] EXCEPT !.live = FALSE]), Slot(i, FALSE)>>)

Chown(i, u, g) ==
  /\ i \in Files
  /\ Mutation(<<Core(i, [ino[i] EXCEPT !.user = u, !.group = g])>>)

\* Rename, Link, and WriteFile in place: usage does not change.
OtherMutation == Mutation(<<>>)

\* Mutant: the superblock is rebuilt as Format does it, before quotas are on.
BadGrow == Call("grow", <<Secondary, Primary({}), Secondary>>)

\* Grow: the superblock of the new group, the primary, all secondaries.  The
\* group's blocks would add the same to both counts and are left out.
Grow == Call("grow", <<Secondary, Primary(mem.on), Secondary>>)

-----------------------------------------------------------------------------
(* Carrying out the first write. *)

Next1 == Head(todo)

Is(w) == todo # <<>> /\ Next1.w = w

\* The call returns an error.  A Format that fails closes its handle, and the
\* image it made is opened as it is.
Refuse ==
  /\ todo' = <<>> /\ done' = "error"
  /\ mem' = IF done = "setup" THEN Fields(sb) ELSE mem

WriteSlot ==
  /\ Is("slot")
  /\ ino' = [ino EXCEPT ![Next1.i].bit = Next1.b]
  /\ todo' = Tail(todo)
  /\ UNCHANGED <<named, free, sb, sec, dq, mem, done, faults>>

HasRoom(d) == free + d >= 0

\* An allocation is refused when there is no room.
WriteBlocks ==
  /\ Is("blocks")
  /\ IF HasRoom(Next1.d)
     THEN free' = free + Next1.d /\ todo' = Tail(todo) /\ done' = done /\ mem' = mem
     ELSE free' = free /\ Refuse
  /\ UNCHANGED <<ino, named, sb, sec, dq, faults>>

WriteCore ==
  /\ Is("core")
  /\ ino' = [ino EXCEPT ![Next1.i] = Next1.rec]
  /\ todo' = Tail(todo)
  /\ UNCHANGED <<named, free, sb, sec, dq, mem, done, faults>>

WriteEntry ==
  /\ Is("entry")
  /\ named' = IF Next1.b THEN named \cup {Next1.i} ELSE named \ {Next1.i}
  /\ todo' = Tail(todo)
  /\ UNCHANGED <<ino, free, sb, sec, dq, mem, done, faults>>

\* buildDquotBlock: every dquot of the block, without usage.
WriteCluster ==
  /\ Is("cluster")
  /\ dq' = [dq EXCEPT ![Next1.t] = [id \in 0 .. PerBlock - 1 |-> [b |-> 0, i |-> 0]]]
  /\ mem' = [mem EXCEPT !.q[Next1.t] = Next1.i]
  /\ todo' = Tail(todo)
  /\ UNCHANGED <<ino, named, free, sb, sec, done, faults>>

\* buildSuperblockBuffer: the handle's quota fields, an empty volume's counts.
SuperblockBuffer(q) ==
  [on |-> q.on, q |-> q.q, ifree |-> Cardinality(Inos) - 1, fdblocks |-> Space]

WritePrimary ==
  /\ Is("primary")
  /\ mem' = [mem EXCEPT !.on = Next1.on]
  /\ sb' = SuperblockBuffer(mem')
  /\ todo' = Tail(todo)
  /\ UNCHANGED <<ino, named, free, sec, dq, done, faults>>

WriteSecondary ==
  /\ Is("secondary")
  /\ sec' = Fields(SuperblockBuffer(mem))
  /\ todo' = Tail(todo)
  /\ UNCHANGED <<ino, named, free, sb, dq, mem, done, faults>>

Counted == [sb EXCEPT !.fdblocks = free, !.ifree = Cardinality(FreeSlots(ino))]

\* syncSuperblockCounts, on the primary as it is on disk.
SyncSuperblockCounts ==
  /\ Is("counts")
  /\ sb' = Counted
  /\ todo' = Tail(todo)
  /\ UNCHANGED <<ino, named, free, sec, dq, mem, done, faults>>

\* inobtEnumerate and the bitmap: the inodes the inode trees have as allocated.
Enumerated == {i \in Inos : ino[i].bit}

\* Mutant: the quota inodes are charged to id 0.
BadCharged == {i \in Enumerated : ino[i].live}

\* The inodes a quotacheck charges: allocated, with a mode, not quota inodes.
Charged == {i \in Enumerated : i \notin Range(mem.q) /\ ino[i].live}

Usage(t, id) ==
  LET own == {i \in Charged : ino[i][t] = id}
  IN  [b |-> NBlocks(ino, own), i |-> Cardinality(own)]

InRange(t) == \A i \in Charged : ino[i][t] < PerBlock

\* quotaWriteDquots: all of the block, or an error before anything is written.
QuotaWriteDquots ==
  /\ Is("dquots")
  /\ IF InRange(Next1.t)
     THEN /\ dq' = [dq EXCEPT ![Next1.t] = [id \in 0 .. PerBlock - 1 |-> Usage(Next1.t, id)]]
          /\ todo' = Tail(todo) /\ done' = done /\ mem' = mem
     ELSE dq' = dq /\ Refuse
  /\ UNCHANGED <<ino, named, free, sb, sec, faults>>

-----------------------------------------------------------------------------
(* Faults. *)

\* A write fails.
Fail ==
  /\ todo # <<>> /\ faults < MaxFaults
  /\ faults' = faults + 1
  /\ Refuse
  /\ UNCHANGED <<ino, named, free, sb, sec, dq>>

\* The process stops and the image is opened again.
Reopen ==
  /\ faults < MaxFaults
  /\ faults' = faults + 1
  /\ todo' = <<>> /\ done' = "error"
  /\ mem' = Fields(sb)
  /\ UNCHANGED <<ino, named, free, sb, sec, dq>>

Next ==
  \/ \E i \in Inos, n \in 0 .. MaxNBlocks : CreateFile(i, n) \/ OverwriteFile(i, n) \/ Truncate(i, n)
  \/ \E i \in Inos : DeleteFile(i)
  \/ \E i \in Inos, o \in Owners : Chown(i, o[1], o[2])
  \/ OtherMutation
  \/ Grow
  \/ WriteSlot \/ WriteBlocks \/ WriteCore \/ WriteEntry
  \/ WriteCluster \/ WritePrimary \/ WriteSecondary
  \/ SyncSuperblockCounts \/ QuotaWriteDquots
  \/ Fail \/ Reopen

Spec == Init /\ [][Next]_vars

-----------------------------------------------------------------------------
(* What holds *)

Dquot == [b : Nat, i : Nat]

\* The variables have the shapes the declarations give them.
TypeOK ==
  /\ \A i \in Inos : /\ ino[i].bit \in BOOLEAN /\ ino[i].live \in BOOLEAN
                     /\ <<ino[i].user, ino[i].group>> \in Owners \cup {<<0, 0>>} /\ ino[i].proj = 0
                     /\ ino[i].nblk \in 0 .. MaxNBlocks
  /\ named \subseteq Inos /\ free \in Nat
  /\ \A t \in Types : dq[t] = <<>> \/ dq[t] \in [0 .. PerBlock - 1 -> Dquot]
  /\ sb.on \subseteq Types /\ mem.on \subseteq Types
  /\ done \in {"setup", "mutation", "grow", "error"} /\ faults \in 0 .. MaxFaults

\* What the inodes of the volume add up to, for one id of one type.
QuotaInodes == {sb.q[t] : t \in sb.on}

Owned(t, id) ==
  {i \in Inos \ QuotaInodes : ino[i].bit /\ ino[i].live /\ ino[i][t] = id}

ExactFor(t) ==
  \A id \in 0 .. PerBlock - 1 :
    /\ dq[t][id].i = Cardinality(Owned(t, id))
    /\ dq[t][id].b = NBlocks(ino, Owned(t, id))

Addressable(t) == \A i \in Inos : i \in Owned(t, ino[i][t]) => ino[i][t] < PerBlock

\* When setupQuota or a mutation returns nil, the dquots of every type that
\* is on are what the inodes add up to, whatever failed or was cut short
\* before, and every owner has a dquot: the quotacheck starts from nothing.
DquotsExact ==
  todo = <<>> /\ done \in {"setup", "mutation"} =>
    \A t \in sb.on : ExactFor(t) /\ Addressable(t)

\* ... and the counters of the primary superblock are those of the headers.
CountersExact ==
  todo = <<>> /\ done \in {"setup", "mutation"} =>
    sb.fdblocks = free /\ sb.ifree = Cardinality(FreeSlots(ino))

\* A mutation that returns nil leaves the dquots of every type that is on, and
\* the superblock's counters, equal to what the inodes add up to (quotacheck and
\* updateSuperblockCounters run last in it).
UsageExact == TypeOK /\ DquotsExact /\ CountersExact

\* A type that the primary superblock has on has its own inode and a block of
\* dquots, wherever Format was stopped, and no later call takes them away.
QuotaInodesReady ==
  \A t \in sb.on :
    /\ sb.q[t] \in Inos \ named
    /\ ino[sb.q[t]].bit /\ ino[sb.q[t]].live /\ ino[sb.q[t]].nblk = 1
    /\ dq[t] # <<>>
    /\ \A u \in sb.on \ {t} : sb.q[u] # sb.q[t]

\* Once the primary superblock has quotas on, no write of it drops or moves
\* them: Grow builds it anew from the handle.
QuotasStayOn == [][sb.on # {} => Fields(sb') = Fields(sb)]_vars

\* When quotaWriteDquots refuses a type, an owner is without a dquot in it, the
\* types before it are exact, and so are the counters of the superblock.
RefusedHalfway ==
  [][QuotaWriteDquots /\ done' = "error" =>
       /\ sb.fdblocks = free /\ sb.ifree = Cardinality(FreeSlots(ino))
       /\ ~Addressable(Next1.t)
       /\ \A t \in sb.on : Before(t, Next1.t) => ExactFor(t)]_vars

-----------------------------------------------------------------------------
(* What the code's comments say and the code does not do *)

\* The quota fields of the secondary superblocks stay zero; "propagating quota
\* state to them makes xfs_repair distrust the primary's" (quota_setup.go).
SecondariesWithoutQuota == sec = NoQuota

=============================================================================
