----------------------------- MODULE Quota_proofs -----------------------------
(***************************************************************************)
(* Proofs about Quota, for every number of inodes, owners, dquots of a     *)
(* block and faults, and for every selection of quota types.               *)
(***************************************************************************)
EXTENDS QuotaWrites_proofs, Induction_proofs

\* What the inodes of an owner add up to is a dquot.
LEMMA UsageIsDquot ==
  ASSUME IInv, NEW t, NEW id
  PROVE  Usage(t, id) \in Dquot
<1> DEFINE own == {i \in Charged : ino[i][t] = id}
           f == [i \in own |-> ino[i].nblk]
<1>1. own \subseteq Inos /\ IsFiniteSet(own)
  <2>1. own \subseteq Inos
    BY DEF Charged, Enumerated
  <2>2. QED
    BY <2>1, QuotaAssumption, FS_Subset
<1>2. Cardinality(own) \in Nat
  BY <1>1, FS_CardinalityType
<1>3. f \in [own -> Nat]
  BY <1>1, InodeChanges, Zenon DEF IInv, ShapeInv
<1>4. SumFunction(f) \in Nat
  BY <1>1, <1>3, SumNat
<1>5. QED
  BY <1>2, <1>4 DEF Usage, NBlocks, Dquot

LEMMA DquotsStep ==
  ASSUME IInv, QuotaWriteDquots
  PROVE  IInv'
<1>0. PICK t \in Types : Next1 = Dquots(t) /\ Next1.t = t
  BY Next1Facts, WriteKinds DEF QuotaWriteDquots, Is
<1> DEFINE new == [id \in 0 .. PerBlock - 1 |-> Usage(t, id)]
<1>1. /\ todo # <<>> /\ Next1.w = "dquots"
      /\ UNCHANGED <<ino, named, free, sb, sec, faults>>
      /\ IF InRange(t)
         THEN dq' = [dq EXCEPT ![t] = new] /\ todo' = Tail(todo) /\ done' = done /\ mem' = mem
         ELSE dq' = dq /\ Refuse
  BY <1>0 DEF QuotaWriteDquots, Is
<1>2. t \in Types /\ Next1 = Dquots(t)
  BY <1>0
<1>3. mem = Fields(sb)
  BY <1>1, AtTheEnd, NotPreparing
<1>4. CASE ~InRange(t)
  <2>1. dq' = dq /\ Refuse
    BY <1>1, <1>4
  <2>2. faults' \in 0 .. MaxFaults
    BY <1>1 DEF IInv, ShapeInv
  <2>3. QED
    BY <1>1, <2>1, <2>2, RefuseStep DEF Refuse
<1>5. CASE InRange(t)
  <2>1. dq' = [dq EXCEPT ![t] = new] /\ todo' = Tail(todo) /\ done' = done /\ mem' = mem
    BY <1>1, <1>5
  <2>2. new \in [0 .. PerBlock - 1 -> Dquot] /\ new # <<>>
    <3>1. 0 \in DOMAIN new /\ DOMAIN << >> = {}
      BY QuotaAssumption
    <3>2. new \in [0 .. PerBlock - 1 -> Dquot]
      BY UsageIsDquot
    <3>3. QED
      BY <3>1, <3>2
  <2>3. \A id \in 0 .. PerBlock - 1 :
          new[id] = [b |-> NBlocks(ino, Owned(t, id)), i |-> Cardinality(Owned(t, id))]
    BY <1>2, <1>3, ChargedOwned, Zenon DEF Usage
  <2>4. Addressable(t)
    BY <1>2, <1>3, <1>5, ChargedOwned
  <2> HIDE DEF new
  <2>5. /\ dq' = [u \in Types |-> dq'[u]]
        /\ \A u \in Types : dq'[u] = IF u = t THEN new ELSE dq[u]
    BY <1>2, <2>1 DEF IInv, ShapeInv
  <2>6. ShapeInv'
    <3>1. \A u \in Types : dq'[u] = <<>> \/ dq'[u] \in [0 .. PerBlock - 1 -> Dquot]
      BY <2>2, <2>5 DEF IInv, ShapeInv
    <3>2. QED
      BY <1>1, <2>1, <2>5, <3>1 DEF IInv, ShapeInv
  <2>7. sb.on \subseteq Types
    BY DEF IInv, ShapeInv
  <2>8. \A u, id : Owned(u, id)' = Owned(u, id)
    BY <1>1 DEF Owned, QuotaInodes
  <2>9. \A u : Addressable(u)' = Addressable(u)
    BY <1>1, <2>8 DEF Addressable
  <2>10. ExactFor(t)' /\ Addressable(t)'
    <3>1. ASSUME NEW id \in 0 .. PerBlock - 1
          PROVE  /\ dq'[t][id].i = Cardinality(Owned(t, id))
                 /\ dq'[t][id].b = NBlocks(ino, Owned(t, id))
      <4>1. dq'[t][id] = [b |-> NBlocks(ino, Owned(t, id)), i |-> Cardinality(Owned(t, id))]
        BY <2>3, <2>5
      <4>2. QED
        BY <4>1
    <3>2. ExactFor(t)'
      BY <1>1, <2>8, <3>1 DEF ExactFor, NBlocks
    <3>3. QED
      BY <2>4, <2>9, <3>2
  <2>11. ASSUME NEW u \in sb.on, u # t, ExactFor(u), Addressable(u)
         PROVE  ExactFor(u)' /\ Addressable(u)'
    <3>1. dq'[u] = dq[u]
      BY <2>5, <2>7, <2>11
    <3>2. ExactFor(u)'
      BY <1>1, <2>8, <2>11, <3>1 DEF ExactFor, NBlocks
    <3>3. QED
      BY <2>9, <2>11, <3>2
  <2>12. Next1 # Counts /\ \A u : Next1 = Dquots(u) => u = t
    BY <1>2 DEF Counts, Dquots
  <2>13. CountsExact' = CountsExact
    BY <1>1 DEF CountsExact
  <2>14. \A u \in sb.on : dq[u] # <<>> => dq'[u] # <<>>
    BY <2>2, <2>5, <2>7
  <2>15. \A u \in sb.on : Next1 = Dquots(u) \/ (ExactFor(u) /\ Addressable(u)) =>
           ExactFor(u)' /\ Addressable(u)'
    BY <2>10, <2>11, <2>12
  <2>16. QED
    BY <1>1, <2>1, <2>6, <2>12, <2>13, <2>14, <2>15, EndWrites
<1>6. QED
  BY <1>4, <1>5

-----------------------------------------------------------------------------
(* The theorems *)

LEMMA FaultStep ==
  ASSUME IInv, Fail \/ Reopen
  PROVE  IInv'
<1>1. faults' \in 0 .. MaxFaults
  BY QuotaAssumption DEF Fail, Reopen, IInv, ShapeInv
<1>2. CASE Fail
  BY <1>1, <1>2, RefuseStep DEF Fail, Refuse
<1>3. CASE Reopen
  BY <1>1, <1>3, RefuseStep DEF Reopen
<1>4. QED
  BY <1>2, <1>3

LEMMA Inductive ==
  IInv /\ [Next]_vars => IInv'
<1> SUFFICES ASSUME IInv, [Next]_vars PROVE IInv'
  OBVIOUS
<1>1. ASSUME NEW i \in Inos, NEW n \in 0 .. MaxNBlocks,
             CreateFile(i, n) \/ OverwriteFile(i, n) \/ Truncate(i, n)
      PROVE  IInv'
  BY <1>1, CreateFileStep, OverwriteFileStep, TruncateStep
<1>2. ASSUME NEW i \in Inos, DeleteFile(i) PROVE IInv'
  BY <1>2, DeleteFileStep
<1>3. ASSUME NEW i \in Inos, NEW o \in Owners, Chown(i, o[1], o[2]) PROVE IInv'
  BY <1>3, ChownStep
<1>4. CASE OtherMutation \/ Grow
  BY <1>4, OtherMutationStep, GrowStep
<1>5. CASE WriteSlot \/ WriteBlocks \/ WriteCore \/ WriteEntry \/ WriteCluster
  BY <1>5, WriteSlotStep, WriteBlocksStep, WriteCoreStep, WriteEntryStep, WriteClusterStep
<1>6. CASE WritePrimary \/ WriteSecondary
  BY <1>6, WritePrimaryStep, WriteSecondaryStep
<1>7. CASE SyncSuperblockCounts \/ QuotaWriteDquots
  BY <1>7, SyncStep, DquotsStep
<1>8. CASE Fail \/ Reopen
  BY <1>8, FaultStep
<1>9. CASE UNCHANGED vars
  <2>1. UNCHANGED <<ino, named, free, sb, dq, mem, todo, done, faults>>
    BY <1>9 DEF vars
  <2>2. ShapeInv' /\ TodoInv' /\ QuotaInodesReady'
    BY <2>1, Zenon DEF IInv, ShapeInv, TodoInv, QuotaInodesReady, Pending
  <2>3. Pending' = Pending /\ \A on : Preparing(on)' = Preparing(on)
    BY <2>1 DEF Pending, Preparing
  <2>4. SetupInv' /\ PhaseInv'
    BY <2>1, <2>3 DEF IInv, SetupInv, PhaseInv
  <2>5. LaterInv'
    BY <2>1, <2>3 DEF IInv, LaterInv, LaterWrite, QuotaInodes, Fields
  <2>6. ExactInv'
    <3>1. \A u, id : Owned(u, id)' = Owned(u, id)
      BY <2>1 DEF Owned, QuotaInodes
    <3>2. \A u : Addressable(u)' = Addressable(u) /\ ExactFor(u)' = ExactFor(u)
      BY <2>1, <3>1 DEF Addressable, ExactFor, NBlocks
    <3>3. QED
      BY <2>1, <2>3, <3>2 DEF IInv, ExactInv, CountsExact
  <2>7. QED
    BY <2>2, <2>4, <2>5, <2>6 DEF IInv
<1>10. QED
  BY <1>1, <1>2, <1>3, <1>4, <1>5, <1>6, <1>7, <1>8, <1>9 DEF Next

LEMMA InvariantHolds ==
  Spec => []IInv
BY Starts, Inductive, PTL DEF Spec

\* A setupQuota or a mutation that returns nil leaves the dquots of every type
\* that is on and the counters of the primary superblock equal to what the inodes
\* and the group headers add up to, whatever writes failed or were cut short
\* before (afterMutation, quotaRecompute, syncSuperblockCounts).
THEOREM UsageHolds ==
  Spec => []UsageExact
<1>1. IInv => UsageExact
  <2> SUFFICES ASSUME IInv PROVE UsageExact
    OBVIOUS
  <2>1. TypeOK
    BY DEF IInv, ShapeInv, IsInode, TypeOK
  <2>2. ASSUME todo = <<>>, done \in {"setup", "mutation"}
        PROVE  CountsExact /\ \A t \in sb.on : ExactFor(t) /\ Addressable(t)
    <3>1. Pending = {}
      BY <2>2 DEF Pending, Range
    <3>2. QED
      BY <2>2, <3>1 DEF IInv, ExactInv
  <2>3. DquotsExact /\ CountersExact
    BY <2>2 DEF DquotsExact, CountersExact, CountsExact
  <2>4. QED
    BY <2>1, <2>3 DEF UsageExact
<1>2. QED
  BY <1>1, InvariantHolds, PTL

\* A type that the primary superblock has on has an inode of its own, without a
\* name, and a written block of dquots, wherever Format was stopped
\* (setupQuota, mkQuotaInode), and no later call takes them away.
THEOREM QuotaInodesHold ==
  Spec => []QuotaInodesReady
<1>1. IInv => QuotaInodesReady
  BY DEF IInv
<1>2. QED
  BY <1>1, InvariantHolds, PTL

\* Once quotas are on, no write of the primary superblock turns them off or names
\* another quota inode (buildSuperblockBuffer as Grow calls it).
THEOREM QuotasHold ==
  Spec => QuotasStayOn
<1>1. ASSUME IInv, [Next]_vars, sb.on # {} PROVE Fields(sb') = Fields(sb)
  <2>1. CASE WritePrimary
    <3>1. ~Prepares
      BY <1>1 DEF Prepares, IInv, SetupInv
    <3>2. QED
      BY <1>1, <2>1, <3>1, PrimaryKeeps DEF Fields
  <2>2. CASE SyncSuperblockCounts
    BY <1>1, <2>2, SyncStep DEF Fields
  <2>3. CASE UNCHANGED sb
    BY <2>3
  <2>4. [Next]_vars => WritePrimary \/ SyncSuperblockCounts \/ UNCHANGED sb
    BY Zenon DEF Next, vars, CreateFile, OverwriteFile, Truncate, DeleteFile, Chown, OtherMutation,
           Grow, Mutation, Call, WriteSlot, WriteBlocks, WriteCore, WriteEntry, WriteCluster,
           WriteSecondary, QuotaWriteDquots, Fail, Reopen
  <2>5. QED
    BY <1>1, <2>1, <2>2, <2>3, <2>4
<1>2. IInv /\ [Next]_vars => [sb.on # {} => Fields(sb') = Fields(sb)]_vars
  BY <1>1
<1>3. QED
  BY <1>2, InvariantHolds, PTL DEF Spec, QuotasStayOn

\* A quotacheck that refuses an owner without a dquot has left the counters and
\* the types it rewrote before exact (quotaWriteDquots returns before it writes).
THEOREM RefusalHolds ==
  Spec => RefusedHalfway
<1>1. ASSUME IInv, QuotaWriteDquots, done' = "error"
      PROVE  /\ sb.fdblocks = free /\ sb.ifree = Cardinality(FreeSlots(ino))
             /\ ~Addressable(Next1.t)
             /\ \A t \in sb.on : Before(t, Next1.t) => ExactFor(t)
  <2>1. PICK t \in Types : Next1 = Dquots(t) /\ Next1.t = t
    BY <1>1, Next1Facts, WriteKinds DEF QuotaWriteDquots, Is
  <2>2. todo # <<>> /\ Next1.w = "dquots"
    BY <1>1 DEF QuotaWriteDquots, Is
  <2>3. /\ ~Prepares /\ done \in {"setup", "mutation"}
        /\ Rank(Next1) >= 2 /\ \A w \in Pending : Rank(w) >= Rank(Next1)
    BY <1>1, <2>2, AtTheEnd
  <2>4. ~InRange(t)
    BY <1>1, <2>1, <2>3 DEF QuotaWriteDquots
  <2>5. ~Addressable(t)
    BY <1>1, <2>3, <2>4, NotPreparing, ChargedOwned
  <2>6. Rank(Dquots(t)) \in {3, 4, 5}
    BY RankOf DEF Types
  <2>7. \A w \in Pending : Rank(w) >= 2
    BY <2>1, <2>3, <2>6 DEF Rank
  <2>8. /\ Counts \in Pending \/ CountsExact
        /\ \A u \in sb.on : Dquots(u) \in Pending \/ (ExactFor(u) /\ Addressable(u))
    BY <1>1, <2>3, <2>7 DEF IInv, ExactInv
  <2>9. CountsExact
    <3>1. Rank(Counts) < Rank(Dquots(t))
      BY <2>6, RankOf
    <3>2. QED
      BY <2>1, <2>3, <2>6, <2>8, <3>1, RankOf
  <2>10. ASSUME NEW u \in sb.on, Before(u, t) PROVE ExactFor(u)
    <3>1. u \in Types
      BY <1>1 DEF IInv, ShapeInv
    <3>2. Rank(Dquots(u)) < Rank(Dquots(t)) /\ Rank(Dquots(u)) \in Nat
      BY <2>10, <3>1, RankOf DEF Before, Types
    <3>3. QED
      BY <2>1, <2>3, <2>6, <2>8, <3>2
  <2>11. QED
    BY <2>1, <2>5, <2>9, <2>10 DEF CountsExact
<1>2. IInv => [QuotaWriteDquots /\ done' = "error" =>
                 /\ sb.fdblocks = free /\ sb.ifree = Cardinality(FreeSlots(ino))
                 /\ ~Addressable(Next1.t)
                 /\ \A t \in sb.on : Before(t, Next1.t) => ExactFor(t)]_vars
  BY <1>1
<1>3. QED
  BY <1>2, InvariantHolds, PTL DEF RefusedHalfway
=============================================================================
