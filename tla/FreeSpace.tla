----------------------------- MODULE FreeSpace -----------------------------
(***************************************************************************)
(* The free-space manager of one allocation group at the level of its      *)
(* records: the by-block tree (bno) and the by-size tree (cnt) are the     *)
(* sets of extents they index, the AGF counters are a record.  One action  *)
(* is one edit of one tree, or one write of the AGF that is not part of    *)
(* such an edit: allocBlocks edits cnt, then bno, then writes the AGF;     *)
(* freeBlocks runs through the split reserve, its two inserts, the release *)
(* of the reserve, the AGF and the drain of merged-away blocks.  Every     *)
(* state between two actions is one a crash can leave on the disk; the     *)
(* blocks written within one edit of one tree are not told apart.          *)
(*                                                                         *)
(* The shape of the trees is abstracted to what it lets happen: an insert  *)
(* into a tree with a full leaf may split, a delete may merge, and in a    *)
(* tree of several nodes a search by key may miss a record that is there.  *)
(* A call that misses the record of its second tree, and a split that      *)
(* writes back a node it read before it carved a block out of the same     *)
(* tree, leave the trees in a shape this module cannot describe: astray    *)
(* records it and the behaviour ends.  AllocBTree has the trees themselves *)
(* and shows both (MCAllocBTree_step, MCAllocBTree_miss).                  *)
(***************************************************************************)
EXTENDS Integers, FiniteSets

CONSTANTS First, Last,  \* data area of the AG: fmtAGLayoutFor freeStart .. agLen - 1
          MaxRequest,   \* bound: the longest run a caller asks for
          MaxReserve,   \* bound: tree depth + 1, the size of a split reserve
          MaxLeaf       \* records a leaf holds (allocMaxLeaf)

ASSUME AreaAssumption == First \in Nat /\ Last \in Nat /\ First <= Last
ASSUME BoundAssumption ==
  /\ MaxRequest \in Nat \ {0}
  /\ MaxReserve \in Nat \ {0}
  /\ MaxLeaf \in Nat \ {0}

VARIABLES
  bno,      \* records of the by-block tree
  cnt,      \* records of the by-size tree
  agf,      \* agf_freeblks, agf_longest, agf_btreeblks
  held,     \* blocks owned by callers
  tree,     \* blocks of the two trees beyond their two original roots
  queue,    \* allocMergedFreeQueue
  reserve,  \* unused tail of the installed allocSplitReserve
  hooked,   \* allocMetaAllocBlock is the reserve's alloc
  op,       \* the outermost operation: where it is and the run it frees
  sub,      \* the freeBlocks nested in it (reserve release or drain)
  al,       \* the allocBlocks in progress: its record, size and merged-away nodes
  astray    \* history: a search missed or a stale node was written back

vars == <<bno, cnt, agf, held, tree, queue, reserve, hooked, op, sub, al, astray>>

-----------------------------------------------------------------------------
(* Extents *)

Area == First .. Last

Extent == [start : Area, count : 1 .. (Last - First + 1)]

NoRun == [start |-> First, count |-> 0]

Run(e) == e.start .. (e.start + e.count - 1)

Cover(S) == UNION {Run(e) : e \in S}

\* agfRecomputeLongest: the largest count in the leaf chain, 0 if it is empty.
Longest(S) ==
  IF S = {} THEN 0
  ELSE (CHOOSE e \in S : \A f \in S : f.count <= e.count).count

BadRemainder(r, n) ==
  {[start |-> r.start + n, count |-> r.count - n]}

\* What allocBlocks leaves of record r once its first n blocks are taken.
Remainder(r, n) ==
  IF r.count = n THEN {} ELSE {[start |-> r.start + n, count |-> r.count - n]}

\* The records of a tree afterwards, and the blocks taken.
Take(S, r, n) == (S \ {r}) \cup Remainder(r, n)

BadTaken(r, n) == r.start .. (r.start + n)

Taken(r, n) == r.start .. (r.start + n - 1)

OpPC == {"idle", "alloc", "bno_reserve", "bno", "bno_release",
         "cnt_reserve", "cnt", "cnt_release", "agf", "drain"}

SubPC == {"none", "bno", "cnt", "agf"}

NoSub == [pc |-> "none", run |-> NoRun]

AlPC == {"none", "bno", "agf", "split"}

NoAlloc == [pc |-> "none", rec |-> NoRun, n |-> 0, freed |-> {}]

\* No allocBlocks is in progress: whoever called it goes on.
Quiet == al.pc = "none" /\ ~astray

\* allocOpDepth back at 0: the queue is drained before the call returns.
EndPC(q) == IF q = {} THEN "idle" ELSE "drain"

-----------------------------------------------------------------------------
(* A freshly formatted AG: one extent covers the data area. *)

Init ==
  LET all == [start |-> First, count |-> Last - First + 1]
  IN  /\ bno = {all}
      /\ cnt = {all}
      /\ agf = [freeblks |-> all.count, longest |-> all.count, btreeblks |-> 0]
      /\ held = {}
      /\ tree = {}
      /\ queue = {}
      /\ reserve = NoRun
      /\ hooked = FALSE
      /\ op = [pc |-> "idle", run |-> NoRun]
      /\ sub = NoSub
      /\ al = NoAlloc
      /\ astray = FALSE

-----------------------------------------------------------------------------
(* The fragmentation gate of allocDeleteRecordCollect: no merge while      *)
(* draining, none when no free extent has two blocks.                      *)

BadMergeAllowed == agf.longest >= 2

MergeAllowed == op.pc # "drain" /\ agf.longest >= 2

(* The body of allocBlocks, for a caller, a split reserve or a carve: the  *)
(* first n blocks of record r of cnt are taken.  Only a record consumed    *)
(* exactly is deleted, and only a delete merges: freed is the set of node  *)
(* blocks it emptied, which the delete debits from agf_btreeblks.          *)

MayFree(freed, r, n) ==
  /\ freed \subseteq tree
  /\ freed # {} => r.count = n /\ MergeAllowed

Debit(freed) == [agf EXCEPT !.btreeblks = @ - Cardinality(freed)]

AllocCnt(n) ==
  /\ Quiet
  /\ \E r \in cnt, freed \in SUBSET tree :
       /\ r.count >= n
       /\ MayFree(freed, r, n)
       /\ cnt' = Take(cnt, r, n)
       /\ tree' = tree \ freed
       /\ agf' = Debit(freed)
       /\ al' = [pc |-> "bno", rec |-> r, n |-> n, freed |-> freed]
  /\ UNCHANGED <<bno, held, queue, reserve, hooked, sub, astray>>

\* The record of the by-block tree that the second update looks for.
SameStart == {e \in bno : e.start = al.rec.start}

\* The second update; after it both lots of merged-away nodes are queued.
AllocBno ==
  /\ al.pc = "bno" /\ ~astray
  /\ SameStart # {}
  /\ \E freed \in SUBSET tree :
       /\ MayFree(freed, al.rec, al.n)
       /\ bno' = (bno \ SameStart) \cup Remainder(al.rec, al.n)
       /\ tree' = tree \ freed
       /\ agf' = Debit(freed)
       /\ queue' = queue \cup al.freed \cup freed
  /\ al' = [al EXCEPT !.pc = "agf", !.freed = {}]
  /\ UNCHANGED <<cnt, held, reserve, hooked, op, sub, astray>>

\* It finds no record, or in a tree of several nodes not the leaf of it.
AllocBnoMissed ==
  /\ al.pc = "bno" /\ ~astray
  /\ SameStart = {} \/ tree # {}
  /\ astray' = TRUE
  /\ UNCHANGED <<bno, cnt, agf, held, tree, queue, reserve, hooked, op, sub, al>>

\* The tree the operation is about to insert into.
ReserveNext == IF op.pc = "bno_reserve" THEN "bno" ELSE "cnt"

Deduct(n) == [agf EXCEPT !.freeblks = @ - n, !.longest = Longest(cnt)]

\* The AGF is written last, and the blocks go to whoever asked for them: the
\* outermost caller, the split reserve, or the split that carved one.
AllocAGF ==
  /\ al.pc = "agf" /\ ~astray
  /\ agf' = Deduct(al.n)
  /\ \/ /\ op.pc = "alloc"
        /\ held' = held \cup Taken(al.rec, al.n)
        /\ op' = [op EXCEPT !.pc = EndPC(queue)]
        /\ al' = NoAlloc
        /\ UNCHANGED <<reserve, hooked>>
     \/ /\ op.pc \in {"bno_reserve", "cnt_reserve"}
        /\ reserve' = [start |-> al.rec.start, count |-> al.n]
        /\ hooked' = TRUE
        /\ op' = [op EXCEPT !.pc = ReserveNext]
        /\ al' = NoAlloc
        /\ UNCHANGED held
     \/ /\ op.pc \notin {"alloc", "bno_reserve", "cnt_reserve"}
        /\ al' = [al EXCEPT !.pc = "split"]
        /\ UNCHANGED <<held, reserve, hooked, op>>
  /\ UNCHANGED <<bno, cnt, tree, queue, sub, astray>>

\* allocBlocks called from outside.  A request that is refused, for want of an
\* extent or because the search for its first record fails, changes nothing.
AllocBlocks(n) ==
  /\ op.pc = "idle"
  /\ AllocCnt(n)
  /\ op' = [op EXCEPT !.pc = "alloc"]

-----------------------------------------------------------------------------
(* freeBlocks, outermost call *)

FreeBlocks(e) ==
  /\ Quiet
  /\ op.pc = "idle"
  /\ Run(e) \subseteq held
  /\ held' = held \ Run(e)
  /\ op' = [pc |-> "bno_reserve", run |-> e]
  /\ UNCHANGED <<bno, cnt, agf, tree, queue, reserve, hooked, sub, al, astray>>

\* allocReserveSplitBlocks: level + 1 contiguous blocks, installed as the hook.
ReserveSplitBlocks(n) ==
  /\ op.pc \in {"bno_reserve", "cnt_reserve"}
  /\ AllocCnt(n)
  /\ UNCHANGED op

\* No extent is found: the insert runs against the default hook.  The search
\* only looks at the rightmost leaf, so it may fail although an extent fits.
ReserveFails ==
  /\ Quiet
  /\ op.pc \in {"bno_reserve", "cnt_reserve"}
  /\ op' = [op EXCEPT !.pc = ReserveNext]
  /\ UNCHANGED <<bno, cnt, agf, held, tree, queue, reserve, hooked, sub, al, astray>>

\* The tree the innermost insert in progress works on has a full leaf.
LeafFull ==
  LET pc == IF sub.pc = "none" THEN op.pc ELSE sub.pc
  IN  /\ Quiet
      /\ \/ pc = "bno" /\ Cardinality(bno) >= MaxLeaf
         \/ pc = "cnt" /\ Cardinality(cnt) >= MaxLeaf

\* A split takes the next block of the reserve.
SplitFromReserve ==
  /\ LeafFull
  /\ hooked
  /\ sub.pc = "none"
  /\ reserve.count > 0
  /\ tree' = tree \cup {reserve.start}
  /\ reserve' = [start |-> IF reserve.count = 1 THEN First ELSE reserve.start + 1,
                 count |-> reserve.count - 1]
  /\ agf' = [agf EXCEPT !.btreeblks = @ + 1]
  /\ UNCHANGED <<bno, cnt, held, queue, hooked, op, sub, al, astray>>

BadSplitFromQueue ==
  /\ LeafFull
  /\ op.pc = "drain"
  /\ \E b \in queue :
       /\ tree' = tree \cup {b}
       /\ queue' = queue
  /\ agf' = [agf EXCEPT !.btreeblks = @ + 1]
  /\ UNCHANGED <<bno, cnt, held, reserve, hooked, op, sub, al, astray>>

\* While draining, a split takes a queued block.
SplitFromQueue ==
  /\ LeafFull
  /\ op.pc = "drain"
  /\ \E b \in queue :
       /\ tree' = tree \cup {b}
       /\ queue' = queue \ {b}
  /\ agf' = [agf EXCEPT !.btreeblks = @ + 1]
  /\ UNCHANGED <<bno, cnt, held, reserve, hooked, op, sub, al, astray>>

\* allocMetaBlock: with neither of them, a split calls allocBlocks in the
\* middle of the insert.
CarveBlock ==
  /\ LeafFull
  /\ ~hooked
  /\ op.pc = "drain" => queue = {}
  /\ AllocCnt(1)
  /\ UNCHANGED op

\* The carve fails, and with it the insert, at whatever point it had reached.
CarveRefused ==
  /\ LeafFull
  /\ ~hooked
  /\ op.pc = "drain" => queue = {}
  /\ astray' = TRUE
  /\ UNCHANGED <<bno, cnt, agf, held, tree, queue, reserve, hooked, op, sub, al>>

\* The carved block becomes a node, the leaf being read again.
SplitFromCarve ==
  /\ al.pc = "split" /\ ~astray
  /\ tree' = tree \cup {al.rec.start}
  /\ agf' = [agf EXCEPT !.btreeblks = @ + 1]
  /\ al' = NoAlloc
  /\ UNCHANGED <<bno, cnt, held, queue, reserve, hooked, op, sub, astray>>

\* Interior nodes and the root are not read again: the split writes back what
\* they were before the carve, which may have changed them.
SplitStale ==
  /\ al.pc = "split" /\ ~astray
  /\ astray' = TRUE
  /\ UNCHANGED <<bno, cnt, agf, held, tree, queue, reserve, hooked, op, sub, al>>

\* allocInsertWithReserve after the insert: the hook is restored and a
\* leftover of the reserve is freed by a nested freeBlocks.
Release(pcRelease, pcNext) ==
  /\ hooked' = FALSE
  /\ reserve' = NoRun
  /\ sub' = IF reserve.count > 0 THEN [pc |-> "bno", run |-> reserve] ELSE NoSub
  /\ op' = [op EXCEPT !.pc = IF reserve.count > 0 THEN pcRelease ELSE pcNext]

InsertBno ==
  /\ Quiet
  /\ op.pc = "bno"
  /\ bno' = bno \cup {op.run}
  /\ Release("bno_release", "cnt_reserve")
  /\ UNCHANGED <<cnt, agf, held, tree, queue, al, astray>>

BadInsertCnt ==
  /\ Quiet
  /\ op.pc = "cnt"
  /\ cnt' = cnt
  /\ Release("cnt_release", "agf")
  /\ UNCHANGED <<bno, agf, held, tree, queue, al, astray>>

InsertCnt ==
  /\ Quiet
  /\ op.pc = "cnt"
  /\ cnt' = cnt \cup {op.run}
  /\ Release("cnt_release", "agf")
  /\ UNCHANGED <<bno, agf, held, tree, queue, al, astray>>

BadCredit(n) == [agf EXCEPT !.freeblks = @ + 1, !.longest = Longest(cnt)]

\* The AGF is re-read, credited with the freed run and written last.
Credit(n) == [agf EXCEPT !.freeblks = @ + n, !.longest = Longest(cnt)]

WriteAGF ==
  /\ Quiet
  /\ op.pc = "agf"
  /\ agf' = Credit(op.run.count)
  /\ op' = [pc |-> EndPC(queue), run |-> NoRun]
  /\ UNCHANGED <<bno, cnt, held, tree, queue, reserve, hooked, sub, al, astray>>

-----------------------------------------------------------------------------
(* freeBlocks nested in a release or in the drain: it installs no reserve. *)

SubInsertBno ==
  /\ Quiet
  /\ sub.pc = "bno"
  /\ bno' = bno \cup {sub.run}
  /\ sub' = [sub EXCEPT !.pc = "cnt"]
  /\ UNCHANGED <<cnt, agf, held, tree, queue, reserve, hooked, op, al, astray>>

SubInsertCnt ==
  /\ Quiet
  /\ sub.pc = "cnt"
  /\ cnt' = cnt \cup {sub.run}
  /\ sub' = [sub EXCEPT !.pc = "agf"]
  /\ UNCHANGED <<bno, agf, held, tree, queue, reserve, hooked, op, al, astray>>

SubWriteAGF ==
  /\ Quiet
  /\ sub.pc = "agf"
  /\ agf' = Credit(sub.run.count)
  /\ sub' = NoSub
  /\ op' = [op EXCEPT !.pc = CASE op.pc = "bno_release" -> "cnt_reserve"
                               [] op.pc = "cnt_release" -> "agf"
                               [] OTHER                 -> EndPC(queue)]
  /\ UNCHANGED <<bno, cnt, held, tree, queue, reserve, hooked, al, astray>>

\* allocDrainMergedFrees: one queued block is popped and freed.
DrainMergedFree ==
  /\ Quiet
  /\ op.pc = "drain"
  /\ sub.pc = "none"
  /\ \E b \in queue :
       /\ queue' = queue \ {b}
       /\ sub' = [pc |-> "bno", run |-> [start |-> b, count |-> 1]]
  /\ UNCHANGED <<bno, cnt, agf, held, tree, reserve, hooked, op, al, astray>>

-----------------------------------------------------------------------------

Continue ==
  \/ \E n \in 2 .. MaxReserve : ReserveSplitBlocks(n)
  \/ ReserveFails
  \/ SplitFromReserve
  \/ SplitFromQueue
  \/ CarveBlock
  \/ CarveRefused
  \/ SplitFromCarve
  \/ SplitStale
  \/ AllocBno
  \/ AllocBnoMissed
  \/ AllocAGF
  \/ InsertBno
  \/ InsertCnt
  \/ WriteAGF
  \/ SubInsertBno
  \/ SubInsertCnt
  \/ SubWriteAGF
  \/ DrainMergedFree

Next ==
  \/ \E n \in 1 .. MaxRequest : AllocBlocks(n)
  \/ \E e \in Extent : FreeBlocks(e)
  \/ Continue

Spec == Init /\ [][Next]_vars

\* A call of allocBlocks or freeBlocks runs to its end on its own.
FairSpec == Spec /\ WF_vars(Continue)

-----------------------------------------------------------------------------
(* Properties *)

\* Blocks of a freed run that the trees do not index yet.
OpPending ==
  IF op.pc \in {"bno_reserve", "bno"} THEN Run(op.run) ELSE {}

SubPending == IF sub.pc = "bno" THEN Run(sub.run) ELSE {}

\* Records already in the by-block tree and not yet in the by-size tree.
BnoOnly ==
  (IF op.pc \in {"bno_release", "cnt_reserve", "cnt"} THEN {op.run} ELSE {})
    \cup (IF sub.pc = "cnt" THEN {sub.run} ELSE {})

\* The by-size tree, with the record that allocBlocks has cut in it and not
\* yet in the by-block tree put back.
CntBefore ==
  IF al.pc = "bno" THEN (cnt \ Remainder(al.rec, al.n)) \cup {al.rec} ELSE cnt

\* Blocks on their way from the free-space trees to whoever asked for them,
\* and nodes merged away by the first delete of an allocBlocks.
AlPending == IF al.pc \in {"agf", "split"} THEN Taken(al.rec, al.n) ELSE {}

\* Type invariant of the module's variables.
TypeOK ==
  /\ bno \subseteq Extent
  /\ cnt \subseteq Extent
  /\ agf \in [freeblks : Int, longest : Nat, btreeblks : Int]
  /\ held \subseteq Area
  /\ tree \subseteq Area
  /\ queue \subseteq Area
  /\ reserve \in Extent \cup {NoRun}
  /\ hooked \in BOOLEAN
  /\ op \in [pc : OpPC, run : Extent \cup {NoRun}]
  /\ sub \in [pc : SubPC, run : Extent \cup {NoRun}]
  /\ al \in [pc : AlPC, rec : Extent \cup {NoRun}, n : Nat, freed : SUBSET Area]
  /\ astray \in BOOLEAN

\* Between any two edits, of an allocation too, no two records of the by-block
\* tree overlap and no block it offers as free belongs to a caller, to a tree
\* node, to the merged-away nodes, to the split reserve, or is on its way to
\* any of them.  Claimed until a call goes astray.
NoDoubleUse ==
  ~astray =>
    /\ \A e, f \in bno : e # f => Run(e) \cap Run(f) = {}
    /\ Cover(bno) \cap (held \cup tree \cup queue \cup al.freed \cup Run(reserve) \cup AlPending) = {}
    /\ held \cap (tree \cup queue \cup al.freed \cup Run(reserve) \cup AlPending) = {}
    /\ tree \cap (queue \cup al.freed \cup Run(reserve) \cup AlPending) = {}
    /\ (queue \cup al.freed) \cap (Run(reserve) \cup AlPending) = {}

\* Between any two edits the two trees differ by the records in flight and no
\* others: the one that an allocation has cut in the by-size tree first, and
\* the runs that a free has put into the by-block tree first.  So an
\* allocation nested in a free, in a release or in the drain cuts a record
\* that both trees have, and a crash leaves them apart by those records only.
\* Claimed until a call goes astray.
TreesAgree ==
  ~astray => bno = CntBefore \cup BnoOnly /\ CntBefore \cap BnoOnly = {}

\* Between two calls no block is lost: every block of the AG is free, held by
\* a caller or a tree node, agf_freeblks, agf_longest and agf_btreeblks are
\* exact, and the sum that syncSuperblockCounts publishes as sb_fdblocks is
\* the AG less what callers hold, whatever splits and merges happened.
CountersExact ==
  op.pc = "idle" =>
    /\ Area = Cover(cnt) \cup held \cup tree
    /\ agf.freeblks = Cardinality(Cover(cnt))
    /\ agf.longest = Longest(cnt)
    /\ agf.btreeblks = Cardinality(tree)
    /\ agf.freeblks + agf.btreeblks = (Last - First + 1) - Cardinality(held)

\* The promise to the callers of allocBlocks and freeBlocks.
Promise == INSTANCE Allocator WITH FirstBlk <- First, LastBlk <- Last

\* The free-space manager implements the allocator its callers rely on.
ImplementsAllocator == Promise!Spec

\* Every allocBlocks and freeBlocks call returns or goes astray: the cascade
\* free, split, allocate, delete, merge, free is cut by the merge gate of the
\* drain.
CallsReturn == op.pc # "idle" ~> op.pc = "idle" \/ astray
=============================================================================
