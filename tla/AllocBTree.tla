---------------------------- MODULE AllocBTree ----------------------------
(***************************************************************************)
(* The two free-space B+trees of one allocation group, block by block:     *)
(* insert with leaf, node and root splits, delete with borrow, merge and   *)
(* root collapse, the split reserve and its release, the queue of merged   *)
(* blocks and its drain.  A call of allocBlocks or freeBlocks is a         *)
(* function from the AG's state to its next state, composed of one         *)
(* operator per function of the source; an error sets err and every        *)
(* operator passes an erroneous state through.                             *)
(***************************************************************************)
EXTENDS Integers, Sequences, FiniteSets, SequencesExt

CONSTANTS FirstBlk, LastBlk,  \* data area of the AG
          BnoRoot, CntRoot,   \* the two root blocks mkfs lays out
          MaxLeaf,            \* records of a leaf (allocMaxLeaf)
          MaxRun,             \* blocks of one request
          MaxInternal         \* keys of an interior node (allocMaxInternal)

ASSUME LayoutAssumption ==
  /\ FirstBlk \in Nat /\ LastBlk \in Nat /\ FirstBlk <= LastBlk
  /\ BnoRoot \in 1 .. (FirstBlk - 1) /\ CntRoot \in 1 .. (FirstBlk - 1)
  /\ BnoRoot # CntRoot
ASSUME FanoutAssumption == MaxLeaf \in Nat \ {0, 1} /\ MaxInternal \in Nat \ (0 .. 3)

NULL == 0    \* NULLAGBLOCK in a sibling pointer

NoReserve == [next |-> NULL, left |-> 0]

-----------------------------------------------------------------------------
(* Nodes.  A leaf record is <<start, count, NULL>>, an interior entry is    *)
(* <<key start, key count, child>>; the two trees share one layout.         *)

Less(t, a, b) ==
  IF t = "bno" THEN a[1] < b[1]
  ELSE a[2] < b[2] \/ (a[2] = b[2] /\ a[1] < b[1])

MaxRecs(node) == IF node.lvl = 0 THEN MaxLeaf ELSE MaxInternal

MinRecs(node) == MaxRecs(node) \div 2

\* firstKey: the slot of an empty block is zeroed.
FirstKey(node) == IF node.recs = <<>> THEN <<0, 0>> ELSE node.recs[1]

KeyFor(node, b) == <<FirstKey(node)[1], FirstKey(node)[2], b>>

\* Where r goes among sorted records: before the first one above it.
InsertPos(t, recs, r) ==
  LET i == SelectInSeq(recs, LAMBDA x : Less(t, r, x))
  IN  IF i = 0 THEN Len(recs) + 1 ELSE i

\* The child whose key is the last one not above r, else the first child.
ChildIdx(t, node, r) ==
  LET i == InsertPos(t, node.recs, r) IN IF i = 1 THEN 1 ELSE i - 1

-----------------------------------------------------------------------------
(* State of the AG and of the package's globals *)

Err(s) == [s EXCEPT !.err = TRUE]

Put(s, b, node) == [s EXCEPT !.disk[b] = node]

SetRoot(s, t, root, level) == [s EXCEPT ![t] = [root |-> root, level |-> level]]

\* Faulty variants, named Bad..., stand before the definition they alter; each
\* is a mistake that one of the properties below must notice.
BadSetLeft(s, b, left) == s

\* The left pointer of the block that follows a split or a merged one.
SetLeft(s, b, left) == IF b = NULL THEN s ELSE [s EXCEPT !.disk[b].left = left]

BumpBtreeBlocks(s, delta) == [s EXCEPT !.btreeblks = @ + delta]

-----------------------------------------------------------------------------
(* Searches *)

RECURSIVE CntFindBlock(_, _, _, _)

BadCntFindBlock(s, b, need, seen) ==
  LET node == s.disk[b]
      i    == SelectInSeq(node.recs, LAMBDA x : x[2] > need)
      next == IF node.lvl # 0 THEN Last(node.recs)[3] ELSE node.right
  IN  CASE b = NULL \/ b \in seen    -> [leaf |-> NULL, idx |-> 0]
        [] node.lvl = 0 /\ i # 0     -> [leaf |-> b, idx |-> i]
        [] OTHER                     -> CntFindBlock(s, next, need, seen \cup {b})

\* Down the last pointers, then along the right siblings, to the first record
\* of at least need blocks; NULL when there is none or a block repeats.
CntFindBlock(s, b, need, seen) ==
  LET node == s.disk[b]
      i    == SelectInSeq(node.recs, LAMBDA x : x[2] >= need)
      next == IF node.lvl # 0 THEN Last(node.recs)[3] ELSE node.right
  IN  CASE b = NULL \/ b \in seen    -> [leaf |-> NULL, idx |-> 0]
        [] node.lvl = 0 /\ i # 0     -> [leaf |-> b, idx |-> i]
        [] OTHER                     -> CntFindBlock(s, next, need, seen \cup {b})

RECURSIVE LeftmostLeaf(_, _, _)

LeftmostLeaf(s, b, level) ==
  IF level <= 1 THEN b ELSE LeftmostLeaf(s, s.disk[b].recs[1][3], level - 1)

RECURSIVE LeafChain(_, _, _)

\* The leaves from b rightwards; a cycle shows as a repeated last block.
LeafChain(s, b, seen) ==
  CASE b = NULL   -> <<>>
    [] b \in seen -> <<b>>
    [] OTHER      -> <<b>> \o LeafChain(s, s.disk[b].right, seen \cup {b})

Leaves(s, t) == LeafChain(s, LeftmostLeaf(s, s[t].root, s[t].level), {})

\* agf_longest from the leaf chain of the by-size tree.
RecomputeLongest(s) ==
  LET chain  == Leaves(s, "cnt")
      counts == UNION {{r[2] : r \in ToSet(s.disk[b].recs)} : b \in ToSet(chain)}
  IN  IF ~IsInjective(chain) THEN Err(s)
      ELSE [s EXCEPT !.longest = Max(counts \cup {0})]

RECURSIVE DescendPath(_, _, _, _)

\* The blocks from b down to a leaf, with the child taken in each.
DescendPath(s, t, b, r) ==
  LET node == s.disk[b]
      ci   == ChildIdx(t, node, r)
  IN  IF node.lvl = 0 THEN <<[rel |-> b, ci |-> 0]>>
      ELSE <<[rel |-> b, ci |-> ci]>> \o DescendPath(s, t, node.recs[ci][3], r)

RECURSIVE SearchLeaf(_, _, _)

\* The pointer path from b to a leaf, found without looking at keys.
SearchLeaf(s, b, leaf) ==
  LET node   == s.disk[b]
      hit(x) == x[3] = leaf \/ SearchLeaf(s, x[3], leaf) # <<>>
      ci     == IF node.lvl = 0 THEN 0 ELSE SelectInSeq(node.recs, hit)
      child  == node.recs[ci][3]
  IN  IF ci = 0 THEN <<>>
      ELSE <<[rel |-> b, ci |-> ci]>>
             \o (IF child = leaf THEN <<>> ELSE SearchLeaf(s, child, leaf))

RECURSIVE RefreshKeys(_, _, _)

\* Bottom-up, each separator on the path becomes its child's first key; ci is
\* clamped because the child may have merged away.
RefreshKeys(s, path, i) ==
  LET parent == s.disk[path[i].rel]
      n      == Len(parent.recs)
      ci     == IF path[i].ci > n THEN n ELSE path[i].ci
      child  == parent.recs[ci][3]
  IN  CASE i = 0 -> s
        [] n = 0 -> RefreshKeys(s, path, i - 1)
        [] OTHER -> RefreshKeys([s EXCEPT !.disk[path[i].rel].recs[ci] =
                                   KeyFor(s.disk[child], child)], path, i - 1)

-----------------------------------------------------------------------------
(* Delete: borrow from a sibling, else merge with one, then collapse the    *)
(* root while it has a single child.                                        *)

BadMerge(s, leftRel, rightRel) ==
  LET L == s.disk[leftRel]
      R == s.disk[rightRel]
      m == Put(s, leftRel, [L EXCEPT !.recs = L.recs \o R.recs, !.right = R.right])
  IN  SetLeft(m, R.right, leftRel)

\* merge: left absorbs right, the chain skips right, right is freed.
Merge(s, leftRel, rightRel) ==
  LET L == s.disk[leftRel]
      R == s.disk[rightRel]
      m == Put(s, leftRel, [L EXCEPT !.recs = L.recs \o R.recs, !.right = R.right])
  IN  [SetLeft(m, R.right, leftRel) EXCEPT !.freed = Append(@, rightRel)]

CanSpare(node) == Len(node.recs) - 1 >= MinRecs(node)

RECURSIVE FixupFrom(_, _, _, _, _)

\* node is the edited copy of block path[i].rel.
FixupFrom(s, path, i, node, suppress) ==
  LET rel      == path[i].rel
      w        == Put(s, rel, node)
      parent   == s.disk[path[i - 1].rel]
      ci       == path[i - 1].ci
      rightRel == parent.recs[ci + 1][3]
      leftRel  == parent.recs[ci - 1][3]
      R        == s.disk[rightRel]
      L        == s.disk[leftRel]
      hasRight == ci < Len(parent.recs)
      borrowRight ==
        LET R2 == [R EXCEPT !.recs = Tail(@)]
        IN  Put(Put(Put(s, rightRel, R2), rel, [node EXCEPT !.recs = Append(@, R.recs[1])]),
                path[i - 1].rel, [parent EXCEPT !.recs[ci + 1] = KeyFor(R2, rightRel)])
      borrowLeft ==
        LET N2 == [node EXCEPT !.recs = <<Last(L.recs)>> \o @]
        IN  Put(Put(Put(s, leftRel, [L EXCEPT !.recs = Front(@)]), rel, N2),
                path[i - 1].rel, [parent EXCEPT !.recs[ci] = KeyFor(N2, rel)])
      without(j) == [parent EXCEPT !.recs = RemoveAt(@, j)]
  IN  CASE i = 1 \/ Len(node.recs) >= MinRecs(node) \/ suppress -> w
        [] hasRight /\ CanSpare(R)                  -> borrowRight
        [] ci > 1 /\ CanSpare(L)                    -> borrowLeft
        [] hasRight -> FixupFrom(Merge(w, rel, rightRel), path, i - 1, without(ci + 1), suppress)
        [] OTHER    -> FixupFrom(Merge(w, leftRel, rel), path, i - 1, without(ci), suppress)

RECURSIVE CollapseRoot(_, _, _, _)

CollapseRoot(s, t, root, level) ==
  LET node  == s.disk[root]
      child == node.recs[1][3]
      alone == [s.disk[child] EXCEPT !.left = NULL, !.right = NULL]
  IN  IF node.lvl = 0 \/ Len(node.recs) # 1 THEN SetRoot(s, t, root, level)
      ELSE CollapseRoot([Put(s, child, alone) EXCEPT !.freed = Append(@, root)],
                        t, child, level - 1)

\* d is s after a delete that left n blocks freed before it.
CountFreed(d, n) == BumpBtreeBlocks(d, n - Len(d.freed))

\* Record idx leaves the leaf at the end of path.
DeleteAt(s, t, path, leaf, idx) ==
  LET suppress == s.draining \/ s.longest < 2
      fixed    == FixupFrom(s, path, Len(path), [leaf EXCEPT !.recs = RemoveAt(@, idx)], suppress)
      d        == CollapseRoot(RefreshKeys(fixed, path, Len(path) - 1), t, s[t].root, s[t].level)
  IN  IF idx = 0 THEN Err(s) ELSE CountFreed(d, Len(s.freed))

DeleteOnPath(s, t, r, path) ==
  LET leaf == s.disk[Last(path).rel]
      same(x) == x[1] = r[1] /\ (t = "bno" \/ x[2] = r[2])
  IN  DeleteAt(s, t, path, leaf, SelectInSeq(leaf.recs, same))

\* allocDeleteRecordCollect: the emptied blocks are added to s.freed.
DeleteCollect(s, t, r) ==
  IF s.err THEN s ELSE DeleteOnPath(s, t, r, DescendPath(s, t, s[t].root, r))

-----------------------------------------------------------------------------
(* allocBlocks, without the drain of its outermost call *)

\* The shrunk record at i moves left past the records now above it.
CntBubbleLeft(recs, i) ==
  LET pos == Max({0} \cup {j \in 1 .. (i - 1) : ~Less("cnt", recs[i], recs[j])}) + 1
  IN  InsertAt(RemoveAt(recs, i), pos, recs[i])

\* The moved record at i moves right past the records that start below it.
BnoBubbleRight(recs, i) ==
  LET pos == Min({Len(recs) + 1} \cup {j \in (i + 1) .. Len(recs) : recs[i][1] <= recs[j][1]}) - 1
  IN  InsertAt(RemoveAt(recs, i), pos, recs[i])

BadCntRefreshLeafKey(s, leaf) ==
  LET path == SearchLeaf(s, s.cnt.root, leaf)
  IN  IF path = <<>> THEN Err(s) ELSE RefreshKeys(s, path, Len(path))

CntRefreshLeafKey(s, leaf) ==
  LET path == SearchLeaf(s, s.cnt.root, leaf)
  IN  CASE s.cnt.level <= 1 -> s
        [] path = <<>>      -> Err(s)
        [] OTHER            -> RefreshKeys(s, path, Len(path))

BnoUpdateRecord(s, oldStart, r) ==
  LET leafRel == Last(DescendPath(s, "bno", s.bno.root, <<oldStart, 0>>)).rel
      recs    == s.disk[leafRel].recs
      i       == SelectInSeq(recs, LAMBDA x : x[1] = oldStart)
  IN  CASE s.err -> s
        [] i = 0 -> Err(s)
        [] OTHER -> [s EXCEPT !.disk[leafRel].recs = BnoBubbleRight(ReplaceAt(recs, i, r), i)]

\* allocFreeMergedBlocks queues them; reached only when both deletes succeed.
FreeMergedBlocks(s) ==
  [s EXCEPT !.queue = IF s.err THEN @ ELSE @ \o s.freed, !.freed = <<>>]

ConsumeWhole(s, rec) ==
  LET delete(u, t) == DeleteCollect(u, t, IF t = "bno" THEN <<rec[1], 0>> ELSE rec)
  IN  FreeMergedBlocks(FoldLeft(delete, s, <<"cnt", "bno">>))

\* The remainder of a record after its first n blocks.
Remainder(rec, n) == <<rec[1] + n, rec[2] - n, NULL>>

ConsumeFront(s, hit, rec, n) ==
  LET rest == Remainder(rec, n)
      recs == ReplaceAt(s.disk[hit.leaf].recs, hit.idx, rest)
      c    == [s EXCEPT !.disk[hit.leaf].recs = CntBubbleLeft(recs, hit.idx)]
  IN  BnoUpdateRecord(CntRefreshLeafKey(c, hit.leaf), rec[1], rest)

\* The counters of the AGF, once both trees are updated.
Taken(s, start, n) ==
  IF s.err THEN s ELSE RecomputeLongest([s EXCEPT !.freeblks = @ - n, !.blk = start])

AllocFrom(s, hit, n) ==
  LET rec == s.disk[hit.leaf].recs[hit.idx]
  IN  IF hit.leaf = NULL THEN Err(s)
      ELSE Taken(IF rec[2] = n THEN ConsumeWhole(s, rec) ELSE ConsumeFront(s, hit, rec, n),
                 rec[1], n)

AllocBody(s, n) == AllocFrom(s, CntFindBlock(s, s.cnt.root, n, {}), n)

-----------------------------------------------------------------------------
(* Insert: leaf, node and root splits.  s.split is the separator a split    *)
(* hands to the parent, with the new right block as its child.              *)

NoSplit == <<>>

BadMetaAllocBlock(s) ==
  CASE s.hook = "reserve" /\ s.res.left <= 1 -> Err(s)
    [] s.hook = "reserve" -> [s EXCEPT !.blk = s.res.next,
                                       !.res = [next |-> @.next + 1, left |-> @.left - 1]]
    [] s.hook = "drain" /\ s.queue # <<>> -> [s EXCEPT !.blk = Head(s.queue), !.queue = Tail(@)]
    [] OTHER -> AllocBody([s EXCEPT !.carved = TRUE], 1)

\* allocMetaAllocBlock: the block of a new node, by the hook installed.
MetaAllocBlock(s) ==
  CASE s.hook = "reserve" /\ s.res.left = 0 -> Err(s)
    [] s.hook = "reserve" -> [s EXCEPT !.blk = s.res.next,
                                       !.res = [next |-> @.next + 1, left |-> @.left - 1]]
    [] s.hook = "drain" /\ s.queue # <<>> -> [s EXCEPT !.blk = Head(s.queue), !.queue = Tail(@)]
    [] OTHER -> AllocBody([s EXCEPT !.carved = TRUE], 1)

\* The lower half of recs stays in b, the upper half goes to the new block.
SplitAt(s, b, node, recs) ==
  LET half  == Len(recs) \div 2
      left  == [node EXCEPT !.recs = SubSeq(recs, 1, half), !.right = s.blk]
      right == [node EXCEPT !.recs = SubSeq(recs, half + 1, Len(recs)), !.left = b]
      w     == SetLeft(Put(Put(s, b, left), s.blk, right), node.right, s.blk)
  IN  IF s.err THEN s
      ELSE [BumpBtreeBlocks(w, 1) EXCEPT !.split = KeyFor(right, s.blk)]

\* The leaf is read again, since carving the block may have changed it.
SplitLeafAt(s, t, b, r) ==
  LET leaf == s.disk[b]
  IN  SplitAt(s, b, leaf, InsertAt(leaf.recs, InsertPos(t, leaf.recs, r), r))

SplitLeaf(s, t, b, r) == SplitLeafAt(MetaAllocBlock(s), t, b, r)

\* node is the copy read on the way down.
SplitNode(s, b, node, recs) == SplitAt(MetaAllocBlock(s), b, node, recs)

RECURSIVE InsertInto(_, _, _, _)

InsertIntoLeaf(s, t, b, node, r) ==
  IF Len(node.recs) < MaxLeaf
  THEN [s EXCEPT !.disk[b].recs = InsertAt(@, InsertPos(t, node.recs, r), r), !.split = NoSplit]
  ELSE SplitLeaf(s, t, b, r)

\* k is the state after the insert below child ci of node, the copy of b.
AbsorbSplit(k, b, node, ci) ==
  LET recs == InsertAt(node.recs, ci + 1, k.split)
  IN  CASE k.err \/ k.split = NoSplit -> k
        [] Len(node.recs) < MaxInternal ->
             [Put(k, b, [node EXCEPT !.recs = recs]) EXCEPT !.split = NoSplit]
        [] OTHER -> SplitNode(k, b, node, recs)

InsertInto(s, t, b, r) ==
  LET node == s.disk[b]
      ci   == ChildIdx(t, node, r)
  IN  IF node.lvl = 0 THEN InsertIntoLeaf(s, t, b, node, r)
      ELSE AbsorbSplit(InsertInto(s, t, node.recs[ci][3], r), b, node, ci)

\* A root over the old one and the block split off it.
NewRoot(m, t, root, level, split) ==
  LET old == m.disk[root]
      new == [lvl |-> old.lvl + 1, recs |-> <<KeyFor(old, root), split>>,
              left |-> NULL, right |-> NULL]
  IN  IF m.err THEN m
      ELSE [SetRoot(BumpBtreeBlocks(Put(m, m.blk, new), 1), t, m.blk, level + 1)
              EXCEPT !.split = NoSplit]

SplitRoot(k, t, root, level) ==
  IF k.err \/ k.split = NoSplit THEN k
  ELSE NewRoot(MetaAllocBlock(k), t, root, level, k.split)

\* root and level are the caller's copies of the AGF fields.
InsertRecord(s, t, root, level, r) == SplitRoot(InsertInto(s, t, root, r), t, root, level)

-----------------------------------------------------------------------------
(* freeBlocks, without the drain of its outermost call *)

\* One new node per level plus a new root.
ReserveSize(level) == level + 1

RECURSIVE FreeBody(_, _, _)

\* a is s after the attempt to carve a reserve of n blocks; where that fails
\* the insert runs without one.
Reserved(a, n) ==
  IF a.err THEN [a EXCEPT !.err = FALSE]
  ELSE [a EXCEPT !.hook = "reserve", !.resDepth = 1, !.res = [next |-> a.blk, left |-> n]]

\* Nested and draining inserts run without a reserve of their own.
Reserve(s, n) == IF s.resDepth > 0 \/ s.draining THEN s ELSE Reserved(AllocBody(s, n), n)

\* k is the state after the insert: the unused tail of the reserve s took is
\* freed under the hook of s.
ReturnReserve(s, k) ==
  LET back == [k EXCEPT !.hook = s.hook, !.err = FALSE]
      f    == IF k.res.left = 0 THEN back ELSE FreeBody(back, k.res.next, k.res.left)
  IN  IF k.resDepth = s.resDepth THEN k
      ELSE [f EXCEPT !.err = @ \/ k.err, !.resDepth = 0, !.res = NoReserve]

InsertWithReserve(s, t, r) ==
  IF s.err THEN s
  ELSE ReturnReserve(s, InsertRecord(Reserve(s, ReserveSize(s[t].level)),
                                     t, s[t].root, s[t].level, r))

Given(s, n) == IF s.err THEN s ELSE RecomputeLongest([s EXCEPT !.freeblks = @ + n])

FreeBody(s, start, n) ==
  LET insert(u, t) == InsertWithReserve(u, t, <<start, n, NULL>>)
  IN  Given(FoldLeft(insert, s, <<"bno", "cnt">>), n)

-----------------------------------------------------------------------------
(* The outermost call drains the queue, then the scratch fields are reset.  *)

RECURSIVE DrainLoop(_)

DrainLoop(s) ==
  IF s.err \/ s.queue = <<>> THEN s
  ELSE DrainLoop(FreeBody([s EXCEPT !.queue = Tail(@)], Head(s.queue), 1))

DrainMergedFrees(s) ==
  IF s.err THEN s
  ELSE [DrainLoop([s EXCEPT !.draining = TRUE, !.hook = "drain"])
          EXCEPT !.draining = FALSE, !.hook = "carve"]

RECURSIVE Reach(_, _)

\* The blocks of a tree, by child pointers.
Reach(s, b) ==
  {b} \cup (IF s.disk[b].lvl = 0 THEN {}
            ELSE UNION {Reach(s, x[3]) : x \in ToSet(s.disk[b].recs)})

TreeBlocks(s, t) == Reach(s, s[t].root)

Blank == [lvl |-> 0, recs |-> <<>>, left |-> NULL, right |-> NULL]

\* Contents of blocks outside the trees are dropped: a block is written whole
\* before it is linked again.
Settle(s) ==
  LET live == TreeBlocks(s, "bno") \cup TreeBlocks(s, "cnt")
  IN  [s EXCEPT !.disk = [b \in DOMAIN s.disk |-> IF b \in live THEN s.disk[b] ELSE Blank],
                !.blk = NULL, !.split = NoSplit, !.freed = <<>>]

\* mkfs: one free extent, a single leaf in each tree.
Mkfs ==
  LET all  == <<FirstBlk, LastBlk - FirstBlk + 1, NULL>>
      leaf == [Blank EXCEPT !.recs = <<all>>]
  IN  [disk |-> [b \in 1 .. LastBlk |-> IF b \in {BnoRoot, CntRoot} THEN leaf ELSE Blank],
       bno |-> [root |-> BnoRoot, level |-> 1], cnt |-> [root |-> CntRoot, level |-> 1],
       freeblks |-> all[2], longest |-> all[2], btreeblks |-> 0,
       queue |-> <<>>, hook |-> "carve", res |-> NoReserve, resDepth |-> 0,
       draining |-> FALSE, carved |-> FALSE, err |-> FALSE, blk |-> NULL, split |-> NoSplit, freed |-> <<>>]

-----------------------------------------------------------------------------
VARIABLES st, held
vars == <<st, held>>

Run(start, n) == start .. (start + n - 1)

Taking(a, n) ==
  /\ st' = Settle(DrainMergedFrees(a))
  /\ held' = held \cup (IF st'.err THEN {} ELSE Run(a.blk, n))

BadAllocBlocks(n) ==
  /\ ~st.err
  /\ CntFindBlock(st, st.cnt.root, n, {}).leaf # NULL
  /\ st' = Settle(DrainMergedFrees(AllocBody(st, n)))
  /\ held' = held \cup (IF st'.err THEN {} ELSE Run(AllocBody(st, n).blk, n + 1))

AllocBlocks(n) ==
  /\ ~st.err
  /\ CntFindBlock(st, st.cnt.root, n, {}).leaf # NULL
  /\ Taking(AllocBody(st, n), n)

FreeBlocks(start, n) ==
  /\ ~st.err
  /\ Run(start, n) \subseteq held
  /\ st' = Settle(DrainMergedFrees(FreeBody(st, start, n)))
  /\ held' = held \ Run(start, n)

Init == st = Mkfs /\ held = {}

Next == \E n \in 1 .. MaxRun :
          AllocBlocks(n) \/ \E b \in FirstBlk .. LastBlk : FreeBlocks(b, n)

Spec == Init /\ [][Next]_vars

-----------------------------------------------------------------------------
(* What the trees say *)

Trees == {"bno", "cnt"}

Records(t) ==
  LET chain == Leaves(st, t) IN FlattenSeq([i \in 1 .. Len(chain) |-> st.disk[chain[i]].recs])

Extents(t) == ToSet(Records(t))

FreeArea == UNION {Run(r[1], r[2]) : r \in Extents("bno")}

AllTreeBlocks == TreeBlocks(st, "bno") \cup TreeBlocks(st, "cnt")

Sorted(t) ==
  LET recs == Records(t) IN \A i \in 1 .. (Len(recs) - 1) : Less(t, recs[i], recs[i + 1])

\* The search by key ends in the leaf that holds r.
FoundByKey(t, r) == r \in ToSet(st.disk[Last(DescendPath(st, t, st[t].root, r)).rel].recs)

NoEmptyLeaf(t) == \A b \in TreeBlocks(st, t) \ {st[t].root} : st.disk[b].recs # <<>>

\* Both trees are search trees and no node was carved out of a tree that was
\* being rewritten.  The invariants below are about calls made in such a
\* state; the runs named in the README show how calls leave it.
Searchable ==
  /\ ~st.carved /\ ~st.err
  /\ \A t \in Trees : Sorted(t) /\ NoEmptyLeaf(t) /\ \A r \in Extents(t) : FoundByKey(t, r)

\* Less than that: calls are followed until one carves or fails.
Uncarved == ~st.carved /\ ~st.err

RECURSIVE LeavesUnder(_)

\* The leaves below b, by child pointers.
LeavesUnder(b) ==
  IF st.disk[b].lvl = 0 THEN <<b>>
  ELSE FlattenSeq([i \in 1 .. Len(st.disk[b].recs) |-> LeavesUnder(st.disk[b].recs[i][3])])

-----------------------------------------------------------------------------
(* Properties.  Each one is about states reached by calls that started in a *)
(* Searchable state; a call that carves a node mid-rewrite is exempt.       *)

\* Nodes hold at most as many records as fit in a block, children are one
\* level below their parent, and the call's scratch fields are reset.
TypeOK ==
  /\ held \subseteq FirstBlk .. LastBlk
  /\ \A b \in DOMAIN st.disk :
       LET node == st.disk[b]
       IN  /\ Len(node.recs) <= MaxRecs(node)
           /\ {node.left, node.right} \subseteq {NULL} \cup DOMAIN st.disk
           /\ \A x \in ToSet(node.recs) :
                IF node.lvl = 0 THEN x[3] = NULL ELSE st.disk[x[3]].lvl = node.lvl - 1
  /\ st.hook = "carve" /\ ~st.draining /\ st.resDepth = 0

\* A call that found its extent, or that frees a held run, returns no error:
\* no record is missing where a descent expects it, no reserve runs out.
CallsSucceed == st.carved \/ ~st.err

\* After every call the two trees list the same free extents, once each.
TreesAgree ==
  \/ st.carved
  \/ /\ Extents("bno") = Extents("cnt")
     /\ \A t \in Trees : IsInjective(Records(t))

\* Every block of the area is in exactly one place: a free extent, a caller's
\* hands, or a node of one tree.  Reserve tails, merged-away nodes, collapsed
\* roots and drained blocks are neither lost nor listed while in use.
BlocksAccounted ==
  \/ st.carved
  \/ /\ FreeArea \cap held = {}
     /\ AllTreeBlocks \cap (FreeArea \cup held) = {}
     /\ TreeBlocks(st, "bno") \cap TreeBlocks(st, "cnt") = {}
     /\ (FirstBlk .. LastBlk) \subseteq (FreeArea \cup held \cup AllTreeBlocks)
     /\ st.queue = <<>>

\* agf_freeblks, agf_longest and agf_btreeblks, patched by nested calls that
\* each rewrite the AGF, equal what the trees hold.
CountersExact ==
  \/ st.carved
  \/ /\ st.freeblks = Cardinality(FreeArea)
     /\ st.longest = Max({0} \cup {r[2] : r \in Extents("bno")})
     /\ st.btreeblks = Cardinality(AllTreeBlocks) - 2

\* The sibling chain the longest-extent walk and the size search follow visits
\* the leaves the pointers reach, in the same order and in both directions,
\* and the AGF's level is the height of the tree.
ChainsMatchPointers ==
  \/ st.carved
  \/ \A t \in Trees :
       /\ Leaves(st, t) = LeavesUnder(st[t].root)
       /\ \A b \in ToSet(Leaves(st, t)) :
            st.disk[b].right # NULL => st.disk[st.disk[b].right].left = b
       /\ st[t].level = st.disk[st[t].root].lvl + 1

\* After every call the pair of trees is sound: the same extents in both, each
\* block in one place, exact AGF counters, and leaves chained as the pointers say.
TreesSound == TypeOK /\ TreesAgree /\ BlocksAccounted /\ CountersExact /\ ChainsMatchPointers

\* On search trees a request is refused only when no free extent is long
\* enough, although the size search looks at the rightmost leaf only.
RoomIsFoundWhenSearchable ==
  Searchable => \A n \in 1 .. st.longest : CntFindBlock(st, st.cnt.root, n, {}).leaf # NULL

Promise == INSTANCE Allocator

\* Whatever the trees go through, callers see an allocator: a run handed out
\* was free of other holders, and a freed run leaves its holder's hands.
ImplementsAllocator == Promise!Spec

-----------------------------------------------------------------------------
(* Statements of the source's comments that calls do not keep *)

\* The size search finds an extent of n blocks when there is one.
RoomIsFound ==
  st.carved \/ \A n \in 1 .. st.longest : CntFindBlock(st, st.cnt.root, n, {}).leaf # NULL

\* No call leaves the two trees with different extents.
NeverOutOfStep == Extents("bno") = Extents("cnt")
=============================================================================
