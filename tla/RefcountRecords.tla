--------------------------- MODULE RefcountRecords ---------------------------
(***************************************************************************)
(* The record arithmetic of the per-AG reference-count B-tree              *)
(* (reflink.go).  The tree is a single root block, so its contents are one *)
(* list of records [start, count, refcount], AG-relative, sorted by start. *)
(* A block that no record covers is owned by at most one inode; a covered  *)
(* block is shared by `refcount' inodes.                                   *)
(*                                                                         *)
(* These are pure operators; Refcount runs them as a state machine, and    *)
(* FileBody uses them for the files of a file system.                      *)
(***************************************************************************)
EXTENDS Integers, Sequences, FiniteSets, Functions

Rec(s, n, c) == [start |-> s, count |-> n, refcount |-> c]

RecEnd(r) == r.start + r.count

\* The records in the order of their starts, which differ.
ByStart(R) ==
  [k \in 1 .. Cardinality(R) |->
     CHOOSE r \in R : Cardinality({q \in R : q.start < r.start}) = k - 1]

\* Mutant: records are coalesced without comparing their reference counts.
BadRefcCoalesce(out, r) ==
  IF out # <<>> /\ RecEnd(out[Len(out)]) = r.start
  THEN [out EXCEPT ![Len(out)].count = @ + r.count]
  ELSE Append(out, r)

\* A record joins the last one if it goes on where that one ends.
RefcCoalesce(out, r) ==
  IF /\ out # <<>>
     /\ RecEnd(out[Len(out)]) = r.start
     /\ out[Len(out)].refcount = r.refcount
  THEN [out EXCEPT ![Len(out)].count = @ + r.count]
  ELSE Append(out, r)

\* The output after each of the sorted records.
RefcCoalesced(sorted) ==
  LET out[k \in 0 .. Len(sorted)] == IF k = 0 THEN <<>> ELSE RefcCoalesce(out[k - 1], sorted[k])
  IN  out

\* Drop what is not shared, sort, and join neighbours with the same count.
RefcMerge(R) ==
  LET sorted == ByStart({r \in R : r.count > 0 /\ r.refcount >= 2})
  IN  RefcCoalesced(sorted)[Len(sorted)]

Hit(recs, s, e) == {r \in Range(recs) : RecEnd(r) > s /\ r.start < e}

\* The parts of the records that lie outside [s, e).
RefcOutside(recs, s, e) ==
  (Range(recs) \ Hit(recs, s, e))
    \cup {Rec(r.start, s - r.start, r.refcount) :
            r \in {q \in Hit(recs, s, e) : q.start < s}}
    \cup {Rec(e, RecEnd(r) - e, r.refcount) :
            r \in {q \in Hit(recs, s, e) : RecEnd(q) > e}}

\* The parts of the records that lie inside [s, e).
RefcClipped(recs, s, e) ==
  LET Lo(r) == IF r.start > s THEN r.start ELSE s
      Hi(r) == IF RecEnd(r) < e THEN RecEnd(r) ELSE e
  IN  {Rec(Lo(r), Hi(r) - Lo(r), r.refcount) : r \in Hit(recs, s, e)}

\* What is left between sorted segments of [s, e), before each and at the end.
RefcGaps(segs, s, e) ==
  LET Pos(k)  == IF k = 1 THEN s ELSE RecEnd(segs[k - 1])
      Upto(k) == IF k = Len(segs) + 1 THEN e ELSE segs[k].start
  IN  {Rec(Pos(k), Upto(k) - Pos(k), 0) : k \in {j \in 1 .. Len(segs) + 1 : Pos(j) < Upto(j)}}

\* A tiling of [s, e): the covered segments with their counts and the gaps
\* between them with count 0 (an implicit single owner).
RefcInside(recs, s, e) ==
  LET segs == RefcClipped(recs, s, e)
  IN  segs \cup RefcGaps(ByStart(segs), s, e)

RefcIncrRange(recs, s, n) ==
  RefcMerge(RefcOutside(recs, s, s + n)
    \cup {[r EXCEPT !.refcount = IF @ = 0 THEN 2 ELSE @ + 1] :
            r \in RefcInside(recs, s, s + n)})

\* Mutant: a block that two inodes share is freed by the first release.
BadRefcDecrRange(recs, s, n) ==
  LET inside == RefcInside(recs, s, s + n)
  IN  [out  |-> RefcMerge(RefcOutside(recs, s, s + n)
                  \cup {[r EXCEPT !.refcount = @ - 1] :
                          r \in {q \in inside : q.refcount > 2}}),
       free |-> {r \in inside : r.refcount <= 2}]

\* The records after a release, and the ranges that nobody owns any more.
RefcDecrRange(recs, s, n) ==
  LET inside == RefcInside(recs, s, s + n)
  IN  [out  |-> RefcMerge(RefcOutside(recs, s, s + n)
                  \cup {[r EXCEPT !.refcount = @ - 1] :
                          r \in {q \in inside : q.refcount # 0}}),
       free |-> {r \in inside : r.refcount = 0}]

-----------------------------------------------------------------------------
\* The reference: the count of a single block, 0 where no record covers it.
CountOf(recs, b) ==
  LET cover == {r \in Range(recs) : b \in r.start .. RecEnd(r) - 1}
  IN  IF cover = {} THEN 0 ELSE (CHOOSE r \in cover : TRUE).refcount

\* Sorted, disjoint, shared by two or more, and no two records that could be
\* joined.
CanonicalRecs(recs) ==
  /\ \A i \in DOMAIN recs : recs[i].count > 0 /\ recs[i].refcount >= 2
  /\ \A i \in 1 .. Len(recs) - 1 :
       \/ RecEnd(recs[i]) < recs[i + 1].start
       \/ /\ RecEnd(recs[i]) = recs[i + 1].start
          /\ recs[i].refcount # recs[i + 1].refcount
=============================================================================
