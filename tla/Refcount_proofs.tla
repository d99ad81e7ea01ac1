--------------------------- MODULE Refcount_proofs ---------------------------
(***************************************************************************)
(* Proofs about Refcount, for every group, number of owners and size of    *)
(* the root block.  What the two operations do to the records is the       *)
(* subject of RefcountRecords_proofs; here it is set against the owners.   *)
(***************************************************************************)
EXTENDS Refcount, RefcountRecords_proofs

\* The end of the blocks that records may cover.
Limit == LastBlk + 1

\* Neither half is inductive alone.  Which blocks a release frees is decided by
\* the records, and the records are exact only if they are well formed: in a
\* list that is not, a block may be covered twice.
IInv ==
  /\ RecordsSound
  /\ WellFormed(recs, Limit)
  /\ FreedByLastOwner

LEMMA RunBounds ==
  ASSUME NEW s \in Blocks, NEW n \in 1 .. LastBlk - FirstBlk + 1, Run(s, n) \subseteq Blocks
  PROVE  /\ Limit \in Nat /\ s \in Nat /\ n \in Nat \ {0} /\ s + n <= Limit
         /\ \A b \in Int : b \in Run(s, n) <=> InRange(b, s, s + n)
         /\ \A b \in Blocks : b \in Int
<1>1. s \in Nat /\ n \in Nat \ {0} /\ Limit \in Nat
  BY BoundsAssumption DEF Blocks, Limit
<1>2. s + n - 1 \in Run(s, n)
  BY <1>1 DEF Run
<1>3. s + n - 1 <= LastBlk
  BY <1>2 DEF Blocks
<1>4. QED
  BY <1>1, <1>3, BoundsAssumption DEF Run, InRange, Blocks, Limit

LEMMA InitHolds ==
  Init => IInv
<1> SUFFICES ASSUME Init PROVE IInv
  OBVIOUS
<1> USE DEF Init
<1>1. WellFormed(recs, Limit)
  BY DEF WellFormed, Sorted, CanonicalRecs
<1>2. TypeOK
  BY BoundsAssumption DEF TypeOK, CanonicalRecs
<1>3. RecordsMatchOwners
  BY DEF RecordsMatchOwners, CountOf, Range
<1>4. FreedByLastOwner
  BY DEF FreedByLastOwner
<1>5. QED
  BY <1>1, <1>2, <1>3, <1>4 DEF IInv, RecordsSound

LEMMA AllocRunStep ==
  ASSUME IInv, NEW s \in Blocks, NEW n \in 1 .. LastBlk - FirstBlk + 1, AllocRun(s, n)
  PROVE  IInv'
<1> USE DEF IInv, RecordsSound, TypeOK
<1>1. /\ \A b \in Run(s, n) : b \in Blocks /\ owners[b] = 0
      /\ owners' = [b \in Blocks |-> IF b \in Run(s, n) THEN owners[b] + 1 ELSE owners[b]]
      /\ free' = free \ Run(s, n) /\ recs' = recs
  BY DEF AllocRun, FreedByLastOwner, Own
<1>2. TypeOK'
  BY <1>1, BoundsAssumption
<1>3. RecordsMatchOwners'
  BY <1>1 DEF RecordsMatchOwners
<1>4. FreedByLastOwner'
  BY <1>1 DEF FreedByLastOwner
<1>5. WellFormed(recs, Limit)'
  BY <1>1 DEF Limit
<1>6. QED
  BY <1>2, <1>3, <1>4, <1>5

LEMMA RefcountShareExtentStep ==
  ASSUME IInv, NEW s \in Blocks, NEW n \in 1 .. LastBlk - FirstBlk + 1, RefcountShareExtent(s, n)
  PROVE  IInv'
<1> USE DEF IInv, RecordsSound, TypeOK
<1> DEFINE out == RefcIncrRange(recs, s, n)
<1>1. /\ Run(s, n) \subseteq Blocks /\ \A b \in Run(s, n) : owners[b] \in 1 .. MaxOwners - 1
      /\ owners' = [b \in Blocks |-> IF b \in Run(s, n) THEN owners[b] + 1 ELSE owners[b]]
      /\ recs' = out /\ Len(out) <= RefcMaxRecs /\ free' = free
  BY DEF RefcountShareExtent, RefcountWriteRecs, Own
<1>2. /\ Limit \in Nat /\ s \in Nat /\ n \in Nat \ {0} /\ s + n <= Limit
      /\ \A b \in Int : b \in Run(s, n) <=> InRange(b, s, s + n)
      /\ \A b \in Blocks : b \in Int
  BY <1>1, RunBounds
<1>3. /\ WellFormed(out, Limit)
      /\ \A b \in Int : CountOf(out, b) = IF InRange(b, s, s + n)
                                          THEN IF CountOf(recs, b) = 0 THEN 2 ELSE CountOf(recs, b) + 1
                                          ELSE CountOf(recs, b)
  BY <1>2, IncrementsRange
<1> HIDE DEF out
<1>4. TypeOK'
  <2>1. owners' \in [Blocks -> 0 .. MaxOwners]
    BY <1>1, BoundsAssumption
  <2>2. CanonicalRecs(recs')
    BY <1>1, <1>3 DEF WellFormed
  <2>3. QED
    BY <1>1, <2>1, <2>2
<1>5. RecordsMatchOwners'
  <2> SUFFICES ASSUME NEW b \in Blocks
               PROVE  CountOf(recs', b) = IF owners'[b] >= 2 THEN owners'[b] ELSE 0
    BY DEF RecordsMatchOwners
  <2>1. CountOf(recs, b) = IF owners[b] >= 2 THEN owners[b] ELSE 0
    BY DEF RecordsMatchOwners
  <2>2. owners[b] \in Nat /\ owners'[b] = IF b \in Run(s, n) THEN owners[b] + 1 ELSE owners[b]
    BY <1>1
  <2>3. b \in Run(s, n) => owners[b] >= 1
    BY <1>1
  <2>4. CountOf(recs', b) = IF b \in Run(s, n)
                            THEN IF CountOf(recs, b) = 0 THEN 2 ELSE CountOf(recs, b) + 1
                            ELSE CountOf(recs, b)
    BY <1>1, <1>2, <1>3
  <2>5. QED
    BY <2>1, <2>2, <2>3, <2>4
<1>6. FreedByLastOwner'
  <2>1. \A b \in Blocks : owners[b] \in Nat /\ (owners'[b] = 0 <=> owners[b] = 0)
    BY <1>1
  <2>2. QED
    BY <1>1, <2>1 DEF FreedByLastOwner
<1>7. WellFormed(recs, Limit)'
  BY <1>1, <1>3 DEF Limit
<1>8. QED
  BY <1>4, <1>5, <1>6, <1>7

LEMMA RefcountFreeExtentStep ==
  ASSUME IInv, NEW s \in Blocks, NEW n \in 1 .. LastBlk - FirstBlk + 1, RefcountFreeExtent(s, n)
  PROVE  IInv'
<1> USE DEF IInv, RecordsSound, TypeOK
<1> DEFINE dec == RefcDecrRange(recs, s, n)
<1>1. /\ Run(s, n) \subseteq Blocks /\ \A b \in Run(s, n) : owners[b] > 0
      /\ owners' = [b \in Blocks |-> IF b \in Run(s, n) THEN owners[b] + (-1) ELSE owners[b]]
      /\ recs' = dec.out /\ Len(dec.out) <= RefcMaxRecs
      /\ free' = free \cup UNION {Run(r.start, r.count) : r \in dec.free}
  BY DEF RefcountFreeExtent, RefcountWriteRecs, Own
<1>2. /\ Limit \in Nat /\ s \in Nat /\ n \in Nat \ {0} /\ s + n <= Limit
      /\ \A b \in Int : b \in Run(s, n) <=> InRange(b, s, s + n)
      /\ \A b \in Blocks : b \in Int
  BY <1>1, RunBounds
<1>3. /\ WellFormed(dec.out, Limit)
      /\ \A b \in Int : CountOf(dec.out, b) =
                          IF InRange(b, s, s + n)
                          THEN IF CountOf(recs, b) <= 2 THEN 0 ELSE CountOf(recs, b) - 1
                          ELSE CountOf(recs, b)
      /\ Segments(dec.free, Limit)
      /\ \A b \in Int : (\E r \in dec.free : Covers(r, b))
                          <=> InRange(b, s, s + n) /\ CountOf(recs, b) = 0
  BY <1>2, DecrementsRange
<1> HIDE DEF dec
<1>4. \A b \in Blocks : /\ CountOf(recs, b) = IF owners[b] >= 2 THEN owners[b] ELSE 0
                        /\ owners[b] \in 0 .. MaxOwners
                        /\ owners'[b] = IF b \in Run(s, n) THEN owners[b] - 1 ELSE owners[b]
                        /\ b \in Run(s, n) => owners[b] >= 1
  BY <1>1 DEF RecordsMatchOwners
<1>5. free' = free \cup {b \in Run(s, n) : owners[b] = 1}
  <2>1. \A r \in dec.free : r.start \in Nat /\ r.count \in Nat
    BY <1>3, RecordShape DEF Segments
  <2>2. \A b : b \in UNION {Run(r.start, r.count) : r \in dec.free}
                 <=> b \in Int /\ \E r \in dec.free : Covers(r, b)
    BY <2>1 DEF Run, Covers, RecEnd
  <2>3. \A b \in Int : (\E r \in dec.free : Covers(r, b)) <=> b \in Run(s, n) /\ owners[b] = 1
    BY <1>1, <1>2, <1>3, <1>4, BoundsAssumption
  <2>4. \A b : b \in Run(s, n) => b \in Int
    BY <1>1, <1>2
  <2>5. QED
    BY <1>1, <2>2, <2>3, <2>4
<1>6. TypeOK'
  <2>1. owners' \in [Blocks -> 0 .. MaxOwners]
    BY <1>1, <1>4, BoundsAssumption
  <2>2. CanonicalRecs(recs')
    BY <1>1, <1>3 DEF WellFormed
  <2>3. QED
    BY <1>1, <1>5, <2>1, <2>2
<1>7. RecordsMatchOwners'
  <2> SUFFICES ASSUME NEW b \in Blocks
               PROVE  CountOf(recs', b) = IF owners'[b] >= 2 THEN owners'[b] ELSE 0
    BY DEF RecordsMatchOwners
  <2>1. CountOf(recs', b) = IF b \in Run(s, n)
                            THEN IF CountOf(recs, b) <= 2 THEN 0 ELSE CountOf(recs, b) - 1
                            ELSE CountOf(recs, b)
    BY <1>1, <1>2, <1>3
  <2>2. QED
    BY <1>4, <2>1, BoundsAssumption
<1>8. FreedByLastOwner'
  BY <1>1, <1>4, <1>5, BoundsAssumption DEF FreedByLastOwner
<1>9. WellFormed(recs, Limit)'
  BY <1>1, <1>3 DEF Limit
<1>10. QED
  BY <1>6, <1>7, <1>8, <1>9

LEMMA StepHolds ==
  IInv /\ [Next]_vars => IInv'
<1> SUFFICES ASSUME IInv, [Next]_vars PROVE IInv'
  OBVIOUS
<1>1. ASSUME NEW s \in Blocks, NEW n \in 1 .. LastBlk - FirstBlk + 1, AllocRun(s, n)
      PROVE  IInv'
  BY <1>1, AllocRunStep
<1>2. ASSUME NEW s \in Blocks, NEW n \in 1 .. LastBlk - FirstBlk + 1, RefcountShareExtent(s, n)
      PROVE  IInv'
  BY <1>2, RefcountShareExtentStep
<1>3. ASSUME NEW s \in Blocks, NEW n \in 1 .. LastBlk - FirstBlk + 1, RefcountFreeExtent(s, n)
      PROVE  IInv'
  BY <1>3, RefcountFreeExtentStep
<1>4. CASE UNCHANGED vars
  BY <1>4 DEF vars, IInv, RecordsSound, TypeOK, RecordsMatchOwners, FreedByLastOwner, Limit
<1>5. QED
  BY <1>1, <1>2, <1>3, <1>4 DEF Next

LEMMA Inductive ==
  Spec => []IInv
BY InitHolds, StepHolds, PTL DEF Spec

\* However shares and releases of refcountShareExtent and refcountFreeExtent
\* overlap, split and join, the records stay sorted, disjoint and fully joined
\* within the root block, and give every block exactly its number of owners.
THEOREM RecordsHold ==
  Spec => []RecordsSound
<1>1. IInv => RecordsSound
  BY DEF IInv
<1>2. QED
  BY <1>1, Inductive, PTL

\* refcountFreeExtent returns a block to the free-space trees exactly when its
\* last owner lets go of it.
THEOREM FreedHolds ==
  Spec => []FreedByLastOwner
<1>1. IInv => FreedByLastOwner
  BY DEF IInv
<1>2. QED
  BY <1>1, Inductive, PTL
=============================================================================
