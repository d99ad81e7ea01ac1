------------------------ MODULE RefcountRecords_proofs ------------------------
(***************************************************************************)
(* Proofs about the record arithmetic of the reference-count tree          *)
(* (RefcountRecords), for records and ranges of any size: what refcMerge,  *)
(* refcIncrRange and refcDecrRange do to the count of every single block,  *)
(* and which blocks a release leaves without an owner.                     *)
(***************************************************************************)
EXTENDS RefcountRecords, Induction_proofs

-----------------------------------------------------------------------------
(* Sets of records *)

RecSet == [start : Nat, count : Nat \ {0}, refcount : Nat]

Apart(q, r) == RecEnd(q) <= r.start \/ RecEnd(r) <= q.start

\* Records of blocks below N, no two of which have a block in common.
Segments(K, N) ==
  /\ K \subseteq RecSet
  /\ \A r \in K : RecEnd(r) <= N
  /\ \A q, r \in K : q # r => Apart(q, r)

Covers(r, b) == r.start <= b /\ b < RecEnd(r)

\* A record of K gives block b the count c.
Says(K, b, c) == \E r \in K : Covers(r, b) /\ r.refcount = c

Below(K, r) == {q \in K : q.start < r.start}

\* Records that do not overlap start at different blocks, and are finitely many.
LEMMA SegmentsFinite ==
  ASSUME NEW N \in Nat, NEW K, Segments(K, N)
  PROVE  /\ IsFiniteSet(K) /\ Cardinality(K) \in Nat
         /\ \A q, r \in K : q.start = r.start => q = r
<1>1. \A r \in K : r.start \in Nat /\ r.count \in Nat \ {0} /\ RecEnd(r) <= N
  BY DEF Segments, RecSet
<1>2. \A q, r \in K : q.start = r.start => q = r
  BY <1>1 DEF Segments, Apart, RecEnd
<1> DEFINE f == [r \in K |-> r.start]
<1>3. f \in [K -> 0 .. N]
  BY <1>1 DEF RecEnd
<1>4. f \in Injection(K, 0 .. N)
  BY <1>2, <1>3 DEF Injection, IsInjective
<1>5. IsFiniteSet(0 .. N)
  BY FS_Interval
<1>6. IsFiniteSet(K)
  BY <1>4, <1>5, FS_Injection, Zenon
<1>7. QED
  BY <1>2, <1>6, FS_CardinalityType

LEMMA SegmentsSubset ==
  ASSUME NEW N, NEW K, Segments(K, N), NEW L \in SUBSET K
  PROVE  Segments(L, N)
BY DEF Segments

\* One of the records starts last.
LEMMA LastStart ==
  ASSUME NEW N \in Nat, NEW K, Segments(K, N), K # {}
  PROVE  \E m \in K : \A r \in K : r.start <= m.start
<1>1. \A r \in K : r.start \in Nat /\ r.start <= N
  BY DEF Segments, RecSet, RecEnd
<1> DEFINE T == {N - r.start : r \in K}
<1>2. T \subseteq Nat /\ T # {}
  BY <1>1
<1>3. PICK t \in T : \A u \in T : t <= u
  BY <1>2, NatMin
<1>4. PICK m \in K : t = N - m.start
  OBVIOUS
<1>5. ASSUME NEW r \in K PROVE r.start <= m.start
  <2>1. N - m.start <= N - r.start
    BY <1>3, <1>4
  <2>2. QED
    BY <1>1, <2>1
<1>6. QED
  BY <1>5

\* For every k there is a record with k records before it.
LEMMA Ranks ==
  ASSUME NEW N \in Nat
  PROVE  \A K : Segments(K, N) =>
           \A k \in 1 .. Cardinality(K) : \E r \in K : Cardinality(Below(K, r)) = k - 1
<1> DEFINE P(K, n) == Segments(K, N) /\ Cardinality(K) = n =>
                        \A k \in 1 .. n : \E r \in K : Cardinality(Below(K, r)) = k - 1
           S == {n \in Nat : \A K : P(K, n)}
<1>1. 0 \in S
  OBVIOUS
<1>2. ASSUME NEW n \in Nat, n \in S PROVE n + 1 \in S
  <2> SUFFICES ASSUME NEW K, Segments(K, N), Cardinality(K) = n + 1, NEW k \in 1 .. n + 1
               PROVE  \E r \in K : Cardinality(Below(K, r)) = k - 1
    OBVIOUS
  <2>1. IsFiniteSet(K) /\ \A q, r \in K : q.start = r.start => q = r
    BY SegmentsFinite
  <2>2. K # {}
    BY <2>1, FS_EmptySet
  <2>3. PICK m \in K : \A r \in K : r.start <= m.start
    BY <2>2, LastStart
  <2> DEFINE L == K \ {m}
  <2>4. Segments(L, N) /\ Cardinality(L) = n
    <3>1. Cardinality(L) = Cardinality(K) - 1
      BY <2>1, FS_RemoveElement
    <3>2. Segments(L, N)
      BY DEF Segments
    <3>3. QED
      BY <3>1, <3>2
  <2>5. \A r \in K : r.start \in Nat
    BY DEF Segments, RecSet
  <2>6. CASE k = n + 1
    <3>1. Below(K, m) = L
      BY <2>1, <2>3, <2>5 DEF Below
    <3>2. Cardinality(Below(K, m)) = k - 1
      BY <2>4, <2>6, <3>1
    <3>3. QED
      BY <3>2
  <2>7. CASE k # n + 1
    <3>0. P(L, n) /\ k \in 1 .. n
      BY <1>2, <2>7
    <3>1. PICK r \in L : Cardinality(Below(L, r)) = k - 1
      BY <2>4, <3>0
    <3>2. Below(K, r) = Below(L, r)
      BY <2>3, <2>5 DEF Below
    <3>3. QED
      BY <3>1, <3>2
  <2>8. QED
    BY <2>6, <2>7
<1>3. Nat \subseteq S
  BY <1>1, <1>2, NatSetInduction, Zenon
<1>4. QED
  <2> SUFFICES ASSUME NEW K, Segments(K, N)
               PROVE  \A k \in 1 .. Cardinality(K) : \E r \in K : Cardinality(Below(K, r)) = k - 1
    OBVIOUS
  <2>1. Cardinality(K) \in S
    BY <1>3, SegmentsFinite
  <2>2. QED
    BY <2>1

-----------------------------------------------------------------------------
(* ByStart sorts *)

Sorted(s, N) ==
  /\ s \in Seq(RecSet)
  /\ \A i \in 1 .. Len(s) : RecEnd(s[i]) <= N
  /\ \A i, j \in 1 .. Len(s) : i < j => RecEnd(s[i]) <= s[j].start

\* Of two records the one that starts later has more records before it.
LEMMA RanksDiffer ==
  ASSUME NEW N \in Nat, NEW K, Segments(K, N), NEW q \in K, NEW r \in K, q.start < r.start
  PROVE  Cardinality(Below(K, q)) < Cardinality(Below(K, r))
<1>1. IsFiniteSet(K)
  BY SegmentsFinite
<1>2. \A p \in K : p.start \in Nat
  BY DEF Segments, RecSet
<1>3. Below(K, q) \in SUBSET Below(K, r) /\ q \in Below(K, r) /\ q \notin Below(K, q)
  BY <1>2 DEF Below
<1>4. IsFiniteSet(Below(K, r)) /\ IsFiniteSet(Below(K, q))
  BY <1>1, FS_Subset DEF Below
<1>5. /\ Cardinality(Below(K, q)) \in Nat /\ Cardinality(Below(K, r)) \in Nat
      /\ Cardinality(Below(K, q)) <= Cardinality(Below(K, r))
      /\ Cardinality(Below(K, q)) # Cardinality(Below(K, r))
  BY <1>3, <1>4, FS_Subset, FS_CardinalityType
<1>6. QED
  BY <1>5

\* ByStart lists exactly the records of a set, in the order of their blocks.
LEMMA ByStartSorts ==
  ASSUME NEW N \in Nat, NEW K, Segments(K, N)
  PROVE  Sorted(ByStart(K), N) /\ Range(ByStart(K)) = K
<1> DEFINE n == Cardinality(K)
           s == ByStart(K)
<1>1. n \in Nat /\ IsFiniteSet(K) /\ \A q, r \in K : q.start = r.start => q = r
  BY SegmentsFinite
<1>2. \A k \in 1 .. n : s[k] \in K /\ Cardinality(Below(K, s[k])) = k - 1
  <2> SUFFICES ASSUME NEW k \in 1 .. n
               PROVE  s[k] \in K /\ Cardinality(Below(K, s[k])) = k - 1
    OBVIOUS
  <2>1. \E r \in K : Cardinality(Below(K, r)) = k - 1
    BY Ranks
  <2>2. s[k] = CHOOSE r \in K : Cardinality(Below(K, r)) = k - 1
    BY DEF ByStart, Below
  <2>3. QED
    BY <2>1, <2>2
<1>3. K \subseteq RecSet
  BY DEF Segments
<1>4. s \in Seq(RecSet) /\ Len(s) = n /\ DOMAIN s = 1 .. n
  <2>1. s \in [1 .. n -> RecSet]
    BY <1>2, <1>3 DEF ByStart
  <2> HIDE DEF s
  <2>2. QED
    BY <1>1, <2>1
<1>5. \A r \in K : r.start \in Nat /\ r.count \in Nat \ {0} /\ RecEnd(r) <= N
  BY <1>3 DEF Segments, RecSet
<1>6. ASSUME NEW i \in 1 .. n, NEW j \in 1 .. n, i < j PROVE RecEnd(s[i]) <= s[j].start
  <2>1. s[i] # s[j]
    BY <1>1, <1>2, <1>6
  <2>2. ~(s[j].start < s[i].start)
    BY <1>1, <1>2, <1>6, RanksDiffer
  <2>3. Apart(s[i], s[j])
    BY <1>2, <2>1 DEF Segments
  <2> HIDE DEF s
  <2>4. QED
    BY <1>2, <1>5, <2>2, <2>3 DEF Apart, RecEnd
<1>7. ASSUME NEW r \in K PROVE r \in Range(s)
  <2> DEFINE k == Cardinality(Below(K, r)) + 1
  <2>1. k \in 1 .. n
    <3>1. IsFiniteSet(K \ {r}) /\ Cardinality(K \ {r}) = n - 1
      BY <1>1, FS_RemoveElement
    <3>2. Below(K, r) \in SUBSET (K \ {r})
      BY <1>5 DEF Below
    <3>3. IsFiniteSet(Below(K, r)) /\ Cardinality(Below(K, r)) <= n - 1
      BY <3>1, <3>2, FS_Subset
    <3>4. Cardinality(Below(K, r)) \in Nat
      BY <3>3, FS_CardinalityType
    <3>5. QED
      BY <1>1, <3>3, <3>4
  <2>2. s[k] \in K /\ Cardinality(Below(K, s[k])) = Cardinality(Below(K, r))
    <3>1. s[k] \in K /\ Cardinality(Below(K, s[k])) = k - 1
      BY <1>2, <2>1
    <3>2. Cardinality(Below(K, r)) \in Nat
      BY <1>1, FS_Subset, FS_CardinalityType DEF Below
    <3>3. QED
      BY <3>1, <3>2
  <2> HIDE DEF k, s
  <2>3. ~(s[k].start < r.start) /\ ~(r.start < s[k].start)
    <3>1. Cardinality(Below(K, r)) \in Nat
      BY <1>1, FS_Subset, FS_CardinalityType DEF Below
    <3>2. QED
      BY <2>2, <3>1, RanksDiffer
  <2>4. s[k] = r
    BY <1>1, <1>5, <2>2, <2>3
  <2>5. QED
    BY <1>4, <2>1, <2>4 DEF Range
<1>8. Range(s) = K
  <2> HIDE DEF s
  <2>1. QED
    BY <1>2, <1>4, <1>7 DEF Range
<1>9. Sorted(s, N)
  <2> HIDE DEF s
  <2>1. QED
    BY <1>2, <1>4, <1>5, <1>6 DEF Sorted
<1>10. QED
  BY <1>8, <1>9

-----------------------------------------------------------------------------
(* RefcMerge *)

\* The outputs of the coalescing loop exist, so that its recursive definition
\* means what it says.
LEMMA CoalescedDef ==
  ASSUME NEW s, Len(s) \in Nat
  PROVE  /\ RefcCoalesced(s)[0] = <<>>
         /\ \A k \in 1 .. Len(s) :
              RefcCoalesced(s)[k] = RefcCoalesce(RefcCoalesced(s)[k - 1], s[k])
<1> DEFINE Step(f, n) == [k \in 0 .. n |-> IF k = 0 THEN <<>> ELSE RefcCoalesce(f[k - 1], s[k])]
           S == {n \in Nat : \E f : f = Step(f, n)}
<1>1. 0 \in S
  <2> DEFINE g == [k \in 0 .. 0 |-> <<>>]
  <2>1. g = Step(g, 0)
    OBVIOUS
  <2> HIDE DEF g
  <2>2. QED
    BY <2>1
<1>2. ASSUME NEW n \in Nat, n \in S PROVE n + 1 \in S
  <2>1. PICK f : f = Step(f, n)
    BY <1>2
  <2> DEFINE g == [k \in 0 .. n + 1 |-> IF k <= n THEN f[k] ELSE RefcCoalesce(f[n], s[n + 1])]
  <2>2. ASSUME NEW k \in 0 .. n + 1
        PROVE  g[k] = IF k = 0 THEN <<>> ELSE RefcCoalesce(g[k - 1], s[k])
    <3>1. CASE k = 0
      BY <2>1, <3>1
    <3>2. CASE k \in 1 .. n
      <4>1. g[k] = f[k] /\ g[k - 1] = f[k - 1]
        BY <3>2
      <4>2. f[k] = RefcCoalesce(f[k - 1], s[k])
        BY <2>1, <3>2
      <4>3. QED
        BY <3>2, <4>1, <4>2
    <3>3. CASE k = n + 1
      <4>1. g[k] = RefcCoalesce(f[n], s[n + 1]) /\ g[k - 1] = f[n]
        BY <3>3
      <4>2. QED
        BY <3>3, <4>1
    <3>4. QED
      BY <3>1, <3>2, <3>3
  <2>3. g = [k \in 0 .. n + 1 |-> g[k]]
    OBVIOUS
  <2> HIDE DEF g
  <2>4. g = Step(g, n + 1)
    BY <2>2, <2>3
  <2>5. QED
    BY <2>4
<1>3. Nat \subseteq S
  BY <1>1, <1>2, NatSetInduction, Zenon
<1>4. \E f : f = Step(f, Len(s))
  BY <1>3
<1> DEFINE o == RefcCoalesced(s)
<1>5. o = CHOOSE f : f = Step(f, Len(s))
  BY DEF RefcCoalesced
<1>6. o = Step(o, Len(s))
  BY <1>4, <1>5, Zenon
<1> HIDE DEF o
<1>7. o[0] = <<>> /\ \A k \in 1 .. Len(s) : o[k] = RefcCoalesce(o[k - 1], s[k])
  <2>1. \A k \in 0 .. Len(s) : o[k] = IF k = 0 THEN <<>> ELSE RefcCoalesce(o[k - 1], s[k])
    BY <1>6
  <2>2. QED
    BY <2>1
<1>8. QED
  BY <1>7 DEF o

\* What refcountWriteRecs may write: sorted, and nothing left to join.
WellFormed(out, N) == Sorted(out, N) /\ CanonicalRecs(out)

LEMMA SaysOf ==
  ASSUME NEW s \in Seq(RecSet), NEW b, NEW c
  PROVE  Says(Range(s), b, c) <=> \E i \in 1 .. Len(s) : Covers(s[i], b) /\ s[i].refcount = c
<1>1. DOMAIN s = 1 .. Len(s)
  OBVIOUS
<1>2. QED
  BY <1>1 DEF Says, Range

LEMMA RecordShape ==
  ASSUME NEW r \in RecSet
  PROVE  /\ r.start \in Nat /\ r.count \in Nat \ {0} /\ r.refcount \in Nat
         /\ r = Rec(r.start, r.count, r.refcount)
BY DEF RecSet, Rec

\* Joining or appending the next record keeps the list well formed, and adds
\* the blocks of that record with its count.
LEMMA CoalesceStep ==
  ASSUME NEW N \in Nat, NEW out, WellFormed(out, N),
         NEW r \in RecSet, r.refcount >= 2, RecEnd(r) <= N,
         out # <<>> => RecEnd(out[Len(out)]) <= r.start
  PROVE  /\ WellFormed(RefcCoalesce(out, r), N)
         /\ RefcCoalesce(out, r) # <<>>
         /\ RecEnd(RefcCoalesce(out, r)[Len(RefcCoalesce(out, r))]) = RecEnd(r)
         /\ \A b \in Int, c \in Nat :
              Says(Range(RefcCoalesce(out, r)), b, c)
                <=> Says(Range(out), b, c) \/ (Covers(r, b) /\ r.refcount = c)
<1> DEFINE o == RefcCoalesce(out, r)
           n == Len(out)
<1>1. /\ r.start \in Nat /\ r.count \in Nat \ {0} /\ r.refcount \in Nat
      /\ RecEnd(r) = r.start + r.count
  BY RecordShape DEF RecEnd
<1>2. /\ out \in Seq(RecSet) /\ n \in Nat
      /\ \A i \in 1 .. n : /\ out[i] \in RecSet /\ out[i].start \in Nat
                           /\ out[i].count \in Nat \ {0} /\ out[i].refcount \in Nat
                           /\ RecEnd(out[i]) = out[i].start + out[i].count
                           /\ RecEnd(out[i]) <= N /\ out[i].refcount >= 2
  <2>1. out \in Seq(RecSet) /\ n \in Nat /\ \A i \in 1 .. n : out[i] \in RecSet
    BY DEF WellFormed, Sorted
  <2>2. \A i \in 1 .. n : RecEnd(out[i]) <= N /\ out[i].refcount >= 2
    BY <2>1 DEF WellFormed, Sorted, CanonicalRecs
  <2>3. QED
    BY <2>1, <2>2, RecordShape DEF RecEnd
<1>3. \A i, j \in 1 .. n : i < j => RecEnd(out[i]) <= out[j].start
  BY DEF WellFormed, Sorted
<1>4. \A i \in 1 .. n - 1 : \/ RecEnd(out[i]) < out[i + 1].start
                            \/ /\ RecEnd(out[i]) = out[i + 1].start
                               /\ out[i].refcount # out[i + 1].refcount
  BY DEF WellFormed, CanonicalRecs
<1>5. out # <<>> => n >= 1 /\ out[Len(out)] = out[n]
  BY <1>2
<1>6. CASE out # <<>> /\ RecEnd(out[Len(out)]) = r.start /\ out[Len(out)].refcount = r.refcount
  <2> DEFINE t == Rec(out[n].start, out[n].count + r.count, r.refcount)
  <2>0. n \in 1 .. n /\ out[Len(out)] = out[n]
    BY <1>2, <1>5, <1>6
  <2>1. o = [out EXCEPT ![n].count = @ + r.count]
    BY <1>6 DEF RefcCoalesce
  <2>2. out[n] = Rec(out[n].start, out[n].count, r.refcount)
    BY <1>2, <1>6, <2>0, RecordShape
  <2>3. [out[n] EXCEPT !.count = @ + r.count] = t
    BY <2>2 DEF Rec
  <2>4. t \in RecSet /\ t.start = out[n].start /\ t.count > 0 /\ t.refcount = r.refcount /\ RecEnd(t) = RecEnd(r)
    BY <1>1, <1>2, <1>6, <2>0 DEF Rec, RecSet, RecEnd
  <2>5. o = [out EXCEPT ![n] = t]
    BY <2>1, <2>3
  <2> HIDE DEF t, o
  <2>6. /\ o \in Seq(RecSet) /\ Len(o) = n
        /\ o[n] = t /\ \A i \in 1 .. n : i # n => o[i] = out[i]
    BY <1>2, <2>0, <2>4, <2>5
  <2>7. Sorted(o, N)
    <3>1. \A i \in 1 .. n : RecEnd(o[i]) <= N
      BY <1>2, <2>4, <2>6
    <3>2. \A i, j \in 1 .. n : i < j => RecEnd(o[i]) <= o[j].start
      BY <1>2, <1>3, <2>4, <2>6
    <3>3. QED
      BY <2>6, <3>1, <3>2 DEF Sorted
  <2>8. CanonicalRecs(o)
    <3>1. \A i \in 1 .. n : o[i].count > 0 /\ o[i].refcount >= 2
      BY <1>2, <2>4, <2>6
    <3>2. ASSUME NEW i \in 1 .. n - 1
          PROVE  \/ RecEnd(o[i]) < o[i + 1].start
                 \/ RecEnd(o[i]) = o[i + 1].start /\ o[i].refcount # o[i + 1].refcount
      <4>1. o[i] = out[i] /\ o[i + 1].start = out[i + 1].start
            /\ o[i + 1].refcount = out[i + 1].refcount
        BY <1>2, <1>6, <2>0, <2>4, <2>6
      <4>2. QED
        BY <1>4, <4>1
    <3>3. DOMAIN o = 1 .. n
      BY <2>6
    <3>4. QED
      BY <2>6, <3>1, <3>2, <3>3 DEF CanonicalRecs
  <2>9. o # <<>> /\ RecEnd(o[Len(o)]) = RecEnd(r)
    BY <2>0, <2>4, <2>6
  <2>10. ASSUME NEW b \in Int, NEW c \in Nat
         PROVE  Says(Range(o), b, c) <=> Says(Range(out), b, c) \/ (Covers(r, b) /\ r.refcount = c)
    <3>1. Covers(t, b) <=> Covers(out[n], b) \/ Covers(r, b)
      BY <1>1, <1>2, <1>6, <2>0, <2>4 DEF Covers
    <3>2. out[n].refcount = r.refcount
      BY <1>6, <2>0
    <3> DEFINE Hits(q) == Covers(q, b) /\ q.refcount = c
    <3>3. Hits(t) <=> Hits(out[n]) \/ Hits(r)
      BY <2>4, <3>1, <3>2
    <3> HIDE DEF Hits
    <3>4. (\E i \in 1 .. n : Hits(o[i])) <=> (\E i \in 1 .. n : Hits(out[i])) \/ Hits(r)
      BY <2>0, <2>6, <3>3
    <3>5. /\ Says(Range(o), b, c) <=> \E i \in 1 .. n : Hits(o[i])
          /\ Says(Range(out), b, c) <=> \E i \in 1 .. n : Hits(out[i])
      <4>1. \A q \in Seq(RecSet) : Says(Range(q), b, c) <=> \E i \in 1 .. Len(q) : Hits(q[i])
        BY SaysOf DEF Hits
      <4>2. QED
        BY <1>2, <2>6, <4>1
    <3>6. Hits(r) <=> Covers(r, b) /\ r.refcount = c
      BY DEF Hits
    <3>7. QED
      BY <3>4, <3>5, <3>6
  <2>11. QED
    BY <2>7, <2>8, <2>9, <2>10 DEF o, WellFormed
<1>7. CASE ~(out # <<>> /\ RecEnd(out[Len(out)]) = r.start /\ out[Len(out)].refcount = r.refcount)
  <2>1. o = Append(out, r)
    BY <1>7 DEF RefcCoalesce
  <2> HIDE DEF o
  <2>2. /\ o \in Seq(RecSet) /\ Len(o) = n + 1 /\ o[n + 1] = r
        /\ \A i \in 1 .. n : o[i] = out[i]
    BY <1>2, <2>1
  <2>3. n >= 1 => /\ RecEnd(out[n]) <= r.start
                  /\ RecEnd(out[n]) # r.start \/ out[n].refcount # r.refcount
    BY <1>2, <1>5, <1>7
  <2>4. \A i \in 1 .. n : RecEnd(out[i]) <= r.start
    <3> TAKE i \in 1 .. n
    <3>1. CASE i = n
      BY <2>3, <3>1
    <3>2. CASE i < n
      <4>1. /\ n \in 1 .. n /\ RecEnd(out[i]) <= out[n].start
            /\ out[n].start <= RecEnd(out[n]) /\ RecEnd(out[n]) <= r.start
        BY <1>2, <1>3, <2>3, <3>2
      <4>2. /\ RecEnd(out[i]) \in Int /\ out[n].start \in Int
            /\ RecEnd(out[n]) \in Int /\ r.start \in Int
        <5>1. out[i] \in RecSet /\ out[n] \in RecSet
          BY <1>2, <4>1
        <5>2. QED
          BY <5>1, RecordShape DEF RecEnd
      <4>3. QED
        BY <4>1, <4>2
    <3>3. QED
      BY <1>2, <3>1, <3>2
  <2>5. Sorted(o, N)
    <3>1. \A i \in 1 .. n + 1 : RecEnd(o[i]) <= N
      BY <1>2, <2>2
    <3>2. ASSUME NEW i \in 1 .. n + 1, NEW j \in 1 .. n + 1, i < j
          PROVE  RecEnd(o[i]) <= o[j].start
      <4>1. i \in 1 .. n /\ o[i] = out[i]
        BY <1>2, <2>2, <3>2
      <4>2. CASE j = n + 1
        BY <2>2, <2>4, <4>1, <4>2
      <4>3. CASE j # n + 1
        <5>1. j \in 1 .. n /\ o[j] = out[j]
          BY <1>2, <2>2, <4>3
        <5>2. QED
          BY <1>3, <3>2, <4>1, <5>1
      <4>4. QED
        BY <4>2, <4>3
    <3>3. QED
      BY <2>2, <3>1, <3>2 DEF Sorted
  <2>6. CanonicalRecs(o)
    <3>1. \A i \in 1 .. n + 1 : o[i].count > 0 /\ o[i].refcount >= 2
      BY <1>1, <1>2, <2>2
    <3>2. ASSUME NEW i \in 1 .. n
          PROVE  \/ RecEnd(o[i]) < o[i + 1].start
                 \/ RecEnd(o[i]) = o[i + 1].start /\ o[i].refcount # o[i + 1].refcount
      <4>1. CASE i = n
        <5>1. o[i] = out[n] /\ o[i + 1] = r /\ n >= 1
          BY <1>2, <2>2, <4>1
        <5>2. RecEnd(out[n]) \in Int /\ r.start \in Int
          BY <1>1, <1>2, <4>1
        <5>3. QED
          BY <2>3, <5>1, <5>2
      <4>2. CASE i < n
        <5>1. o[i] = out[i] /\ o[i + 1] = out[i + 1] /\ i \in 1 .. n - 1
          BY <1>2, <2>2, <4>2
        <5>2. QED
          BY <1>4, <5>1
      <4>3. QED
        BY <1>2, <4>1, <4>2
    <3>3. DOMAIN o = 1 .. n + 1
      BY <2>2
    <3>4. Len(o) - 1 = n
      BY <1>2, <2>2
    <3> HIDE DEF n
    <3>5. QED
      BY <3>1, <3>2, <3>3, <3>4 DEF CanonicalRecs
  <2>7. o # <<>> /\ RecEnd(o[Len(o)]) = RecEnd(r)
    BY <1>2, <2>2
  <2>8. ASSUME NEW b \in Int, NEW c \in Nat
        PROVE  Says(Range(o), b, c) <=> Says(Range(out), b, c) \/ (Covers(r, b) /\ r.refcount = c)
    <3> DEFINE Hits(q) == Covers(q, b) /\ q.refcount = c
    <3> HIDE DEF Hits
    <3>1. (\E i \in 1 .. n + 1 : Hits(o[i])) <=> (\E i \in 1 .. n : Hits(out[i])) \/ Hits(r)
      <4>1. \A i \in 1 .. n + 1 : i \in 1 .. n \/ i = n + 1
        BY <1>2
      <4>2. n + 1 \in 1 .. n + 1 /\ \A i \in 1 .. n : i \in 1 .. n + 1
        BY <1>2
      <4>3. o[n + 1] = r /\ \A i \in 1 .. n : o[i] = out[i]
        BY <2>2
      <4>4. QED
        BY <4>1, <4>2, <4>3, Zenon
    <3>2. /\ Says(Range(o), b, c) <=> \E i \in 1 .. n + 1 : Hits(o[i])
          /\ Says(Range(out), b, c) <=> \E i \in 1 .. n : Hits(out[i])
      <4>1. \A q \in Seq(RecSet) : Says(Range(q), b, c) <=> \E i \in 1 .. Len(q) : Hits(q[i])
        BY SaysOf DEF Hits
      <4>2. QED
        BY <1>2, <2>2, <4>1
    <3>3. Hits(r) <=> Covers(r, b) /\ r.refcount = c
      BY DEF Hits
    <3>4. QED
      BY <3>1, <3>2, <3>3
  <2>9. QED
    BY <2>5, <2>6, <2>7, <2>8 DEF o, WellFormed
<1>8. QED
  BY <1>6, <1>7

Shared(R) == {r \in R : r.count > 0 /\ r.refcount >= 2}

\* refcMerge, given records that do not overlap where they are shared, writes a
\* well-formed list that gives every block the count those records give it.
LEMMA Merges ==
  ASSUME NEW N \in Nat, NEW R, Segments(Shared(R), N)
  PROVE  /\ WellFormed(RefcMerge(R), N)
         /\ \A b \in Int, c \in Nat : Says(Range(RefcMerge(R)), b, c) <=> Says(Shared(R), b, c)
<1> DEFINE K == Shared(R)
           s == ByStart(K)
           o == RefcCoalesced(s)
<1>1. Sorted(s, N) /\ Range(s) = K
  BY ByStartSorts
<1>2. RefcMerge(R) = o[Len(s)]
  BY DEF RefcMerge, Shared
<1>3. /\ s \in Seq(RecSet) /\ Len(s) \in Nat
      /\ \A i \in 1 .. Len(s) : s[i] \in RecSet /\ s[i].refcount >= 2 /\ RecEnd(s[i]) <= N
  <2>1. \A r \in Range(s) : r.refcount >= 2
    BY <1>1 DEF Shared
  <2> HIDE DEF s
  <2>2. s \in Seq(RecSet) /\ \A i \in 1 .. Len(s) : RecEnd(s[i]) <= N
    BY <1>1 DEF Sorted
  <2>3. \A i \in 1 .. Len(s) : s[i] \in Range(s)
    BY <2>2 DEF Range
  <2>4. QED
    BY <2>1, <2>2, <2>3
<1> HIDE DEF s
<1>4. o[0] = <<>> /\ \A k \in 1 .. Len(s) : o[k] = RefcCoalesce(o[k - 1], s[k])
  BY <1>3, CoalescedDef
<1> HIDE DEF o, K
<1> DEFINE Hits(i, b, c) == Covers(s[i], b) /\ s[i].refcount = c
           Good(k) ==
             /\ WellFormed(o[k], N)
             /\ k > 0 => o[k] # <<>> /\ RecEnd(o[k][Len(o[k])]) = RecEnd(s[k])
             /\ k = 0 => o[k] = <<>>
             /\ \A b \in Int, c \in Nat : Says(Range(o[k]), b, c) <=> \E i \in 1 .. k : Hits(i, b, c)
           S == {k \in Nat : k <= Len(s) => Good(k)}
<1>5. 0 \in S
  <2>1. WellFormed(<<>>, N)
    BY DEF WellFormed, Sorted, CanonicalRecs
  <2>2. \A b \in Int, c \in Nat : ~Says(Range(<<>>), b, c)
    BY DEF Says, Range
  <2>3. QED
    BY <1>4, <2>1, <2>2
<1>6. ASSUME NEW k \in Nat, k \in S PROVE k + 1 \in S
  <2> SUFFICES ASSUME k + 1 <= Len(s) PROVE Good(k + 1)
    OBVIOUS
  <2>1. Good(k)
    BY <1>3, <1>6
  <2>2. o[k + 1] = RefcCoalesce(o[k], s[k + 1])
    BY <1>3, <1>4
  <2>3. s[k + 1] \in RecSet /\ s[k + 1].refcount >= 2 /\ RecEnd(s[k + 1]) <= N
    BY <1>3
  <2>4. o[k] # <<>> => RecEnd(o[k][Len(o[k])]) <= s[k + 1].start
    <3>1. o[k] # <<>> => k > 0 /\ k \in 1 .. Len(s) /\ k + 1 \in 1 .. Len(s) /\ k < k + 1
      BY <1>3, <2>1
    <3>2. \A i, j \in 1 .. Len(s) : i < j => RecEnd(s[i]) <= s[j].start
      BY <1>1 DEF Sorted
    <3>3. k > 0 => RecEnd(o[k][Len(o[k])]) = RecEnd(s[k])
      BY <2>1
    <3>4. QED
      BY <3>1, <3>2, <3>3
  <2>5. /\ WellFormed(o[k + 1], N) /\ o[k + 1] # <<>>
        /\ RecEnd(o[k + 1][Len(o[k + 1])]) = RecEnd(s[k + 1])
        /\ \A b \in Int, c \in Nat :
             Says(Range(o[k + 1]), b, c) <=> Says(Range(o[k]), b, c) \/ Hits(k + 1, b, c)
    <3>1. WellFormed(o[k], N)
      BY <2>1
    <3> DEFINE p == o[k]
               r == s[k + 1]
               t == RefcCoalesce(p, r)
    <3>2. /\ WellFormed(p, N) /\ r \in RecSet /\ r.refcount >= 2 /\ RecEnd(r) <= N
          /\ p # <<>> => RecEnd(p[Len(p)]) <= r.start
      BY <2>3, <2>4, <3>1
    <3> HIDE DEF p, r
    <3>3. /\ WellFormed(t, N) /\ t # <<>> /\ RecEnd(t[Len(t)]) = RecEnd(r)
          /\ \A b \in Int, c \in Nat :
               Says(Range(t), b, c) <=> Says(Range(p), b, c) \/ (Covers(r, b) /\ r.refcount = c)
      BY <3>2, CoalesceStep
    <3>4. t = o[k + 1]
      BY <2>2 DEF p, r
    <3> HIDE DEF t
    <3>5. QED
      BY <3>3, <3>4, Zenon DEF p, r
  <2>6. \A b \in Int, c \in Nat :
          Says(Range(o[k]), b, c) <=> \E i \in 1 .. k : Hits(i, b, c)
    BY <2>1
  <2> HIDE DEF Hits
  <2>7. \A b \in Int, c \in Nat :
          (\E i \in 1 .. k + 1 : Hits(i, b, c)) <=> (\E i \in 1 .. k : Hits(i, b, c)) \/ Hits(k + 1, b, c)
    OBVIOUS
  <2>8. \A b \in Int, c \in Nat :
          Says(Range(o[k + 1]), b, c) <=> \E i \in 1 .. k + 1 : Hits(i, b, c)
    BY <2>5, <2>6, <2>7
  <2>9. k + 1 > 0 /\ k + 1 # 0
    OBVIOUS
  <2>10. QED
    BY <2>5, <2>8, <2>9
<1>7. Nat \subseteq S
  <2> HIDE DEF S
  <2>1. QED
    BY <1>5, <1>6, NatSetInduction
<1>8. Good(Len(s))
  <2>1. Len(s) \in S
    BY <1>3, <1>7, Zenon
  <2> HIDE DEF Good
  <2>2. QED
    BY <1>3, <2>1
<1>9. \A b \in Int, c \in Nat : Says(Range(s), b, c) <=> \E i \in 1 .. Len(s) : Hits(i, b, c)
  BY <1>3, SaysOf
<1>10. /\ WellFormed(o[Len(s)], N)
       /\ \A b \in Int, c \in Nat : Says(Range(o[Len(s)]), b, c) <=> Says(K, b, c)
  <2>1. /\ WellFormed(o[Len(s)], N)
        /\ \A b \in Int, c \in Nat :
             Says(Range(o[Len(s)]), b, c) <=> \E i \in 1 .. Len(s) : Hits(i, b, c)
    BY <1>8
  <2> HIDE DEF Hits
  <2>2. QED
    BY <1>1, <1>9, <2>1, Zenon
<1>11. QED
  BY <1>2, <1>10, Zenon DEF K

-----------------------------------------------------------------------------
(* The parts of the records inside and outside a range *)

LEMMA SortedSegments ==
  ASSUME NEW N \in Nat, NEW s, Sorted(s, N)
  PROVE  Segments(Range(s), N)
<1>1. s \in Seq(RecSet) /\ DOMAIN s = 1 .. Len(s) /\ \A i \in 1 .. Len(s) : s[i] \in RecSet
  BY DEF Sorted
<1>2. Range(s) \subseteq RecSet /\ \A r \in Range(s) : RecEnd(r) <= N
  BY <1>1 DEF Range, Sorted
<1>3. ASSUME NEW q \in Range(s), NEW r \in Range(s), q # r PROVE Apart(q, r)
  <2>1. PICK i \in 1 .. Len(s) : q = s[i]
    BY <1>1 DEF Range
  <2>2. PICK j \in 1 .. Len(s) : r = s[j]
    BY <1>1 DEF Range
  <2>3. i < j \/ j < i
    BY <1>3, <2>1, <2>2
  <2>4. QED
    BY <2>1, <2>2, <2>3 DEF Sorted, Apart
<1>4. QED
  BY <1>2, <1>3 DEF Segments

\* In a well-formed list CountOf is the count of the one record that covers the
\* block, if there is one.
LEMMA CountOfSays ==
  ASSUME NEW N \in Nat, NEW R, WellFormed(R, N), NEW b \in Int
  PROVE  /\ CountOf(R, b) \in Nat /\ CountOf(R, b) # 1
         /\ \A c \in Nat \ {0} : Says(Range(R), b, c) <=> CountOf(R, b) = c
         /\ CountOf(R, b) = 0 <=> \A r \in Range(R) : ~Covers(r, b)
<1>1. Segments(Range(R), N)
  BY SortedSegments DEF WellFormed
<1>2. \A r \in Range(R) : /\ r.start \in Nat /\ r.count \in Nat \ {0} /\ r.refcount \in Nat
                          /\ r.refcount >= 2
  <2>1. \A r \in Range(R) : r.refcount >= 2
    BY DEF WellFormed, CanonicalRecs, Range
  <2>2. QED
    BY <1>1, <2>1 DEF Segments, RecSet
<1> DEFINE cover == {r \in Range(R) : b \in r.start .. RecEnd(r) - 1}
<1>3. \A r \in Range(R) : r \in cover <=> Covers(r, b)
  BY <1>2 DEF Covers, RecEnd
<1>4. \A q, r \in cover : q = r
  BY <1>1, <1>2, <1>3 DEF Segments, Apart, Covers, RecEnd
<1>5. CountOf(R, b) = IF cover = {} THEN 0 ELSE (CHOOSE r \in cover : TRUE).refcount
  BY DEF CountOf
<1>6. cover \subseteq Range(R)
  OBVIOUS
<1> HIDE DEF cover
<1>7. CASE cover = {}
  BY <1>3, <1>5, <1>7 DEF Says
<1>8. CASE cover # {}
  <2>1. PICK q \in cover : TRUE
    BY <1>8
  <2>2. (CHOOSE r \in cover : TRUE) = q
    BY <1>4, <2>1
  <2>3. CountOf(R, b) = q.refcount /\ q \in Range(R) /\ Covers(q, b)
    BY <1>3, <1>5, <1>6, <1>8, <2>2
  <2>4. \A r \in Range(R) : Covers(r, b) => r = q
    BY <1>3, <1>4
  <2>5. QED
    BY <1>2, <2>3, <2>4 DEF Says
<1>9. QED
  BY <1>7, <1>8

WellCounted(R) == \A r \in R : r.refcount >= 2

LEMMA WellFormedFacts ==
  ASSUME NEW N \in Nat, NEW R, WellFormed(R, N)
  PROVE  Segments(Range(R), N) /\ WellCounted(Range(R))
<1>1. Segments(Range(R), N)
  BY SortedSegments DEF WellFormed
<1>2. WellCounted(Range(R))
  BY DEF WellFormed, CanonicalRecs, Range, WellCounted
<1>3. QED
  BY <1>1, <1>2

\* p is what [lo, hi) leaves of q.
PartOf(p, q, lo, hi) ==
  /\ p \in RecSet /\ p.refcount = q.refcount
  /\ p.start = (IF q.start > lo THEN q.start ELSE lo)
  /\ RecEnd(p) = (IF RecEnd(q) < hi THEN RecEnd(q) ELSE hi)

\* The parts of different records do not overlap, the part of one is determined.
LEMMA PartsApart ==
  ASSUME NEW N \in Nat, NEW K, Segments(K, N), NEW q \in K, NEW r \in K,
         NEW lo \in Nat, NEW hi \in Nat, NEW lo2 \in Nat, NEW hi2 \in Nat,
         NEW p, NEW t, PartOf(p, q, lo, hi), PartOf(t, r, lo2, hi2)
  PROVE  /\ q # r => Apart(p, t)
         /\ q = r /\ lo = lo2 /\ hi = hi2 => p = t
         /\ RecEnd(p) <= hi /\ lo <= p.start
<1>1. /\ p.start \in Nat /\ p.count \in Nat \ {0} /\ p.refcount \in Nat
      /\ t.start \in Nat /\ t.count \in Nat \ {0} /\ t.refcount \in Nat
      /\ p = Rec(p.start, p.count, p.refcount) /\ t = Rec(t.start, t.count, t.refcount)
  BY RecordShape DEF PartOf
<1>2. /\ q.start \in Nat /\ q.count \in Nat \ {0} /\ r.start \in Nat /\ r.count \in Nat \ {0}
  BY RecordShape DEF Segments
<1>3. q # r => Apart(p, t)
  <2>1. q # r => Apart(q, r)
    BY DEF Segments
  <2>2. QED
    BY <1>1, <1>2, <2>1 DEF Apart, PartOf, RecEnd
<1>4. q = r /\ lo = lo2 /\ hi = hi2 => p = t
  <2>1. q = r /\ lo = lo2 /\ hi = hi2 =>
          p.start = t.start /\ p.count = t.count /\ p.refcount = t.refcount
    BY <1>1, <1>2 DEF PartOf, RecEnd
  <2>2. QED
    BY <1>1, <2>1
<1>5. RecEnd(p) <= hi /\ lo <= p.start
  BY <1>1, <1>2 DEF PartOf, RecEnd
<1>6. QED
  BY <1>3, <1>4, <1>5

LEMMA OutsideParts ==
  ASSUME NEW N \in Nat, NEW R, Segments(Range(R), N),
         NEW s \in Nat, NEW e \in Nat, s < e, e <= N
  PROVE  /\ \A p \in RefcOutside(R, s, e) :
              \E q \in Range(R) : PartOf(p, q, 0, s) \/ PartOf(p, q, e, N)
         /\ \A q \in Range(R) :
              /\ q.start < s  => \E p \in RefcOutside(R, s, e) : PartOf(p, q, 0, s)
              /\ RecEnd(q) > e => \E p \in RefcOutside(R, s, e) : PartOf(p, q, e, N)
<1> DEFINE K == Range(R)
           H == Hit(R, s, e)
<1>1. \A q \in K : /\ q \in RecSet /\ q.start \in Nat /\ q.count \in Nat \ {0} /\ q.refcount \in Nat
                   /\ RecEnd(q) = q.start + q.count /\ RecEnd(q) <= N
  BY RecordShape DEF Segments, RecEnd
<1>2. \A q \in K : q \in H <=> RecEnd(q) > s /\ q.start < e
  BY DEF Hit
<1>3. H \subseteq K
  BY DEF Hit
<1> HIDE DEF K, H
<1>4. RefcOutside(R, s, e) = (K \ H) \cup {Rec(r.start, s - r.start, r.refcount) : r \in {q \in H : q.start < s}}
                                     \cup {Rec(e, RecEnd(r) - e, r.refcount) : r \in {q \in H : RecEnd(q) > e}}
  BY DEF RefcOutside, K, H
<1>5. ASSUME NEW q \in K, q \notin H
      PROVE  (q.start < s => PartOf(q, q, 0, s)) /\ (RecEnd(q) > e => PartOf(q, q, e, N))
             /\ (q.start < s \/ RecEnd(q) > e)
  BY <1>1, <1>2, <1>5 DEF PartOf
<1>6. ASSUME NEW q \in H, q.start < s
      PROVE  PartOf(Rec(q.start, s - q.start, q.refcount), q, 0, s)
  BY <1>1, <1>2, <1>3, <1>6 DEF PartOf, Rec, RecSet, RecEnd
<1>7. ASSUME NEW q \in H, RecEnd(q) > e
      PROVE  PartOf(Rec(e, RecEnd(q) - e, q.refcount), q, e, N)
  <2>1. RecEnd(Rec(e, RecEnd(q) - e, q.refcount)) = RecEnd(q)
    BY <1>1, <1>3 DEF Rec, RecEnd
  <2>2. RecEnd(q) - e \in Nat \ {0} /\ q.start < e /\ RecEnd(q) <= N /\ q.refcount \in Nat
    BY <1>1, <1>2, <1>3, <1>7
  <2>3. QED
    BY <1>1, <1>3, <2>1, <2>2 DEF PartOf, Rec, RecSet
<1>8. ASSUME NEW p \in RefcOutside(R, s, e)
      PROVE  \E q \in K : PartOf(p, q, 0, s) \/ PartOf(p, q, e, N)
  <2>1. CASE p \in K \ H
    BY <1>5, <2>1
  <2>2. CASE p \in {Rec(r.start, s - r.start, r.refcount) : r \in {q \in H : q.start < s}}
    BY <1>3, <1>6, <2>2
  <2>3. CASE p \in {Rec(e, RecEnd(r) - e, r.refcount) : r \in {q \in H : RecEnd(q) > e}}
    BY <1>3, <1>7, <2>3
  <2>4. QED
    BY <1>4, <2>1, <2>2, <2>3
<1>9. ASSUME NEW q \in K, q.start < s
      PROVE  \E p \in RefcOutside(R, s, e) : PartOf(p, q, 0, s)
  <2>1. CASE q \notin H
    BY <1>4, <1>5, <1>9, <2>1
  <2>2. CASE q \in H
    <3> DEFINE p == Rec(q.start, s - q.start, q.refcount)
    <3>1. p \in RefcOutside(R, s, e)
      BY <1>4, <1>9, <2>2
    <3>2. PartOf(p, q, 0, s)
      BY <1>6, <1>9, <2>2
    <3> HIDE DEF p
    <3>3. QED
      BY <3>1, <3>2
  <2>3. QED
    BY <2>1, <2>2
<1>10. ASSUME NEW q \in K, RecEnd(q) > e
       PROVE  \E p \in RefcOutside(R, s, e) : PartOf(p, q, e, N)
  <2>1. CASE q \notin H
    BY <1>4, <1>5, <1>10, <2>1
  <2>2. CASE q \in H
    <3> DEFINE p == Rec(e, RecEnd(q) - e, q.refcount)
    <3>1. p \in RefcOutside(R, s, e)
      BY <1>4, <1>10, <2>2
    <3>2. PartOf(p, q, e, N)
      BY <1>7, <1>10, <2>2
    <3> HIDE DEF p
    <3>3. QED
      BY <3>1, <3>2
  <2>3. QED
    BY <2>1, <2>2
<1>11. QED
  BY <1>8, <1>9, <1>10 DEF K

LEMMA ClippedParts ==
  ASSUME NEW N \in Nat, NEW R, Segments(Range(R), N),
         NEW s \in Nat, NEW e \in Nat, s < e, e <= N
  PROVE  /\ \A p \in RefcClipped(R, s, e) : \E q \in Range(R) : PartOf(p, q, s, e)
         /\ \A q \in Range(R) :
              RecEnd(q) > s /\ q.start < e => \E p \in RefcClipped(R, s, e) : PartOf(p, q, s, e)
<1> DEFINE Lo(r) == IF r.start > s THEN r.start ELSE s
           Hi(r) == IF RecEnd(r) < e THEN RecEnd(r) ELSE e
           P(r)  == Rec(Lo(r), Hi(r) - Lo(r), r.refcount)
<1>1. RefcClipped(R, s, e) = {P(r) : r \in Hit(R, s, e)}
  BY DEF RefcClipped
<1>2. Hit(R, s, e) = {r \in Range(R) : RecEnd(r) > s /\ r.start < e}
  BY DEF Hit
<1>3. ASSUME NEW q \in Range(R), RecEnd(q) > s, q.start < e PROVE PartOf(P(q), q, s, e)
  <2>1. /\ q.start \in Nat /\ q.count \in Nat \ {0} /\ q.refcount \in Nat
        /\ RecEnd(q) = q.start + q.count
    BY RecordShape DEF Segments, RecEnd
  <2>2. Lo(q) \in Nat /\ Hi(q) \in Nat /\ Lo(q) < Hi(q)
    BY <1>3, <2>1
  <2> HIDE DEF Lo, Hi
  <2>3. P(q) \in RecSet /\ P(q).start = Lo(q) /\ RecEnd(P(q)) = Hi(q) /\ P(q).refcount = q.refcount
    BY <2>1, <2>2 DEF Rec, RecSet, RecEnd
  <2> HIDE DEF P
  <2>4. QED
    BY <2>3 DEF PartOf, Lo, Hi
<1> HIDE DEF P
<1>4. QED
  BY <1>1, <1>2, <1>3

InRange(b, s, e) == s <= b /\ b < e

\* The parts outside [s, e) give the other blocks the counts they had.
LEMMA OutsideCounts ==
  ASSUME NEW N \in Nat, NEW R, Segments(Range(R), N), WellCounted(Range(R)),
         NEW s \in Nat, NEW e \in Nat, s < e, e <= N
  PROVE  LET Out == RefcOutside(R, s, e)
         IN  /\ Segments(Out, N) /\ WellCounted(Out)
             /\ \A p \in Out : RecEnd(p) <= s \/ e <= p.start
             /\ \A b \in Int, c \in Nat :
                  Says(Out, b, c) <=> Says(Range(R), b, c) /\ ~InRange(b, s, e)
<1> DEFINE K == Range(R)
           Out == RefcOutside(R, s, e)
<1>1. \A p \in Out : \E q \in K : PartOf(p, q, 0, s) \/ PartOf(p, q, e, N)
  BY OutsideParts
<1>2. \A q \in K : /\ q.start < s  => \E p \in Out : PartOf(p, q, 0, s)
                   /\ RecEnd(q) > e => \E p \in Out : PartOf(p, q, e, N)
  BY OutsideParts
<1> HIDE DEF K, Out
<1>3. \A q \in K : /\ q \in RecSet /\ q.start \in Nat /\ q.count \in Nat \ {0} /\ q.refcount \in Nat
                   /\ q.refcount >= 2 /\ RecEnd(q) = q.start + q.count /\ RecEnd(q) <= N
  BY RecordShape DEF Segments, RecEnd, WellCounted, K
<1>4. ASSUME NEW p \in Out
      PROVE  /\ p \in RecSet /\ p.refcount >= 2 /\ RecEnd(p) <= N
             /\ RecEnd(p) <= s \/ e <= p.start
  <2>1. PICK q \in K : PartOf(p, q, 0, s) \/ PartOf(p, q, e, N)
    BY <1>1
  <2>2. QED
    BY <1>3, <2>1 DEF PartOf
<1>5. ASSUME NEW p \in Out, NEW t \in Out, p # t PROVE Apart(p, t)
  <2>1. PICK q \in K : PartOf(p, q, 0, s) \/ PartOf(p, q, e, N)
    BY <1>1
  <2>2. PICK r \in K : PartOf(t, r, 0, s) \/ PartOf(t, r, e, N)
    BY <1>1
  <2>3. Segments(K, N)
    BY DEF K
  <2>4. CASE PartOf(p, q, 0, s) /\ PartOf(t, r, 0, s)
    BY <1>5, <2>3, <2>4, PartsApart
  <2>5. CASE PartOf(p, q, e, N) /\ PartOf(t, r, e, N)
    BY <1>5, <2>3, <2>5, PartsApart
  <2>6. CASE PartOf(p, q, 0, s) /\ PartOf(t, r, e, N)
    <3>1. RecEnd(p) <= s /\ e <= t.start
      BY <1>3, <2>6 DEF PartOf
    <3>2. p \in RecSet /\ t \in RecSet
      BY <1>4
    <3>3. RecEnd(p) \in Nat /\ t.start \in Nat
      BY <3>2, RecordShape DEF RecEnd
    <3>4. QED
      BY <3>1, <3>3 DEF Apart
  <2>7. CASE PartOf(p, q, e, N) /\ PartOf(t, r, 0, s)
    <3>1. RecEnd(t) <= s /\ e <= p.start
      BY <1>3, <2>7 DEF PartOf
    <3>2. p \in RecSet /\ t \in RecSet
      BY <1>4
    <3>3. RecEnd(t) \in Nat /\ p.start \in Nat
      BY <3>2, RecordShape DEF RecEnd
    <3>4. QED
      BY <3>1, <3>3 DEF Apart
  <2>8. QED
    BY <2>1, <2>2, <2>4, <2>5, <2>6, <2>7
<1>6. ASSUME NEW b \in Int, NEW c \in Nat, Says(Out, b, c)
      PROVE  Says(K, b, c) /\ ~InRange(b, s, e)
  <2>1. PICK p \in Out : Covers(p, b) /\ p.refcount = c
    BY <1>6 DEF Says
  <2>2. PICK q \in K : PartOf(p, q, 0, s) \/ PartOf(p, q, e, N)
    BY <1>1
  <2>3. Covers(q, b) /\ q.refcount = c /\ ~InRange(b, s, e)
    BY <1>3, <2>1, <2>2 DEF PartOf, Covers, InRange
  <2>4. QED
    BY <2>3 DEF Says
<1>7. ASSUME NEW b \in Int, NEW c \in Nat, Says(K, b, c), ~InRange(b, s, e)
      PROVE  Says(Out, b, c)
  <2>1. PICK q \in K : Covers(q, b) /\ q.refcount = c
    BY <1>7 DEF Says
  <2>2. CASE b < s
    <3>1. PICK p \in Out : PartOf(p, q, 0, s)
      BY <1>2, <1>3, <2>1, <2>2 DEF Covers
    <3>2. Covers(p, b) /\ p.refcount = c
      BY <1>3, <2>1, <2>2, <3>1 DEF Covers, PartOf
    <3>3. QED
      BY <3>2 DEF Says
  <2>3. CASE e <= b
    <3>1. PICK p \in Out : PartOf(p, q, e, N)
      BY <1>2, <1>3, <2>1, <2>3 DEF Covers
    <3>2. Covers(p, b) /\ p.refcount = c
      BY <1>3, <2>1, <2>3, <3>1 DEF Covers, PartOf
    <3>3. QED
      BY <3>2 DEF Says
  <2>4. QED
    BY <1>7, <2>2, <2>3 DEF InRange
<1>8. Segments(Out, N) /\ WellCounted(Out)
  BY <1>4, <1>5 DEF Segments, WellCounted
<1>9. QED
  BY <1>4, <1>6, <1>7, <1>8 DEF K, Out

\* The parts inside [s, e) give the blocks of the range the counts they have.
LEMMA ClippedCounts ==
  ASSUME NEW N \in Nat, NEW R, Segments(Range(R), N), WellCounted(Range(R)),
         NEW s \in Nat, NEW e \in Nat, s < e, e <= N
  PROVE  LET C == RefcClipped(R, s, e)
         IN  /\ Segments(C, e) /\ WellCounted(C)
             /\ \A p \in C : s <= p.start
             /\ \A b \in Int, c \in Nat :
                  Says(C, b, c) <=> Says(Range(R), b, c) /\ InRange(b, s, e)
<1> DEFINE K == Range(R)
           C == RefcClipped(R, s, e)
<1>1. \A p \in C : \E q \in K : PartOf(p, q, s, e)
  BY ClippedParts
<1>2. \A q \in K : RecEnd(q) > s /\ q.start < e => \E p \in C : PartOf(p, q, s, e)
  BY ClippedParts
<1> HIDE DEF K, C
<1>3. \A q \in K : /\ q \in RecSet /\ q.start \in Nat /\ q.count \in Nat \ {0} /\ q.refcount \in Nat
                   /\ q.refcount >= 2 /\ RecEnd(q) = q.start + q.count /\ RecEnd(q) <= N
  BY RecordShape DEF Segments, RecEnd, WellCounted, K
<1>4. ASSUME NEW p \in C
      PROVE  p \in RecSet /\ p.refcount >= 2 /\ RecEnd(p) <= e /\ s <= p.start
  <2>1. PICK q \in K : PartOf(p, q, s, e)
    BY <1>1
  <2>2. QED
    BY <1>3, <2>1 DEF PartOf
<1>5. ASSUME NEW p \in C, NEW t \in C, p # t PROVE Apart(p, t)
  <2>1. PICK q \in K : PartOf(p, q, s, e)
    BY <1>1
  <2>2. PICK r \in K : PartOf(t, r, s, e)
    BY <1>1
  <2>3. Segments(K, N)
    BY DEF K
  <2>4. QED
    BY <1>5, <2>1, <2>2, <2>3, PartsApart
<1>6. ASSUME NEW b \in Int, NEW c \in Nat, Says(C, b, c)
      PROVE  Says(K, b, c) /\ InRange(b, s, e)
  <2>1. PICK p \in C : Covers(p, b) /\ p.refcount = c
    BY <1>6 DEF Says
  <2>2. PICK q \in K : PartOf(p, q, s, e)
    BY <1>1
  <2>3. Covers(q, b) /\ q.refcount = c /\ InRange(b, s, e)
    BY <1>3, <2>1, <2>2 DEF PartOf, Covers, InRange
  <2>4. QED
    BY <2>3 DEF Says
<1>7. ASSUME NEW b \in Int, NEW c \in Nat, Says(K, b, c), InRange(b, s, e)
      PROVE  Says(C, b, c)
  <2>1. PICK q \in K : Covers(q, b) /\ q.refcount = c
    BY <1>7 DEF Says
  <2>2. PICK p \in C : PartOf(p, q, s, e)
    BY <1>2, <1>3, <1>7, <2>1 DEF Covers, InRange
  <2>3. Covers(p, b) /\ p.refcount = c
    BY <1>3, <1>7, <2>1, <2>2 DEF Covers, PartOf, InRange
  <2>4. QED
    BY <2>3 DEF Says
<1>8. Segments(C, e) /\ WellCounted(C)
  BY <1>4, <1>5 DEF Segments, WellCounted
<1>9. QED
  BY <1>4, <1>6, <1>7, <1>8 DEF K, C

\* The gaps between sorted segments of [s, e) cover what these leave, once.
LEMMA GapsTile ==
  ASSUME NEW s \in Nat, NEW e \in Nat, s < e,
         NEW segs, Sorted(segs, e), \A i \in 1 .. Len(segs) : s <= segs[i].start
  PROVE  LET G == RefcGaps(segs, s, e)
         IN  /\ Segments(Range(segs) \cup G, e)
             /\ \A p \in G : p.refcount = 0 /\ s <= p.start
             /\ \A b \in Int : (\E p \in G : Covers(p, b))
                                 <=> InRange(b, s, e) /\ \A r \in Range(segs) : ~Covers(r, b)
<1> DEFINE n == Len(segs)
           G == RefcGaps(segs, s, e)
           Pos(k)  == IF k = 1 THEN s ELSE RecEnd(segs[k - 1])
           Upto(k) == IF k = n + 1 THEN e ELSE segs[k].start
           Gap(k)  == Rec(Pos(k), Upto(k) - Pos(k), 0)
<1>1. G = {Gap(k) : k \in {j \in 1 .. n + 1 : Pos(j) < Upto(j)}}
  BY DEF RefcGaps
<1>2. /\ segs \in Seq(RecSet) /\ n \in Nat /\ DOMAIN segs = 1 .. n
      /\ \A i \in 1 .. n : /\ segs[i] \in RecSet /\ segs[i].start \in Nat /\ RecEnd(segs[i]) \in Nat
                           /\ segs[i].start < RecEnd(segs[i]) /\ RecEnd(segs[i]) <= e
                           /\ s <= segs[i].start
      /\ \A i, j \in 1 .. n : i < j => RecEnd(segs[i]) <= segs[j].start
  <2>1. /\ segs \in Seq(RecSet) /\ n \in Nat /\ DOMAIN segs = 1 .. n
        /\ \A i \in 1 .. n : segs[i] \in RecSet
    BY DEF Sorted
  <2>2. \A i \in 1 .. n : segs[i].start \in Nat /\ segs[i].count \in Nat \ {0}
    BY <2>1, RecordShape
  <2>3. QED
    BY <2>1, <2>2 DEF Sorted, RecEnd
<1> HIDE DEF n, G
<1>3. ASSUME NEW k \in 1 .. n + 1
      PROVE  /\ Pos(k) \in Nat /\ Upto(k) \in Nat /\ s <= Pos(k) /\ Upto(k) <= e
             /\ \A i \in 1 .. n : i < k => RecEnd(segs[i]) <= Pos(k)
             /\ \A i \in 1 .. n : k <= i => Upto(k) <= segs[i].start
  <2>1. Pos(k) \in Nat /\ s <= Pos(k)
    <3>1. CASE k = 1
      BY <3>1
    <3>2. CASE k # 1
      <4>1. k - 1 \in 1 .. n /\ Pos(k) = RecEnd(segs[k - 1])
        BY <1>2, <3>2
      <4>2. /\ RecEnd(segs[k - 1]) \in Nat /\ segs[k - 1].start \in Nat
            /\ s <= segs[k - 1].start /\ segs[k - 1].start < RecEnd(segs[k - 1])
        BY <1>2, <4>1
      <4> HIDE DEF Pos
      <4>3. QED
        BY <4>1, <4>2
    <3>3. QED
      BY <3>1, <3>2
  <2>2. Upto(k) \in Nat /\ Upto(k) <= e
    <3>1. CASE k = n + 1
      BY <3>1
    <3>2. CASE k # n + 1
      <4>1. k \in 1 .. n /\ Upto(k) = segs[k].start
        BY <1>2, <3>2
      <4>2. QED
        BY <1>2, <4>1
    <3>3. QED
      BY <3>1, <3>2
  <2>3. ASSUME NEW i \in 1 .. n, i < k PROVE RecEnd(segs[i]) <= Pos(k)
    <3>1. k - 1 \in 1 .. n /\ Pos(k) = RecEnd(segs[k - 1])
      BY <1>2, <2>3
    <3>2. CASE i = k - 1
      BY <1>2, <3>1, <3>2
    <3>3. CASE i < k - 1
      <4>1. RecEnd(segs[i]) <= segs[k - 1].start /\ segs[k - 1].start < RecEnd(segs[k - 1])
        BY <1>2, <3>1, <3>3
      <4>2. RecEnd(segs[i]) \in Nat /\ segs[k - 1].start \in Nat /\ RecEnd(segs[k - 1]) \in Nat
        BY <1>2, <3>1
      <4>3. QED
        BY <3>1, <4>1, <4>2
    <3>4. QED
      BY <1>2, <2>3, <3>2, <3>3
  <2>4. ASSUME NEW i \in 1 .. n, k <= i PROVE Upto(k) <= segs[i].start
    <3>1. k \in 1 .. n /\ Upto(k) = segs[k].start
      BY <1>2, <2>4
    <3>2. CASE i = k
      BY <1>2, <3>1, <3>2
    <3>3. CASE k < i
      <4>1. RecEnd(segs[k]) <= segs[i].start /\ segs[k].start < RecEnd(segs[k])
        BY <1>2, <3>1, <3>3
      <4>2. RecEnd(segs[k]) \in Nat /\ segs[k].start \in Nat /\ segs[i].start \in Nat
        BY <1>2, <3>1
      <4>3. QED
        BY <3>1, <4>1, <4>2
    <3>4. QED
      BY <1>2, <2>4, <3>2, <3>3
  <2>5. QED
    BY <2>1, <2>2, <2>3, <2>4
<1>4. ASSUME NEW j \in 1 .. n + 1, NEW k \in 1 .. n + 1, j < k PROVE Upto(j) <= Pos(k)
  <2>1. j \in 1 .. n
    BY <1>2, <1>4
  <2>2. Upto(j) <= segs[j].start /\ segs[j].start < RecEnd(segs[j]) /\ RecEnd(segs[j]) <= Pos(k)
    <3>1. \A i \in 1 .. n : j <= i => Upto(j) <= segs[i].start
      BY <1>3
    <3>2. \A i \in 1 .. n : i < k => RecEnd(segs[i]) <= Pos(k)
      BY <1>3
    <3> HIDE DEF Pos, Upto
    <3>3. QED
      BY <1>2, <1>4, <2>1, <3>1, <3>2
  <2>3. Upto(j) \in Nat /\ Pos(k) \in Nat /\ segs[j].start \in Nat /\ RecEnd(segs[j]) \in Nat
    BY <1>2, <1>3, <2>1
  <2> HIDE DEF Pos, Upto
  <2>4. QED
    BY <2>2, <2>3
<1>5. n + 1 \in 1 .. n + 1 /\ Upto(n + 1) = e /\ Pos(1) = s
  BY <1>2
<1>6. ASSUME NEW k \in 1 .. n + 1, k # 1
      PROVE  k - 1 \in 1 .. n /\ Pos(k) = RecEnd(segs[k - 1])
             /\ Upto(k - 1) = segs[k - 1].start
  BY <1>2, <1>6
<1> HIDE DEF Pos, Upto
<1>7. \A k \in 1 .. n + 1 : Pos(k) < Upto(k) =>
        /\ Gap(k) \in RecSet /\ Gap(k).start = Pos(k) /\ RecEnd(Gap(k)) = Upto(k)
        /\ Gap(k).refcount = 0
  BY <1>3 DEF Rec, RecSet, RecEnd
<1> HIDE DEF Gap
<1>8. ASSUME NEW p \in G
      PROVE  \E k \in 1 .. n + 1 : /\ p = Gap(k) /\ p \in RecSet /\ p.start = Pos(k)
                                   /\ RecEnd(p) = Upto(k) /\ p.refcount = 0
  BY <1>1, <1>7
<1>9. Segments(Range(segs) \cup G, e)
  <2>1. Segments(Range(segs), e)
    BY SortedSegments
  <2>2. \A p \in G : p \in RecSet /\ RecEnd(p) <= e
    BY <1>3, <1>8
  <2>3. ASSUME NEW p \in G, NEW r \in Range(segs) PROVE Apart(p, r) /\ Apart(r, p)
    <3>1. PICK k \in 1 .. n + 1 : p.start = Pos(k) /\ RecEnd(p) = Upto(k)
      BY <1>8
    <3>2. PICK i \in 1 .. n : r = segs[i]
      BY <1>2 DEF Range
    <3>3. i < k \/ k <= i
      BY <1>2
    <3>4. QED
      BY <1>3, <3>1, <3>2, <3>3 DEF Apart
  <2>4. ASSUME NEW p \in G, NEW q \in G, p # q PROVE Apart(p, q)
    <3>1. PICK k \in 1 .. n + 1 : p = Gap(k) /\ p.start = Pos(k) /\ RecEnd(p) = Upto(k)
      BY <1>8
    <3>2. PICK j \in 1 .. n + 1 : q = Gap(j) /\ q.start = Pos(j) /\ RecEnd(q) = Upto(j)
      BY <1>8
    <3>3. j < k \/ k < j
      BY <1>2, <2>4, <3>1, <3>2
    <3>4. QED
      BY <1>4, <3>1, <3>2, <3>3 DEF Apart
  <2>5. QED
    BY <2>1, <2>2, <2>3, <2>4 DEF Segments
<1>10. \A p \in G : p.refcount = 0 /\ s <= p.start
  BY <1>3, <1>8
<1>11. ASSUME NEW b \in Int, NEW p \in G, Covers(p, b)
       PROVE  InRange(b, s, e) /\ \A r \in Range(segs) : ~Covers(r, b)
  <2>1. PICK k \in 1 .. n + 1 : p.start = Pos(k) /\ RecEnd(p) = Upto(k)
    BY <1>8
  <2>2. InRange(b, s, e)
    BY <1>3, <1>11, <2>1 DEF InRange, Covers
  <2>3. ASSUME NEW i \in 1 .. n PROVE ~Covers(segs[i], b)
    <3>1. CASE i < k
      <4>1. RecEnd(segs[i]) <= Pos(k) /\ RecEnd(segs[i]) \in Nat /\ Pos(k) \in Nat
        BY <1>2, <1>3, <3>1
      <4>2. QED
        BY <1>11, <2>1, <4>1 DEF Covers
    <3>2. CASE k <= i
      <4>1. Upto(k) <= segs[i].start /\ segs[i].start \in Nat /\ Upto(k) \in Nat
        BY <1>2, <1>3, <3>2
      <4>2. QED
        BY <1>11, <2>1, <4>1 DEF Covers
    <3>3. QED
      BY <1>2, <3>1, <3>2
  <2>4. QED
    BY <1>2, <2>2, <2>3 DEF Range
<1>12. ASSUME NEW b \in Int, InRange(b, s, e), \A r \in Range(segs) : ~Covers(r, b)
       PROVE  \E p \in G : Covers(p, b)
  <2> DEFINE T == {k \in 1 .. n + 1 : b < Upto(k)}
  <2>1. n + 1 \in T
    BY <1>5, <1>12 DEF InRange
  <2>2. T \subseteq Nat /\ T # {}
    BY <2>1
  <2>3. PICK k \in T : \A j \in T : k <= j
    BY <2>2, NatMin
  <2>4. Pos(k) <= b
    <3>1. CASE k = 1
      BY <1>5, <1>12, <3>1 DEF InRange
    <3>2. CASE k # 1
      <4>1. /\ k - 1 \in 1 .. n /\ Pos(k) = RecEnd(segs[k - 1])
            /\ Upto(k - 1) = segs[k - 1].start
        BY <1>6, <3>2
      <4>2. k - 1 \notin T
        BY <2>3, <4>1
      <4>3. segs[k - 1].start <= b
        BY <1>2, <4>1, <4>2
      <4>4. ~Covers(segs[k - 1], b)
        BY <1>2, <1>12, <4>1 DEF Range
      <4>5. QED
        BY <1>2, <4>1, <4>3, <4>4 DEF Covers
    <3>3. QED
      BY <3>1, <3>2
  <2>5. k \in 1 .. n + 1 /\ b < Upto(k) /\ Pos(k) < Upto(k)
    BY <1>3, <2>3, <2>4
  <2>6. Gap(k) \in G /\ Covers(Gap(k), b)
    BY <1>1, <1>7, <2>4, <2>5 DEF Covers
  <2>7. QED
    BY <2>6
<1>13. QED
  BY <1>9, <1>10, <1>11, <1>12 DEF G

-----------------------------------------------------------------------------
(* refcIncrRange and refcDecrRange *)

\* RefcInside tiles [s, e): every block of the range, and no other, is in one
\* segment, with the count the records give it.
LEMMA InsideTiles ==
  ASSUME NEW N \in Nat, NEW R, WellFormed(R, N), NEW s \in Nat, NEW e \in Nat, s < e, e <= N
  PROVE  LET I == RefcInside(R, s, e)
         IN  /\ Segments(I, e)
             /\ \A p \in I : s <= p.start /\ p.refcount # 1
             /\ \A b \in Int, c \in Nat : Says(I, b, c) <=> InRange(b, s, e) /\ CountOf(R, b) = c
<1> DEFINE C == RefcClipped(R, s, e)
           g == ByStart(C)
           G == RefcGaps(g, s, e)
           I == RefcInside(R, s, e)
<1>1. Segments(Range(R), N) /\ WellCounted(Range(R))
  BY WellFormedFacts
<1>2. /\ Segments(C, e) /\ WellCounted(C) /\ \A p \in C : s <= p.start
      /\ \A b \in Int, c \in Nat : Says(C, b, c) <=> Says(Range(R), b, c) /\ InRange(b, s, e)
  BY <1>1, ClippedCounts
<1>3. I = C \cup G
  BY DEF RefcInside
<1> HIDE DEF C, I
<1>4. Sorted(g, e) /\ Range(g) = C
  BY <1>2, ByStartSorts
<1> HIDE DEF g
<1>5. \A i \in 1 .. Len(g) : s <= g[i].start
  <2>1. \A i \in 1 .. Len(g) : g[i] \in Range(g)
    BY <1>4 DEF Sorted, Range
  <2>2. QED
    BY <1>2, <1>4, <2>1
<1>6. /\ Segments(Range(g) \cup G, e)
      /\ \A p \in G : p.refcount = 0 /\ s <= p.start
      /\ \A b \in Int : (\E p \in G : Covers(p, b))
                          <=> InRange(b, s, e) /\ \A r \in Range(g) : ~Covers(r, b)
  BY <1>4, <1>5, GapsTile
<1> HIDE DEF G
<1>7. Segments(I, e)
  BY <1>3, <1>4, <1>6
<1>8. ASSUME NEW p \in I PROVE s <= p.start /\ p.refcount # 1
  BY <1>2, <1>3, <1>6 DEF WellCounted
<1>9. ASSUME NEW b \in Int, NEW c \in Nat
      PROVE  Says(I, b, c) <=> InRange(b, s, e) /\ CountOf(R, b) = c
  <2>1. Says(I, b, c) <=> Says(C, b, c) \/ Says(G, b, c)
    BY <1>3 DEF Says
  <2>2. CASE c = 0
    <3>1. ~Says(C, b, c)
      BY <1>2, <2>2 DEF Says, WellCounted
    <3>2. Says(G, b, c) <=> \E p \in G : Covers(p, b)
      BY <1>6, <2>2 DEF Says
    <3>3. Says(G, b, c) <=> InRange(b, s, e) /\ \A r \in C : ~Covers(r, b)
      BY <1>4, <1>6, <3>2
    <3>4. \A r \in Range(R) : r.refcount \in Nat
      BY <1>1, RecordShape DEF Segments
    <3>5. \A r \in C : r.refcount \in Nat
      BY <1>2, RecordShape DEF Segments
    <3>6. InRange(b, s, e) =>
            ((\A r \in C : ~Covers(r, b)) <=> \A r \in Range(R) : ~Covers(r, b))
      <4>1. (\A r \in C : ~Covers(r, b)) <=> \A k \in Nat : ~Says(C, b, k)
        BY <3>5 DEF Says
      <4>2. (\A r \in Range(R) : ~Covers(r, b)) <=> \A k \in Nat : ~Says(Range(R), b, k)
        BY <3>4 DEF Says
      <4>3. QED
        BY <1>2, <4>1, <4>2
    <3>7. CountOf(R, b) = 0 <=> \A r \in Range(R) : ~Covers(r, b)
      BY CountOfSays
    <3>8. QED
      BY <2>1, <2>2, <3>1, <3>3, <3>6, <3>7
  <2>3. CASE c # 0
    <3>1. ~Says(G, b, c)
      BY <1>6, <2>3 DEF Says
    <3>2. Says(C, b, c) <=> Says(Range(R), b, c) /\ InRange(b, s, e)
      BY <1>2
    <3>3. Says(Range(R), b, c) <=> CountOf(R, b) = c
      BY <2>3, CountOfSays
    <3>4. QED
      BY <2>1, <3>1, <3>2, <3>3
  <2>4. QED
    BY <2>2, <2>3
<1>10. QED
  BY <1>7, <1>8, <1>9 DEF I

Avoids(K, s, e) == \A p \in K : RecEnd(p) <= s \/ e <= p.start

From(K, s) == \A p \in K : s <= p.start

\* The records of J are records of I with other counts.
Recounted(J, I) ==
  /\ J \subseteq RecSet
  /\ \A p \in J : \E q \in I : p.start = q.start /\ p.count = q.count
  /\ \A p, t \in J : p.start = t.start => p = t

\* Records from outside a range together with recounted ones from inside it do
\* not overlap.
LEMMA JoinSegments ==
  ASSUME NEW N \in Nat, NEW s \in Nat, NEW e \in Nat, s < e, e <= N,
         NEW Out, Segments(Out, N), Avoids(Out, s, e),
         NEW I, Segments(I, e), From(I, s), NEW J, Recounted(J, I)
  PROVE  Segments(Out \cup J, N)
<1> USE DEF Avoids, From, Recounted
<1>1. \A p \in Out \cup J : p \in RecSet /\ p.start \in Nat /\ p.count \in Nat \ {0}
  BY RecordShape DEF Segments
<1>2. \A q \in I : q \in RecSet /\ q.start \in Nat /\ q.count \in Nat \ {0}
                   /\ RecEnd(q) <= e
  BY RecordShape DEF Segments
<1>3. ASSUME NEW p \in J PROVE s <= p.start /\ RecEnd(p) <= e
  BY <1>2 DEF RecEnd
<1>4. ASSUME NEW p \in J, NEW t \in J, p # t PROVE Apart(p, t)
  <2>1. PICK q \in I : p.start = q.start /\ p.count = q.count
    OBVIOUS
  <2>2. PICK r \in I : t.start = r.start /\ t.count = r.count
    OBVIOUS
  <2>3. q # r
    BY <1>4, <2>1, <2>2
  <2>4. Apart(q, r)
    BY <2>3 DEF Segments
  <2>5. QED
    BY <2>1, <2>2, <2>4 DEF Apart, RecEnd
<1>5. ASSUME NEW p \in J, NEW t \in Out PROVE Apart(p, t) /\ Apart(t, p)
  <2>1. s <= p.start /\ RecEnd(p) <= e /\ (RecEnd(t) <= s \/ e <= t.start)
    BY <1>3
  <2>2. p.start \in Nat /\ RecEnd(p) \in Nat /\ t.start \in Nat /\ RecEnd(t) \in Nat
    BY <1>1 DEF RecEnd
  <2>3. QED
    BY <2>1, <2>2 DEF Apart
<1>6. \A p \in Out \cup J : RecEnd(p) <= N
  <2>1. \A p \in J : RecEnd(p) \in Nat /\ RecEnd(p) <= e
    BY <1>1, <1>3 DEF RecEnd
  <2>2. QED
    BY <2>1 DEF Segments
<1>7. \A p, t \in Out : p # t => Apart(p, t)
  BY DEF Segments
<1>8. QED
  BY <1>1, <1>4, <1>5, <1>6, <1>7 DEF Segments

LEMMA CountFrom ==
  ASSUME NEW N \in Nat, NEW R, WellFormed(R, N), NEW b \in Int, NEW t \in Nat,
         \A c \in Nat \ {0} : Says(Range(R), b, c) <=> t = c
  PROVE  CountOf(R, b) = t
<1>1. /\ CountOf(R, b) \in Nat
      /\ \A c \in Nat \ {0} : Says(Range(R), b, c) <=> CountOf(R, b) = c
  BY CountOfSays
<1>2. QED
  BY <1>1

\* refcIncrRange adds one owner to every block of the range, where a block
\* without a record has one, leaves the count of every other block alone, and
\* returns records that are sorted, disjoint and joined.
THEOREM IncrementsRange ==
  ASSUME NEW N \in Nat, NEW R, WellFormed(R, N),
         NEW s \in Nat, NEW n \in Nat \ {0}, s + n <= N
  PROVE  /\ WellFormed(RefcIncrRange(R, s, n), N)
         /\ \A b \in Int :
              CountOf(RefcIncrRange(R, s, n), b) =
                IF InRange(b, s, s + n)
                THEN IF CountOf(R, b) = 0 THEN 2 ELSE CountOf(R, b) + 1
                ELSE CountOf(R, b)
<1> DEFINE e     == s + n
           Out   == RefcOutside(R, s, e)
           I     == RefcInside(R, s, e)
           F(c)  == IF c = 0 THEN 2 ELSE c + 1
           Up(r) == [r EXCEPT !.refcount = IF @ = 0 THEN 2 ELSE @ + 1]
           J     == {Up(r) : r \in I}
           o     == RefcIncrRange(R, s, n)
<1>0. e \in Nat /\ s < e /\ e <= N
  OBVIOUS
<1>1. o = RefcMerge(Out \cup J)
  BY DEF RefcIncrRange
<1> HIDE DEF e
<1>2. Segments(Range(R), N) /\ WellCounted(Range(R))
  BY WellFormedFacts
<1>3. /\ Segments(Out, N) /\ WellCounted(Out)
      /\ \A p \in Out : RecEnd(p) <= s \/ e <= p.start
      /\ \A b \in Int, c \in Nat : Says(Out, b, c) <=> Says(Range(R), b, c) /\ ~InRange(b, s, e)
  BY <1>0, <1>2, OutsideCounts
<1>4. /\ Segments(I, e)
      /\ \A p \in I : s <= p.start /\ p.refcount # 1
      /\ \A b \in Int, c \in Nat : Says(I, b, c) <=> InRange(b, s, e) /\ CountOf(R, b) = c
  BY <1>0, InsideTiles
<1> HIDE DEF Out, I, o
<1>5. \A r \in I : /\ r \in RecSet /\ r.start \in Nat /\ r.count \in Nat \ {0} /\ r.refcount \in Nat
                   /\ r = Rec(r.start, r.count, r.refcount)
  BY <1>4, RecordShape DEF Segments
<1>6. \A r \in I : /\ Up(r) \in RecSet /\ Up(r).start = r.start /\ Up(r).count = r.count
                   /\ Up(r).refcount = F(r.refcount) /\ F(r.refcount) >= 2
                   /\ \A b \in Int : Covers(Up(r), b) <=> Covers(r, b)
  <2> SUFFICES ASSUME NEW r \in I
               PROVE  /\ Up(r) \in RecSet /\ Up(r).start = r.start /\ Up(r).count = r.count
                      /\ Up(r).refcount = F(r.refcount) /\ F(r.refcount) >= 2
                      /\ \A b \in Int : Covers(Up(r), b) <=> Covers(r, b)
    OBVIOUS
  <2>1. Up(r) = Rec(r.start, r.count, F(r.refcount))
    BY <1>5 DEF Rec
  <2>2. F(r.refcount) \in Nat /\ F(r.refcount) >= 2
    BY <1>5
  <2> HIDE DEF Up, F
  <2>3. QED
    BY <1>5, <2>1, <2>2 DEF Rec, RecSet, Covers, RecEnd
<1> HIDE DEF Up
<1>7. Segments(Out \cup J, N)
  <2>1. J \subseteq RecSet /\ \A p \in J : \E q \in I : p.start = q.start /\ p.count = q.count
    BY <1>6
  <2>2. \A q, r \in I : q.start = r.start => q = r
    BY <1>0, <1>4, SegmentsFinite
  <2>3. \A p, t \in J : p.start = t.start => p = t
    BY <1>6, <2>2
  <2> HIDE DEF J
  <2>4. Avoids(Out, s, e) /\ From(I, s) /\ Recounted(J, I)
    BY <1>3, <1>4, <2>1, <2>3 DEF Avoids, From, Recounted
  <2>5. QED
    BY <1>0, <1>3, <1>4, <2>4, JoinSegments
<1>8. Shared(Out \cup J) = Out \cup J
  <2>1. \A p \in Out \cup J : p.refcount >= 2
    BY <1>3, <1>6 DEF WellCounted
  <2>2. \A p \in Out \cup J : p.count > 0
    BY <1>7, RecordShape DEF Segments
  <2>3. QED
    BY <2>1, <2>2 DEF Shared
<1>9. /\ WellFormed(o, N)
      /\ \A b \in Int, c \in Nat : Says(Range(o), b, c) <=> Says(Out \cup J, b, c)
  BY <1>1, <1>7, <1>8, Merges
<1>10. ASSUME NEW b \in Int, NEW c \in Nat
       PROVE  Says(J, b, c) <=> InRange(b, s, e) /\ c = F(CountOf(R, b))
  <2>1. ASSUME Says(J, b, c) PROVE InRange(b, s, e) /\ c = F(CountOf(R, b))
    <3>1. PICK r \in I : Covers(Up(r), b) /\ Up(r).refcount = c
      BY <2>1 DEF Says
    <3>2. Says(I, b, r.refcount) /\ r.refcount \in Nat /\ c = F(r.refcount)
      BY <1>5, <1>6, <3>1 DEF Says
    <3>3. QED
      BY <1>4, <3>2
  <2>2. ASSUME InRange(b, s, e), c = F(CountOf(R, b)) PROVE Says(J, b, c)
    <3>1. CountOf(R, b) \in Nat
      BY CountOfSays
    <3>2. Says(I, b, CountOf(R, b))
      BY <1>4, <2>2, <3>1
    <3>3. PICK r \in I : Covers(r, b) /\ r.refcount = CountOf(R, b)
      BY <3>2 DEF Says
    <3>4. Covers(Up(r), b) /\ Up(r).refcount = c /\ Up(r) \in J
      BY <1>6, <2>2, <3>3
    <3>5. QED
      BY <3>4 DEF Says
  <2>3. QED
    BY <2>1, <2>2
<1>11. ASSUME NEW b \in Int
       PROVE  CountOf(o, b) = IF InRange(b, s, e) THEN F(CountOf(R, b)) ELSE CountOf(R, b)
  <2> DEFINE t == IF InRange(b, s, e) THEN F(CountOf(R, b)) ELSE CountOf(R, b)
  <2>1. /\ CountOf(R, b) \in Nat
        /\ \A c \in Nat \ {0} : Says(Range(R), b, c) <=> CountOf(R, b) = c
    BY CountOfSays
  <2>2. t \in Nat
    BY <2>1
  <2> HIDE DEF F
  <2>3. ASSUME NEW c \in Nat \ {0} PROVE Says(Range(o), b, c) <=> t = c
    <3>1. Says(Range(o), b, c) <=> Says(Out, b, c) \/ Says(J, b, c)
      BY <1>9 DEF Says
    <3>2. Says(Out, b, c) <=> CountOf(R, b) = c /\ ~InRange(b, s, e)
      BY <1>3, <2>1
    <3>3. Says(J, b, c) <=> InRange(b, s, e) /\ c = F(CountOf(R, b))
      BY <1>10
    <3>4. QED
      BY <3>1, <3>2, <3>3
  <2> HIDE DEF t
  <2>4. CountOf(o, b) = t
    BY <1>9, <2>2, <2>3, CountFrom
  <2>5. QED
    BY <2>4 DEF t
<1>12. QED
  BY <1>9, <1>11 DEF o, e

\* refcDecrRange takes one owner from every block of the range: of two owners
\* one is left and with it no record, a block without a record is reported
\* free, once, and no other block is.  Every other block keeps its count.
THEOREM DecrementsRange ==
  ASSUME NEW N \in Nat, NEW R, WellFormed(R, N),
         NEW s \in Nat, NEW n \in Nat \ {0}, s + n <= N
  PROVE  LET dec == RefcDecrRange(R, s, n)
         IN  /\ WellFormed(dec.out, N)
             /\ \A b \in Int :
                  CountOf(dec.out, b) =
                    IF InRange(b, s, s + n)
                    THEN IF CountOf(R, b) <= 2 THEN 0 ELSE CountOf(R, b) - 1
                    ELSE CountOf(R, b)
             /\ Segments(dec.free, N)
             /\ \A b \in Int : (\E r \in dec.free : Covers(r, b))
                                 <=> InRange(b, s, s + n) /\ CountOf(R, b) = 0
<1> DEFINE e       == s + n
           Out     == RefcOutside(R, s, e)
           I       == RefcInside(R, s, e)
           Down(r) == [r EXCEPT !.refcount = @ - 1]
           J       == {Down(r) : r \in {q \in I : q.refcount # 0}}
           J2      == {p \in J : p.refcount >= 2}
           dec     == RefcDecrRange(R, s, n)
           o       == dec.out
<1>0. e \in Nat /\ s < e /\ e <= N
  OBVIOUS
<1>1. o = RefcMerge(Out \cup J) /\ dec.free = {r \in I : r.refcount = 0}
  BY DEF RefcDecrRange
<1> HIDE DEF e
<1>2. Segments(Range(R), N) /\ WellCounted(Range(R))
  BY WellFormedFacts
<1>3. /\ Segments(Out, N) /\ WellCounted(Out)
      /\ \A p \in Out : RecEnd(p) <= s \/ e <= p.start
      /\ \A b \in Int, c \in Nat : Says(Out, b, c) <=> Says(Range(R), b, c) /\ ~InRange(b, s, e)
  BY <1>0, <1>2, OutsideCounts
<1>4. /\ Segments(I, e)
      /\ \A p \in I : s <= p.start /\ p.refcount # 1
      /\ \A b \in Int, c \in Nat : Says(I, b, c) <=> InRange(b, s, e) /\ CountOf(R, b) = c
  BY <1>0, InsideTiles
<1> HIDE DEF Out, I, o, dec
<1>5. \A r \in I : /\ r \in RecSet /\ r.start \in Nat /\ r.count \in Nat \ {0} /\ r.refcount \in Nat
                   /\ r = Rec(r.start, r.count, r.refcount)
  BY <1>4, RecordShape DEF Segments
<1>6. \A r \in I : r.refcount # 0 =>
        /\ Down(r) \in RecSet /\ Down(r).start = r.start /\ Down(r).count = r.count
        /\ Down(r).refcount = r.refcount - 1
        /\ \A b \in Int : Covers(Down(r), b) <=> Covers(r, b)
  <2> SUFFICES ASSUME NEW r \in I, r.refcount # 0
               PROVE  /\ Down(r) \in RecSet /\ Down(r).start = r.start /\ Down(r).count = r.count
                      /\ Down(r).refcount = r.refcount - 1
                      /\ \A b \in Int : Covers(Down(r), b) <=> Covers(r, b)
    OBVIOUS
  <2>1. Down(r) = Rec(r.start, r.count, r.refcount - 1)
    BY <1>5 DEF Rec
  <2>2. r.refcount - 1 \in Nat
    BY <1>5
  <2> HIDE DEF Down
  <2>3. QED
    BY <1>5, <2>1, <2>2 DEF Rec, RecSet, Covers, RecEnd
<1> HIDE DEF Down
<1>7. Segments(Out \cup J2, N)
  <2>1. J \subseteq RecSet /\ \A p \in J : \E q \in I : p.start = q.start /\ p.count = q.count
    BY <1>6
  <2>2. \A q, r \in I : q.start = r.start => q = r
    BY <1>0, <1>4, SegmentsFinite
  <2>3. \A p, t \in J : p.start = t.start => p = t
    BY <1>6, <2>2
  <2> HIDE DEF J
  <2>4. Avoids(Out, s, e) /\ From(I, s) /\ Recounted(J2, I)
    BY <1>3, <1>4, <2>1, <2>3 DEF Avoids, From, Recounted
  <2> HIDE DEF J2
  <2>5. QED
    BY <1>0, <1>3, <1>4, <2>4, JoinSegments
<1>8. Shared(Out \cup J) = Out \cup J2
  <2>1. \A p \in Out : p.refcount >= 2 /\ p.count > 0
    BY <1>3, RecordShape DEF WellCounted, Segments
  <2>2. \A p \in J : p.count > 0
    BY <1>5, <1>6
  <2> HIDE DEF J
  <2>3. QED
    BY <2>1, <2>2 DEF Shared
<1>9. /\ WellFormed(o, N)
      /\ \A b \in Int, c \in Nat : Says(Range(o), b, c) <=> Says(Out \cup J2, b, c)
  <2> DEFINE X == Out \cup J
             Y == Out \cup J2
  <2>1. o = RefcMerge(X) /\ Shared(X) = Y /\ Segments(Y, N)
    BY <1>1, <1>7, <1>8
  <2> HIDE DEF X, Y
  <2>2. /\ WellFormed(o, N)
        /\ \A b \in Int, c \in Nat : Says(Range(o), b, c) <=> Says(Y, b, c)
    BY <2>1, Merges
  <2>3. QED
    BY <2>2 DEF Y
<1>10. ASSUME NEW b \in Int, NEW c \in Nat
       PROVE  Says(J2, b, c) <=> InRange(b, s, e) /\ c >= 2 /\ CountOf(R, b) = c + 1
  <2>1. ASSUME Says(J2, b, c) PROVE InRange(b, s, e) /\ c >= 2 /\ CountOf(R, b) = c + 1
    <3>1. PICK r \in I : r.refcount # 0 /\ Covers(Down(r), b) /\ Down(r).refcount = c /\ c >= 2
      BY <2>1 DEF Says
    <3>2. Says(I, b, r.refcount) /\ r.refcount \in Nat /\ r.refcount = c + 1
      BY <1>5, <1>6, <3>1 DEF Says
    <3>3. QED
      BY <1>4, <3>1, <3>2
  <2>2. ASSUME InRange(b, s, e), c >= 2, CountOf(R, b) = c + 1 PROVE Says(J2, b, c)
    <3>1. Says(I, b, c + 1)
      BY <1>4, <2>2
    <3>2. PICK r \in I : Covers(r, b) /\ r.refcount = c + 1
      BY <3>1 DEF Says
    <3>3. Covers(Down(r), b) /\ Down(r).refcount = c /\ Down(r) \in J2
      BY <1>6, <2>2, <3>2
    <3>4. QED
      BY <3>3 DEF Says
  <2>3. QED
    BY <2>1, <2>2
<1>11. ASSUME NEW b \in Int
       PROVE  CountOf(o, b) = IF InRange(b, s, e)
                              THEN IF CountOf(R, b) <= 2 THEN 0 ELSE CountOf(R, b) - 1
                              ELSE CountOf(R, b)
  <2> DEFINE m == CountOf(R, b)
             t == IF InRange(b, s, e) THEN IF m <= 2 THEN 0 ELSE m - 1 ELSE m
  <2>1. m \in Nat /\ \A c \in Nat \ {0} : Says(Range(R), b, c) <=> m = c
    BY CountOfSays
  <2>2. ASSUME NEW c \in Nat \ {0} PROVE Says(Range(o), b, c) <=> t = c
    <3>1. Says(Range(o), b, c) <=> Says(Out, b, c) \/ Says(J2, b, c)
      BY <1>9 DEF Says
    <3>2. Says(Out, b, c) <=> m = c /\ ~InRange(b, s, e)
      BY <1>3, <2>1
    <3>3. Says(J2, b, c) <=> InRange(b, s, e) /\ c >= 2 /\ m = c + 1
      BY <1>10
    <3> HIDE DEF m, J2
    <3>4. QED
      BY <2>1, <3>1, <3>2, <3>3
  <2> HIDE DEF m
  <2>3. t \in Nat
    BY <2>1
  <2> HIDE DEF t
  <2>4. CountOf(o, b) = t
    BY <1>9, <2>2, <2>3, CountFrom
  <2>5. QED
    BY <2>4 DEF t, m
<1>12. Segments(dec.free, N)
  BY <1>0, <1>1, <1>4, <1>5 DEF Segments, RecEnd
<1>13. \A b \in Int : (\E r \in dec.free : Covers(r, b)) <=> InRange(b, s, e) /\ CountOf(R, b) = 0
  <2> TAKE b \in Int
  <2>1. (\E r \in dec.free : Covers(r, b)) <=> Says(I, b, 0)
    BY <1>1 DEF Says
  <2>2. QED
    BY <1>4, <2>1
<1>14. QED
  BY <1>9, <1>11, <1>12, <1>13 DEF o, e, dec
=============================================================================
