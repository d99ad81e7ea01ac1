-------------------------- MODULE FreeSpace_proofs --------------------------
(***************************************************************************)
(* Proofs about FreeSpace for every AG size, request bound, reserve bound  *)
(* and leaf size.                                                          *)
(***************************************************************************)
EXTENDS FreeSpace, FiniteSetTheorems, TLAPS

-----------------------------------------------------------------------------
(* The inductive invariant *)

Disjoint(S) == \A e, f \in S : e # f => Run(e) \cap Run(f) = {}

\* Every block of the AG has exactly one owner.
Partition(free, h, t, q, rs, p, s) ==
  /\ free \cap (h \cup t \cup q \cup rs \cup p \cup s) = {}
  /\ h \cap (t \cup q \cup rs \cup p \cup s) = {}
  /\ t \cap (q \cup rs \cup p \cup s) = {}
  /\ q \cap (rs \cup p \cup s) = {}
  /\ rs \cap (p \cup s) = {}
  /\ p \cap s = {}
  /\ free \cup h \cup t \cup q \cup rs \cup p \cup s = Area

OwnerInv ==
  Partition(Cover(bno), held, tree, queue \cup al.freed, Run(reserve) \cup AlPending,
            OpPending, SubPending)

\* Blocks the by-block tree indexes and agf_freeblks is not yet credited with,
\* and blocks taken out of it and not yet deducted.
OpOwed ==
  IF op.pc \in {"bno_release", "cnt_reserve", "cnt", "cnt_release", "agf"}
  THEN op.run.count ELSE 0

SubOwed == IF sub.pc \in {"cnt", "agf"} THEN sub.run.count ELSE 0

AlOwed == IF al.pc = "agf" THEN al.n ELSE 0

CountInv ==
  /\ agf.freeblks + OpOwed + SubOwed = Cardinality(Cover(bno)) + AlOwed
  /\ agf.btreeblks = Cardinality(tree)
  /\ al.pc \in {"none", "split"} /\ op.pc \notin {"cnt_release", "agf"} /\ sub.pc # "agf"
       => agf.longest = Longest(cnt)

\* The two trees but for the records in flight.
AgreeInv == bno = CntBefore \cup BnoOnly /\ CntBefore \cap BnoOnly = {}

\* Which frames are active together.
ControlInv ==
  /\ op.pc \in {"bno_release", "cnt_release"} => sub.pc # "none"
  /\ sub.pc # "none" => op.pc \in {"bno_release", "cnt_release", "drain"}
  /\ hooked => op.pc \in {"bno", "cnt"}
  /\ ~hooked => reserve = NoRun
  /\ op.pc \notin {"idle", "alloc", "drain"} => op.run \in Extent /\ Run(op.run) \subseteq Area
  /\ sub.pc # "none" => sub.run \in Extent /\ Run(sub.run) \subseteq Area
  /\ op.pc = "bno_release" => sub.run # op.run
  /\ op.pc = "idle" => queue = {}

\* Callers of allocBlocks for more than one block.
Asking == {"alloc", "bno_reserve", "cnt_reserve"}

\* How far the allocBlocks in progress has come.
AllocInv ==
  /\ al.pc = "none" => al = NoAlloc
  /\ al.pc # "none" =>
       /\ al.rec \in Extent /\ al.n \in 1 .. al.rec.count
       /\ ~hooked /\ op.pc # "idle"
       /\ op.pc \notin Asking => al.n = 1
  /\ al.pc = "bno" => al.rec \notin cnt \cup BnoOnly /\ Remainder(al.rec, al.n) \subseteq cnt
  /\ al.pc # "bno" => al.freed = {}
  /\ al.pc = "split" => op.pc \notin Asking

IInv ==
  /\ TypeOK
  /\ Disjoint(bno)
  /\ AgreeInv
  /\ OwnerInv
  /\ CountInv
  /\ ControlInv
  /\ AllocInv

-----------------------------------------------------------------------------
(* The same while no allocBlocks is in progress *)

QuietType ==
  /\ bno \subseteq Extent
  /\ cnt \subseteq Extent
  /\ agf \in [freeblks : Int, longest : Nat, btreeblks : Int]
  /\ held \subseteq Area
  /\ tree \subseteq Area
  /\ queue \subseteq Area
  /\ reserve \in Extent \cup {NoRun}
  /\ hooked \in BOOLEAN
  /\ op \in [pc : OpPC, run : Extent \cup {NoRun}]
  /\ sub \in [pc : SubPC, run : Extent \cup {NoRun}]

QuietAgree == bno = cnt \cup BnoOnly /\ cnt \cap BnoOnly = {}

QuietOwner ==
  Partition(Cover(bno), held, tree, queue, Run(reserve), OpPending, SubPending)

QuietCount ==
  /\ agf.freeblks + OpOwed + SubOwed = Cardinality(Cover(bno))
  /\ agf.btreeblks = Cardinality(tree)
  /\ op.pc \notin {"cnt_release", "agf"} /\ sub.pc # "agf"
       => agf.longest = Longest(cnt)

QuietInv ==
  /\ QuietType
  /\ Disjoint(bno)
  /\ QuietAgree
  /\ QuietOwner
  /\ QuietCount
  /\ ControlInv

-----------------------------------------------------------------------------
(* Extents and the blocks they cover *)

\* A record covers as many blocks as its count says, and at least one.
LEMMA RunSize ==
  ASSUME NEW e \in Extent
  PROVE  /\ e.start \in Run(e)
         /\ Run(e) \subseteq Int
         /\ IsFiniteSet(Run(e))
         /\ Cardinality(Run(e)) = e.count
<1>1. e.start \in Int /\ e.count \in Int /\ e.count >= 1
  BY AreaAssumption DEF Extent, Area
<1>2. e.start + e.count - 1 \in Int /\ e.start <= e.start + e.count - 1
  BY <1>1
<1> DEFINE a == e.start
           b == e.start + e.count - 1
<1>3. /\ a \in Int /\ b \in Int /\ a <= b
      /\ b - a + 1 = e.count
      /\ Run(e) = a .. b
  BY <1>1, <1>2 DEF Run
<1> HIDE DEF a, b
<1>4. IsFiniteSet(Run(e)) /\ Cardinality(Run(e)) = e.count
  BY <1>3, FS_Interval
<1>5. Run(e) \subseteq Int
  BY <1>3
<1> QED
  BY <1>1, <1>2, <1>4, <1>5 DEF Run

\* The placeholder for "no run" covers nothing.
LEMMA NoRunEmpty == Run(NoRun) = {}
  BY AreaAssumption DEF Run, NoRun

\* The area is a finite set of Last - First + 1 blocks.
LEMMA AreaSize ==
  /\ IsFiniteSet(Area)
  /\ Cardinality(Area) = Last - First + 1
  /\ Area \subseteq Int
  BY AreaAssumption, FS_Interval DEF Area

\* Subsets of the area can be counted.
LEMMA AreaSubset ==
  ASSUME NEW S, S \subseteq Area
  PROVE  IsFiniteSet(S) /\ Cardinality(S) \in Nat
  BY AreaSize, FS_Subset, FS_CardinalityType

\* Disjoint sets of blocks: the counts add up.
LEMMA DisjointSum ==
  ASSUME NEW S, NEW T, S \subseteq Area, T \subseteq Area, S \cap T = {}
  PROVE  Cardinality(S \cup T) = Cardinality(S) + Cardinality(T)
<1>1. IsFiniteSet(S) /\ IsFiniteSet(T) /\ Cardinality(S) \in Nat /\ Cardinality(T) \in Nat
  BY AreaSubset
<1>2. Cardinality(S \cap T) = 0
  BY FS_EmptySet
<1>3. Cardinality(S \cup T) = Cardinality(S) + Cardinality(T) - Cardinality(S \cap T)
  BY <1>1, FS_Union
<1> QED
  BY <1>1, <1>2, <1>3

\* Removing a subset removes its count.
LEMMA RemoveSum ==
  ASSUME NEW S, NEW T, S \subseteq Area, T \subseteq S
  PROVE  Cardinality(S \ T) = Cardinality(S) - Cardinality(T)
<1>1. S = (S \ T) \cup T /\ (S \ T) \cap T = {} /\ T \subseteq Area /\ S \ T \subseteq Area
  OBVIOUS
<1>2. Cardinality(S) = Cardinality(S \ T) + Cardinality(T)
  BY <1>1, DisjointSum
<1>3. Cardinality(S \ T) \in Nat /\ Cardinality(T) \in Nat
  BY <1>1, AreaSubset
<1> QED
  BY <1>2, <1>3

\* Inserting a record of free blocks.
LEMMA InsertCover ==
  ASSUME NEW S \in SUBSET Extent, NEW e \in Extent,
         Disjoint(S), Cover(S) \subseteq Area, Run(e) \subseteq Area,
         Cover(S) \cap Run(e) = {}
  PROVE  /\ Disjoint(S \cup {e})
         /\ e \notin S
         /\ Cover(S \cup {e}) = Cover(S) \cup Run(e)
         /\ Cardinality(Cover(S \cup {e})) = Cardinality(Cover(S)) + e.count
<1>1. e.start \in Run(e) /\ Cardinality(Run(e)) = e.count
  BY RunSize
<1>2. \A f \in S : Run(f) \subseteq Cover(S)
  BY DEF Cover
<1>3. e \notin S
  BY <1>1, <1>2
<1>4. Disjoint(S \cup {e})
  BY <1>2 DEF Disjoint
<1>5. Cover(S \cup {e}) = Cover(S) \cup Run(e)
  BY DEF Cover
<1>6. Cardinality(Cover(S) \cup Run(e)) = Cardinality(Cover(S)) + Cardinality(Run(e))
  BY DisjointSum
<1> QED
  BY <1>1, <1>3, <1>4, <1>5, <1>6

\* Taking the first n blocks of record r.
LEMMA TakeCover ==
  ASSUME NEW S \in SUBSET Extent, NEW r \in S, NEW n \in Nat \ {0}, n <= r.count,
         Disjoint(S), Cover(S) \subseteq Area
  PROVE  /\ Take(S, r, n) \subseteq Extent
         /\ Disjoint(Take(S, r, n))
         /\ Taken(r, n) \subseteq Cover(S)
         /\ Cover(Take(S, r, n)) = Cover(S) \ Taken(r, n)
         /\ Cardinality(Taken(r, n)) = n
         /\ Cardinality(Cover(Take(S, r, n))) = Cardinality(Cover(S)) - n
         /\ \A x \in Remainder(r, n) : x \in Extent /\ Run(x) \subseteq Run(r)
<1> DEFINE T == Take(S, r, n)
           taken == Taken(r, n)
<1> USE DEF Take, Taken
<1>1. r \in Extent /\ r.start \in Int /\ r.count \in Int /\ r.count >= 1
  BY AreaAssumption DEF Extent, Area
<1>2. Run(r) \subseteq Area
  BY DEF Cover
<1>3. taken \subseteq Run(r)
  BY <1>1 DEF Run
<1>4. taken \subseteq Cover(S)
  BY <1>3 DEF Cover
<1>5. \A x \in Remainder(r, n) : x \in Extent /\ Run(x) = Run(r) \ taken
  <2> SUFFICES ASSUME NEW x \in Remainder(r, n)
               PROVE  x \in Extent /\ Run(x) = Run(r) \ taken
    OBVIOUS
  <2>1. r.count # n /\ x = [start |-> r.start + n, count |-> r.count - n]
    BY DEF Remainder
  <2>2. r.start + n \in Run(r) /\ r.count - n \in 1 .. (Last - First + 1)
    BY <1>1, <2>1, AreaAssumption DEF Run, Extent, Area
  <2>3. r.start + n \in Area
    BY <1>2, <2>2
  <2>4. Run(x) = (r.start + n) .. (r.start + r.count - 1)
    BY <1>1, <2>1 DEF Run
  <2>5. Run(x) = Run(r) \ taken
    <3>1. ASSUME NEW b \in Int PROVE b \in Run(x) <=> b \in Run(r) \ taken
      <4>1. b \in Run(x) <=> r.start + n <= b /\ b <= r.start + r.count - 1
        BY <1>1, <2>4
      <4>2. b \in Run(r) <=> r.start <= b /\ b <= r.start + r.count - 1
        BY <1>1 DEF Run
      <4>3. b \in taken <=> r.start <= b /\ b <= r.start + n - 1
        BY <1>1
      <4> QED
        BY <1>1, <4>1, <4>2, <4>3
    <3>2. Run(x) \subseteq Int /\ Run(r) \subseteq Int
      BY <2>4 DEF Run
    <3> QED
      BY <3>1, <3>2
  <2> QED
    BY <2>1, <2>2, <2>3, <2>5 DEF Extent
<1>6. Remainder(r, n) = {} => Run(r) \subseteq taken
  BY <1>1 DEF Remainder, Run
<1>7. T \subseteq Extent
  BY <1>5
<1>8. Disjoint(T)
  <2> SUFFICES ASSUME NEW e \in T, NEW f \in T, e # f
               PROVE  Run(e) \cap Run(f) = {}
    BY DEF Disjoint
  <2>1. CASE e \in S \ {r} /\ f \in S \ {r}
    BY <2>1 DEF Disjoint
  <2>2. CASE e \in S \ {r} /\ f \in Remainder(r, n)
    BY <2>2, <1>5 DEF Disjoint
  <2>3. CASE f \in S \ {r} /\ e \in Remainder(r, n)
    BY <2>3, <1>5 DEF Disjoint
  <2>4. CASE e \in Remainder(r, n) /\ f \in Remainder(r, n)
    BY <2>4 DEF Remainder
  <2> QED
    BY <2>1, <2>2, <2>3, <2>4
<1>9. Cover(T) = Cover(S) \ taken
  <2>1. \A f \in S \ {r} : Run(f) \cap taken = {}
    BY <1>3 DEF Disjoint
  <2>2. Cover(T) \subseteq Cover(S) \ taken
    BY <2>1, <1>5 DEF Cover
  <2>3. ASSUME NEW b \in Cover(S) \ taken PROVE b \in Cover(T)
    <3>1. PICK e \in S : b \in Run(e)
      BY <2>3 DEF Cover
    <3>2. CASE e # r
      BY <3>1, <3>2 DEF Cover
    <3>3. CASE e = r
      <4>1. PICK x \in Remainder(r, n) : TRUE
        BY <1>6, <2>3, <3>1, <3>3
      <4>2. b \in Run(x) /\ x \in T
        BY <1>5, <2>3, <3>1, <3>3, <4>1
      <4> QED
        BY <4>2 DEF Cover
    <3> QED
      BY <3>2, <3>3
  <2> QED
    BY <2>2, <2>3
<1>10. Cardinality(taken) = n
  <2> DEFINE a == r.start
             b == r.start + n - 1
  <2>1. a \in Int /\ b \in Int /\ a <= b /\ b - a + 1 = n /\ taken = a .. b
    BY <1>1
  <2> HIDE DEF a, b
  <2>2. Cardinality(a .. b) = b - a + 1
    BY <2>1, FS_Interval
  <2> QED
    BY <2>1, <2>2
<1>11. Cardinality(Cover(S) \ taken) = Cardinality(Cover(S)) - Cardinality(taken)
  BY <1>4, RemoveSum
<1> QED
  BY <1>4, <1>5, <1>7, <1>8, <1>9, <1>10, <1>11

-----------------------------------------------------------------------------
(* The longest extent *)

\* A nonempty set of naturals has a least element.
LEMMA LeastNat ==
  ASSUME NEW T, T \subseteq Nat, T # {}
  PROVE  \E x \in T : \A y \in T : x <= y
<1>1. \E R : IsWellFoundedOn(R, Nat) /\ \A x, y \in Nat : y < x => <<y, x>> \in R
  <2>1. \A x, y \in Nat : y < x => <<y, x>> \in OpToRel(<, Nat)
    BY DEF OpToRel
  <2> QED
    BY <2>1, NatLessThanWellFounded, Zenon
<1>2. PICK R : IsWellFoundedOn(R, Nat) /\ \A x, y \in Nat : y < x => <<y, x>> \in R
  BY <1>1
<1>3. PICK x \in T : \A y \in T : ~ (<<y, x>> \in R)
  BY <1>2, WFMin
<1>4. ASSUME NEW y \in T PROVE x <= y
  <2>1. x \in Nat /\ y \in Nat
    OBVIOUS
  <2>2. ~ (y < x)
    BY <1>2, <1>3, <2>1, Zenon
  <2> QED
    BY <2>1, <2>2
<1> QED
  BY <1>4

\* agf_longest as recomputed is the count of a record no other record exceeds.
LEMMA LongestIsMax ==
  ASSUME NEW S \in SUBSET Extent
  PROVE  /\ Longest(S) \in Nat
         /\ \A e \in S : e.count <= Longest(S)
         /\ S # {} => \E e \in S : e.count = Longest(S)
<1>1. CASE S = {}
  BY <1>1 DEF Longest
<1>2. CASE S # {}
  <2> DEFINE N == Last - First + 1
             T == {N - e.count : e \in S}
  <2>1. N \in Nat /\ \A e \in S : e.count \in Nat /\ e.count <= N
    BY AreaAssumption DEF Extent
  <2>2. T \subseteq Nat /\ T # {}
    BY <1>2, <2>1
  <2>3. PICK x \in T : \A y \in T : x <= y
    BY <2>2, LeastNat
  <2>4. PICK e \in S : x = N - e.count
    BY <2>3
  <2>5. \A f \in S : N - e.count <= N - f.count
    BY <2>3, <2>4
  <2>6. \A f \in S : f.count <= e.count
    BY <2>1, <2>5
  <2> DEFINE m == CHOOSE g \in S : \A f \in S : f.count <= g.count
  <2>7. m \in S /\ \A f \in S : f.count <= m.count
    BY <2>6
  <2>8. Longest(S) = m.count
    BY <1>2 DEF Longest
  <2> HIDE DEF m
  <2> QED
    BY <2>1, <2>7, <2>8
<1> QED
  BY <1>1, <1>2

-----------------------------------------------------------------------------
(* One allocBlocks call on a state that satisfies the invariant *)

AGF == [freeblks : Int, longest : Nat, btreeblks : Int]

\* Facts about the records that are in the by-block tree only.
LEMMA BnoOnlyFacts ==
  ASSUME QuietInv
  PROVE  /\ BnoOnly \subseteq bno
         /\ cnt \subseteq bno
         /\ Cover(bno) \subseteq Area
  BY DEF QuietInv, QuietAgree, QuietOwner, Partition

-----------------------------------------------------------------------------
(* The invariant is inductive *)

\* A freshly formatted AG satisfies the invariant.
LEMMA InitQuiet == Init => QuietInv
<1> SUFFICES ASSUME Init PROVE QuietInv
  OBVIOUS
<1> DEFINE all == [start |-> First, count |-> Last - First + 1]
<1>1. all \in Extent /\ Run(all) = Area /\ NoRun \in [start : Int, count : Int]
  BY AreaAssumption DEF Extent, Area, Run, NoRun
<1>2. /\ bno = {all} /\ cnt = {all} /\ held = {} /\ tree = {} /\ queue = {}
      /\ agf = [freeblks |-> all.count, longest |-> all.count, btreeblks |-> 0]
      /\ reserve = NoRun /\ hooked = FALSE
      /\ op = [pc |-> "idle", run |-> NoRun]
      /\ sub = [pc |-> "none", run |-> NoRun]
  BY DEF Init, NoSub
<1>3. Cover(bno) = Area
  BY <1>1, <1>2 DEF Cover
<1>4. all.count \in Nat /\ all.count = Cardinality(Area)
  BY AreaAssumption, AreaSize
<1> HIDE DEF all
<1>5. QuietType
  <2>1. agf \in [freeblks : Int, longest : Nat, btreeblks : Int]
    BY <1>2, <1>4
  <2>2. op \in [pc : OpPC, run : Extent \cup {NoRun}]
    BY <1>2 DEF OpPC
  <2>3. sub \in [pc : SubPC, run : Extent \cup {NoRun}]
    BY <1>2 DEF SubPC
  <2> QED
    BY <1>1, <1>2, <2>1, <2>2, <2>3 DEF QuietType
<1>6. Disjoint(bno) /\ QuietAgree
  BY <1>2 DEF Disjoint, QuietAgree, BnoOnly
<1>7. QuietOwner
  BY <1>2, <1>3, NoRunEmpty DEF QuietOwner, Partition, OpPending, SubPending
<1>8. Longest(cnt) = all.count
  BY <1>1, <1>2, LongestIsMax
<1>9. Cardinality(tree) = 0
  BY <1>2, FS_EmptySet
<1>10. QuietCount
  BY <1>2, <1>3, <1>4, <1>8, <1>9 DEF QuietCount, OpOwed, SubOwed
<1>11. ControlInv
  BY <1>2 DEF ControlInv
<1> QED
  BY <1>5, <1>6, <1>7, <1>10, <1>11 DEF QuietInv

\* A block joins a set that does not have it.
LEMMA AddBlock ==
  ASSUME NEW S, S \subseteq Area, NEW b \in Area \ S
  PROVE  Cardinality(S \cup {b}) = Cardinality(S) + 1
  BY AreaSubset, FS_AddElement

\* A run that starts in the area and has blocks left lies in Extent.
LEMMA OneBlock ==
  ASSUME NEW b \in Area
  PROVE  /\ [start |-> b, count |-> 1] \in Extent
         /\ Run([start |-> b, count |-> 1]) = {b}
<1>1. b \in Int
  BY AreaSize
<1>2. 1 \in 1 .. (Last - First + 1)
  BY AreaAssumption
<1> QED
  BY <1>1, <1>2 DEF Extent, Run

\* The split reserve after it has handed out its first block.
LEMMA ReserveTail ==
  ASSUME NEW e \in Extent, Run(e) \subseteq Area,
         NEW t, t = [start |-> IF e.count = 1 THEN First ELSE e.start + 1,
                     count |-> e.count - 1]
  PROVE  /\ t \in Extent \cup {NoRun}
         /\ Run(t) = Run(e) \ {e.start}
         /\ e.start \in Run(e)
<1>1. e.start \in Int /\ e.count \in Int /\ e.count >= 1 /\ e.count <= Last - First + 1
  BY AreaAssumption DEF Extent, Area
<1>2. CASE e.count = 1
  <2>1. t = NoRun
    BY <1>2 DEF NoRun
  <2>2. Run(e) = {e.start}
    BY <1>1, <1>2 DEF Run
  <2> QED
    BY <2>1, <2>2, NoRunEmpty
<1>3. CASE e.count # 1
  <2>1. t.start = e.start + 1 /\ t.count = e.count - 1 /\ t = [start |-> t.start, count |-> t.count]
    BY <1>3
  <2>2. e.start + 1 \in Run(e) /\ e.start \in Run(e)
    BY <1>1, <1>3 DEF Run
  <2>3. t \in Extent
    BY <1>1, <1>3, <2>1, <2>2, AreaAssumption DEF Extent
  <2>4. ASSUME NEW b \in Int PROVE b \in Run(t) <=> b \in Run(e) \ {e.start}
    BY <1>1, <2>1 DEF Run
  <2>5. Run(t) \subseteq Int /\ Run(e) \subseteq Int
    BY <2>3, RunSize
  <2> QED
    BY <2>2, <2>3, <2>4, <2>5
<1> QED
  BY <1>2, <1>3

\* Starting a freeBlocks call: the caller gives the run up.
LEMMA FreeBlocksInv ==
  ASSUME QuietInv, NEW e \in Extent, FreeBlocks(e)
  PROVE  QuietInv'
<1>1. /\ op.pc = "idle" /\ Run(e) \subseteq held
      /\ held' = held \ Run(e)
      /\ op' = [pc |-> "bno_reserve", run |-> e]
      /\ UNCHANGED <<bno, cnt, agf, tree, queue, reserve, hooked, sub>>
  BY DEF FreeBlocks
<1>2. QuietType /\ QuietOwner /\ QuietCount /\ ControlInv /\ sub.pc = "none"
  BY <1>1 DEF QuietInv, ControlInv, QuietType, SubPC
<1>3. op'.pc = "bno_reserve" /\ op'.run = e
  BY <1>1
<1>4. QuietType'
  BY <1>1, <1>2 DEF QuietType, OpPC
<1>5. QuietAgree'
  BY <1>1, <1>2, <1>3 DEF QuietInv, QuietAgree, BnoOnly
<1>6. QuietOwner'
  <2>1. /\ OpPending = {} /\ OpPending' = Run(e) /\ SubPending' = SubPending
        /\ Cover(bno') = Cover(bno) /\ Run(reserve') = Run(reserve)
    BY <1>1, <1>3 DEF OpPending, SubPending
  <2> QED
    BY <1>1, <1>2, <2>1 DEF QuietOwner, Partition
<1>7. QuietCount'
  BY <1>1, <1>2, <1>3 DEF QuietCount, OpOwed, SubOwed
<1>8. ControlInv'
  BY <1>1, <1>2, <1>3 DEF ControlInv, QuietType
<1> QED
  BY <1>1, <1>4, <1>5, <1>6, <1>7, <1>8 DEF QuietInv

\* The reserve cannot be had: only the program counter moves.
LEMMA ReserveFailsInv ==
  ASSUME QuietInv, ReserveFails
  PROVE  QuietInv'
<1>1. /\ op.pc \in {"bno_reserve", "cnt_reserve"}
      /\ op' = [op EXCEPT !.pc = ReserveNext]
      /\ UNCHANGED <<bno, cnt, agf, held, tree, queue, reserve, hooked, sub>>
  BY DEF ReserveFails
<1>2. QuietType /\ QuietOwner /\ QuietCount /\ ControlInv /\ sub.pc = "none"
  BY <1>1 DEF QuietInv, ControlInv, QuietType, SubPC
<1>3. /\ op'.pc \in {"bno", "cnt"} /\ op'.run = op.run
      /\ (op.pc = "bno_reserve" => op'.pc = "bno")
      /\ (op.pc = "cnt_reserve" => op'.pc = "cnt")
      /\ op' \in [pc : OpPC, run : Extent \cup {NoRun}]
  BY <1>1, <1>2 DEF ReserveNext, QuietType, OpPC
<1>4. QuietType'
  BY <1>1, <1>2, <1>3 DEF QuietType
<1>5. BnoOnly' = BnoOnly /\ OpPending' = OpPending /\ OpOwed' = OpOwed
  BY <1>1, <1>3 DEF BnoOnly, OpPending, OpOwed
<1>6. SubPending' = SubPending /\ SubOwed' = SubOwed
  BY <1>1 DEF SubPending, SubOwed
<1>7. QuietAgree' /\ Disjoint(bno')
  BY <1>1, <1>5 DEF QuietInv, QuietAgree
<1>8. QuietOwner'
  BY <1>1, <1>2, <1>5, <1>6 DEF QuietOwner
<1>9. QuietCount'
  BY <1>1, <1>2, <1>3, <1>5, <1>6 DEF QuietCount
<1>10. ControlInv'
  BY <1>1, <1>2, <1>3 DEF ControlInv
<1> QED
  BY <1>4, <1>7, <1>8, <1>9, <1>10 DEF QuietInv

\* A split takes a block of the reserve.
LEMMA SplitFromReserveInv ==
  ASSUME QuietInv, SplitFromReserve
  PROVE  QuietInv'
<1> DEFINE b == reserve.start
<1>1. /\ hooked /\ reserve.count > 0
      /\ tree' = tree \cup {b}
      /\ reserve' = [start |-> IF reserve.count = 1 THEN First ELSE reserve.start + 1,
                     count |-> reserve.count - 1]
      /\ agf' = [agf EXCEPT !.btreeblks = @ + 1]
      /\ UNCHANGED <<bno, cnt, held, queue, hooked, op, sub>>
  BY DEF SplitFromReserve
<1>2. QuietType /\ QuietOwner /\ QuietCount /\ ControlInv /\ QuietAgree /\ Disjoint(bno)
  BY DEF QuietInv
<1>3. reserve \in Extent
  BY <1>1, <1>2 DEF QuietType, NoRun
<1>4. Run(reserve) \subseteq Area
  BY <1>2 DEF QuietOwner, Partition
<1>5. /\ reserve' \in Extent \cup {NoRun}
      /\ Run(reserve') = Run(reserve) \ {b}
      /\ b \in Run(reserve)
  BY <1>1, <1>3, <1>4, ReserveTail
<1>6. b \in Area \ tree
  BY <1>2, <1>4, <1>5 DEF QuietOwner, Partition
<1>7. agf' \in AGF /\ agf'.freeblks = agf.freeblks /\ agf'.longest = agf.longest
      /\ agf'.btreeblks = agf.btreeblks + 1
  BY <1>1, <1>2 DEF QuietType, AGF
<1> HIDE DEF b
<1>8. QuietType'
  BY <1>1, <1>2, <1>5, <1>6, <1>7 DEF QuietType, AGF
<1>9. /\ BnoOnly' = BnoOnly /\ OpPending' = OpPending /\ OpOwed' = OpOwed
      /\ SubPending' = SubPending /\ SubOwed' = SubOwed
  BY <1>1 DEF BnoOnly, OpPending, OpOwed, SubPending, SubOwed
<1>10. QuietAgree' /\ Disjoint(bno')
  BY <1>1, <1>2, <1>9 DEF QuietAgree
<1>11. QuietOwner'
  <2> DEFINE f == Cover(bno)
             x == Run(reserve)
  <2>1. Partition(f, held, tree, queue, x, OpPending, SubPending)
    BY <1>2 DEF QuietOwner
  <2>2. Partition(f, held, tree \cup {b}, queue, x \ {b}, OpPending, SubPending)
    BY <1>5, <2>1 DEF Partition
  <2> QED
    BY <1>1, <1>5, <1>9, <2>2 DEF QuietOwner
<1>12. QuietCount'
  <2>1. Cardinality(tree') = Cardinality(tree) + 1
    BY <1>1, <1>2, <1>6, AddBlock DEF QuietType
  <2> QED
    BY <1>1, <1>2, <1>7, <1>9, <2>1 DEF QuietCount
<1>13. ControlInv'
  BY <1>1, <1>2 DEF ControlInv
<1> QED
  BY <1>8, <1>10, <1>11, <1>12, <1>13 DEF QuietInv

\* While draining, a split takes a queued block.
LEMMA SplitFromQueueInv ==
  ASSUME QuietInv, SplitFromQueue
  PROVE  QuietInv'
<1>1. PICK b \in queue : tree' = tree \cup {b} /\ queue' = queue \ {b}
  BY DEF SplitFromQueue
<1>2. /\ op.pc = "drain"
      /\ agf' = [agf EXCEPT !.btreeblks = @ + 1]
      /\ UNCHANGED <<bno, cnt, held, reserve, hooked, op, sub>>
  BY DEF SplitFromQueue
<1>3. QuietType /\ QuietOwner /\ QuietCount /\ ControlInv /\ QuietAgree /\ Disjoint(bno)
  BY DEF QuietInv
<1>4. b \in Area \ tree
  BY <1>1, <1>3 DEF QuietOwner, Partition
<1>5. agf' \in AGF /\ agf'.freeblks = agf.freeblks /\ agf'.longest = agf.longest
      /\ agf'.btreeblks = agf.btreeblks + 1
  BY <1>2, <1>3 DEF QuietType, AGF
<1>6. QuietType'
  BY <1>1, <1>2, <1>3, <1>4, <1>5 DEF QuietType, AGF
<1>7. /\ BnoOnly' = BnoOnly /\ OpPending' = OpPending /\ OpOwed' = OpOwed
      /\ SubPending' = SubPending /\ SubOwed' = SubOwed
  BY <1>2 DEF BnoOnly, OpPending, OpOwed, SubPending, SubOwed
<1>8. QuietAgree' /\ Disjoint(bno')
  BY <1>2, <1>3, <1>7 DEF QuietAgree
<1>9. QuietOwner'
  <2> DEFINE f == Cover(bno)
             x == Run(reserve)
  <2>1. Partition(f, held, tree, queue, x, OpPending, SubPending)
    BY <1>3 DEF QuietOwner
  <2>2. Partition(f, held, tree \cup {b}, queue \ {b}, x, OpPending, SubPending)
    BY <1>1, <2>1 DEF Partition
  <2> QED
    BY <1>1, <1>2, <1>7, <2>2 DEF QuietOwner
<1>10. QuietCount'
  <2>1. Cardinality(tree') = Cardinality(tree) + 1
    BY <1>1, <1>3, <1>4, AddBlock DEF QuietType
  <2> QED
    BY <1>2, <1>3, <1>5, <1>7, <2>1 DEF QuietCount
<1>11. ControlInv'
  BY <1>2, <1>3 DEF ControlInv
<1> QED
  BY <1>6, <1>8, <1>9, <1>10, <1>11 DEF QuietInv

\* The freed run enters the by-block tree and the reserve is released.
LEMMA InsertBnoInv ==
  ASSUME QuietInv, InsertBno
  PROVE  QuietInv'
<1>1. /\ op.pc = "bno" /\ bno' = bno \cup {op.run}
      /\ Release("bno_release", "cnt_reserve")
      /\ UNCHANGED <<cnt, agf, held, tree, queue>>
  BY DEF InsertBno
<1>2. QuietType /\ QuietOwner /\ QuietCount /\ ControlInv /\ QuietAgree /\ Disjoint(bno)
  BY DEF QuietInv
<1>3. sub.pc = "none" /\ op.run \in Extent /\ Run(op.run) \subseteq Area
  BY <1>1, <1>2 DEF ControlInv
<1>4. /\ OpPending = Run(op.run) /\ SubPending = {} /\ BnoOnly = {}
      /\ OpOwed = 0 /\ SubOwed = 0
  BY <1>1, <1>3 DEF OpPending, SubPending, BnoOnly, OpOwed, SubOwed
<1>5. Partition(Cover(bno), held, tree, queue, Run(reserve), Run(op.run), {})
  BY <1>2, <1>4 DEF QuietOwner
<1>6. Cover(bno) \subseteq Area /\ Cover(bno) \cap Run(op.run) = {}
      /\ Run(reserve) \subseteq Area /\ Run(reserve) \cap Run(op.run) = {}
  BY <1>5 DEF Partition
<1>7. /\ Disjoint(bno') /\ op.run \notin bno
      /\ Cover(bno') = Cover(bno) \cup Run(op.run)
      /\ Cardinality(Cover(bno')) = Cardinality(Cover(bno)) + op.run.count
  BY <1>1, <1>2, <1>3, <1>6, InsertCover DEF QuietType
<1>8. /\ op'.run = op.run /\ op'.pc \in {"bno_release", "cnt_reserve"}
      /\ hooked' = FALSE /\ reserve' = NoRun
      /\ op' \in [pc : OpPC, run : Extent \cup {NoRun}]
  BY <1>1, <1>2 DEF Release, QuietType, OpPC
<1>9. \/ /\ reserve \in Extent /\ op'.pc = "bno_release" /\ sub'.pc = "bno"
         /\ sub'.run = reserve /\ reserve # op.run
      \/ /\ reserve = NoRun /\ op'.pc = "cnt_reserve" /\ sub' = NoSub
  <2>1. CASE reserve \in Extent
    <3>1. reserve.count > 0
      BY <2>1, AreaAssumption DEF Extent
    <3>2. reserve.start \in Run(reserve)
      BY <2>1, RunSize
    <3> QED
      BY <1>1, <1>2, <1>6, <2>1, <3>1, <3>2 DEF Release, QuietType
  <2>2. CASE reserve = NoRun
    BY <1>1, <1>2, <2>2 DEF Release, QuietType, NoRun
  <2> QED
    BY <1>2, <2>1, <2>2 DEF QuietType
<1>10. sub' \in [pc : SubPC, run : Extent \cup {NoRun}]
  <2>1. sub' = IF reserve.count > 0 THEN [pc |-> "bno", run |-> reserve] ELSE NoSub
    BY <1>1 DEF Release
  <2> QED
    BY <1>2, <2>1 DEF QuietType, SubPC, NoSub
<1>11. /\ OpPending' = {} /\ SubPending' = Run(reserve) /\ Run(reserve') = {}
       /\ BnoOnly' = {op.run} /\ OpOwed' = op.run.count /\ SubOwed' = 0
       /\ sub'.pc # "agf"
  BY <1>8, <1>9, NoRunEmpty DEF OpPending, SubPending, BnoOnly, OpOwed, SubOwed, NoSub
<1>12. QuietType'
  BY <1>1, <1>2, <1>3, <1>8, <1>10 DEF QuietType
<1>13. QuietAgree'
  BY <1>1, <1>2, <1>4, <1>7, <1>11 DEF QuietAgree
<1>14. QuietOwner'
  <2> DEFINE f == Cover(bno)
             x == Run(reserve)
             y == Run(op.run)
  <2>1. Partition(f \cup y, held, tree, queue, {}, {}, x)
    BY <1>5 DEF Partition
  <2> QED
    BY <1>1, <1>7, <1>11, <2>1 DEF QuietOwner
<1>15. QuietCount'
  <2>1. agf.freeblks \in Int /\ op.run.count \in Int
    BY <1>2, <1>3, AreaAssumption DEF QuietType, Extent
  <2>2. agf'.freeblks + OpOwed' + SubOwed' = Cardinality(Cover(bno'))
    BY <1>1, <1>2, <1>4, <1>7, <1>11, <2>1 DEF QuietCount
  <2> QED
    BY <1>1, <1>2, <1>3, <2>2 DEF QuietCount
<1>16. ControlInv'
  BY <1>3, <1>6, <1>8, <1>9 DEF ControlInv, NoSub
<1> QED
  BY <1>7, <1>12, <1>13, <1>14, <1>15, <1>16 DEF QuietInv

\* The freed run enters the by-size tree and the reserve is released.
LEMMA InsertCntInv ==
  ASSUME QuietInv, InsertCnt
  PROVE  QuietInv'
<1>1. /\ op.pc = "cnt" /\ cnt' = cnt \cup {op.run}
      /\ Release("cnt_release", "agf")
      /\ UNCHANGED <<bno, agf, held, tree, queue>>
  BY DEF InsertCnt
<1>2. QuietType /\ QuietOwner /\ QuietCount /\ ControlInv /\ QuietAgree /\ Disjoint(bno)
  BY DEF QuietInv
<1>3. sub.pc = "none" /\ op.run \in Extent /\ Run(op.run) \subseteq Area
  BY <1>1, <1>2 DEF ControlInv
<1>4. /\ OpPending = {} /\ SubPending = {} /\ BnoOnly = {op.run}
      /\ OpOwed = op.run.count /\ SubOwed = 0
  BY <1>1, <1>3 DEF OpPending, SubPending, BnoOnly, OpOwed, SubOwed
<1>5. Partition(Cover(bno), held, tree, queue, Run(reserve), {}, {})
  BY <1>2, <1>4 DEF QuietOwner
<1>6. Run(reserve) \subseteq Area
  BY <1>5 DEF Partition
<1>7. /\ op'.run = op.run /\ op'.pc \in {"cnt_release", "agf"}
      /\ hooked' = FALSE /\ reserve' = NoRun
      /\ op' \in [pc : OpPC, run : Extent \cup {NoRun}]
  BY <1>1, <1>2 DEF Release, QuietType, OpPC
<1>8. \/ /\ reserve \in Extent /\ op'.pc = "cnt_release" /\ sub'.pc = "bno"
         /\ sub'.run = reserve
      \/ /\ reserve = NoRun /\ op'.pc = "agf" /\ sub' = NoSub
  <2>1. CASE reserve \in Extent
    <3>1. reserve.count > 0
      BY <2>1, AreaAssumption DEF Extent
    <3> QED
      BY <1>1, <1>2, <2>1, <3>1 DEF Release, QuietType
  <2>2. CASE reserve = NoRun
    BY <1>1, <1>2, <2>2 DEF Release, QuietType, NoRun
  <2> QED
    BY <1>2, <2>1, <2>2 DEF QuietType
<1>9. sub' \in [pc : SubPC, run : Extent \cup {NoRun}]
  <2>1. sub' = IF reserve.count > 0 THEN [pc |-> "bno", run |-> reserve] ELSE NoSub
    BY <1>1 DEF Release
  <2> QED
    BY <1>2, <2>1 DEF QuietType, SubPC, NoSub
<1>10. /\ OpPending' = {} /\ SubPending' = Run(reserve) /\ Run(reserve') = {}
       /\ BnoOnly' = {} /\ OpOwed' = op.run.count /\ SubOwed' = 0
  BY <1>7, <1>8, NoRunEmpty DEF OpPending, SubPending, BnoOnly, OpOwed, SubOwed, NoSub
<1>11. QuietType'
  BY <1>1, <1>2, <1>3, <1>7, <1>9 DEF QuietType
<1>12. QuietAgree' /\ Disjoint(bno')
  BY <1>1, <1>2, <1>4, <1>10 DEF QuietAgree
<1>13. QuietOwner'
  <2> DEFINE f == Cover(bno)
             x == Run(reserve)
  <2>1. Partition(f, held, tree, queue, {}, {}, x)
    BY <1>5 DEF Partition
  <2> QED
    BY <1>1, <1>10, <2>1 DEF QuietOwner
<1>14. QuietCount'
  BY <1>1, <1>2, <1>4, <1>7, <1>10 DEF QuietCount
<1>15. ControlInv'
  BY <1>3, <1>6, <1>7, <1>8 DEF ControlInv, NoSub
<1> QED
  BY <1>11, <1>12, <1>13, <1>14, <1>15 DEF QuietInv

\* Crediting the AGF with n freed blocks.
LEMMA CreditFacts ==
  ASSUME QuietType, NEW n \in Int
  PROVE  /\ Credit(n) \in AGF
         /\ Credit(n).freeblks = agf.freeblks + n
         /\ Credit(n).longest = Longest(cnt)
         /\ Credit(n).btreeblks = agf.btreeblks
<1> DEFINE L == Longest(cnt)
<1>1. L \in Nat /\ agf \in AGF
  BY LongestIsMax DEF QuietType, AGF
<1>2. Credit(n) = [[agf EXCEPT !.freeblks = @ + n] EXCEPT !.longest = L]
  BY DEF Credit
<1> HIDE DEF L
<1>3. agf.freeblks + n \in Int
  BY <1>1 DEF AGF
<1>4. Credit(n) = [freeblks |-> agf.freeblks + n, longest |-> L, btreeblks |-> agf.btreeblks]
  BY <1>1, <1>2 DEF AGF
<1> QED
  BY <1>1, <1>3, <1>4 DEF AGF, L

\* The counters are credited at the end of a freeBlocks call.
LEMMA WriteAGFInv ==
  ASSUME QuietInv, WriteAGF
  PROVE  QuietInv'
<1>1. /\ op.pc = "agf" /\ agf' = Credit(op.run.count)
      /\ op' = [pc |-> EndPC(queue), run |-> NoRun]
      /\ UNCHANGED <<bno, cnt, held, tree, queue, reserve, hooked, sub>>
  BY DEF WriteAGF
<1>2. QuietType /\ QuietOwner /\ QuietCount /\ ControlInv /\ QuietAgree /\ Disjoint(bno)
  BY DEF QuietInv
<1>3. sub.pc = "none" /\ op.run \in Extent /\ op.run.count \in Int
  BY <1>1, <1>2, AreaAssumption DEF ControlInv, Extent
<1>4. /\ agf' \in AGF /\ agf'.freeblks = agf.freeblks + op.run.count
      /\ agf'.longest = Longest(cnt) /\ agf'.btreeblks = agf.btreeblks
  BY <1>1, <1>2, <1>3, CreditFacts
<1>5. /\ op'.pc \in {"idle", "drain"} /\ (op'.pc = "idle" => queue' = {})
      /\ op' \in [pc : OpPC, run : Extent \cup {NoRun}]
  BY <1>1 DEF EndPC, OpPC
<1>6. /\ OpPending = {} /\ OpPending' = {} /\ SubPending' = SubPending
      /\ BnoOnly = {} /\ BnoOnly' = {} /\ OpOwed = op.run.count /\ OpOwed' = 0
      /\ SubOwed = 0 /\ SubOwed' = 0
  BY <1>1, <1>3, <1>5 DEF OpPending, SubPending, BnoOnly, OpOwed, SubOwed
<1>7. QuietType'
  BY <1>1, <1>2, <1>4, <1>5 DEF QuietType, AGF
<1>8. QuietAgree' /\ Disjoint(bno')
  BY <1>1, <1>2, <1>6 DEF QuietAgree
<1>9. QuietOwner'
  BY <1>1, <1>2, <1>6 DEF QuietOwner
<1>10. QuietCount'
  <2>1. agf.freeblks \in Int
    BY <1>2 DEF QuietType
  <2>2. agf'.freeblks + OpOwed' + SubOwed' = Cardinality(Cover(bno'))
    BY <1>1, <1>2, <1>3, <1>4, <1>6, <2>1 DEF QuietCount
  <2> QED
    BY <1>1, <1>2, <1>4, <2>2 DEF QuietCount
<1>11. ControlInv'
  BY <1>1, <1>2, <1>3, <1>5 DEF ControlInv
<1> QED
  BY <1>7, <1>8, <1>9, <1>10, <1>11 DEF QuietInv

\* A nested freeBlocks inserts its run into the by-block tree.
LEMMA SubInsertBnoInv ==
  ASSUME QuietInv, SubInsertBno
  PROVE  QuietInv'
<1>1. /\ sub.pc = "bno" /\ bno' = bno \cup {sub.run}
      /\ sub' = [sub EXCEPT !.pc = "cnt"]
      /\ UNCHANGED <<cnt, agf, held, tree, queue, reserve, hooked, op>>
  BY DEF SubInsertBno
<1>2. QuietType /\ QuietOwner /\ QuietCount /\ ControlInv /\ QuietAgree /\ Disjoint(bno)
  BY DEF QuietInv
<1>3. /\ sub.run \in Extent /\ Run(sub.run) \subseteq Area
      /\ op.pc \in {"bno_release", "cnt_release", "drain"}
  BY <1>1, <1>2 DEF ControlInv
<1>4. /\ sub'.pc = "cnt" /\ sub'.run = sub.run
      /\ sub' \in [pc : SubPC, run : Extent \cup {NoRun}]
  BY <1>1, <1>2 DEF QuietType, SubPC
<1>5. /\ SubPending = Run(sub.run) /\ SubPending' = {} /\ OpPending' = OpPending
      /\ SubOwed = 0 /\ SubOwed' = sub.run.count /\ OpOwed' = OpOwed
      /\ BnoOnly' = BnoOnly \cup {sub.run}
  BY <1>1, <1>4 DEF SubPending, OpPending, SubOwed, OpOwed, BnoOnly
<1>6. Partition(Cover(bno), held, tree, queue, Run(reserve), OpPending, Run(sub.run))
  BY <1>2, <1>5 DEF QuietOwner
<1>7. Cover(bno) \subseteq Area /\ Cover(bno) \cap Run(sub.run) = {}
  BY <1>6 DEF Partition
<1>8. /\ Disjoint(bno') /\ sub.run \notin bno
      /\ Cover(bno') = Cover(bno) \cup Run(sub.run)
      /\ Cardinality(Cover(bno')) = Cardinality(Cover(bno)) + sub.run.count
  BY <1>1, <1>2, <1>3, <1>7, InsertCover DEF QuietType
<1>9. QuietType'
  BY <1>1, <1>2, <1>3, <1>4 DEF QuietType
<1>10. QuietAgree'
  BY <1>1, <1>2, <1>5, <1>8 DEF QuietAgree
<1>11. QuietOwner'
  <2> DEFINE f == Cover(bno)
             y == Run(sub.run)
  <2>1. Partition(f \cup y, held, tree, queue, Run(reserve), OpPending, {})
    BY <1>6 DEF Partition
  <2> QED
    BY <1>1, <1>5, <1>8, <2>1 DEF QuietOwner
<1>12. QuietCount'
  <2>1. agf.freeblks \in Int /\ sub.run.count \in Int /\ OpOwed \in Int
    BY <1>2, <1>3, AreaAssumption DEF QuietType, Extent, OpOwed, ControlInv
  <2>2. agf'.freeblks + OpOwed' + SubOwed' = Cardinality(Cover(bno'))
    BY <1>1, <1>2, <1>5, <1>8, <2>1 DEF QuietCount
  <2> QED
    BY <1>1, <1>2, <2>2 DEF QuietCount
<1>13. ControlInv'
  BY <1>1, <1>2, <1>3, <1>4 DEF ControlInv
<1> QED
  BY <1>8, <1>9, <1>10, <1>11, <1>12, <1>13 DEF QuietInv

\* A nested freeBlocks inserts its run into the by-size tree.
LEMMA SubInsertCntInv ==
  ASSUME QuietInv, SubInsertCnt
  PROVE  QuietInv'
<1>1. /\ sub.pc = "cnt" /\ cnt' = cnt \cup {sub.run}
      /\ sub' = [sub EXCEPT !.pc = "agf"]
      /\ UNCHANGED <<bno, agf, held, tree, queue, reserve, hooked, op>>
  BY DEF SubInsertCnt
<1>2. QuietType /\ QuietOwner /\ QuietCount /\ ControlInv /\ QuietAgree /\ Disjoint(bno)
  BY DEF QuietInv
<1>3. /\ sub.run \in Extent /\ Run(sub.run) \subseteq Area
      /\ op.pc \in {"bno_release", "cnt_release", "drain"}
  BY <1>1, <1>2 DEF ControlInv
<1>4. /\ sub'.pc = "agf" /\ sub'.run = sub.run
      /\ sub' \in [pc : SubPC, run : Extent \cup {NoRun}]
  BY <1>1, <1>2 DEF QuietType, SubPC
<1>5. /\ SubPending = {} /\ SubPending' = {} /\ OpPending' = OpPending
      /\ SubOwed' = SubOwed /\ OpOwed' = OpOwed
      /\ BnoOnly = BnoOnly' \cup {sub.run} /\ sub.run \notin BnoOnly'
  BY <1>1, <1>2, <1>3, <1>4 DEF SubPending, OpPending, SubOwed, OpOwed, BnoOnly, ControlInv
<1>6. QuietType'
  BY <1>1, <1>2, <1>3, <1>4 DEF QuietType
<1>7. QuietAgree' /\ Disjoint(bno')
  BY <1>1, <1>2, <1>5 DEF QuietAgree
<1>8. QuietOwner'
  BY <1>1, <1>2, <1>5 DEF QuietOwner
<1>9. QuietCount'
  BY <1>1, <1>2, <1>4, <1>5 DEF QuietCount
<1>10. ControlInv'
  BY <1>1, <1>2, <1>3, <1>4 DEF ControlInv
<1> QED
  BY <1>6, <1>7, <1>8, <1>9, <1>10 DEF QuietInv

\* A nested freeBlocks credits the counters and returns.
LEMMA SubWriteAGFInv ==
  ASSUME QuietInv, SubWriteAGF
  PROVE  QuietInv'
<1>1. /\ sub.pc = "agf" /\ agf' = Credit(sub.run.count) /\ sub' = NoSub
      /\ op' = [op EXCEPT !.pc = CASE op.pc = "bno_release" -> "cnt_reserve"
                                   [] op.pc = "cnt_release" -> "agf"
                                   [] OTHER                 -> EndPC(queue)]
      /\ UNCHANGED <<bno, cnt, held, tree, queue, reserve, hooked>>
  BY DEF SubWriteAGF
<1>2. QuietType /\ QuietOwner /\ QuietCount /\ ControlInv /\ QuietAgree /\ Disjoint(bno)
  BY DEF QuietInv
<1>3. /\ sub.run.count \in Int /\ op.pc \in {"bno_release", "cnt_release", "drain"}
  BY <1>1, <1>2, AreaAssumption DEF ControlInv, Extent
<1>4. /\ agf' \in AGF /\ agf'.freeblks = agf.freeblks + sub.run.count
      /\ agf'.longest = Longest(cnt) /\ agf'.btreeblks = agf.btreeblks
  BY <1>1, <1>2, <1>3, CreditFacts
<1>5. /\ op'.run = op.run
      /\ (op.pc = "bno_release" => op'.pc = "cnt_reserve")
      /\ (op.pc = "cnt_release" => op'.pc = "agf")
      /\ (op.pc = "drain" => op'.pc \in {"idle", "drain"})
      /\ (op'.pc = "idle" => queue' = {})
      /\ op' \in [pc : OpPC, run : Extent \cup {NoRun}]
  BY <1>1, <1>2, <1>3 DEF EndPC, OpPC, QuietType
<1>6. sub'.pc = "none" /\ sub' \in [pc : SubPC, run : Extent \cup {NoRun}]
  BY <1>1 DEF NoSub, SubPC
<1>7. /\ OpPending' = OpPending /\ SubPending' = SubPending /\ BnoOnly' = BnoOnly
      /\ OpOwed' = OpOwed /\ SubOwed = sub.run.count /\ SubOwed' = 0
  BY <1>1, <1>3, <1>5, <1>6 DEF OpPending, SubPending, BnoOnly, OpOwed, SubOwed
<1>8. QuietType'
  BY <1>1, <1>2, <1>4, <1>5, <1>6 DEF QuietType, AGF
<1>9. QuietAgree' /\ Disjoint(bno')
  BY <1>1, <1>2, <1>7 DEF QuietAgree
<1>10. QuietOwner'
  BY <1>1, <1>2, <1>7 DEF QuietOwner
<1>11. QuietCount'
  <2>1. agf.freeblks \in Int /\ OpOwed \in Int
    BY <1>2, AreaAssumption DEF QuietType, OpOwed, ControlInv, Extent
  <2>2. agf'.freeblks + OpOwed' + SubOwed' = Cardinality(Cover(bno'))
    BY <1>1, <1>2, <1>3, <1>4, <1>7, <2>1 DEF QuietCount
  <2> QED
    BY <1>1, <1>2, <1>4, <2>2 DEF QuietCount
<1>12. ControlInv'
  BY <1>1, <1>2, <1>3, <1>5, <1>6 DEF ControlInv
<1> QED
  BY <1>8, <1>9, <1>10, <1>11, <1>12 DEF QuietInv

\* The drain pops a merged-away block and starts to free it.
LEMMA DrainMergedFreeInv ==
  ASSUME QuietInv, DrainMergedFree
  PROVE  QuietInv'
<1>1. PICK b \in queue : /\ queue' = queue \ {b}
                         /\ sub' = [pc |-> "bno", run |-> [start |-> b, count |-> 1]]
  BY DEF DrainMergedFree
<1>2. /\ op.pc = "drain" /\ sub.pc = "none"
      /\ UNCHANGED <<bno, cnt, agf, held, tree, reserve, hooked, op>>
  BY DEF DrainMergedFree
<1>3. QuietType /\ QuietOwner /\ QuietCount /\ ControlInv /\ QuietAgree /\ Disjoint(bno)
  BY DEF QuietInv
<1>4. b \in Area
  BY <1>1, <1>3 DEF QuietType
<1>5. sub'.pc = "bno" /\ sub'.run \in Extent /\ Run(sub'.run) = {b}
  BY <1>1, <1>4, OneBlock
<1>6. sub' \in [pc : SubPC, run : Extent \cup {NoRun}]
  BY <1>1, <1>4, OneBlock DEF SubPC
<1>7. /\ OpPending' = OpPending /\ SubPending = {} /\ SubPending' = {b}
      /\ BnoOnly' = BnoOnly /\ OpOwed' = OpOwed /\ SubOwed' = SubOwed
  BY <1>2, <1>5 DEF OpPending, SubPending, BnoOnly, OpOwed, SubOwed
<1>8. QuietType'
  BY <1>1, <1>2, <1>3, <1>6 DEF QuietType
<1>9. QuietAgree' /\ Disjoint(bno')
  BY <1>2, <1>3, <1>7 DEF QuietAgree
<1>10. QuietOwner'
  <2> DEFINE f == Cover(bno)
             x == Run(reserve)
  <2>1. Partition(f, held, tree, queue, x, OpPending, {})
    BY <1>3, <1>7 DEF QuietOwner
  <2>2. Partition(f, held, tree, queue \ {b}, x, OpPending, {b})
    BY <1>1, <2>1 DEF Partition
  <2> QED
    BY <1>1, <1>2, <1>7, <2>2 DEF QuietOwner
<1>11. QuietCount'
  BY <1>2, <1>3, <1>5, <1>7 DEF QuietCount
<1>12. ControlInv'
  BY <1>2, <1>3, <1>4, <1>5 DEF ControlInv
<1> QED
  BY <1>8, <1>9, <1>10, <1>11, <1>12 DEF QuietInv

-----------------------------------------------------------------------------
(* The steps of an allocBlocks *)

\* Between two calls of allocBlocks the two forms of the invariant are one.
LEMMA QuietForm ==
  ASSUME al = NoAlloc, astray \in BOOLEAN
  PROVE  IInv <=> QuietInv
<1>1. /\ al.pc = "none" /\ al.freed = {} /\ AlPending = {} /\ CntBefore = cnt /\ AlOwed = 0
      /\ al \in [pc : AlPC, rec : Extent \cup {NoRun}, n : Nat, freed : SUBSET Area]
  BY DEF NoAlloc, AlPending, CntBefore, AlOwed, AlPC
<1>2. AllocInv
  BY <1>1 DEF AllocInv
<1>3. TypeOK <=> QuietType
  BY <1>1 DEF TypeOK, QuietType
<1>4. AgreeInv <=> QuietAgree
  BY <1>1 DEF AgreeInv, QuietAgree
<1>5. OwnerInv <=> QuietOwner
  <2>1. queue \cup al.freed = queue /\ Run(reserve) \cup AlPending = Run(reserve)
    BY <1>1
  <2> QED
    BY <2>1 DEF OwnerInv, QuietOwner
<1>6. QuietOwner => (CountInv <=> QuietCount)
  <2>1. QuietOwner => Cardinality(Cover(bno)) \in Nat
    BY AreaSubset DEF QuietOwner, Partition
  <2> QED
    BY <1>1, <2>1 DEF CountInv, QuietCount
<1> QED
  BY <1>2, <1>3, <1>4, <1>5, <1>6 DEF IInv, QuietInv

\* The same for the state after a step that returns from allocBlocks.
LEMMA QuietNext ==
  ASSUME al' = NoAlloc, astray' \in BOOLEAN, QuietInv'
  PROVE  IInv'
<1>1. /\ al'.pc = "none" /\ al'.freed = {} /\ AlPending' = {} /\ CntBefore' = cnt' /\ AlOwed' = 0
      /\ al' \in [pc : AlPC, rec : Extent \cup {NoRun}, n : Nat, freed : SUBSET Area]
  BY DEF NoAlloc, AlPending, CntBefore, AlOwed, AlPC
<1>2. AllocInv'
  BY <1>1 DEF AllocInv
<1>3. TypeOK'
  BY <1>1 DEF TypeOK, QuietInv, QuietType
<1>4. AgreeInv'
  BY <1>1 DEF AgreeInv, QuietInv, QuietAgree
<1>5. OwnerInv'
  <2>1. queue' \cup al'.freed = queue' /\ Run(reserve') \cup AlPending' = Run(reserve')
    BY <1>1
  <2> QED
    BY <2>1 DEF OwnerInv, QuietInv, QuietOwner
<1>6. CountInv'
  <2>1. Cardinality(Cover(bno')) \in Nat
    BY AreaSubset DEF QuietInv, QuietOwner, Partition
  <2> QED
    BY <1>1, <2>1 DEF CountInv, QuietInv, QuietCount
<1> QED
  BY <1>2, <1>3, <1>4, <1>5, <1>6 DEF IInv, QuietInv

\* The remainder of a record of S is no record of S, nor the record itself.
LEMMA RemainderIsNew ==
  ASSUME NEW S \in SUBSET Extent, NEW r \in S, NEW n \in Nat \ {0}, n <= r.count,
         Disjoint(S), Cover(S) \subseteq Area
  PROVE  r \notin Remainder(r, n) /\ Remainder(r, n) \cap S = {}
<1>1. \A x \in Remainder(r, n) : x \in Extent /\ Run(x) \subseteq Run(r)
  BY TakeCover
<1>2. r.count \in Int
  BY AreaAssumption DEF Extent
<1>3. \A x \in Remainder(r, n) : x # r
  BY <1>2 DEF Remainder
<1>4. ASSUME NEW x \in Remainder(r, n), x \in S PROVE FALSE
  <2>1. x.start \in Run(x) /\ Run(x) \cap Run(r) = {}
    BY <1>1, <1>3, <1>4, RunSize DEF Disjoint
  <2> QED
    BY <1>1, <2>1
<1> QED
  BY <1>3, <1>4

\* Where allocBlocks is called from.
Asks(n) ==
  /\ ~hooked
  /\ op'.run = op.run /\ op' \in [pc : OpPC, run : Extent \cup {NoRun}]
  /\ \/ op'.pc = op.pc /\ op.pc # "idle"
     \/ op.pc = "idle" /\ op'.pc = "alloc"
  /\ op'.pc \notin Asking => n = 1

\* The cut in the by-size tree: the by-block tree has the record and keeps it.
LEMMA AllocCntInv ==
  ASSUME QuietInv, al = NoAlloc, astray = FALSE, NEW n \in Nat \ {0}, AllocCnt(n), Asks(n)
  PROVE  IInv'
<1>1. PICK r \in cnt, freed \in SUBSET tree :
        /\ r.count >= n
        /\ cnt' = Take(cnt, r, n)
        /\ tree' = tree \ freed
        /\ agf' = Debit(freed)
        /\ al' = [pc |-> "bno", rec |-> r, n |-> n, freed |-> freed]
  BY DEF AllocCnt
<1>2. UNCHANGED <<bno, held, queue, reserve, hooked, sub, astray>>
  BY DEF AllocCnt
<1>3. /\ QuietType /\ QuietAgree /\ QuietOwner /\ QuietCount /\ ControlInv /\ Disjoint(bno)
      /\ Cover(bno) \subseteq Area /\ bno \in SUBSET Extent
  BY BnoOnlyFacts DEF QuietInv, QuietType
<1>4. r \in bno /\ r \notin BnoOnly /\ r \in Extent /\ r.count \in Int /\ n <= r.count
  BY <1>1, <1>3, AreaAssumption DEF QuietAgree, QuietType, Extent
<1>5. /\ \A x \in Remainder(r, n) : x \in Extent
      /\ r \notin Remainder(r, n) /\ Remainder(r, n) \cap bno = {}
  BY <1>3, <1>4, TakeCover, RemainderIsNew
<1>6. /\ al'.pc = "bno" /\ al'.rec = r /\ al'.n = n /\ al'.freed = freed
      /\ al' \in [pc : AlPC, rec : Extent \cup {NoRun}, n : Nat, freed : SUBSET Area]
  BY <1>1, <1>3, <1>4 DEF AlPC, QuietType
<1>7. Cardinality(freed) \in Nat /\ Cardinality(tree') = Cardinality(tree) - Cardinality(freed)
  BY <1>1, <1>3, AreaSubset, RemoveSum DEF QuietType
<1>8. agf' \in AGF /\ agf'.freeblks = agf.freeblks /\ agf'.btreeblks = agf.btreeblks - Cardinality(freed)
  BY <1>1, <1>3, <1>7 DEF Debit, QuietType, AGF
<1>9. /\ BnoOnly' = BnoOnly /\ OpPending' = OpPending /\ OpOwed' = OpOwed
      /\ SubPending' = SubPending /\ SubOwed' = SubOwed
  BY <1>2 DEF Asks, BnoOnly, OpPending, OpOwed, SubPending, SubOwed
<1>10. TypeOK'
  <2>1. cnt' \subseteq Extent
    BY <1>1, <1>3, <1>5 DEF Take, QuietType
  <2>2. op' \in [pc : OpPC, run : Extent \cup {NoRun}]
    BY DEF Asks
  <2> QED
    BY <1>1, <1>2, <1>3, <1>6, <1>8, <2>1, <2>2 DEF TypeOK, QuietType, AGF
<1>11. cnt \subseteq bno
  BY <1>3 DEF QuietAgree
<1>12. AgreeInv'
  <2>1. CntBefore' = (cnt' \ Remainder(r, n)) \cup {r}
    BY <1>6 DEF CntBefore
  <2>2. CntBefore' = cnt
    BY <1>1, <1>5, <1>11, <2>1 DEF Take
  <2> QED
    BY <1>2, <1>3, <1>9, <2>2 DEF AgreeInv, QuietAgree
<1>13. OwnerInv'
  <2>1. AlPending' = {} /\ Cover(bno') = Cover(bno) /\ Run(reserve') = Run(reserve)
    BY <1>2, <1>6 DEF AlPending
  <2> DEFINE f == Cover(bno)
             x == Run(reserve)
  <2>2. Partition(f, held, tree, queue, x, OpPending, SubPending)
    BY <1>3 DEF QuietOwner
  <2>3. Partition(f, held, tree \ freed, queue \cup freed, x \cup {}, OpPending, SubPending)
    BY <1>1, <2>2 DEF Partition
  <2> QED
    BY <1>1, <1>2, <1>6, <1>9, <2>1, <2>3 DEF OwnerInv
<1>14. CountInv'
  <2>1. AlOwed' = 0 /\ Cardinality(Cover(bno)) \in Nat
    BY <1>3, <1>6, AreaSubset DEF AlOwed
  <2>2. agf.btreeblks \in Int
    BY <1>3 DEF QuietType
  <2> QED
    BY <1>2, <1>3, <1>6, <1>7, <1>8, <1>9, <2>1, <2>2 DEF CountInv, QuietCount
<1>15. ControlInv'
  BY <1>2, <1>3 DEF ControlInv, Asks
<1>16. AllocInv'
  <2>1. r \notin cnt' /\ Remainder(r, n) \subseteq cnt'
    BY <1>1, <1>5 DEF Take
  <2>2. n \in 1 .. r.count
    BY <1>4
  <2>3. al'.rec \notin cnt' \cup BnoOnly' /\ Remainder(al'.rec, al'.n) \subseteq cnt'
    BY <1>4, <1>6, <1>9, <2>1
  <2>4. hooked' = FALSE /\ op'.pc # "idle" /\ (op'.pc \notin Asking => n = 1)
    BY <1>2, <1>3 DEF Asks, QuietType
  <2> QED
    BY <1>4, <1>6, <2>2, <2>3, <2>4 DEF AllocInv
<1> QED
  BY <1>2, <1>3, <1>10, <1>12, <1>13, <1>14, <1>15, <1>16 DEF IInv, Disjoint

\* The cut in the by-block tree finds the record that was cut in the other.
LEMMA AllocBnoFacts ==
  ASSUME IInv, al.pc = "bno"
  PROVE  /\ al.rec \in bno /\ al.n \in Nat \ {0} /\ al.n <= al.rec.count
         /\ SameStart = {al.rec}
         /\ Disjoint(bno) /\ bno \in SUBSET Extent /\ Cover(bno) \subseteq Area
<1>1. /\ AgreeInv /\ Disjoint(bno) /\ bno \in SUBSET Extent /\ Cover(bno) \subseteq Area
      /\ AllocInv
  BY DEF IInv, TypeOK, OwnerInv, Partition
<1>2. al.rec \in bno
  BY <1>1 DEF AgreeInv, CntBefore
<1>3. al.rec \in Extent /\ al.rec.count \in Int /\ al.n \in 1 .. al.rec.count
  BY <1>1, AreaAssumption DEF AllocInv, Extent
<1>4. ASSUME NEW e \in bno, e.start = al.rec.start PROVE e = al.rec
  <2>1. e.start \in Run(e) /\ al.rec.start \in Run(al.rec)
    BY <1>1, <1>3, RunSize
  <2> QED
    BY <1>1, <1>2, <1>4, <2>1 DEF Disjoint
<1>5. SameStart = {al.rec}
  BY <1>2, <1>4 DEF SameStart
<1> QED
  BY <1>1, <1>2, <1>3, <1>5

\* The second cut: the trees list the same records again.
LEMMA AllocBnoInv ==
  ASSUME IInv, AllocBno
  PROVE  IInv'
<1> DEFINE r == al.rec
           n == al.n
<1>1. PICK freed \in SUBSET tree :
        /\ bno' = (bno \ SameStart) \cup Remainder(al.rec, al.n)
        /\ tree' = tree \ freed
        /\ agf' = Debit(freed)
        /\ queue' = queue \cup al.freed \cup freed
  BY DEF AllocBno
<1>2. /\ al.pc = "bno" /\ al' = [al EXCEPT !.pc = "agf", !.freed = {}]
      /\ UNCHANGED <<cnt, held, reserve, hooked, op, sub, astray>>
  BY DEF AllocBno
<1>3. TypeOK /\ AgreeInv /\ OwnerInv /\ CountInv /\ ControlInv /\ AllocInv
  BY DEF IInv
<1>4. /\ r \in bno /\ n \in Nat \ {0} /\ n <= r.count /\ SameStart = {r}
      /\ Disjoint(bno) /\ bno \in SUBSET Extent /\ Cover(bno) \subseteq Area
  BY <1>2, AllocBnoFacts
<1>5. /\ r \in Extent /\ r \notin cnt \cup BnoOnly /\ Remainder(r, n) \subseteq cnt
      /\ n \in 1 .. r.count /\ ~hooked /\ op.pc # "idle" /\ (op.pc \notin Asking => n = 1)
  BY <1>2, <1>3 DEF AllocInv
<1>6. /\ al'.pc = "agf" /\ al'.rec = r /\ al'.n = n /\ al'.freed = {}
      /\ al' \in [pc : AlPC, rec : Extent \cup {NoRun}, n : Nat, freed : SUBSET Area]
  BY <1>2, <1>3 DEF TypeOK, AlPC
<1> HIDE DEF r, n
<1>7. bno' = Take(bno, r, n)
  BY <1>1, <1>4 DEF Take, r, n
<1>8. /\ bno' \subseteq Extent
      /\ Disjoint(bno')
      /\ Taken(r, n) \subseteq Cover(bno)
      /\ Cover(bno') = Cover(bno) \ Taken(r, n)
      /\ Cardinality(Cover(bno')) = Cardinality(Cover(bno)) - n
  BY <1>4, <1>7, TakeCover
<1>9. r \notin Remainder(r, n) /\ Remainder(r, n) \cap bno = {}
  BY <1>4, RemainderIsNew
<1>10. Cardinality(freed) \in Nat /\ Cardinality(tree') = Cardinality(tree) - Cardinality(freed)
  BY <1>1, <1>3, AreaSubset, RemoveSum DEF TypeOK
<1>11. agf' \in AGF /\ agf'.freeblks = agf.freeblks /\ agf'.btreeblks = agf.btreeblks - Cardinality(freed)
  BY <1>1, <1>3, <1>10 DEF Debit, TypeOK, AGF
<1>12. /\ BnoOnly' = BnoOnly /\ OpPending' = OpPending /\ OpOwed' = OpOwed
       /\ SubPending' = SubPending /\ SubOwed' = SubOwed
  BY <1>2 DEF BnoOnly, OpPending, OpOwed, SubPending, SubOwed
<1>13. TypeOK'
  BY <1>1, <1>2, <1>3, <1>6, <1>8, <1>11 DEF TypeOK, AGF
<1>14. AgreeInv'
  <2>1. CntBefore = (cnt \ Remainder(r, n)) \cup {r} /\ CntBefore' = cnt'
    BY <1>2, <1>6 DEF CntBefore, r, n
  <2>2. bno = (cnt \ Remainder(r, n)) \cup {r} \cup BnoOnly
        /\ (cnt \ Remainder(r, n)) \cap BnoOnly = {}
    BY <1>3, <2>1 DEF AgreeInv
  <2>3. bno' = cnt \cup BnoOnly
    BY <1>5, <1>7, <2>2 DEF Take
  <2>4. cnt \cap BnoOnly = {}
    BY <1>9, <2>2
  <2> QED
    BY <1>2, <1>12, <2>1, <2>3, <2>4 DEF AgreeInv
<1>15. OwnerInv'
  <2> DEFINE f == Cover(bno)
             x == Taken(r, n)
             q == queue \cup al.freed
  <2>1. reserve = NoRun /\ AlPending = {} /\ AlPending' = x
    BY <1>2, <1>3, <1>5, <1>6 DEF ControlInv, AlPending
  <2>2. Run(reserve) \cup AlPending = {} /\ Run(reserve') \cup AlPending' = x
    BY <1>2, <2>1, NoRunEmpty
  <2>3. Partition(f, held, tree, q, {}, OpPending, SubPending) /\ x \subseteq f
    BY <1>3, <1>8, <2>2 DEF OwnerInv
  <2>4. queue' \cup al'.freed = q \cup freed
    BY <1>1, <1>6
  <2> HIDE DEF f, x, q
  <2>5. Partition(f \ x, held, tree \ freed, q \cup freed, x, OpPending, SubPending)
    BY <1>1, <2>3 DEF Partition
  <2>6. Cover(bno') = f \ x
    BY <1>8 DEF f, x
  <2> QED
    BY <1>1, <1>2, <1>12, <2>2, <2>4, <2>5, <2>6 DEF OwnerInv
<1>16. CountInv'
  <2>1. AlOwed = 0 /\ AlOwed' = n /\ Cardinality(Cover(bno)) \in Nat /\ n \in Nat
    BY <1>2, <1>4, <1>6, AreaSubset DEF AlOwed
  <2>2. agf.btreeblks \in Int /\ agf.btreeblks = Cardinality(tree)
    BY <1>3 DEF TypeOK, CountInv
  <2>3. agf.freeblks + OpOwed + SubOwed = Cardinality(Cover(bno))
    BY <1>3, <2>1 DEF CountInv
  <2>4. agf'.freeblks + OpOwed' + SubOwed' = Cardinality(Cover(bno')) + AlOwed'
    BY <1>8, <1>11, <1>12, <2>1, <2>3
  <2> QED
    BY <1>6, <1>10, <1>11, <2>2, <2>4 DEF CountInv
<1>17. ControlInv'
  BY <1>2, <1>3, <1>5 DEF ControlInv
<1>18. AllocInv'
  BY <1>2, <1>5, <1>6 DEF AllocInv
<1> QED
  BY <1>8, <1>13, <1>14, <1>15, <1>16, <1>17, <1>18 DEF IInv

\* The AGF write: the blocks reach whoever asked for them.
LEMMA AllocAGFInv ==
  ASSUME IInv, AllocAGF
  PROVE  IInv'
<1> DEFINE r == al.rec
           n == al.n
<1>1. /\ al.pc = "agf" /\ agf' = Deduct(n)
      /\ UNCHANGED <<bno, cnt, tree, queue, sub, astray>>
  BY DEF AllocAGF
<1>2. TypeOK /\ AgreeInv /\ OwnerInv /\ CountInv /\ ControlInv /\ AllocInv /\ Disjoint(bno)
  BY DEF IInv
<1>3. /\ r \in Extent /\ r.count \in Int /\ r.start \in Area /\ n \in 1 .. r.count /\ ~hooked
      /\ op.pc # "idle" /\ (op.pc \notin Asking => n = 1) /\ al.freed = {} /\ reserve = NoRun
  BY <1>1, <1>2, AreaAssumption DEF AllocInv, ControlInv, Extent
<1>4. /\ agf' \in AGF /\ agf'.freeblks = agf.freeblks - n /\ agf'.longest = Longest(cnt')
      /\ agf'.btreeblks = agf.btreeblks
  <2>1. Longest(cnt) \in Nat
    BY <1>2, LongestIsMax DEF TypeOK
  <2> QED
    <3>1. agf \in AGF /\ n \in Int
      BY <1>2, <1>3 DEF TypeOK, AGF
    <3>2. agf' = [agf EXCEPT !.freeblks = @ - n, !.longest = Longest(cnt)] /\ cnt' = cnt
      BY <1>1 DEF Deduct
    <3> DEFINE l == Longest(cnt)
    <3>3. l \in Nat /\ agf' = [agf EXCEPT !.freeblks = @ - n, !.longest = l] /\ l = Longest(cnt')
      BY <2>1, <3>2
    <3> HIDE DEF n, l
    <3>4. agf' = [freeblks |-> agf.freeblks - n, longest |-> l, btreeblks |-> agf.btreeblks]
      BY <3>1, <3>3 DEF AGF
    <3>5. agf.freeblks - n \in Int /\ agf.btreeblks \in Int
      BY <3>1 DEF AGF
    <3> QED
      BY <3>3, <3>4, <3>5 DEF AGF
<1>5. /\ Partition(Cover(bno), held, tree, queue, Taken(r, n), OpPending, SubPending)
      /\ AlPending = Taken(r, n)
  <2>1. AlPending = Taken(r, n) /\ Run(reserve) \cup AlPending = Taken(r, n)
        /\ queue \cup al.freed = queue
    BY <1>1, <1>3, NoRunEmpty DEF AlPending
  <2> QED
    BY <1>2, <2>1 DEF OwnerInv
<1>6. bno = cnt \cup BnoOnly /\ cnt \cap BnoOnly = {}
  BY <1>1, <1>2 DEF AgreeInv, CntBefore
<1>7. /\ agf.freeblks + OpOwed + SubOwed = Cardinality(Cover(bno)) + n
      /\ agf.btreeblks = Cardinality(tree)
      /\ agf.freeblks \in Int /\ Cardinality(Cover(bno)) \in Nat /\ n \in Nat
      /\ OpOwed \in Int /\ SubOwed \in Int
  <2>1. Cardinality(Cover(bno)) \in Nat
    BY <1>5, AreaSubset DEF Partition
  <2>2. OpOwed \in Int /\ SubOwed \in Int
    BY <1>2, AreaAssumption DEF OpOwed, SubOwed, ControlInv, Extent
  <2> QED
    BY <1>1, <1>2, <1>3, <2>1, <2>2 DEF CountInv, AlOwed, TypeOK
<1>8. agf'.freeblks + OpOwed + SubOwed = Cardinality(Cover(bno))
  BY <1>3, <1>4, <1>7
<1>9. astray' \in BOOLEAN
  BY <1>1, <1>2 DEF TypeOK
<1>10. CASE op.pc = "alloc"
  <2>1. /\ held' = held \cup Taken(r, n)
        /\ op' = [op EXCEPT !.pc = EndPC(queue)]
        /\ al' = NoAlloc
        /\ UNCHANGED <<reserve, hooked>>
    BY <1>10 DEF AllocAGF
  <2>2. op'.pc \in {"idle", "drain"} /\ op'.run = op.run
        /\ op' \in [pc : OpPC, run : Extent \cup {NoRun}] /\ (op'.pc = "idle" => queue = {})
    BY <1>2, <2>1 DEF EndPC, OpPC, TypeOK
  <2>3. sub.pc = "none"
    BY <1>2, <1>10 DEF ControlInv, TypeOK, SubPC
  <2>4. /\ BnoOnly' = BnoOnly /\ OpPending' = OpPending /\ OpOwed' = OpOwed
        /\ SubPending' = SubPending /\ SubOwed' = SubOwed
    BY <1>1, <1>10, <2>2 DEF BnoOnly, OpPending, OpOwed, SubPending, SubOwed
  <2>5. QuietType'
    <3>1. Taken(r, n) \subseteq Area
      BY <1>5 DEF Partition
    <3> QED
      BY <1>1, <1>2, <1>4, <2>1, <2>2, <3>1 DEF QuietType, TypeOK, AGF
  <2>6. QuietAgree' /\ Disjoint(bno')
    BY <1>1, <1>2, <1>6, <2>4 DEF QuietAgree
  <2>7. QuietOwner'
    <3> DEFINE x == Taken(r, n)
    <3>1. Partition(Cover(bno), held \cup x, tree, queue, {}, OpPending, SubPending)
      BY <1>5 DEF Partition
    <3> QED
      BY <1>1, <1>3, <2>1, <2>4, <3>1, NoRunEmpty DEF QuietOwner
  <2>8. QuietCount'
    BY <1>1, <1>4, <1>7, <1>8, <2>4 DEF QuietCount
  <2>9. ControlInv'
    BY <1>1, <1>2, <1>3, <2>1, <2>2, <2>3 DEF ControlInv
  <2> QED
    BY <1>9, <2>1, <2>5, <2>6, <2>7, <2>8, <2>9, QuietNext DEF QuietInv
<1>11. CASE op.pc \in {"bno_reserve", "cnt_reserve"}
  <2>1. /\ reserve' = [start |-> r.start, count |-> n]
        /\ hooked' = TRUE
        /\ op' = [op EXCEPT !.pc = ReserveNext]
        /\ al' = NoAlloc
        /\ held' = held
    BY <1>11 DEF AllocAGF
  <2>2. /\ op'.pc \in {"bno", "cnt"} /\ op'.run = op.run
        /\ (op.pc = "bno_reserve" => op'.pc = "bno")
        /\ (op.pc = "cnt_reserve" => op'.pc = "cnt")
        /\ op' \in [pc : OpPC, run : Extent \cup {NoRun}]
    BY <1>2, <1>11, <2>1 DEF ReserveNext, TypeOK, OpPC
  <2>3. sub.pc = "none"
    BY <1>2, <1>11 DEF ControlInv, TypeOK, SubPC
  <2>4. /\ BnoOnly' = BnoOnly /\ OpPending' = OpPending /\ OpOwed' = OpOwed
        /\ SubPending' = SubPending /\ SubOwed' = SubOwed
    BY <1>1, <1>11, <2>2 DEF BnoOnly, OpPending, OpOwed, SubPending, SubOwed
  <2>5. reserve' \in Extent /\ Run(reserve') = Taken(r, n)
    <3>1. n \in 1 .. (Last - First + 1)
      BY <1>3, AreaAssumption DEF Extent
    <3> QED
      BY <1>3, <2>1, <3>1 DEF Extent, Run, Taken
  <2>6. QuietType'
    BY <1>1, <1>2, <1>4, <2>1, <2>2, <2>5 DEF QuietType, TypeOK, AGF
  <2>7. QuietAgree' /\ Disjoint(bno')
    BY <1>1, <1>2, <1>6, <2>4 DEF QuietAgree
  <2>8. QuietOwner'
    BY <1>1, <1>5, <2>1, <2>4, <2>5 DEF QuietOwner
  <2>9. QuietCount'
    BY <1>1, <1>4, <1>7, <1>8, <2>4 DEF QuietCount
  <2>10. ControlInv'
    BY <1>1, <1>2, <1>11, <2>1, <2>2, <2>3 DEF ControlInv
  <2> QED
    BY <1>9, <2>1, <2>6, <2>7, <2>8, <2>9, <2>10, QuietNext DEF QuietInv
<1>12. CASE op.pc \notin Asking
  <2>1. al' = [al EXCEPT !.pc = "split"] /\ UNCHANGED <<held, reserve, hooked, op>>
    BY <1>12 DEF AllocAGF, Asking
  <2>2. /\ al'.pc = "split" /\ al'.rec = r /\ al'.n = n /\ al'.freed = {}
        /\ al' \in [pc : AlPC, rec : Extent \cup {NoRun}, n : Nat, freed : SUBSET Area]
    BY <1>2, <1>3, <2>1 DEF TypeOK, AlPC
  <2>3. /\ BnoOnly' = BnoOnly /\ OpPending' = OpPending /\ OpOwed' = OpOwed
        /\ SubPending' = SubPending /\ SubOwed' = SubOwed
    BY <1>1, <2>1 DEF BnoOnly, OpPending, OpOwed, SubPending, SubOwed
  <2>4. AlPending' = Taken(r, n) /\ CntBefore' = cnt' /\ AlOwed' = 0
    BY <2>2 DEF AlPending, CntBefore, AlOwed
  <2>5. TypeOK'
    BY <1>1, <1>2, <1>4, <2>1, <2>2 DEF TypeOK, AGF
  <2>6. AgreeInv' /\ Disjoint(bno')
    BY <1>1, <1>2, <1>6, <2>3, <2>4 DEF AgreeInv
  <2>7. OwnerInv'
    <3>1. Run(reserve') \cup AlPending' = Taken(r, n) /\ queue' \cup al'.freed = queue
      BY <1>1, <1>3, <2>1, <2>2, <2>4, NoRunEmpty
    <3> QED
      BY <1>1, <1>5, <2>1, <2>3, <3>1 DEF OwnerInv
  <2>8. CountInv'
    BY <1>1, <1>4, <1>7, <1>8, <2>3, <2>4 DEF CountInv
  <2>9. ControlInv'
    BY <1>1, <1>2, <2>1 DEF ControlInv
  <2>10. AllocInv'
    BY <1>3, <1>12, <2>1, <2>2 DEF AllocInv, r, n
  <2> QED
    BY <2>5, <2>6, <2>7, <2>8, <2>9, <2>10 DEF IInv
<1> QED
  BY <1>10, <1>11, <1>12 DEF Asking

\* The carved block becomes a tree node.
LEMMA SplitFromCarveInv ==
  ASSUME IInv, SplitFromCarve
  PROVE  IInv'
<1> DEFINE b == al.rec.start
<1>1. /\ al.pc = "split" /\ tree' = tree \cup {b}
      /\ agf' = [agf EXCEPT !.btreeblks = @ + 1]
      /\ al' = NoAlloc
      /\ UNCHANGED <<bno, cnt, held, queue, reserve, hooked, op, sub, astray>>
  BY DEF SplitFromCarve
<1>2. TypeOK /\ AgreeInv /\ OwnerInv /\ CountInv /\ ControlInv /\ AllocInv /\ Disjoint(bno)
  BY DEF IInv
<1>3. al.rec \in Extent /\ b \in Int /\ ~hooked /\ al.freed = {} /\ reserve = NoRun
  BY <1>1, <1>2, AreaAssumption DEF AllocInv, ControlInv, Extent, Area
<1>4. al.n = 1 /\ Taken(al.rec, al.n) = {b}
  <2>1. al.n = 1
    BY <1>1, <1>2 DEF AllocInv
  <2> QED
    BY <1>3, <2>1 DEF Taken
<1>5. Partition(Cover(bno), held, tree, queue, {b}, OpPending, SubPending)
  <2>1. Run(reserve) \cup AlPending = {b} /\ queue \cup al.freed = queue
    BY <1>1, <1>3, <1>4, NoRunEmpty DEF AlPending
  <2> QED
    BY <1>2, <2>1 DEF OwnerInv
<1> HIDE DEF b
<1>6. /\ BnoOnly' = BnoOnly /\ OpPending' = OpPending /\ OpOwed' = OpOwed
      /\ SubPending' = SubPending /\ SubOwed' = SubOwed
  BY <1>1 DEF BnoOnly, OpPending, OpOwed, SubPending, SubOwed
<1>7. b \in Area /\ b \notin tree
  BY <1>5 DEF Partition
<1>8. Cardinality(tree') = Cardinality(tree) + 1
  BY <1>1, <1>2, <1>7, AddBlock DEF TypeOK
<1>9. /\ agf' \in AGF /\ agf'.freeblks = agf.freeblks /\ agf'.longest = agf.longest
      /\ agf'.btreeblks = agf.btreeblks + 1
  BY <1>1, <1>2 DEF TypeOK, AGF
<1>10. QuietType'
  BY <1>1, <1>2, <1>7, <1>9 DEF QuietType, TypeOK, AGF
<1>11. QuietAgree' /\ Disjoint(bno')
  BY <1>1, <1>2, <1>6 DEF QuietAgree, AgreeInv, CntBefore
<1>12. QuietOwner'
  <2>1. Partition(Cover(bno), held, tree \cup {b}, queue, {}, OpPending, SubPending)
    BY <1>5 DEF Partition
  <2> QED
    BY <1>1, <1>3, <1>6, <2>1, NoRunEmpty DEF QuietOwner
<1>13. QuietCount'
  <2>1. Cardinality(Cover(bno)) \in Nat /\ AlOwed = 0
    BY <1>1, <1>5, AreaSubset DEF Partition, AlOwed
  <2> QED
    BY <1>1, <1>2, <1>6, <1>8, <1>9, <2>1 DEF QuietCount, CountInv
<1>14. ControlInv' /\ astray' \in BOOLEAN
  BY <1>1, <1>2 DEF ControlInv, TypeOK
<1> QED
  BY <1>1, <1>10, <1>11, <1>12, <1>13, <1>14, QuietNext DEF QuietInv

\* A step that changes at most the mark, as when a call goes astray.
LEMMA SameState ==
  ASSUME IInv, astray' \in BOOLEAN,
         UNCHANGED <<bno, cnt, agf, held, tree, queue, reserve, hooked, op, sub, al>>
  PROVE  IInv'
<1>1. /\ bno' = bno /\ cnt' = cnt /\ agf' = agf /\ held' = held /\ tree' = tree /\ queue' = queue
      /\ reserve' = reserve /\ hooked' = hooked /\ op' = op /\ sub' = sub /\ al' = al
  OBVIOUS
<1>2. /\ BnoOnly' = BnoOnly /\ CntBefore' = CntBefore /\ AlPending' = AlPending
      /\ OpPending' = OpPending /\ SubPending' = SubPending
      /\ OpOwed' = OpOwed /\ SubOwed' = SubOwed /\ AlOwed' = AlOwed
  BY <1>1 DEF BnoOnly, CntBefore, AlPending, OpPending, SubPending, OpOwed, SubOwed, AlOwed
<1>3. TypeOK'
  BY <1>1 DEF IInv, TypeOK
<1>4. Disjoint(bno') /\ AgreeInv'
  BY <1>1, <1>2 DEF IInv, AgreeInv
<1>5. OwnerInv'
  BY <1>1, <1>2 DEF IInv, OwnerInv
<1>6. CountInv'
  BY <1>1, <1>2 DEF IInv, CountInv
<1>7. ControlInv'
  BY <1>1 DEF IInv, ControlInv
<1>8. AllocInv'
  BY <1>1, <1>2 DEF IInv, AllocInv
<1> QED
  BY <1>3, <1>4, <1>5, <1>6, <1>7, <1>8 DEF IInv

-----------------------------------------------------------------------------
(* Theorems *)

\* Every step of allocBlocks, freeBlocks, the reserve and the drain preserves
\* the invariant.
LEMMA NextInv == IInv /\ [Next]_vars => IInv'
<1> SUFFICES ASSUME IInv, [Next]_vars PROVE IInv'
  OBVIOUS
<1>1. ASSUME Quiet PROVE al = NoAlloc /\ astray = FALSE /\ QuietInv /\ hooked \in BOOLEAN
  <2>1. al = NoAlloc /\ astray = FALSE /\ astray \in BOOLEAN /\ hooked \in BOOLEAN
    BY <1>1 DEF Quiet, IInv, AllocInv, TypeOK
  <2> QED
    BY <2>1, QuietForm
<1>2. CASE \E n \in 1 .. MaxRequest : AllocBlocks(n)
  <2>1. PICK n \in 1 .. MaxRequest : AllocBlocks(n)
    BY <1>2
  <2>2. n \in Nat \ {0} /\ AllocCnt(n) /\ Quiet
    BY <2>1, BoundAssumption DEF AllocBlocks, AllocCnt
  <2>3. Asks(n)
    BY <1>1, <2>1, <2>2 DEF AllocBlocks, Asks, QuietInv, QuietType, ControlInv, OpPC, Asking
  <2> QED
    BY <1>1, <2>2, <2>3, AllocCntInv
<1>3. CASE \E n \in 2 .. MaxReserve : ReserveSplitBlocks(n)
  <2>1. PICK n \in 2 .. MaxReserve : ReserveSplitBlocks(n)
    BY <1>3
  <2>2. n \in Nat \ {0} /\ AllocCnt(n) /\ Quiet
    BY <2>1, BoundAssumption DEF ReserveSplitBlocks, AllocCnt
  <2>3. Asks(n)
    BY <1>1, <2>1, <2>2 DEF ReserveSplitBlocks, Asks, QuietInv, QuietType, ControlInv, Asking
  <2> QED
    BY <1>1, <2>2, <2>3, AllocCntInv
<1>4. CASE CarveBlock
  <2>1. AllocCnt(1) /\ Quiet
    BY <1>4 DEF CarveBlock, AllocCnt
  <2>2. op.pc # "idle"
    BY <1>1, <1>4, <2>1 DEF CarveBlock, LeafFull, QuietInv, ControlInv
  <2>3. Asks(1)
    BY <1>1, <1>4, <2>1, <2>2 DEF CarveBlock, Asks, QuietInv, QuietType
  <2> QED
    BY <1>1, <2>1, <2>3, AllocCntInv
<1>5. CASE AllocBno
  BY <1>5, AllocBnoInv
<1>6. CASE AllocAGF
  BY <1>6, AllocAGFInv
<1>7. CASE SplitFromCarve
  BY <1>7, SplitFromCarveInv
<1>8. CASE AllocBnoMissed \/ CarveRefused \/ SplitStale
  BY <1>8, SameState DEF AllocBnoMissed, CarveRefused, SplitStale
<1> DEFINE Plain ==
      \/ \E e \in Extent : FreeBlocks(e)
      \/ ReserveFails \/ SplitFromReserve \/ SplitFromQueue
      \/ InsertBno \/ InsertCnt \/ WriteAGF
      \/ SubInsertBno \/ SubInsertCnt \/ SubWriteAGF \/ DrainMergedFree
<1>9. CASE Plain
  <2>1. Quiet /\ UNCHANGED <<al, astray>>
    BY <1>9 DEF FreeBlocks, ReserveFails, SplitFromReserve, SplitFromQueue, LeafFull, InsertBno,
                InsertCnt, WriteAGF, SubInsertBno, SubInsertCnt, SubWriteAGF, DrainMergedFree
  <2>2. QuietInv
    BY <1>1, <2>1
  <2>3. QuietInv'
    BY <1>9, <2>2, FreeBlocksInv, ReserveFailsInv, SplitFromReserveInv, SplitFromQueueInv,
       InsertBnoInv, InsertCntInv, WriteAGFInv, SubInsertBnoInv, SubInsertCntInv,
       SubWriteAGFInv, DrainMergedFreeInv
  <2> QED
    BY <1>1, <2>1, <2>3, QuietNext
<1>10. CASE UNCHANGED vars
  BY <1>10, SameState DEF vars, IInv, TypeOK
<1> QED
  BY <1>2, <1>3, <1>4, <1>5, <1>6, <1>7, <1>8, <1>9, <1>10 DEF Next, Continue

LEMMA InitInv == Init => IInv
  BY InitQuiet, QuietForm DEF Init

\* The invariant holds throughout.
THEOREM Inductive == Spec => []IInv
  BY InitInv, NextInv, PTL DEF Spec

\* Type correctness of the free-space manager.
THEOREM TypeCorrect == Spec => []TypeOK
<1>1. IInv => TypeOK
  BY DEF IInv
<1> QED
  BY <1>1, Inductive, PTL

\* Between any two separate edits no block offered as free is owned by anyone
\* else, and no two free records overlap: whatever the point of a crash, until
\* a call goes astray.
THEOREM NeverDoublyUsed == Spec => []NoDoubleUse
<1>1. IInv => NoDoubleUse
  BY DEF IInv, NoDoubleUse, Disjoint, OwnerInv, Partition
<1> QED
  BY <1>1, Inductive, PTL

\* Between any two separate edits, an allocation's cut in one tree and its cut
\* in the other included, the trees differ by the records in flight only; in
\* particular the second cut always finds its record in the set of the first.
THEOREM TreesStayInStep == Spec => []TreesAgree
<1>1. IInv => TreesAgree
  BY DEF IInv, AgreeInv, TreesAgree
<1> QED
  BY <1>1, Inductive, PTL

\* Between two calls the AGF counters are exact and no block has been lost.
THEOREM CountersStayExact == Spec => []CountersExact
<1>1. IInv => CountersExact
  <2> SUFFICES ASSUME IInv, op.pc = "idle" PROVE CountersExact
    BY DEF CountersExact
  <2>0. QuietInv
    <3>1. al = NoAlloc /\ astray \in BOOLEAN
      BY DEF IInv, AllocInv, TypeOK
    <3> QED
      BY <3>1, QuietForm
  <2>1. /\ QuietType /\ QuietOwner /\ QuietCount /\ QuietAgree
        /\ sub.pc = "none" /\ queue = {} /\ reserve = NoRun
    BY <2>0 DEF QuietInv, ControlInv, QuietType, SubPC
  <2>2. OpPending = {} /\ SubPending = {} /\ BnoOnly = {} /\ OpOwed = 0 /\ SubOwed = 0
    BY <2>1 DEF OpPending, SubPending, BnoOnly, OpOwed, SubOwed
  <2>3. bno = cnt
    BY <2>1, <2>2 DEF QuietAgree
  <2> DEFINE f == Cover(cnt)
  <2>4. Partition(f, held, tree, {}, {}, {}, {})
    BY <2>1, <2>2, <2>3, NoRunEmpty DEF QuietOwner
  <2>5. Area = f \cup held \cup tree
    BY <2>4 DEF Partition
  <2>6. agf.freeblks = Cardinality(f) /\ agf.btreeblks = Cardinality(tree)
        /\ agf.longest = Longest(cnt)
    <3>1. agf.freeblks \in Int
      BY <2>1 DEF QuietType
    <3> QED
      BY <2>1, <2>2, <2>3, <3>1 DEF QuietCount
  <2> HIDE DEF f
  <2>7. Cardinality(Area) = Cardinality(f) + Cardinality(held) + Cardinality(tree)
    <3>1. /\ Cardinality(f \cup held) = Cardinality(f) + Cardinality(held)
      BY <2>4, DisjointSum DEF Partition
    <3>2. Cardinality((f \cup held) \cup tree) = Cardinality(f \cup held) + Cardinality(tree)
      BY <2>4, DisjointSum DEF Partition
    <3> QED
      BY <2>5, <3>1, <3>2
  <2>8. Cardinality(f) \in Nat /\ Cardinality(held) \in Nat /\ Cardinality(tree) \in Nat
    BY <2>4, AreaSubset DEF Partition
  <2>9. agf.freeblks + agf.btreeblks = (Last - First + 1) - Cardinality(held)
    BY <2>6, <2>7, <2>8, AreaSize
  <2> QED
    BY <2>5, <2>6, <2>9 DEF CountersExact, f
<1> QED
  BY <1>1, Inductive, PTL

\* allocBlocks hands out only blocks nobody holds, freeBlocks gives back only
\* the caller's, and all the internal traffic is invisible to the callers.
THEOREM Refinement == Spec => ImplementsAllocator
<1>1. Init => Promise!Init
  BY DEF Init, Promise!Init
<1>2. IInv /\ [Next]_vars => [Promise!Next]_held
  <2> SUFFICES ASSUME IInv, [Next]_vars PROVE [Promise!Next]_held
    OBVIOUS
  <2>1. CASE AllocAGF
    <3> DEFINE r == al.rec
               n == al.n
    <3>1. held' = held \/ held' = held \cup Taken(r, n)
      BY <2>1 DEF AllocAGF
    <3>2. r \in Extent /\ n \in 1 .. r.count /\ AlPending = Taken(r, n)
      BY <2>1 DEF AllocAGF, IInv, AllocInv, AlPending
    <3>3. Taken(r, n) \subseteq Area \ held
      BY <3>2 DEF IInv, OwnerInv, Partition
    <3> DEFINE e == [start |-> r.start, count |-> n]
    <3>4. r.start \in Area /\ n \in 1 .. (Last - First + 1)
      BY <3>2, AreaAssumption DEF Extent
    <3>5. e \in Promise!Extent /\ Promise!Run(e) = Taken(r, n)
      BY <3>4 DEF Promise!Extent, Promise!Area, Area, Promise!Run, Taken
    <3> QED
      BY <3>1, <3>3, <3>5 DEF Promise!Next, Promise!AllocBlocks, Promise!Area, Area
  <2>2. CASE \E e \in Extent : FreeBlocks(e)
    <3>1. PICK e \in Extent : Run(e) \subseteq held /\ held' = held \ Run(e)
      BY <2>2 DEF FreeBlocks
    <3>2. e \in Promise!Extent /\ Promise!Run(e) = Run(e)
      BY <3>1 DEF Promise!Extent, Promise!Area, Promise!Run, Run, Extent, Area
    <3> QED
      BY <3>1, <3>2 DEF Promise!Next, Promise!FreeBlocks
  <2>3. CASE held' = held
    BY <2>3
  <2>4. (\E n \in 1 .. MaxRequest : AllocBlocks(n)) => held' = held
    BY DEF AllocBlocks, AllocCnt
  <2>5. Continue /\ ~AllocAGF => held' = held
    BY DEF Continue, ReserveSplitBlocks, AllocCnt, ReserveFails, SplitFromReserve, SplitFromQueue,
           CarveBlock, CarveRefused, SplitFromCarve, SplitStale, AllocBno, AllocBnoMissed,
           InsertBno, InsertCnt, WriteAGF, SubInsertBno, SubInsertCnt, SubWriteAGF,
           DrainMergedFree
  <2>6. UNCHANGED vars => held' = held
    BY DEF vars
  <2> QED
    BY <2>1, <2>2, <2>3, <2>4, <2>5, <2>6 DEF Next
<1> QED
  BY <1>1, <1>2, Inductive, PTL DEF Spec, ImplementsAllocator, Promise!Spec
=============================================================================
