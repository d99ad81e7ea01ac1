---------------------------- MODULE Volume_proofs ----------------------------
(***************************************************************************)
(* Proofs about Volume for every group size, smallest group, volume bound, *)
(* first block of the volume on its device and set of labels.              *)
(***************************************************************************)
EXTENDS Volume, TLAPS

-----------------------------------------------------------------------------
(* The inductive invariant *)

\* The sizes a volume can have: no group is smaller than Grow allows.
Size == {n \in 1 .. MaxBlocks : \A ag \in Mine(n) : AGLength(n, ag) >= MinAG}

IsSuperblock(s) ==
  /\ s = [len |-> s.len, label |-> s.label, free |-> s.free]
  /\ s.len \in Size /\ s.label \in Labels

IsHeader(h) == h.len \in 1 .. AgBlocks /\ h \in Header(h.len)

\* What is on disk and in the handle has its shape, and the primary is there.
ShapeInv ==
  /\ sbs = [ag \in AGs |-> sbs[ag]] /\ hdr = [ag \in AGs |-> hdr[ag]]
  /\ \A ag \in AGs : sbs[ag] = None \/ IsSuperblock(sbs[ag])
  /\ \A ag \in AGs : hdr[ag] = None \/ IsHeader(hdr[ag])
  /\ sbs[0] # None
  /\ mem \in [len : Size, label : Labels]
  /\ done \in {"none", "same", "grown", "label", "mutation", "error"}
  /\ dirty \in BOOLEAN /\ base \in BOOLEAN /\ over \in BOOLEAN /\ skipped \in BOOLEAN
  /\ stray \in BOOLEAN

\* A call is at one of the groups of the handle's volume, and completes a group
\* it has begun; a call that has ended left nothing under way.
RunInv ==
  /\ \/ run \in {Idle, [op |-> "flush"], [op |-> "sync"]}
     \/ run \in [op : {"ag", "rest", "sec", "sb"}, at : Mine(mem.len)]
     \/ run \in [op : {"label", "named"}, at : Mine(mem.len), label : Labels]
  /\ done # "none" => run = Idle
  /\ PartOffset = 0 /\ run.op = "rest" => hdr[run.at] # None

Growing == run.op \in {"ag", "rest", "sec"}

GroupWritten(ag) == hdr[ag].whole /\ hdr[ag].len = AGLength(mem.len, ag)

\* Each group of the primary's is there.
WrittenInv == ~skipped => WrittenFor(sbs[0].len)

\* How far Grow has come: it works upwards from the first group the primary
\* does not have, and up to there the old groups are full ones.
GrowInv ==
  ~skipped /\ Growing =>
    /\ sbs[0].len % AgBlocks = 0 /\ sbs[0].len <= mem.len
    /\ AGCount(sbs[0].len) <= run.at
    /\ PartOffset = 0 =>
         /\ \A ag \in Mine(mem.len) : ag < run.at => GroupWritten(ag)
         /\ run.op = "rest" => hdr[run.at].len = AGLength(mem.len, run.at)
         /\ run.op = "sec" => GroupWritten(run.at)

\* The primary follows when all groups are there, and the secondaries it.
SuperblocksInv ==
  PartOffset = 0 /\ ~skipped =>
    /\ run.op \in {"sb", "flush"} => WrittenFor(mem.len)
    /\ run.op = "sb" => \A ag \in Mine(mem.len) : ag < run.at => sbs[ag] = SuperblockBuffer
    /\ run.op = "flush" => \A ag \in Mine(mem.len) : sbs[ag] = SuperblockBuffer

Labelled(ag) == sbs[ag] # None /\ sbs[ag].label = run.label

LabelInv ==
  /\ run.op = "label" => \A ag \in Mine(mem.len) : ag < run.at => Labelled(ag)
  /\ run.op = "named" => \A ag \in Mine(mem.len) : Labelled(ag)

\* The counters are exact in the middle of a call too.
CountsInv == ~dirty /\ ~base /\ ~over /\ ~skipped => CountsExact

IInv ==
  /\ ShapeInv
  /\ RunInv
  /\ WrittenInv
  /\ GrowInv
  /\ SuperblocksInv
  /\ LabelInv
  /\ CountsInv
  /\ PartOffset = 0 => GrownOnDisk
  /\ LabelsAgree

-----------------------------------------------------------------------------
(* Groups and sizes *)

\* agCount rounds up: the last group begins before the end of the volume and
\* does not end before it.
LEMMA AGCountBounds ==
  ASSUME NEW len \in Nat \ {0}
  PROVE  /\ AGCount(len) \in Nat \ {0}
         /\ (AGCount(len) - 1) * AgBlocks < len
         /\ len <= AGCount(len) * AgBlocks
<1> DEFINE n == len + AgBlocks - 1
           q == n \div AgBlocks
<1>1. AgBlocks \in Nat \ {0} /\ n \in Nat /\ n >= AgBlocks
  BY VolumeAssumption
<1>2. q \in Nat /\ n = q * AgBlocks + (n % AgBlocks) /\ n % AgBlocks \in 0 .. AgBlocks - 1
  BY <1>1, Z3
<1>3. q # 0
  BY <1>1, <1>2
<1>4. (q - 1) * AgBlocks = q * AgBlocks - AgBlocks
  BY <1>1, <1>2
<1>5. QED
  BY <1>1, <1>2, <1>3, <1>4 DEF AGCount

\* A group belongs to the volume when it begins before its end.
LEMMA MineExact ==
  ASSUME NEW len \in Nat \ {0}, NEW ag \in Nat
  PROVE  ag \in Mine(len) <=> ag * AgBlocks < len
<1> DEFINE c == AGCount(len)
<1>0. AgBlocks \in Nat \ {0}
  BY VolumeAssumption
<1>1. c \in Nat \ {0} /\ (c - 1) * AgBlocks < len /\ len <= c * AgBlocks
  BY AGCountBounds
<1> HIDE DEF c
<1>2. ASSUME ag <= c - 1 PROVE ag * AgBlocks <= (c - 1) * AgBlocks
  BY <1>0, <1>1, <1>2
<1>3. ASSUME c <= ag PROVE c * AgBlocks <= ag * AgBlocks
  BY <1>0, <1>1, <1>3
<1>4. ag * AgBlocks \in Nat /\ c * AgBlocks \in Nat /\ (c - 1) * AgBlocks \in Nat
  BY <1>0, <1>1
<1>5. Mine(len) = 0 .. c - 1
  BY DEF Mine, c
<1>6. CASE ag <= c - 1
  BY <1>1, <1>2, <1>4, <1>5, <1>6
<1>7. CASE c <= ag
  BY <1>1, <1>3, <1>4, <1>5, <1>7
<1>8. QED
  BY <1>1, <1>6, <1>7

\* Sizes and groups are natural numbers that fit the arrays of the model.
LEMMA SizeFacts ==
  ASSUME NEW n \in 1 .. MaxBlocks
  PROVE  /\ n \in Nat \ {0}
         /\ 0 \in Mine(n)
         /\ Mine(n) \subseteq AGs
         /\ Mine(n) \subseteq Nat
<1>1. n \in Nat \ {0} /\ MaxBlocks \in Nat \ {0} /\ AgBlocks \in Nat \ {0}
  BY VolumeAssumption
<1>2. Mine(n) \subseteq Nat /\ AGs = Mine(MaxBlocks)
  BY <1>1, AGCountBounds DEF Mine, AGs
<1>3. 0 \in Mine(n)
  BY <1>1, MineExact
<1>4. ASSUME NEW ag \in Mine(n) PROVE ag \in Mine(MaxBlocks)
  <2>1. ag \in Nat /\ ag * AgBlocks < n /\ ag * AgBlocks \in Nat
    BY <1>1, <1>2, MineExact
  <2>2. ag * AgBlocks < MaxBlocks
    BY <1>1, <2>1
  <2>3. QED
    BY <1>1, <2>1, <2>2, MineExact
<1>5. QED
  BY <1>1, <1>2, <1>3, <1>4

\* agLength: a group of the volume has a block at least and is never longer
\* than the others.
LEMMA LengthBounds ==
  ASSUME NEW n \in 1 .. MaxBlocks, NEW ag \in Mine(n)
  PROVE  AGLength(n, ag) \in 1 .. AgBlocks
<1>1. ag \in Nat /\ AgBlocks \in Nat \ {0} /\ n \in Nat \ {0}
  BY SizeFacts, VolumeAssumption
<1>2. ag * AgBlocks < n /\ ag * AgBlocks \in Nat
  BY <1>1, MineExact
<1>3. (ag + 1) * AgBlocks = ag * AgBlocks + AgBlocks
  BY <1>1
<1>4. QED
  BY <1>1, <1>2, <1>3 DEF AGLength

\* Appending groups to a volume whose last group is full leaves the length of
\* the old groups as it was.
LEMMA FullGroups ==
  ASSUME NEW n \in 1 .. MaxBlocks, NEW m \in 1 .. MaxBlocks, n <= m,
         n % AgBlocks = 0, NEW ag \in Mine(n)
  PROVE  AGLength(n, ag) = AgBlocks /\ AGLength(m, ag) = AgBlocks
<1>1. ag \in Nat /\ AgBlocks \in Nat \ {0} /\ n \in Nat \ {0} /\ m \in Nat
  BY SizeFacts, VolumeAssumption
<1>2. ag * AgBlocks < n
  BY <1>1, MineExact
<1> DEFINE q == n \div AgBlocks
<1>3. q \in Nat /\ n = q * AgBlocks
  BY <1>1, Z3
<1> HIDE DEF q
<1>4. ag < q
  <2>1. ASSUME q <= ag PROVE FALSE
    <3>1. q * AgBlocks <= ag * AgBlocks
      BY <1>1, <1>3, <2>1
    <3>2. QED
      BY <1>1, <1>2, <1>3, <3>1
  <2>2. QED
    BY <1>1, <1>3, <2>1
<1>5. (ag + 1) * AgBlocks <= q * AgBlocks
  BY <1>1, <1>3, <1>4
<1>6. (ag + 1) * AgBlocks <= n /\ (ag + 1) * AgBlocks <= m
  BY <1>1, <1>3, <1>5
<1>7. QED
  BY <1>6 DEF AGLength

\* A volume whose size is a multiple of the group size ends with its last group.
LEMMA FullVolume ==
  ASSUME NEW n \in 1 .. MaxBlocks, n % AgBlocks = 0
  PROVE  AGCount(n) * AgBlocks = n
<1> DEFINE q == n \div AgBlocks
           c == AGCount(n)
<1>1. AgBlocks \in Nat \ {0} /\ n \in Nat \ {0}
  BY VolumeAssumption
<1>2. q \in Nat /\ n = q * AgBlocks
  BY <1>1, Z3
<1>3. c \in Nat /\ (c - 1) * AgBlocks < n /\ n <= c * AgBlocks
  BY <1>1, AGCountBounds
<1> HIDE DEF q, c
<1>4. ASSUME c + 1 <= q PROVE FALSE
  <2>1. (c + 1) * AgBlocks <= q * AgBlocks
    BY <1>1, <1>2, <1>3, <1>4
  <2>2. (c + 1) * AgBlocks = c * AgBlocks + AgBlocks /\ c * AgBlocks \in Nat
    BY <1>1, <1>3
  <2>3. QED
    BY <1>1, <1>2, <1>3, <2>1, <2>2
<1>5. ASSUME q <= c - 1 PROVE FALSE
  <2>1. q * AgBlocks <= (c - 1) * AgBlocks
    BY <1>1, <1>2, <1>3, <1>5
  <2>2. QED
    BY <1>1, <1>2, <1>3, <2>1
<1>6. q = c
  BY <1>2, <1>3, <1>4, <1>5
<1>7. QED
  BY <1>2, <1>6 DEF c

\* A larger volume has the groups of the smaller one.
LEMMA MineGrows ==
  ASSUME NEW n \in 1 .. MaxBlocks, NEW m \in 1 .. MaxBlocks, n <= m
  PROVE  Mine(n) \subseteq Mine(m)
<1>1. AgBlocks \in Nat \ {0} /\ n \in Nat \ {0} /\ m \in Nat \ {0} /\ Mine(n) \subseteq Nat
  BY SizeFacts, VolumeAssumption
<1>2. ASSUME NEW ag \in Mine(n) PROVE ag \in Mine(m)
  <2>1. ag \in Nat /\ ag * AgBlocks < n /\ ag * AgBlocks \in Nat
    BY <1>1, MineExact
  <2>2. QED
    BY <1>1, <2>1, MineExact
<1>3. QED
  BY <1>2

\* growAppendAG looks at the last group only: the ones before it are full.
LEMMA AcceptedSize ==
  ASSUME NEW n \in 1 .. MaxBlocks, AGLength(n, AGCount(n) - 1) >= MinAG
  PROVE  n \in Size
<1>1. AgBlocks \in Nat \ {0} /\ n \in Nat \ {0} /\ MinAG \in 1 .. AgBlocks
  BY VolumeAssumption
<1> DEFINE c == AGCount(n)
<1>2. c \in Nat \ {0} /\ (c - 1) * AgBlocks < n
  BY <1>1, AGCountBounds
<1>3. Mine(n) = 0 .. c - 1
  BY DEF Mine
<1> HIDE DEF c
<1>4. ASSUME NEW ag \in Mine(n) PROVE AGLength(n, ag) >= MinAG
  <2>1. CASE ag = c - 1
    BY <2>1 DEF c
  <2>2. CASE ag < c - 1
    <3>1. ag \in Nat /\ ag + 1 <= c - 1
      BY <1>2, <1>3, <2>2
    <3>2. (ag + 1) * AgBlocks <= (c - 1) * AgBlocks
      BY <1>1, <1>2, <3>1
    <3>3. (ag + 1) * AgBlocks \in Nat /\ (c - 1) * AgBlocks \in Nat
      BY <1>1, <1>2, <3>1
    <3>4. (ag + 1) * AgBlocks <= n
      BY <1>1, <1>2, <3>2, <3>3
    <3>5. QED
      BY <1>1, <3>4 DEF AGLength
  <2>3. QED
    BY <1>2, <1>3, <2>1, <2>2
<1>5. QED
  BY <1>4 DEF Size

\* A volume of one group, as Format leaves it here.
LEMMA OneGroup ==
  /\ AgBlocks \in Size
  /\ Mine(AgBlocks) = {0}
  /\ AGLength(AgBlocks, 0) = AgBlocks
<1>1. AgBlocks \in 1 .. MaxBlocks /\ AgBlocks \in Nat \ {0} /\ MinAG \in 1 .. AgBlocks
  BY VolumeAssumption
<1>2. AGLength(AgBlocks, 0) = AgBlocks
  BY <1>1 DEF AGLength
<1>3. ASSUME NEW ag \in Mine(AgBlocks) PROVE ag = 0
  <2>1. ag \in Nat /\ ag * AgBlocks < AgBlocks
    BY <1>1, SizeFacts, MineExact
  <2>2. ASSUME ag >= 1 PROVE FALSE
    <3>1. ag * AgBlocks >= 1 * AgBlocks
      BY <1>1, <2>1, <2>2
    <3>2. QED
      BY <1>1, <2>1, <3>1
  <2>3. QED
    BY <2>1, <2>2
<1>4. Mine(AgBlocks) = {0}
  BY <1>1, <1>3, SizeFacts
<1>5. QED
  BY <1>1, <1>2, <1>4 DEF Size

\* What fmtWriteAGLen puts into a group header fits the group.
LEMMA FreshHeaderFits ==
  ASSUME NEW n \in Size, NEW ag \in Mine(n)
  PROVE  IsHeader(FreshHeader(n, ag))
<1>1. n \in 1 .. MaxBlocks /\ AGLength(n, ag) >= MinAG
  BY DEF Size
<1>2. AGLength(n, ag) \in 1 .. AgBlocks
  BY <1>1, LengthBounds
<1>3. QED
  BY <1>1, <1>2, VolumeAssumption DEF FreshHeader, IsHeader, Header

\* The sum over the groups depends on the free counts of those groups alone.
LEMMA FreeInLocal ==
  ASSUME NEW h, NEW g, NEW n, \A ag \in Mine(n) : h[ag].free = g[ag].free
  PROVE  FreeIn(h, n) = FreeIn(g, n)
<1>1. [ag \in Mine(n) |-> h[ag].free] = [ag \in Mine(n) |-> g[ag].free]
  OBVIOUS
<1>2. QED
  BY <1>1 DEF FreeIn

-----------------------------------------------------------------------------
(* Induction: one lemma per step of the volume *)

\* What every step may use about the blocks it touches.
LEMMA Bases ==
  ASSUME ShapeInv
  PROVE  /\ mem.len \in Size /\ mem.len \in 1 .. MaxBlocks /\ mem.label \in Labels
         /\ mem = [len |-> mem.len, label |-> mem.label]
         /\ 0 \in Mine(mem.len) /\ Mine(mem.len) \subseteq AGs /\ Mine(mem.len) \subseteq Nat
         /\ 0 \in AGs /\ IsSuperblock(sbs[0])
         /\ sbs[0].len \in 1 .. MaxBlocks
         /\ Mine(sbs[0].len) \subseteq AGs /\ Mine(sbs[0].len) \subseteq Nat
         /\ 0 \in Mine(sbs[0].len)
<1>1. mem.len \in Size /\ mem.label \in Labels /\ mem = [len |-> mem.len, label |-> mem.label]
  BY DEF ShapeInv
<1>2. mem.len \in 1 .. MaxBlocks
  BY <1>1 DEF Size
<1>3. 0 \in AGs /\ 0 \in Mine(mem.len) /\ Mine(mem.len) \subseteq AGs /\ Mine(mem.len) \subseteq Nat
  BY <1>2, SizeFacts
<1>4. IsSuperblock(sbs[0])
  BY <1>3 DEF ShapeInv
<1>5. sbs[0].len \in 1 .. MaxBlocks
  BY <1>4 DEF IsSuperblock, Size
<1>6. QED
  BY <1>1, <1>2, <1>3, <1>4, <1>5, SizeFacts

LEMMA InitHolds == Init => IInv
<1> SUFFICES ASSUME Init PROVE IInv
  OBVIOUS
<1>1. PICK label \in Labels : Formatted(AgBlocks, label)
  BY DEF Init
<1>2. /\ sbs = [ag \in AGs |-> IF ag = 0
                               THEN [len |-> AgBlocks, label |-> label, free |-> BaseFree(AgBlocks)]
                               ELSE None]
      /\ hdr = [ag \in AGs |-> IF ag = 0
                               THEN [len |-> AgBlocks, free |-> AgBlocks - Meta, whole |-> TRUE]
                               ELSE None]
      /\ mem = [len |-> AgBlocks, label |-> label]
  BY <1>1, OneGroup DEF Formatted
<1>3. 0 \in AGs /\ AgBlocks \in Nat \ {0} /\ Meta \in 0 .. AgBlocks - 1
  BY OneGroup, SizeFacts, VolumeAssumption DEF Size
<1>4. ShapeInv
  <2>1. IsSuperblock(sbs[0]) /\ sbs[0] # None
    BY <1>2, <1>3, OneGroup DEF IsSuperblock, None
  <2>2. IsHeader(hdr[0])
    BY <1>2, <1>3 DEF IsHeader, Header
  <2>3. QED
    BY <1>2, <1>3, <2>1, <2>2, OneGroup DEF ShapeInv, Init
<1>5. run = Idle /\ done = "none" /\ RunInv
  BY DEF Init, RunInv, Idle
<1>6. WrittenInv
  BY <1>2, <1>3, OneGroup DEF WrittenInv, WrittenFor
<1>7. CountsInv
  <2>1. sbs[0].free = BaseFree(AgBlocks) /\ sbs[0].len = AgBlocks
    BY <1>2, <1>3
  <2>2. [ag \in Mine(AgBlocks) |-> hdr[ag].free]
          = [ag \in 0 .. AGCount(AgBlocks) - 1 |-> AGLength(AgBlocks, ag) - Meta]
    BY <1>2, <1>3, OneGroup DEF Mine
  <2>3. QED
    BY <2>1, <2>2 DEF CountsInv, CountsExact, FreeIn, BaseFree
<1>8. QED
  BY <1>4, <1>5, <1>6, <1>7
     DEF IInv, GrowInv, Growing, SuperblocksInv, LabelInv, GrownOnDisk, LabelsAgree, Idle

\* Grow to the size the handle has does nothing.
LEMMA GrowNothingStep ==
  ASSUME IInv, NEW n, GrowNothing(n)
  PROVE  IInv'
<1>1. UNCHANGED <<sbs, hdr, mem, run, dirty, base, over, skipped, stray>> /\ done' = "same" /\ run = Idle
  BY DEF GrowNothing, marks
<1>2. ShapeInv' /\ RunInv'
  BY <1>1 DEF IInv, ShapeInv, RunInv
<1>3. WrittenInv' /\ CountsInv'
  BY <1>1 DEF IInv, WrittenInv, WrittenFor, CountsInv, CountsExact
<1>4. QED
  BY <1>1, <1>2, <1>3
     DEF IInv, GrowInv, Growing, SuperblocksInv, LabelInv, GrownOnDisk, LabelsAgree, Idle

\* Grow begins on a full volume: the groups before the first new one are there.
LEMMA GrowStartStep ==
  ASSUME IInv, NEW n \in 1 .. MaxBlocks, GrowStart(n)
  PROVE  IInv'
<1>1. /\ UNCHANGED <<sbs, hdr, dirty, base, over, stray>> /\ done' = "none"
      /\ n > mem.len /\ mem.len % AgBlocks = 0 /\ AGLength(n, AGCount(n) - 1) >= MinAG
      /\ mem' = [mem EXCEPT !.len = n] /\ run' = [op |-> "ag", at |-> AGCount(mem.len)]
      /\ skipped' = (skipped \/ Ahead)
  BY DEF GrowStart, GrowAccepts
<1> DEFINE old == mem.len
<1>2. /\ old \in 1 .. MaxBlocks /\ mem = [len |-> old, label |-> mem.label]
      /\ mem.label \in Labels /\ Mine(old) \subseteq Nat
  BY Bases DEF IInv
<1>3. mem' = [len |-> n, label |-> mem.label] /\ n \in Size
  BY <1>1, <1>2, AcceptedSize
<1>4. AGCount(old) \in Mine(n)
  <2>1. AGCount(old) \in Nat /\ AGCount(old) \notin Mine(old)
    BY <1>2, AGCountBounds DEF Mine
  <2>2. AgBlocks \in Nat \ {0} /\ old \in Nat \ {0} /\ n \in Nat \ {0}
    BY <1>2, VolumeAssumption
  <2>3. AGCount(old) * AgBlocks = old
    BY <1>1, <1>2, FullVolume
  <2>4. QED
    BY <1>1, <2>1, <2>2, <2>3, MineExact
<1>5. ShapeInv'
  BY <1>1, <1>3 DEF IInv, ShapeInv, Ahead
<1>6. RunInv'
  BY <1>1, <1>3, <1>4 DEF RunInv
<1>7. WrittenInv' /\ CountsInv'
  BY <1>1 DEF IInv, WrittenInv, WrittenFor, CountsInv, CountsExact, Ahead
<1>8. GrowInv'
  <2> SUFFICES ASSUME ~skipped'
               PROVE  /\ sbs[0].len % AgBlocks = 0 /\ sbs[0].len <= n
                      /\ AGCount(sbs[0].len) <= AGCount(old)
                      /\ \A ag \in Mine(n) : ag < AGCount(old) =>
                           hdr[ag].whole /\ hdr[ag].len = AGLength(n, ag)
    BY <1>1, <1>3 DEF GrowInv, Growing, GroupWritten
  <2>1. ~skipped /\ sbs[0].len = old
    BY <1>1 DEF Ahead, IInv, ShapeInv
  <2>2. AGCount(old) \in Nat
    BY <1>2, AGCountBounds
  <2>3. ASSUME NEW ag \in Mine(n), ag < AGCount(old)
        PROVE  hdr[ag].whole /\ hdr[ag].len = AGLength(n, ag)
    <3>1. ag \in Mine(old)
      BY <2>2, <2>3, SizeFacts DEF Mine
    <3>2. hdr[ag].whole /\ hdr[ag].len = AGLength(old, ag)
      BY <2>1, <3>1 DEF IInv, WrittenInv, WrittenFor
    <3>3. AGLength(old, ag) = AGLength(n, ag)
      BY <1>1, <1>2, <3>1, FullGroups
    <3>4. QED
      BY <3>2, <3>3
  <2>4. QED
    BY <1>1, <1>2, <2>1, <2>2, <2>3
<1>9. QED
  BY <1>1, <1>5, <1>6, <1>7, <1>8
     DEF IInv, SuperblocksInv, LabelInv, GrownOnDisk, LabelsAgree

\* Where a call under way is.
LEMMA Cursor ==
  ASSUME IInv
  PROVE  /\ run.op \in {"ag", "rest", "sec", "sb"} =>
              /\ run.at \in Mine(mem.len) /\ run.at \in AGs /\ run.at \in Nat
              /\ run = [op |-> run.op, at |-> run.at]
         /\ run.op \in {"label", "named"} =>
              /\ run.at \in Mine(mem.len) /\ run.at \in AGs /\ run.at \in Nat
              /\ run.label \in Labels
              /\ run = [op |-> run.op, at |-> run.at, label |-> run.label]
         /\ run.op # "idle" => done = "none"
<1>1. Mine(mem.len) \subseteq AGs /\ Mine(mem.len) \subseteq Nat
  BY Bases DEF IInv
<1>2. QED
  BY <1>1 DEF IInv, RunInv, Idle

\* The AGF of a new group: no group of the primary's is touched.
LEMMA GrowWriteAGFStep ==
  ASSUME IInv, GrowWriteAGF
  PROVE  IInv'
<1> DEFINE at == run.at
           fresh == FreshHeader(mem.len, at)
<1>1. /\ run.op = "ag"
      /\ hdr' = [hdr EXCEPT ![at] = Lands(@, fresh)]
      /\ run' = [run EXCEPT !.op = "rest"] /\ stray' = Strays(at, 1)
      /\ UNCHANGED <<sbs, mem, done, dirty, base, over, skipped>>
  BY DEF GrowWriteAGF, marks
<1>2. /\ at \in Mine(mem.len) /\ at \in AGs /\ at \in Nat /\ done = "none"
      /\ run' = [op |-> "rest", at |-> at] /\ mem'.len = mem.len /\ done' = "none"
  BY <1>1, Cursor
<1>3. mem.len \in Size /\ Mine(sbs[0].len) \subseteq AGs /\ sbs[0].len \in 1 .. MaxBlocks
  BY Bases DEF IInv
<1>4. IsHeader(fresh) /\ fresh.len = AGLength(mem.len, at)
  BY <1>2, <1>3, FreshHeaderFits DEF FreshHeader
<1>5. /\ hdr'[at] = IF PartOffset = 0 THEN fresh ELSE hdr[at]
      /\ \A ag \in AGs : ag # at => hdr'[ag] = hdr[ag]
      /\ hdr' = [ag \in AGs |-> hdr'[ag]]
  BY <1>1, <1>2 DEF Lands, IInv, ShapeInv
<1>6. ~skipped => at \notin Mine(sbs[0].len)
  BY <1>1, <1>2, <1>3, AGCountBounds DEF IInv, GrowInv, Growing, Mine
<1> HIDE DEF at, fresh
<1>7. ShapeInv'
  <2>1. stray' \in BOOLEAN
    BY <1>1 DEF Strays
  <2>2. QED
    BY <1>1, <1>4, <1>5, <2>1 DEF IInv, ShapeInv
<1>8. RunInv'
  <2>1. hdr'[at] # None \/ PartOffset # 0
    BY <1>4, <1>5 DEF IsHeader, None
  <2>2. QED
    BY <1>2, <2>1 DEF RunInv
<1>9. WrittenInv'
  BY <1>1, <1>3, <1>5, <1>6 DEF IInv, WrittenInv, WrittenFor
<1>10. GrowInv'
  <2> SUFFICES ASSUME ~skipped PROVE GrowInv'
    BY <1>1 DEF GrowInv
  <2>1. /\ sbs[0].len % AgBlocks = 0 /\ sbs[0].len <= mem.len
        /\ AGCount(sbs[0].len) <= at
        /\ PartOffset = 0 => \A ag \in Mine(mem.len) : ag < at => GroupWritten(ag)
    BY <1>1 DEF IInv, GrowInv, Growing, at
  <2>2. PartOffset = 0 => hdr'[at].len = AGLength(mem.len, at)
    BY <1>4, <1>5
  <2>3. PartOffset = 0 => \A ag \in Mine(mem.len) : ag < at => GroupWritten(ag)'
    BY <1>1, <1>2, <1>5, <2>1, Bases DEF GroupWritten, IInv
  <2>4. QED
    BY <1>1, <1>2, <2>1, <2>2, <2>3 DEF GrowInv, Growing
<1>11. CountsInv'
  <2>1. ~skipped => FreeIn(hdr', sbs[0].len) = FreeIn(hdr, sbs[0].len)
    <3>1. ~skipped => \A ag \in Mine(sbs[0].len) : hdr'[ag].free = hdr[ag].free
      BY <1>3, <1>5, <1>6
    <3>2. QED
      BY <3>1, FreeInLocal
  <2>2. QED
    BY <1>1, <2>1 DEF IInv, CountsInv, CountsExact
<1>12. QED
  BY <1>1, <1>2, <1>7, <1>8, <1>9, <1>10, <1>11
     DEF IInv, SuperblocksInv, LabelInv, GrownOnDisk, LabelsAgree

\* The rest of the group's blocks.
LEMMA GrowWriteRestStep ==
  ASSUME IInv, GrowWriteRest
  PROVE  IInv'
<1> DEFINE at == run.at
<1>1. /\ run.op = "rest"
      /\ hdr' = [hdr EXCEPT ![at] = Lands(@, [@ EXCEPT !.whole = TRUE])]
      /\ run' = [run EXCEPT !.op = "sec"] /\ stray' = Strays(at, Meta)
      /\ UNCHANGED <<sbs, mem, done, dirty, base, over, skipped>>
  BY DEF GrowWriteRest, marks
<1>2. /\ at \in Mine(mem.len) /\ at \in AGs /\ at \in Nat /\ done = "none"
      /\ run' = [op |-> "sec", at |-> at] /\ mem'.len = mem.len /\ done' = "none"
  BY <1>1, Cursor
<1>3. mem.len \in Size /\ Mine(sbs[0].len) \subseteq AGs /\ sbs[0].len \in 1 .. MaxBlocks
  BY Bases DEF IInv
<1>4. /\ hdr'[at] = IF PartOffset = 0 THEN [hdr[at] EXCEPT !.whole = TRUE] ELSE hdr[at]
      /\ \A ag \in AGs : ag # at => hdr'[ag] = hdr[ag]
      /\ hdr' = [ag \in AGs |-> hdr'[ag]]
  BY <1>1, <1>2 DEF Lands, IInv, ShapeInv
<1>5. ~skipped => at \notin Mine(sbs[0].len)
  BY <1>1, <1>2, <1>3, AGCountBounds DEF IInv, GrowInv, Growing, Mine
<1> HIDE DEF at
<1>6. ShapeInv'
  <2>1. hdr[at] = None \/ IsHeader(hdr[at])
    BY <1>2 DEF IInv, ShapeInv
  <2>2. PartOffset = 0 => hdr[at] # None
    BY <1>1 DEF IInv, RunInv, at
  <2>3. IsHeader(hdr[at]) => IsHeader([hdr[at] EXCEPT !.whole = TRUE])
    BY DEF IsHeader, Header
  <2>4. stray' \in BOOLEAN
    BY <1>1 DEF Strays
  <2>5. QED
    BY <1>1, <1>4, <2>1, <2>2, <2>3, <2>4 DEF IInv, ShapeInv
<1>7. RunInv'
  BY <1>2 DEF RunInv
<1>8. WrittenInv'
  BY <1>1, <1>3, <1>4, <1>5 DEF IInv, WrittenInv, WrittenFor
<1>9. GrowInv'
  <2> SUFFICES ASSUME ~skipped PROVE GrowInv'
    BY <1>1 DEF GrowInv
  <2>1. /\ sbs[0].len % AgBlocks = 0 /\ sbs[0].len <= mem.len
        /\ AGCount(sbs[0].len) <= at
        /\ PartOffset = 0 => /\ \A ag \in Mine(mem.len) : ag < at => GroupWritten(ag)
                             /\ hdr[at].len = AGLength(mem.len, at)
    BY <1>1 DEF IInv, GrowInv, Growing, at
  <2>2. PartOffset = 0 => hdr'[at].whole /\ hdr'[at].len = AGLength(mem.len, at)
    <3>1. PartOffset = 0 => IsHeader(hdr[at])
      BY <1>1, <1>2 DEF IInv, ShapeInv, RunInv, at
    <3>2. QED
      BY <1>2, <1>4, <2>1, <3>1 DEF IsHeader, Header
  <2>3. PartOffset = 0 => \A ag \in Mine(mem.len) : ag < at => GroupWritten(ag)'
    BY <1>1, <1>2, <1>4, <2>1, Bases DEF GroupWritten, IInv
  <2>4. PartOffset = 0 => GroupWritten(run.at)'
    BY <1>2, <2>2 DEF GroupWritten
  <2>5. run'.op = "sec" /\ run'.at = at /\ sbs' = sbs
    BY <1>1, <1>2
  <2>6. QED
    BY <1>2, <2>1, <2>3, <2>4, <2>5 DEF GrowInv
<1>10. CountsInv'
  <2>1. ~skipped => FreeIn(hdr', sbs[0].len) = FreeIn(hdr, sbs[0].len)
    <3>1. ~skipped => \A ag \in Mine(sbs[0].len) : hdr'[ag].free = hdr[ag].free
      BY <1>3, <1>4, <1>5
    <3>2. QED
      BY <3>1, FreeInLocal
  <2>2. QED
    BY <1>1, <2>1 DEF IInv, CountsInv, CountsExact
<1>11. QED
  BY <1>1, <1>2, <1>6, <1>7, <1>8, <1>9, <1>10
     DEF IInv, SuperblocksInv, LabelInv, GrownOnDisk, LabelsAgree

\* A buffer that Grow writes is a superblock of the handle's volume.
LEMMA BufferFits ==
  ASSUME ShapeInv
  PROVE  /\ IsSuperblock(SuperblockBuffer) /\ SuperblockBuffer # None
         /\ SuperblockBuffer.len = mem.len /\ SuperblockBuffer.label = mem.label
<1>1. mem.len \in Size /\ mem.len \in 1 .. MaxBlocks /\ mem.label \in Labels
  BY Bases
<1>2. SuperblockBuffer.len = mem.len /\ SuperblockBuffer.label = mem.label
  BY DEF SuperblockBuffer
<1>3. IsSuperblock(SuperblockBuffer)
  BY <1>1 DEF SuperblockBuffer, IsSuperblock
<1>4. SuperblockBuffer # None
  BY <1>1, <1>2 DEF None
<1>5. QED
  BY <1>2, <1>3, <1>4

\* The last group is the one that no further one follows.
LEMMA LastGroup ==
  ASSUME NEW n \in 1 .. MaxBlocks, NEW at \in Mine(n), at + 1 \notin Mine(n), NEW ag \in Mine(n)
  PROVE  ag < at \/ ag = at
BY SizeFacts, AGCountBounds DEF Mine

\* The superblock of a new group; then the next group, or the primary.
LEMMA GrowWriteSecondaryStep ==
  ASSUME IInv, GrowWriteSecondary
  PROVE  IInv'
<1> DEFINE at == run.at
<1>1. /\ run.op = "sec"
      /\ sbs' = [sbs EXCEPT ![at] = SuperblockBuffer]
      /\ run' = AfterSecondary(at)
      /\ UNCHANGED <<hdr, mem, done, dirty, base, over, skipped, stray>>
  BY DEF GrowWriteSecondary, marks
<1>2. /\ at \in Mine(mem.len) /\ at \in AGs /\ at \in Nat
      /\ mem'.len = mem.len /\ done' = "none" /\ hdr' = hdr /\ skipped' = skipped
  BY <1>1, Cursor
<1>3. \/ at + 1 \in Mine(mem.len) /\ run' = [op |-> "ag", at |-> at + 1]
      \/ at + 1 \notin Mine(mem.len) /\ run' = [op |-> "sb", at |-> 0]
  BY <1>1 DEF AfterSecondary
<1>4. /\ mem.len \in 1 .. MaxBlocks /\ 0 \in Mine(mem.len) /\ 0 \in AGs
      /\ Mine(mem.len) \subseteq Nat
      /\ sbs[0].len \in 1 .. MaxBlocks
  BY Bases DEF IInv
<1>5. /\ sbs'[at] = SuperblockBuffer
      /\ \A ag \in AGs : ag # at => sbs'[ag] = sbs[ag]
      /\ sbs' = [ag \in AGs |-> sbs'[ag]]
  BY <1>1, <1>2 DEF IInv, ShapeInv
<1>6. ~skipped => sbs'[0] = sbs[0]
  <2>1. ~skipped => AGCount(sbs[0].len) <= at
    BY <1>1 DEF IInv, GrowInv, Growing
  <2>2. ~skipped => at # 0
    BY <1>2, <1>4, <2>1, AGCountBounds
  <2>3. QED
    BY <1>4, <1>5, <2>2
<1> HIDE DEF at
<1>7. ShapeInv'
  <2>1. \A ag \in AGs : sbs'[ag] = None \/ IsSuperblock(sbs'[ag])
    BY <1>5, BufferFits DEF IInv, ShapeInv
  <2>2. sbs'[0] # None
    BY <1>4, <1>5, BufferFits DEF IInv, ShapeInv
  <2>3. QED
    BY <1>1, <1>5, <2>1, <2>2 DEF IInv, ShapeInv
<1>8. RunInv'
  BY <1>2, <1>3, <1>4 DEF RunInv
<1>9. WrittenInv'
  BY <1>2, <1>6 DEF IInv, WrittenInv, WrittenFor
<1>10. ASSUME ~skipped
       PROVE  /\ sbs[0].len % AgBlocks = 0 /\ sbs[0].len <= mem.len
              /\ AGCount(sbs[0].len) <= at
              /\ PartOffset = 0 => /\ \A ag \in Mine(mem.len) : ag < at => GroupWritten(ag)
                                   /\ GroupWritten(at)
  BY <1>1, <1>10 DEF IInv, GrowInv, Growing, at
<1>11. GrowInv'
  <2> SUFFICES ASSUME ~skipped, run' = [op |-> "ag", at |-> at + 1] PROVE GrowInv'
    BY <1>2, <1>3 DEF GrowInv, Growing
  <2>1. AGCount(sbs[0].len) <= at + 1
    BY <1>2, <1>4, <1>10, AGCountBounds
  <2>2. PartOffset = 0 => \A ag \in Mine(mem.len) : ag < at + 1 => GroupWritten(ag)
    <3>1. \A ag \in Mine(mem.len) : ag < at + 1 => ag < at \/ ag = at
      BY <1>2, <1>4
    <3>2. QED
      BY <1>10, <3>1
  <2>3. QED
    BY <1>2, <1>6, <1>10, <2>1, <2>2 DEF GrowInv, GroupWritten
<1>12. SuperblocksInv'
  <2> SUFFICES ASSUME ~skipped, PartOffset = 0, at + 1 \notin Mine(mem.len),
                      run' = [op |-> "sb", at |-> 0]
               PROVE  SuperblocksInv'
    BY <1>2, <1>3 DEF SuperblocksInv
  <2>1. \A ag \in Mine(mem.len) : GroupWritten(ag)
    BY <1>2, <1>4, <1>10, LastGroup
  <2>2. \A ag \in Mine(mem.len) : ~(ag < 0)
    BY <1>4
  <2>3. QED
    BY <1>2, <2>1, <2>2 DEF SuperblocksInv, WrittenFor, GroupWritten
<1>13. CountsInv'
  BY <1>1, <1>6 DEF IInv, CountsInv, CountsExact
<1>14. QED
  BY <1>2, <1>3, <1>7, <1>8, <1>9, <1>11, <1>12, <1>13
     DEF IInv, LabelInv, GrownOnDisk, LabelsAgree

\* The primary and its copies, once all groups are there.
LEMMA GrowWriteSuperblockStep ==
  ASSUME IInv, GrowWriteSuperblock
  PROVE  IInv'
<1> DEFINE at == run.at
<1>1. /\ run.op = "sb"
      /\ sbs' = [sbs EXCEPT ![at] = Lands(@, SuperblockBuffer)]
      /\ run' = AfterSuperblock(at)
      /\ base' = (base \/ PartOffset = 0) /\ stray' = Strays(at, 1)
      /\ UNCHANGED <<hdr, mem, done, dirty, over, skipped>>
  BY DEF GrowWriteSuperblock
<1>2. /\ at \in Mine(mem.len) /\ at \in AGs /\ at \in Nat
      /\ mem' = mem /\ done' = "none" /\ hdr' = hdr /\ skipped' = skipped
  BY <1>1, Cursor
<1>3. \/ at + 1 \in Mine(mem.len) /\ run' = [op |-> "sb", at |-> at + 1]
      \/ at + 1 \notin Mine(mem.len) /\ run' = [op |-> "flush"]
  BY <1>1 DEF AfterSuperblock
<1>4. /\ mem.len \in 1 .. MaxBlocks /\ 0 \in AGs
      /\ Mine(mem.len) \subseteq Nat /\ Mine(mem.len) \subseteq AGs
  BY Bases DEF IInv
<1>5. /\ sbs'[at] = IF PartOffset = 0 THEN SuperblockBuffer ELSE sbs[at]
      /\ \A ag \in AGs : ag # at => sbs'[ag] = sbs[ag]
      /\ sbs' = [ag \in AGs |-> sbs'[ag]]
  BY <1>1, <1>2 DEF Lands, IInv, ShapeInv
<1> HIDE DEF at
<1>6. ShapeInv'
  <2>1. \A ag \in AGs : sbs'[ag] = None \/ IsSuperblock(sbs'[ag])
    BY <1>5, BufferFits DEF IInv, ShapeInv
  <2>2. sbs'[0] # None
    BY <1>4, <1>5, BufferFits DEF IInv, ShapeInv
  <2>3. stray' \in BOOLEAN
    BY <1>1 DEF Strays
  <2>4. QED
    BY <1>1, <1>5, <2>1, <2>2, <2>3 DEF IInv, ShapeInv
<1>7. RunInv'
  BY <1>2, <1>3 DEF RunInv
<1>8. ASSUME PartOffset = 0, ~skipped
      PROVE  /\ WrittenFor(mem.len)
             /\ \A ag \in Mine(mem.len) : ag < at => sbs[ag] = SuperblockBuffer
  BY <1>1, <1>8 DEF IInv, SuperblocksInv, at
<1>9. WrittenInv'
  <2>1. CASE PartOffset = 0 /\ at = 0
    BY <1>2, <1>5, <1>8, <2>1, BufferFits DEF IInv, WrittenInv, WrittenFor
  <2>2. CASE PartOffset # 0 \/ at # 0
    <3>1. sbs'[0] = sbs[0]
      BY <1>4, <1>5, <2>2
    <3>2. QED
      BY <1>2, <3>1 DEF IInv, WrittenInv, WrittenFor
  <2>3. QED
    BY <2>1, <2>2
<1>10. SuperblocksInv'
  <2> SUFFICES ASSUME PartOffset = 0, ~skipped PROVE SuperblocksInv'
    BY <1>2 DEF SuperblocksInv
  <2>1. SuperblockBuffer' = SuperblockBuffer /\ WrittenFor(mem.len)'
    BY <1>2, <1>8 DEF SuperblockBuffer, WrittenFor
  <2>2. \A ag \in Mine(mem.len) : ag < at \/ ag = at => sbs'[ag] = SuperblockBuffer
    BY <1>4, <1>5, <1>8
  <2>3. CASE at + 1 \in Mine(mem.len) /\ run' = [op |-> "sb", at |-> at + 1]
    <3>1. \A ag \in Mine(mem.len) : ag < at + 1 => ag < at \/ ag = at
      BY <1>2, <1>4
    <3>2. QED
      BY <1>2, <2>1, <2>2, <2>3, <3>1 DEF SuperblocksInv
  <2>4. CASE at + 1 \notin Mine(mem.len) /\ run' = [op |-> "flush"]
    <3>1. \A ag \in Mine(mem.len) : ag < at \/ ag = at
      BY <1>2, <1>4, <2>4, LastGroup
    <3>2. QED
      BY <1>2, <2>1, <2>2, <2>4, <3>1 DEF SuperblocksInv
  <2>5. QED
    BY <1>3, <2>3, <2>4
<1>11. CountsInv'
  <2>1. CASE PartOffset = 0
    BY <1>1, <2>1 DEF CountsInv, IInv, ShapeInv
  <2>2. CASE PartOffset # 0
    <3>1. sbs'[0] = sbs[0]
      BY <1>4, <1>5, <2>2
    <3>2. QED
      BY <1>1, <1>2, <2>2, <3>1 DEF IInv, CountsInv, CountsExact, ShapeInv
  <2>3. QED
    BY <2>1, <2>2
<1>12. QED
  BY <1>2, <1>3, <1>6, <1>7, <1>9, <1>10, <1>11
     DEF IInv, GrowInv, Growing, LabelInv, GrownOnDisk, LabelsAgree

\* Grow returns: all superblocks are the same.
LEMMA GrowFlushStep ==
  ASSUME IInv, GrowFlush
  PROVE  IInv'
<1>1. /\ run.op = "flush" /\ run' = Idle /\ done' = "grown"
      /\ UNCHANGED <<sbs, hdr, mem, dirty, base, over, skipped, stray>>
  BY DEF GrowFlush, marks
<1>2. ShapeInv' /\ RunInv' /\ WrittenInv' /\ CountsInv'
  BY <1>1 DEF IInv, ShapeInv, RunInv, WrittenInv, WrittenFor, CountsInv, CountsExact, Idle
<1>3. PartOffset = 0 => GrownOnDisk'
  BY <1>1 DEF IInv, SuperblocksInv, GrownOnDisk, WrittenFor, SuperblockBuffer
<1>4. QED
  BY <1>1, <1>2, <1>3 DEF IInv, GrowInv, Growing, SuperblocksInv, LabelInv, LabelsAgree, Idle

LEMMA SetLabelStep ==
  ASSUME IInv, NEW label \in Labels, SetLabel(label)
  PROVE  IInv'
<1>1. /\ run' = [op |-> "label", at |-> 0, label |-> label] /\ done' = "none"
      /\ UNCHANGED <<sbs, hdr, mem, dirty, base, over, skipped, stray>>
  BY DEF SetLabel, marks
<1>2. 0 \in Mine(mem.len) /\ Mine(mem.len) \subseteq Nat
  BY Bases DEF IInv
<1>3. ShapeInv' /\ WrittenInv' /\ CountsInv'
  BY <1>1 DEF IInv, ShapeInv, WrittenInv, WrittenFor, CountsInv, CountsExact
<1>4. RunInv'
  BY <1>1, <1>2 DEF RunInv
<1>5. LabelInv'
  <2>1. \A ag \in Mine(mem.len) : ~(ag < 0)
    BY <1>2
  <2>2. QED
    BY <1>1, <2>1 DEF LabelInv
<1>6. QED
  BY <1>1, <1>3, <1>4, <1>5 DEF IInv, GrowInv, Growing, SuperblocksInv, GrownOnDisk, LabelsAgree

\* One superblock gets the label and keeps the rest.
LEMMA LabelWriteStep ==
  ASSUME IInv, LabelWrite
  PROVE  IInv'
<1> DEFINE at == run.at
           label == run.label
<1>1. /\ run.op = "label" /\ sbs[at] # None
      /\ sbs' = [sbs EXCEPT ![at].label = label]
      /\ run' = AfterLabel
      /\ UNCHANGED <<hdr, mem, done, dirty, base, over, skipped, stray>>
  BY DEF LabelWrite, marks
<1>2. /\ at \in Mine(mem.len) /\ at \in AGs /\ at \in Nat /\ label \in Labels
      /\ run = [op |-> "label", at |-> at, label |-> label]
      /\ mem' = mem /\ done' = "none" /\ hdr' = hdr /\ skipped' = skipped
  BY <1>1, Cursor
<1>3. \/ at + 1 \in Mine(mem.len) /\ run' = [op |-> "label", at |-> at + 1, label |-> label]
      \/ at + 1 \notin Mine(mem.len) /\ run' = [op |-> "named", at |-> at, label |-> label]
  BY <1>1, <1>2 DEF AfterLabel
<1>4. /\ mem.len \in 1 .. MaxBlocks /\ 0 \in AGs
      /\ Mine(mem.len) \subseteq Nat /\ Mine(mem.len) \subseteq AGs
  BY Bases DEF IInv
<1>5. /\ sbs'[at] = [sbs[at] EXCEPT !.label = label]
      /\ \A ag \in AGs : ag # at => sbs'[ag] = sbs[ag]
      /\ sbs' = [ag \in AGs |-> sbs'[ag]]
  BY <1>1, <1>2 DEF IInv, ShapeInv
<1>6. IsSuperblock(sbs[at])
  BY <1>1, <1>2 DEF IInv, ShapeInv
<1> HIDE DEF at, label
<1>7. /\ sbs'[at].len = sbs[at].len /\ sbs'[at].free = sbs[at].free /\ sbs'[at].label = label
      /\ IsSuperblock(sbs'[at])
  BY <1>2, <1>5, <1>6 DEF IsSuperblock
<1>8. sbs'[at] # None
  BY <1>7 DEF IsSuperblock, None, Size
<1>9. ShapeInv'
  BY <1>1, <1>4, <1>5, <1>7, <1>8 DEF IInv, ShapeInv
<1>10. RunInv'
  BY <1>2, <1>3 DEF RunInv
<1>11. sbs'[0].len = sbs[0].len /\ sbs'[0].free = sbs[0].free
  BY <1>4, <1>5, <1>7
<1>12. WrittenInv' /\ CountsInv'
  BY <1>1, <1>11 DEF IInv, WrittenInv, WrittenFor, CountsInv, CountsExact
<1>13. LabelInv'
  <2>1. \A ag \in Mine(mem.len) : ag < at => sbs[ag] # None /\ sbs[ag].label = label
    BY <1>1 DEF IInv, LabelInv, Labelled, at, label
  <2>2. \A ag \in Mine(mem.len) :
          ag < at \/ ag = at => sbs'[ag] # None /\ sbs'[ag].label = label
    BY <1>4, <1>5, <1>7, <1>8, <2>1
  <2>3. CASE at + 1 \in Mine(mem.len) /\ run' = [op |-> "label", at |-> at + 1, label |-> label]
    <3>1. \A ag \in Mine(mem.len) : ag < at + 1 => ag < at \/ ag = at
      BY <1>2, <1>4
    <3>2. QED
      BY <1>2, <2>2, <2>3, <3>1 DEF LabelInv, Labelled
  <2>4. CASE at + 1 \notin Mine(mem.len) /\ run' = [op |-> "named", at |-> at, label |-> label]
    <3>1. \A ag \in Mine(mem.len) : ag < at \/ ag = at
      BY <1>2, <1>4, <2>4, LastGroup
    <3>2. QED
      BY <1>2, <2>2, <2>4, <3>1 DEF LabelInv, Labelled
  <2>5. QED
    BY <1>3, <2>3, <2>4
<1>14. QED
  BY <1>2, <1>3, <1>9, <1>10, <1>12, <1>13
     DEF IInv, GrowInv, Growing, SuperblocksInv, GrownOnDisk, LabelsAgree

\* SetLabel returns: the handle has the label of every superblock.
LEMMA LabelFlushStep ==
  ASSUME IInv, LabelFlush
  PROVE  IInv'
<1>1. /\ run.op = "named" /\ mem' = [mem EXCEPT !.label = run.label]
      /\ run' = Idle /\ done' = "label"
      /\ UNCHANGED <<sbs, hdr, dirty, base, over, skipped, stray>>
  BY DEF LabelFlush, marks
<1>2. run.label \in Labels
  BY <1>1, Cursor
<1>3. mem' = [len |-> mem.len, label |-> run.label] /\ mem.len \in Size
  BY <1>1, Bases DEF IInv
<1>4. ShapeInv' /\ RunInv'
  BY <1>1, <1>2, <1>3 DEF IInv, ShapeInv, RunInv, Idle
<1>5. WrittenInv' /\ CountsInv'
  BY <1>1 DEF IInv, WrittenInv, WrittenFor, CountsInv, CountsExact
<1>6. LabelsAgree'
  BY <1>1, <1>3 DEF IInv, LabelInv, Labelled, LabelsAgree
<1>7. QED
  BY <1>1, <1>4, <1>5, <1>6 DEF IInv, GrowInv, Growing, SuperblocksInv, LabelInv, GrownOnDisk, Idle

\* A mutation changes the free count of one group.
LEMMA MutateStep ==
  ASSUME IInv, NEW ag \in AGs, NEW free, Mutate(ag, free)
  PROVE  IInv'
<1>1. /\ run = Idle /\ hdr[ag] # None /\ free \in 0 .. hdr[ag].len - Meta
      /\ hdr' = [hdr EXCEPT ![ag].free = free] /\ run' = [op |-> "sync"]
      /\ done' = "none" /\ dirty' = TRUE
      /\ UNCHANGED <<sbs, mem, base, over, skipped, stray>>
  BY DEF Mutate
<1>2. IsHeader(hdr[ag])
  BY <1>1 DEF IInv, ShapeInv, None
<1>3. /\ hdr'[ag] = [hdr[ag] EXCEPT !.free = free]
      /\ \A g \in AGs : g # ag => hdr'[g] = hdr[g]
      /\ hdr' = [g \in AGs |-> hdr'[g]]
  BY <1>1 DEF IInv, ShapeInv
<1>4. hdr'[ag].len = hdr[ag].len /\ hdr'[ag].whole = hdr[ag].whole /\ IsHeader(hdr'[ag])
  BY <1>1, <1>2, <1>3 DEF IsHeader, Header
<1>5. ShapeInv'
  BY <1>1, <1>3, <1>4 DEF IInv, ShapeInv
<1>6. RunInv'
  BY <1>1 DEF RunInv
<1>7. WrittenInv'
  <2>1. Mine(sbs[0].len) \subseteq AGs
    BY Bases DEF IInv
  <2>2. QED
    BY <1>1, <1>3, <1>4, <2>1 DEF IInv, WrittenInv, WrittenFor
<1>8. CountsInv'
  BY <1>1 DEF CountsInv
<1>9. QED
  BY <1>1, <1>5, <1>6, <1>7, <1>8
     DEF IInv, GrowInv, Growing, SuperblocksInv, LabelInv, GrownOnDisk, LabelsAgree

\* syncSuperblockCounts: exact again, unless the handle's volume is another one.
LEMMA SyncCountsStep ==
  ASSUME IInv, SyncCounts
  PROVE  IInv'
<1>1. /\ sbs' = [sbs EXCEPT ![0].free = FreeIn(hdr, mem.len)]
      /\ dirty' = FALSE /\ base' = FALSE /\ over' = Ahead
      /\ run' = Idle /\ done' = "mutation" /\ UNCHANGED <<hdr, mem, skipped, stray>>
  BY DEF SyncCounts, Counted
<1>2. 0 \in AGs /\ IsSuperblock(sbs[0])
  BY Bases DEF IInv
<1>3. /\ sbs'[0] = [sbs[0] EXCEPT !.free = FreeIn(hdr, mem.len)]
      /\ \A ag \in AGs : ag # 0 => sbs'[ag] = sbs[ag]
      /\ sbs' = [ag \in AGs |-> sbs'[ag]]
  BY <1>1, <1>2 DEF IInv, ShapeInv
<1>4. /\ sbs'[0].len = sbs[0].len /\ sbs'[0].free = FreeIn(hdr, mem.len)
      /\ IsSuperblock(sbs'[0])
  BY <1>2, <1>3 DEF IsSuperblock
<1>5. sbs'[0] # None
  BY <1>4 DEF IsSuperblock, None, Size
<1>6. ShapeInv'
  BY <1>1, <1>3, <1>4, <1>5 DEF IInv, ShapeInv, Ahead
<1>7. RunInv'
  BY <1>1 DEF RunInv, Idle
<1>8. WrittenInv'
  BY <1>1, <1>4 DEF IInv, WrittenInv, WrittenFor
<1>9. CountsInv'
  BY <1>1, <1>4 DEF CountsInv, CountsExact, Ahead
<1>10. QED
  BY <1>1, <1>6, <1>7, <1>8, <1>9
     DEF IInv, GrowInv, Growing, SuperblocksInv, LabelInv, GrownOnDisk, LabelsAgree, Idle

LEMMA FailStep ==
  ASSUME IInv, Fail
  PROVE  IInv'
<1>1. /\ run' = Idle /\ done' = "error"
      /\ UNCHANGED <<sbs, hdr, mem, dirty, base, over, skipped, stray>>
  BY DEF Fail, marks
<1>2. ShapeInv' /\ RunInv' /\ WrittenInv' /\ CountsInv'
  BY <1>1 DEF IInv, ShapeInv, RunInv, WrittenInv, WrittenFor, CountsInv, CountsExact, Idle
<1>3. QED
  BY <1>1, <1>2
     DEF IInv, GrowInv, Growing, SuperblocksInv, LabelInv, GrownOnDisk, LabelsAgree, Idle

\* The new handle has what the primary superblock says.
LEMMA ReopenStep ==
  ASSUME IInv, Reopen
  PROVE  IInv'
<1>1. /\ mem' = [len |-> sbs[0].len, label |-> sbs[0].label] /\ run' = Idle /\ done' = "none"
      /\ UNCHANGED <<sbs, hdr, dirty, base, over, skipped, stray>>
  BY DEF Reopen, marks
<1>2. sbs[0].len \in Size /\ sbs[0].label \in Labels
  BY Bases DEF IInv, IsSuperblock
<1>3. ShapeInv' /\ RunInv' /\ WrittenInv' /\ CountsInv'
  BY <1>1, <1>2
     DEF IInv, ShapeInv, RunInv, WrittenInv, WrittenFor, CountsInv, CountsExact, Idle
<1>4. QED
  BY <1>1, <1>3
     DEF IInv, GrowInv, Growing, SuperblocksInv, LabelInv, GrownOnDisk, LabelsAgree, Idle

LEMMA StepHolds == IInv /\ [Next]_vars => IInv'
<1> SUFFICES ASSUME IInv, [Next]_vars PROVE IInv'
  OBVIOUS
<1>1. CASE \E n \in 1 .. MaxBlocks : GrowNothing(n) \/ GrowStart(n)
  BY <1>1, GrowNothingStep, GrowStartStep
<1>2. CASE GrowWriteAGF
  BY <1>2, GrowWriteAGFStep
<1>3. CASE GrowWriteRest
  BY <1>3, GrowWriteRestStep
<1>4. CASE GrowWriteSecondary
  BY <1>4, GrowWriteSecondaryStep
<1>5. CASE GrowWriteSuperblock
  BY <1>5, GrowWriteSuperblockStep
<1>6. CASE GrowFlush
  BY <1>6, GrowFlushStep
<1>7. CASE \E label \in Labels : SetLabel(label)
  BY <1>7, SetLabelStep
<1>8. CASE LabelWrite
  BY <1>8, LabelWriteStep
<1>9. CASE LabelFlush
  BY <1>9, LabelFlushStep
<1>10. CASE \E ag \in AGs, free \in 0 .. AgBlocks : Mutate(ag, free)
  BY <1>10, MutateStep
<1>11. CASE SyncCounts
  BY <1>11, SyncCountsStep
<1>12. CASE Fail
  BY <1>12, FailStep
<1>13. CASE Reopen
  BY <1>13, ReopenStep
<1>14. CASE UNCHANGED vars
  <2>1. UNCHANGED <<sbs, hdr, mem, run, done, dirty, base, over, skipped, stray>>
    BY <1>14 DEF vars
  <2>2. ShapeInv' /\ RunInv' /\ WrittenInv' /\ CountsInv'
    BY <2>1 DEF IInv, ShapeInv, RunInv, WrittenInv, WrittenFor, CountsInv, CountsExact
  <2>3. GrowInv' /\ SuperblocksInv' /\ LabelInv'
    BY <2>1 DEF IInv, GrowInv, Growing, GroupWritten, SuperblocksInv, SuperblockBuffer, WrittenFor,
                LabelInv, Labelled
  <2>4. (PartOffset = 0 => GrownOnDisk') /\ LabelsAgree'
    BY <2>1 DEF IInv, GrownOnDisk, LabelsAgree, SuperblockBuffer, WrittenFor
  <2>5. QED
    BY <2>2, <2>3, <2>4 DEF IInv
<1>15. QED
  BY <1>1, <1>2, <1>3, <1>4, <1>5, <1>6, <1>7, <1>8, <1>9, <1>10, <1>11, <1>12, <1>13, <1>14
     DEF Next

-----------------------------------------------------------------------------
(* Theorems *)

LEMMA Inductive == Spec => []IInv
BY InitHolds, StepHolds, PTL DEF Spec

\* Wherever Grow, SetLabel or a mutation is interrupted, each group that the
\* primary superblock speaks of has been written in its whole length, and no
\* header claims more free blocks than its group has (growAppendAG writes the
\* primary last).  Two histories are excepted: a larger Grow on the handle of a
\* failed one, and a Grow on a partition from its first write into the volume.
THEOREM VolumeIsSound == Spec => []VolumeSound
<1>1. IInv => VolumeSound
  <2> SUFFICES ASSUME IInv PROVE VolumeSound
    OBVIOUS
  <2>1. mem \in [len : 1 .. MaxBlocks, label : Labels]
    BY DEF IInv, ShapeInv, Size
  <2>2. \A ag \in AGs :
          /\ sbs[ag] = None \/ (sbs[ag].label \in Labels /\ sbs[ag].len \in 1 .. MaxBlocks)
          /\ hdr[ag] = None \/ hdr[ag] \in Header(hdr[ag].len)
    BY DEF IInv, ShapeInv, IsSuperblock, IsHeader, Size
  <2>3. run.op \in {"idle", "ag", "rest", "sec", "sb", "flush", "label", "named", "sync"}
    BY DEF IInv, RunInv, Idle
  <2>4. TypeOK
    BY <2>1, <2>2, <2>3 DEF TypeOK, IInv, ShapeInv
  <2>5. QED
    BY <2>4 DEF VolumeSound, EveryGroupIsWritten, IInv, WrittenInv
<1>2. QED
  BY <1>1, Inductive, PTL

\* When SetLabel returns nil, every superblock and the handle have one label,
\* whichever Grow or SetLabel failed or was interrupted before; on a partition,
\* until a Grow writes into the volume.
THEOREM LabelsHold == Spec => []LabelsAgree
<1>1. IInv => LabelsAgree
  BY DEF IInv
<1>2. QED
  BY <1>1, Inductive, PTL

\* When Grow returns nil on a volume at the start of its device, all its groups
\* are written and all superblocks are the same block.  (On a partition
\* fmtWriteAG writes elsewhere, and this does not hold.)
THEOREM GrownHolds == ASSUME PartOffset = 0 PROVE Spec => []GrownOnDisk
<1>1. IInv => GrownOnDisk
  BY DEF IInv
<1>2. QED
  BY <1>1, Inductive, PTL

\* Between calls the free count of the primary is the sum over its groups,
\* unless a mutation was cut short, Grow has put the empty volume's count there,
\* or a mutation counted the groups of a handle whose Grow had failed: the next
\* syncSuperblockCounts on a handle of the primary's size ends each of these.
\* The two histories excepted from VolumeIsSound are excepted here too.
THEOREM CountsHold == Spec => []CountsFollow
<1>1. IInv => CountsFollow
  BY DEF IInv, CountsInv, CountsFollow
<1>2. QED
  BY <1>1, Inductive, PTL
=============================================================================
