-------------------------- MODULE QuotaWrites_proofs --------------------------
(***************************************************************************)
(* The inductive invariant of Quota, and the calls and writes up to the    *)
(* counters that keep it.  Quota_proofs has the dquots, the faults and the *)
(* theorems.                                                               *)
(***************************************************************************)
EXTENDS Quota, TLAPS

-----------------------------------------------------------------------------
(* The writes of a call, and their order *)

Pending == Range(todo)

IsInode(r) ==
  /\ r = [bit |-> r.bit, live |-> r.live, user |-> r.user, group |-> r.group,
          proj |-> r.proj, nblk |-> r.nblk]
  /\ r.bit \in BOOLEAN /\ r.live \in BOOLEAN
  /\ <<r.user, r.group>> \in Owners \cup {<<0, 0>>} /\ r.proj = 0
  /\ r.nblk \in 0 .. MaxNBlocks

IsWrite(w) ==
  \/ w.w = "slot" /\ w = Slot(w.i, w.b) /\ w.i \in Inos /\ w.b \in BOOLEAN
  \/ w.w = "blocks" /\ w = Blocks(w.d) /\ w.d \in Int
  \/ w.w = "core" /\ w = Core(w.i, w.rec) /\ w.i \in Inos /\ IsInode(w.rec)
  \/ w.w = "entry" /\ w = Entry(w.i, w.b) /\ w.i \in Inos /\ w.b \in BOOLEAN
  \/ w.w = "cluster" /\ w = Cluster(w.t, w.i) /\ w.t \in Types /\ w.i \in Inos
  \/ w.w = "primary" /\ w = Primary(w.on) /\ w.on \subseteq Types
  \/ w = Secondary
  \/ w = Counts
  \/ w.w = "dquots" /\ w = Dquots(w.t) /\ w.t \in Types

\* First what the call itself writes, then superblocks, then the counters, and
\* last the dquots of each type.
Rank(w) ==
  IF w.w \in {"slot", "blocks", "core", "entry", "cluster"} THEN 0
  ELSE IF w.w \in {"primary", "secondary"} THEN 1
  ELSE IF w.w = "counts" THEN 2
  ELSE IF w.t = "user" THEN 3
  ELSE IF w.t = "group" THEN 4
  ELSE 5

Ahead(x, y) ==
  /\ Rank(x) <= Rank(y) /\ (Rank(x) >= 2 => Rank(x) < Rank(y))
  /\ Rank(x) = 1 => x # y \/ x = Secondary

Ordered(s) == \A i, j \in 1 .. Len(s) : i < j => Ahead(s[i], s[j])

-----------------------------------------------------------------------------
(* The inductive invariant *)

ShapeInv ==
  /\ ino = [i \in Inos |-> ino[i]] /\ \A i \in Inos : IsInode(ino[i])
  /\ named \subseteq Inos /\ free \in Nat
  /\ dq = [t \in Types |-> dq[t]]
  /\ \A t \in Types : dq[t] = <<>> \/ dq[t] \in [0 .. PerBlock - 1 -> Dquot]
  /\ sb = [on |-> sb.on, q |-> sb.q, ifree |-> sb.ifree, fdblocks |-> sb.fdblocks]
  /\ sb.on \subseteq Types /\ sb.q = [t \in Types |-> sb.q[t]]
  /\ mem = [on |-> mem.on, q |-> mem.q]
  /\ mem.on \subseteq Types /\ mem.q = [t \in Types |-> mem.q[t]]
  /\ done \in {"setup", "mutation", "grow", "error"} /\ faults \in 0 .. MaxFaults
  /\ \A t \in Types \ sb.on : sb.q[t] = None

TodoInv ==
  /\ todo \in Seq(Pending)
  /\ Ordered(todo)
  /\ \A w \in Pending : IsWrite(w)

\* What setupQuota still has to write before it turns the types `on' on.
SetupWrite(on, w) ==
  \/ w.w = "slot" /\ w.b = TRUE
  \/ w.w = "blocks"
  \/ w.w = "core" /\ w.rec = NewInode(1)
  \/ w.w = "cluster" /\ w.t \in on /\ w.i = QuotaSlot(on, w.t)
  \/ w = Primary(on)
  \/ w.w \in {"counts", "dquots"}

Preparing(on) == done = "setup" /\ Primary(on) \in Pending

\* While the primary superblock is not written, each type has its inode or gets
\* it first.
SetupInv ==
  \A on \in SUBSET Types : Preparing(on) =>
    /\ sb.on = {} /\ mem.on = {} /\ named = {Root}
    /\ \A t \in Types \ on : mem.q[t] = None
    /\ \A t \in on :
         /\ \/ Core(QuotaSlot(on, t), NewInode(1)) \in Pending
            \/ ino[QuotaSlot(on, t)] = NewInode(1)
         /\ \/ Cluster(t, QuotaSlot(on, t)) \in Pending
            \/ mem.q[t] = QuotaSlot(on, t) /\ dq[t] # <<>>
    /\ \A w \in Pending : SetupWrite(on, w)
    /\ Counts \in Pending /\ \A t \in on : Dquots(t) \in Pending

\* From then on no call writes to a quota inode, and the handle has the fields of
\* the superblock.
LaterWrite(w) ==
  /\ w.w \in {"slot", "core", "entry"} => w.i \notin QuotaInodes
  /\ w.w # "cluster"
  /\ w.w = "primary" => w.on = sb.on

LaterInv ==
  (\A on \in SUBSET Types : ~Preparing(on)) =>
    mem = Fields(sb) /\ \A w \in Pending : LaterWrite(w)

\* Which writes each call has.
PhaseInv ==
  /\ done = "error" => todo = <<>>
  /\ done = "grow" => \A w \in Pending : Rank(w) = 1
  /\ done = "setup" /\ (\E w \in Pending : Rank(w) <= 1) => \E on \in SUBSET Types : Preparing(on)
  /\ done = "mutation" => \A w \in Pending : Rank(w) # 1
  /\ done = "mutation" /\ (\E w \in Pending : Rank(w) = 0) =>
       Counts \in Pending /\ \A t \in sb.on : Dquots(t) \in Pending

CountsExact == sb.fdblocks = free /\ sb.ifree = Cardinality(FreeSlots(ino))

\* Once the inodes do not change any more, what has been counted is exact.
ExactInv ==
  done \in {"setup", "mutation"} /\ (\A w \in Pending : Rank(w) >= 2) =>
    /\ Counts \in Pending \/ CountsExact
    /\ \A t \in sb.on : Dquots(t) \in Pending \/ (ExactFor(t) /\ Addressable(t))

IInv ==
  /\ ShapeInv
  /\ TodoInv
  /\ SetupInv
  /\ LaterInv
  /\ PhaseInv
  /\ ExactInv
  /\ QuotaInodesReady

-----------------------------------------------------------------------------
(* Sequences of writes *)

\* s is an ordered list of the writes W.
Lists(s, W) == s \in Seq(W) /\ Range(s) = W /\ Ordered(s)

LEMMA ListsNothing ==
  Lists(<<>>, {})
BY DEF Lists, Range, Ordered

LEMMA ListsOne ==
  ASSUME NEW x
  PROVE  Lists(<<x>>, {x})
<1>1. <<x>> \in Seq({x}) /\ Len(<<x>>) = 1 /\ DOMAIN <<x>> = 1 .. 1 /\ <<x>>[1] = x
  OBVIOUS
<1>2. Range(<<x>>) = {x}
  BY <1>1 DEF Range
<1>3. Ordered(<<x>>)
  BY <1>1 DEF Ordered
<1>4. QED
  BY <1>1, <1>2, <1>3 DEF Lists

LEMMA ListsBoth ==
  ASSUME NEW a, NEW A, Lists(a, A), NEW b, NEW B, Lists(b, B),
         \A x \in A, y \in B : Ahead(x, y)
  PROVE  Lists(a \o b, A \cup B)
<1> DEFINE s == a \o b
           n == Len(a)
           m == Len(b)
<1>1. /\ a \in Seq(A) /\ b \in Seq(B) /\ n \in Nat /\ m \in Nat
      /\ A = {a[i] : i \in 1 .. n} /\ B = {b[i] : i \in 1 .. m}
  <2>1. a \in Seq(A) /\ b \in Seq(B) /\ Range(a) = A /\ Range(b) = B
    BY DEF Lists
  <2>2. DOMAIN a = 1 .. n /\ DOMAIN b = 1 .. m /\ n \in Nat /\ m \in Nat
    BY <2>1
  <2>3. QED
    BY <2>1, <2>2 DEF Range
<1>2. a \in Seq(A \cup B) /\ b \in Seq(A \cup B)
  BY <1>1
<1>3. /\ s \in Seq(A \cup B) /\ Len(s) = n + m /\ DOMAIN s = 1 .. n + m
      /\ \A i \in 1 .. n : s[i] = a[i]
      /\ \A i \in n + 1 .. n + m : s[i] = b[i - n]
  BY <1>1, <1>2
<1>n. n \in Nat /\ m \in Nat
  BY <1>1
<1> HIDE DEF s, n, m
<1>4. \A i \in 1 .. m : i + n \in n + 1 .. n + m /\ s[i + n] = b[i]
  BY <1>1, <1>3
<1>5. Range(s) = A \cup B
  <2>1. ASSUME NEW i \in 1 .. n + m PROVE s[i] \in A \cup B
    BY <1>3
  <2>2. ASSUME NEW i \in 1 .. n PROVE a[i] \in Range(s)
    <3>1. i \in DOMAIN s /\ s[i] = a[i]
      BY <1>n, <1>3
    <3>2. QED
      BY <3>1 DEF Range
  <2>3. ASSUME NEW i \in 1 .. m PROVE b[i] \in Range(s)
    <3>1. i + n \in DOMAIN s /\ s[i + n] = b[i]
      BY <1>1, <1>3, <1>4
    <3>2. QED
      BY <3>1 DEF Range
  <2>4. A \subseteq Range(s) /\ B \subseteq Range(s)
    BY <1>1, <2>2, <2>3
  <2>5. Range(s) \subseteq A \cup B
    BY <1>3, <2>1 DEF Range
  <2>6. QED
    BY <2>4, <2>5
<1>6. ASSUME NEW i \in 1 .. n + m, NEW j \in 1 .. n + m, i < j PROVE Ahead(s[i], s[j])
  <2>1. CASE j \in 1 .. n
    <3>1. i \in 1 .. n /\ s[i] = a[i] /\ s[j] = a[j]
      BY <1>1, <1>3, <1>6, <2>1
    <3>2. QED
      BY <1>6, <2>1, <3>1 DEF Lists, Ordered, n
  <2>2. CASE i \in 1 .. n /\ j \in n + 1 .. n + m
    <3>1. j - n \in 1 .. m
      BY <1>n, <2>2
    <3>2. s[i] = a[i] /\ s[j] = b[j - n]
      BY <1>3, <2>2
    <3>3. a[i] \in A /\ b[j - n] \in B
      BY <1>1, <2>2, <3>1
    <3>4. QED
      BY <3>2, <3>3
  <2>3. CASE i \in n + 1 .. n + m
    <3>1. i - n \in 1 .. m /\ j - n \in 1 .. m /\ i - n < j - n /\ j \in n + 1 .. n + m
      BY <1>n, <1>6, <2>3
    <3>2. s[i] = b[i - n] /\ s[j] = b[j - n]
      BY <1>3, <2>3, <3>1
    <3>3. QED
      BY <3>1, <3>2 DEF Lists, Ordered, m
  <2>4. QED
    BY <1>1, <2>1, <2>2, <2>3
<1>7. QED
  BY <1>3, <1>5, <1>6 DEF Lists, Ordered, s

\* Taking the first write away leaves the others, which it was ahead of.
LEMMA Popped ==
  ASSUME NEW s, NEW W, Lists(s, W), s # <<>>
  PROVE  /\ Lists(Tail(s), Range(Tail(s)))
         /\ Head(s) \in W /\ W = {Head(s)} \cup Range(Tail(s))
         /\ \A w \in Range(Tail(s)) : w \in W /\ Ahead(Head(s), w)
<1> DEFINE t == Tail(s)
           n == Len(s)
<1>1. /\ s \in Seq(W) /\ n \in Nat /\ n >= 1 /\ DOMAIN s = 1 .. n
      /\ W = {s[i] : i \in 1 .. n}
  <2>1. s \in Seq(W) /\ Range(s) = W
    BY DEF Lists
  <2>2. n \in Nat /\ n >= 1 /\ DOMAIN s = 1 .. n
    BY <2>1
  <2>3. QED
    BY <2>1, <2>2 DEF Range
<1>2. /\ t \in Seq(W) /\ Len(t) = n - 1 /\ DOMAIN t = 1 .. n - 1 /\ Head(s) = s[1]
      /\ \A i \in 1 .. n - 1 : t[i] = s[i + 1]
  BY <1>1
<1> HIDE DEF t
<1>3. Range(t) = {t[i] : i \in 1 .. n - 1}
  BY <1>2 DEF Range
<1>4. \A i \in 1 .. n - 1 : i + 1 \in 1 .. n /\ 1 < i + 1 /\ 1 \in 1 .. n
  BY <1>1
<1>5. \A i \in 1 .. n : i = 1 \/ (i - 1 \in 1 .. n - 1 /\ t[i - 1] = s[i])
  BY <1>1, <1>2
<1>6. ASSUME NEW w \in Range(t) PROVE w \in W /\ Ahead(Head(s), w)
  BY <1>1, <1>2, <1>3, <1>4 DEF Lists, Ordered
<1>7. Head(s) \in W /\ W = {Head(s)} \cup Range(t)
  <2>1. s[1] \in W
    BY <1>1
  <2>2. \A w \in W : w = s[1] \/ w \in Range(t)
    BY <1>1, <1>3, <1>5
  <2>3. QED
    BY <1>2, <1>6, <2>1, <2>2
<1>8. t \in Seq(Range(t))
  BY <1>2, <1>3
<1>9. Ordered(t)
  <2> SUFFICES ASSUME NEW i \in 1 .. n - 1, NEW j \in 1 .. n - 1, i < j PROVE Ahead(t[i], t[j])
    BY <1>2 DEF Ordered
  <2>1. i + 1 \in 1 .. n /\ j + 1 \in 1 .. n /\ i + 1 < j + 1
    BY <1>1
  <2>2. QED
    BY <1>2, <2>1, Zenon DEF Lists, Ordered
<1>10. QED
  BY <1>6, <1>7, <1>8, <1>9 DEF Lists, t

LEMMA ListsTwo ==
  ASSUME NEW x, NEW y, Ahead(x, y)
  PROVE  Lists(<<x, y>>, {x, y})
<1> DEFINE s == <<x, y>>
<1>1. s \in Seq({x, y}) /\ Len(s) = 2 /\ DOMAIN s = 1 .. 2 /\ s[1] = x /\ s[2] = y
  OBVIOUS
<1> HIDE DEF s
<1>2. Range(s) = {x, y}
  BY <1>1 DEF Range
<1>3. Ordered(s)
  BY <1>1 DEF Ordered
<1>4. QED
  BY <1>1, <1>2, <1>3 DEF Lists, s

LEMMA ListsFour ==
  ASSUME NEW x, NEW y, NEW z, NEW v, \A w \in {x, y, z, v} : Rank(w) = 0
  PROVE  Lists(<<x, y, z, v>>, {x, y, z, v})
<1> DEFINE s == <<x, y, z, v>>
<1>1. /\ s \in Seq({x, y, z, v}) /\ Len(s) = 4 /\ DOMAIN s = 1 .. 4
      /\ s[1] = x /\ s[2] = y /\ s[3] = z /\ s[4] = v
  OBVIOUS
<1> HIDE DEF s
<1>2. Range(s) = {x, y, z, v}
  BY <1>1 DEF Range
<1>3. \A i \in 1 .. 4 : Rank(s[i]) = 0
  BY <1>1
<1>4. Ordered(s)
  BY <1>1, <1>3 DEF Ordered, Ahead
<1>5. QED
  BY <1>1, <1>2, <1>4 DEF Lists, s

LEMMA RankOf ==
  /\ \A i, b : Rank(Slot(i, b)) = 0 /\ Rank(Core(i, b)) = 0 /\ Rank(Entry(i, b)) = 0
  /\ \A d : Rank(Blocks(d)) = 0
  /\ \A t, i : Rank(Cluster(t, i)) = 0
  /\ \A on : Rank(Primary(on)) = 1
  /\ Rank(Secondary) = 1 /\ Rank(Counts) = 2
  /\ Rank(Dquots("user")) = 3 /\ Rank(Dquots("group")) = 4 /\ Rank(Dquots("proj")) = 5
BY DEF Rank, Slot, Core, Entry, Blocks, Cluster, Primary, Secondary, Counts, Dquots

\* What a call writes before the superblock may come in any order.
LEMMA ListsFront ==
  ASSUME NEW a, NEW A, Lists(a, A), NEW b, NEW B, Lists(b, B), \A w \in A \cup B : Rank(w) = 0
  PROVE  Lists(a \o b, A \cup B)
<1>1. \A x \in A, y \in B : Ahead(x, y)
  BY DEF Ahead
<1>2. QED
  BY <1>1, ListsBoth

Rewrites(on) == {Dquots(t) : t \in on}

LEMMA RewritingLists ==
  ASSUME NEW on, NEW t
  PROVE  Lists(Rewriting(on, t), Rewrites(on \cap {t}))
<1>1. CASE t \in on
  <2>1. Rewrites(on \cap {t}) = {Dquots(t)}
    BY <1>1 DEF Rewrites
  <2>2. QED
    BY <1>1, <2>1, ListsOne DEF Rewriting
<1>2. CASE t \notin on
  <2>1. Rewrites(on \cap {t}) = {}
    BY <1>2 DEF Rewrites
  <2>2. QED
    BY <1>2, <2>1, ListsNothing, Zenon DEF Rewriting
<1>3. QED
  BY <1>1, <1>2

\* quotaRecompute rewrites the types that are on, each once and in order.
LEMMA RecomputeLists ==
  ASSUME NEW on \in SUBSET Types
  PROVE  Lists(Recompute(on), Rewrites(on))
<1> DEFINE U == Rewrites(on \cap {"user"})
           G == Rewrites(on \cap {"group"})
           P == Rewrites(on \cap {"proj"})
<1>1. /\ Lists(Rewriting(on, "user"), U) /\ Lists(Rewriting(on, "group"), G)
      /\ Lists(Rewriting(on, "proj"), P)
  BY RewritingLists
<1>2. /\ \A w \in U : Rank(w) = 3
      /\ \A w \in G : Rank(w) = 4
      /\ \A w \in P : Rank(w) = 5
  BY RankOf DEF Rewrites
<1>3. (U \cup G) \cup P = Rewrites(on)
  BY DEF Rewrites, Types
<1> HIDE DEF U, G, P
<1>4. Lists(Rewriting(on, "user") \o Rewriting(on, "group"), U \cup G)
  <2>1. \A x \in U, y \in G : Ahead(x, y)
    BY <1>2 DEF Ahead
  <2>2. QED
    BY <1>1, <2>1, ListsBoth
<1>5. \A x \in U \cup G, y \in P : Ahead(x, y)
  BY <1>2 DEF Ahead
<1>6. Lists(Recompute(on), (U \cup G) \cup P)
  BY <1>1, <1>4, <1>5, ListsBoth DEF Recompute
<1>7. QED
  BY <1>3, <1>6

LEMMA RewritesRank ==
  ASSUME NEW on \in SUBSET Types, NEW w \in Rewrites(on)
  PROVE  Rank(w) \in {3, 4, 5}
<1>1. PICK t \in on : w = Dquots(t)
  BY DEF Rewrites
<1>2. t \in {"user", "group", "proj"}
  BY DEF Types
<1>3. QED
  BY <1>1, <1>2, RankOf

\* The writes of a mutation, from what the call itself writes.
LEMMA MutationLists ==
  ASSUME NEW a, NEW A, Lists(a, A), \A w \in A : Rank(w) = 0, NEW on \in SUBSET Types
  PROVE  Lists(a \o <<Counts>> \o Recompute(on), A \cup {Counts} \cup Rewrites(on))
<1>1. \A x \in A, y \in {Counts} : Ahead(x, y)
  BY RankOf DEF Ahead
<1>2. Lists(a \o <<Counts>>, A \cup {Counts})
  BY <1>1, ListsOne, ListsBoth, Zenon
<1>3. \A x \in A \cup {Counts}, y \in Rewrites(on) : Ahead(x, y)
  BY RewritesRank, RankOf DEF Ahead
<1>4. QED
  BY <1>2, <1>3, RecomputeLists, ListsBoth

Makes(on, t) ==
  {Slot(QuotaSlot(on, t), TRUE), Blocks(-1), Core(QuotaSlot(on, t), NewInode(1)),
   Cluster(t, QuotaSlot(on, t))}

MakesOn(on, t) == IF t \in on THEN Makes(on, t) ELSE {}

MakesAll(on) == UNION {MakesOn(on, t) : t \in Types}

SetupWrites(on) == MakesAll(on) \cup {Primary(on), Counts} \cup Rewrites(on)

LEMMA MakingLists ==
  ASSUME NEW on, NEW t
  PROVE  Lists(Making(on, t), MakesOn(on, t)) /\ \A w \in MakesOn(on, t) : Rank(w) = 0
<1>0. \A w \in Makes(on, t) : Rank(w) = 0
  BY RankOf, Zenon DEF Makes
<1>1. CASE t \in on
  <2> DEFINE q == QuotaSlot(on, t)
             x == Slot(q, TRUE)
             y == Blocks(-1)
             z == Core(q, NewInode(1))
             v == Cluster(t, q)
  <2>1. Rank(x) = 0 /\ Rank(y) = 0 /\ Rank(z) = 0 /\ Rank(v) = 0
    BY RankOf, Zenon
  <2>2. Making(on, t) = <<x, y, z, v>> /\ MakesOn(on, t) = {x, y, z, v}
    BY <1>1, Zenon DEF Making, MakesOn, MkQuotaInode, Makes
  <2> HIDE DEF x, y, z, v
  <2>3. Lists(<<x, y, z, v>>, {x, y, z, v})
    BY <2>1, ListsFour
  <2>4. QED
    BY <1>0, <1>1, <2>2, <2>3 DEF MakesOn
<1>2. CASE t \notin on
  BY <1>2, ListsNothing DEF Making, MakesOn
<1>3. QED
  BY <1>1, <1>2

\* setupQuota makes the inode of each type that is chosen before it writes the
\* primary superblock.
LEMMA SetupLists ==
  ASSUME NEW on \in SUBSET Types
  PROVE  Lists(SetupQuota(on), SetupWrites(on))
<1> DEFINE U == MakesOn(on, "user")
           G == MakesOn(on, "group")
           P == MakesOn(on, "proj")
           a == Making(on, "user") \o Making(on, "group") \o Making(on, "proj")
           A == (U \cup G) \cup P
           B == {Primary(on), Counts}
<1>1. \A w \in A : Rank(w) = 0
  BY MakingLists
<1>2. Lists(a, A)
  <2>1. Lists(Making(on, "user") \o Making(on, "group"), U \cup G)
    BY MakingLists, ListsFront
  <2>2. QED
    BY <2>1, MakingLists, ListsFront
<1>3. A = MakesAll(on)
  BY DEF Types, MakesAll
<1>4. Lists(<<Primary(on), Counts>>, B) /\ \A w \in B : Rank(w) \in {1, 2}
  <2>1. Ahead(Primary(on), Counts)
    BY RankOf DEF Ahead
  <2>2. QED
    BY <2>1, ListsTwo, RankOf
<1> HIDE DEF A, B, a
<1>5. Lists(a \o <<Primary(on), Counts>>, A \cup B)
  <2>1. \A x \in A, y \in B : Ahead(x, y)
    BY <1>1, <1>4 DEF Ahead
  <2>2. QED
    BY <1>2, <1>4, <2>1, ListsBoth
<1>6. \A x \in A \cup B, y \in Rewrites(on) : Ahead(x, y)
  BY <1>1, <1>4, RewritesRank DEF Ahead
<1>7. Lists((a \o <<Primary(on), Counts>>) \o Recompute(on), (A \cup B) \cup Rewrites(on))
  BY <1>5, <1>6, RecomputeLists, ListsBoth
<1>8. SetupQuota(on) = (a \o <<Primary(on), Counts>>) \o Recompute(on)
  BY Zenon DEF SetupQuota, a
<1>9. SetupWrites(on) = (A \cup B) \cup Rewrites(on)
  BY <1>3, Zenon DEF SetupWrites, B
<1>10. QED
  BY <1>7, <1>8, <1>9, Zenon

-----------------------------------------------------------------------------
(* The volume Format has made before setupQuota *)

\* The slots of the quota inodes are those after the root, one for each type.
LEMMA SlotOf ==
  ASSUME NEW on \in SUBSET Types, NEW t \in on
  PROVE  /\ QuotaSlot(on, t) \in Inos \ {Root, None}
         /\ \A u \in on \ {t} : QuotaSlot(on, u) # QuotaSlot(on, t)
<1>1. {2, 3, 4} \subseteq Inos
  BY QuotaAssumption DEF Root
<1>2. ASSUME NEW u \in on PROVE u \in {"user", "group", "proj"} /\ QuotaSlot(on, u) \in {2, 3, 4}
  BY DEF QuotaSlot, Before, Types, Root
<1>3. QuotaSlot(on, t) \in Inos \ {Root, None}
  BY <1>1, <1>2 DEF Root, None
<1>4. ASSUME NEW u \in on, u # t PROVE QuotaSlot(on, u) # QuotaSlot(on, t)
  BY <1>2, <1>4 DEF QuotaSlot, Before, Root
<1>5. QED
  BY <1>3, <1>4

LEMMA InodesAre ==
  IsInode(NewInode(0)) /\ IsInode(NewInode(1)) /\ IsInode(FreeInode)
BY QuotaAssumption DEF IsInode, NewInode, FreeInode

\* A write of setupQuota is one of these.
LEMMA SetupWritesAre ==
  ASSUME NEW on \in SUBSET Types, NEW w \in SetupWrites(on)
  PROVE  \/ \E t \in on : w \in Makes(on, t)
         \/ w = Primary(on)
         \/ w = Counts
         \/ \E t \in on : w = Dquots(t)
BY DEF SetupWrites, MakesAll, MakesOn, Rewrites

LEMMA SetupWritesFit ==
  ASSUME NEW on \in SUBSET Types, NEW w \in SetupWrites(on)
  PROVE  IsWrite(w) /\ SetupWrite(on, w)
<1>1. CASE w = Primary(on) \/ w = Counts
  BY <1>1 DEF IsWrite, SetupWrite, Primary, Counts
<1>2. ASSUME NEW t \in on, w = Dquots(t) PROVE IsWrite(w) /\ SetupWrite(on, w)
  BY <1>2 DEF IsWrite, SetupWrite, Dquots
<1>3. ASSUME NEW t \in on, w \in Makes(on, t) PROVE IsWrite(w) /\ SetupWrite(on, w)
  <2> DEFINE q == QuotaSlot(on, t)
  <2>1. q \in Inos /\ IsInode(NewInode(1)) /\ t \in Types
    BY SlotOf, InodesAre
  <2>2. w \in {Slot(q, TRUE), Blocks(-1), Core(q, NewInode(1)), Cluster(t, q)}
    BY <1>3, Zenon DEF Makes
  <2> HIDE DEF q
  <2>3. CASE w = Slot(q, TRUE)
    BY <2>1, <2>3 DEF IsWrite, SetupWrite, Slot
  <2>4. CASE w = Blocks(-1)
    BY <2>1, <2>4 DEF IsWrite, SetupWrite, Blocks
  <2>5. CASE w = Core(q, NewInode(1))
    BY <2>1, <2>5 DEF IsWrite, SetupWrite, Core
  <2>6. CASE w = Cluster(t, q)
    <3>1. w.w = "cluster" /\ w.t = t /\ w.i = q /\ w = Cluster(w.t, w.i)
      BY <2>6 DEF Cluster
    <3>2. QED
      BY <2>1, <3>1 DEF IsWrite, SetupWrite, q
  <2>7. QED
    BY <2>2, <2>3, <2>4, <2>5, <2>6, Zenon
<1>4. QED
  BY <1>1, <1>2, <1>3, SetupWritesAre

LEMMA PrimaryIs ==
  ASSUME NEW on, NEW p
  PROVE  /\ SetupWrite(on, Primary(p)) => p = on
         /\ Primary(p) # Secondary /\ Primary(p) # Counts /\ Rank(Primary(p)) = 1
BY DEF SetupWrite, Primary, Secondary, Counts, Rank

LEMMA Starts ==
  Init => IInv
<1> SUFFICES ASSUME Init PROVE IInv
  OBVIOUS
<1>1. PICK on \in Configs : todo = SetupQuota(on)
  BY DEF Init
<1>2. on \in SUBSET Types
  BY QuotaAssumption
<1>3. Lists(todo, SetupWrites(on)) /\ Pending = SetupWrites(on)
  BY <1>1, <1>2, SetupLists DEF Lists, Pending
<1>4. done = "setup" /\ Primary(on) \in Pending /\ Preparing(on)
  BY <1>3 DEF Init, Preparing, SetupWrites
<1>5. ASSUME NEW p \in SUBSET Types, Preparing(p) PROVE p = on
  BY <1>2, <1>3, <1>5, SetupWritesFit, PrimaryIs DEF Preparing
<1>6. ShapeInv
  BY QuotaAssumption, InodesAre DEF Init, ShapeInv, NoQuota, Root
<1>7. TodoInv
  BY <1>2, <1>3, SetupWritesFit DEF TodoInv, Lists
<1>8. SetupInv
  <2>1. /\ sb.on = {} /\ mem.on = {} /\ named = {Root}
        /\ \A t \in Types \ on : mem.q[t] = None
    BY DEF Init, NoQuota
  <2>2. ASSUME NEW t \in on
        PROVE  /\ Core(QuotaSlot(on, t), NewInode(1)) \in Pending
               /\ Cluster(t, QuotaSlot(on, t)) \in Pending
    <3>1. Makes(on, t) \subseteq SetupWrites(on)
      BY <1>2 DEF SetupWrites, MakesAll, MakesOn
    <3>2. QED
      BY <1>3, <3>1 DEF Makes
  <2>3. \A w \in Pending : SetupWrite(on, w)
    BY <1>2, <1>3, SetupWritesFit
  <2>4. Counts \in Pending /\ \A t \in on : Dquots(t) \in Pending
    BY <1>3 DEF SetupWrites, Rewrites
  <2>5. QED
    BY <1>5, <2>1, <2>2, <2>3, <2>4 DEF SetupInv
<1>9. LaterInv
  BY <1>2, <1>4 DEF LaterInv
<1>10. PhaseInv
  BY <1>2, <1>4 DEF PhaseInv
<1>11. ExactInv
  BY <1>4, RankOf DEF ExactInv
<1>12. QuotaInodesReady
  BY DEF Init, QuotaInodesReady
<1>13. QED
  BY <1>6, <1>7, <1>8, <1>9, <1>10, <1>11, <1>12 DEF IInv

-----------------------------------------------------------------------------
(* The start of a call *)

LEMMA NothingPending ==
  ASSUME IInv, todo = <<>>
  PROVE  Pending = {} /\ mem = Fields(sb) /\ mem.on = sb.on /\ sb.on \in SUBSET Types
<1>1. Pending = {}
  BY DEF Pending, Range
<1>2. mem = Fields(sb)
  BY <1>1 DEF IInv, LaterInv, Preparing
<1>3. QED
  BY <1>1, <1>2 DEF IInv, ShapeInv, Fields

\* A write that a call makes itself, which does not touch a quota inode.
Own(w) == Rank(w) = 0 /\ IsWrite(w) /\ LaterWrite(w)

OwnList(a) == \E A : Lists(a, A) /\ \A w \in A : Own(w)

\* A mutation whose own writes do not touch the quota inodes.
LEMMA MutationStarts ==
  ASSUME IInv, NEW a, OwnList(a), Mutation(a)
  PROVE  IInv'
<1> USE DEF Mutation, Call
<1>0. PICK A : Lists(a, A) /\ \A w \in A : Rank(w) = 0 /\ IsWrite(w) /\ LaterWrite(w)
  BY DEF OwnList, Own
<1>1. /\ Pending = {} /\ mem = Fields(sb) /\ mem.on = sb.on /\ sb.on \in SUBSET Types
      /\ UNCHANGED <<ino, named, free, sb, sec, dq, mem, faults>> /\ done' = "mutation"
  BY NothingPending
<1> DEFINE W == A \cup {Counts} \cup Rewrites(sb.on)
<1>2. Lists(todo', W)
  BY <1>0, <1>1, MutationLists
<1>3. Pending' = W
  BY <1>2 DEF Pending, Lists
<1>4. ASSUME NEW w \in W PROVE IsWrite(w) /\ LaterWrite(w) /\ Rank(w) # 1
  <2>1. CASE w \in A
    BY <1>0, <2>1
  <2>2. CASE w = Counts
    BY <2>2, RankOf DEF IsWrite, LaterWrite, Counts
  <2>3. CASE w \in Rewrites(sb.on)
    <3>1. PICK t \in sb.on : w = Dquots(t)
      BY <2>3 DEF Rewrites
    <3>2. Rank(w) \in {3, 4, 5}
      BY <1>1, <2>3, RewritesRank
    <3>3. QED
      BY <1>1, <3>1, <3>2 DEF IsWrite, LaterWrite, Dquots
  <2>4. QED
    BY <2>1, <2>2, <2>3
<1> HIDE DEF W
<1>5. ShapeInv'
  <2>1. ShapeInv
    BY DEF IInv
  <2>2. QED
    BY <1>1, <2>1 DEF ShapeInv
<1>6. TodoInv'
  BY <1>2, <1>3, <1>4 DEF TodoInv, Lists
<1>7. SetupInv'
  BY <1>1 DEF SetupInv, Preparing
<1>8. LaterInv'
  <2>1. \A w \in W : LaterWrite(w)'
    BY <1>1, <1>4 DEF LaterWrite, QuotaInodes
  <2>2. mem' = Fields(sb)'
    BY <1>1 DEF Fields
  <2>3. QED
    BY <1>3, <2>1, <2>2 DEF LaterInv
<1>9. Counts \in W /\ \A t \in sb.on : Dquots(t) \in W
  BY DEF W, Rewrites
<1>10. PhaseInv'
  BY <1>1, <1>3, <1>4, <1>9 DEF PhaseInv
<1>11. ExactInv'
  BY <1>1, <1>3, <1>9 DEF ExactInv
<1>12. QuotaInodesReady'
  BY <1>1 DEF IInv, QuotaInodesReady
<1>13. QED
  BY <1>5, <1>6, <1>7, <1>8, <1>10, <1>11, <1>12 DEF IInv

\* A file that has a name is not a quota inode.
LEMMA FilesAreNotQuota ==
  ASSUME IInv, NEW i \in Files
  PROVE  i \in Inos /\ i \notin QuotaInodes /\ IsInode(ino[i])
<1>1. i \in Inos /\ i \in named
  BY DEF Files, IInv, ShapeInv
<1>2. i \notin QuotaInodes
  BY <1>1 DEF QuotaInodes, IInv, QuotaInodesReady
<1>3. QED
  BY <1>1, <1>2 DEF IInv, ShapeInv

\* Neither is a free slot.
LEMMA FreeAreNotQuota ==
  ASSUME IInv, NEW i \in FreeSlots(ino)
  PROVE  i \in Inos /\ i \notin QuotaInodes
BY DEF FreeSlots, QuotaInodes, IInv, QuotaInodesReady

\* The single writes of the calls.
LEMMA OwnOne ==
  ASSUME NEW w, Own(w)
  PROVE  OwnList(<<w>>)
<1>1. Lists(<<w>>, {w}) /\ \A x \in {w} : Own(x)
  BY ListsOne
<1>2. QED
  BY <1>1 DEF OwnList

LEMMA OwnTwo ==
  ASSUME NEW w, Own(w), NEW v, Own(v)
  PROVE  OwnList(<<w, v>>)
<1>1. Lists(<<w, v>>, {w, v})
  BY ListsTwo DEF Own, Ahead
<1>2. QED
  BY <1>1 DEF OwnList

LEMMA OwnBoth ==
  ASSUME NEW a, OwnList(a), NEW b, OwnList(b)
  PROVE  OwnList(a \o b)
<1>1. PICK A : Lists(a, A) /\ \A w \in A : Own(w)
  BY DEF OwnList
<1>2. PICK B : Lists(b, B) /\ \A w \in B : Own(w)
  BY DEF OwnList
<1>3. \A w \in A \cup B : Own(w) /\ Rank(w) = 0
  BY <1>1, <1>2 DEF Own
<1>4. Lists(a \o b, A \cup B)
  BY <1>1, <1>2, <1>3, ListsFront
<1>5. QED
  BY <1>3, <1>4 DEF OwnList

LEMMA OwnInode ==
  ASSUME NEW i \in Inos, i \notin QuotaInodes
  PROVE  /\ \A b \in BOOLEAN : Own(Slot(i, b)) /\ Own(Entry(i, b))
         /\ \A r : IsInode(r) => Own(Core(i, r))
<1>1. ASSUME NEW b \in BOOLEAN PROVE Own(Slot(i, b))
  BY RankOf DEF Own, IsWrite, LaterWrite, Slot
<1>2. ASSUME NEW b \in BOOLEAN PROVE Own(Entry(i, b))
  BY RankOf DEF Own, IsWrite, LaterWrite, Entry
<1>3. ASSUME NEW r, IsInode(r) PROVE Own(Core(i, r))
  BY <1>3, RankOf DEF Own, IsWrite, LaterWrite, Core
<1>4. QED
  BY <1>1, <1>2, <1>3

LEMMA OwnBlocks ==
  ASSUME NEW d \in Int
  PROVE  Own(Blocks(d))
BY RankOf DEF Own, IsWrite, LaterWrite, Blocks

LEMMA OwnNothing ==
  OwnList(<<>>)
BY ListsNothing DEF OwnList

LEMMA OwnMoves ==
  ASSUME NEW n \in Nat
  PROVE  OwnList(Taking(n)) /\ OwnList(Giving(n))
<1>1. Own(Blocks(-n)) /\ Own(Blocks(n))
  BY OwnBlocks
<1>2. QED
  BY <1>1, OwnOne, OwnNothing DEF Taking, Giving

\* What the calls change in an inode leaves it an inode.
LEMMA InodeChanges ==
  ASSUME NEW r, IsInode(r)
  PROVE  /\ \A n \in 0 .. MaxNBlocks : IsInode([r EXCEPT !.nblk = n])
         /\ \A b \in BOOLEAN : IsInode([r EXCEPT !.live = b]) /\ IsInode([r EXCEPT !.bit = b])
         /\ \A o \in Owners : IsInode([r EXCEPT !.user = o[1], !.group = o[2]])
         /\ r.nblk \in Nat
<1>1. ASSUME NEW n \in 0 .. MaxNBlocks PROVE IsInode([r EXCEPT !.nblk = n])
  BY DEF IsInode
<1>2. ASSUME NEW b \in BOOLEAN PROVE IsInode([r EXCEPT !.live = b])
  BY DEF IsInode
<1>3. ASSUME NEW b \in BOOLEAN PROVE IsInode([r EXCEPT !.bit = b])
  BY DEF IsInode
<1>4. ASSUME NEW u, NEW g, <<u, g>> \in Owners, NEW x, x = [r EXCEPT !.user = u, !.group = g]
      PROVE  IsInode(x)
  <2>1. x = [bit |-> r.bit, live |-> r.live, user |-> u, group |-> g,
             proj |-> r.proj, nblk |-> r.nblk]
    BY <1>4, Zenon DEF IsInode
  <2>2. /\ x.bit = r.bit /\ x.live = r.live /\ x.user = u /\ x.group = g
        /\ x.proj = r.proj /\ x.nblk = r.nblk
        /\ x = [bit |-> x.bit, live |-> x.live, user |-> x.user, group |-> x.group,
                proj |-> x.proj, nblk |-> x.nblk]
    BY <2>1
  <2>3. QED
    BY <1>4, <2>2 DEF IsInode
<1>5. \A o \in Owners : <<o[1], o[2]>> \in Owners
  BY QuotaAssumption
<1>6. r.nblk \in Nat
  BY QuotaAssumption DEF IsInode
<1>7. QED
  BY <1>1, <1>2, <1>3, <1>4, <1>5, <1>6, Zenon

-----------------------------------------------------------------------------
(* The calls *)

LEMMA CreateFileStep ==
  ASSUME IInv, NEW i \in Inos, NEW n \in 0 .. MaxNBlocks, CreateFile(i, n)
  PROVE  IInv'
<1> DEFINE rest == <<Core(i, NewInode(n)), Entry(i, TRUE)>>
<1>1. i \notin QuotaInodes
  BY FreeAreNotQuota DEF CreateFile, FirstFree
<1>2. IsInode(NewInode(n)) /\ n \in Nat
  BY QuotaAssumption DEF IsInode, NewInode
<1>3. Own(Slot(i, TRUE)) /\ Own(Core(i, NewInode(n))) /\ Own(Entry(i, TRUE))
  BY <1>1, <1>2, OwnInode, Zenon
<1>4. OwnList(<<Slot(i, TRUE)>>) /\ OwnList(Taking(n)) /\ OwnList(rest)
  BY <1>2, <1>3, OwnOne, OwnTwo, OwnMoves, Zenon
<1> HIDE DEF rest
<1>5. OwnList(<<Slot(i, TRUE)>> \o Taking(n) \o rest)
  BY <1>4, OwnBoth
<1>6. Mutation(<<Slot(i, TRUE)>> \o Taking(n) \o rest)
  BY DEF CreateFile, rest
<1>7. QED
  BY <1>5, <1>6, MutationStarts

LEMMA OverwriteFileStep ==
  ASSUME IInv, NEW i \in Inos, NEW n \in 0 .. MaxNBlocks, OverwriteFile(i, n)
  PROVE  IInv'
<1> DEFINE rest == <<Blocks(-n), Core(i, [ino[i] EXCEPT !.nblk = n])>>
<1>1. i \notin QuotaInodes /\ IsInode(ino[i])
  BY FilesAreNotQuota DEF OverwriteFile
<1>0. n \in Nat /\ -n \in Int
  BY QuotaAssumption
<1>2. IsInode([ino[i] EXCEPT !.nblk = n]) /\ ino[i].nblk \in Nat
  BY <1>1, InodeChanges, Zenon
<1>3. Own(Blocks(-n)) /\ Own(Core(i, [ino[i] EXCEPT !.nblk = n]))
  BY <1>0, <1>1, <1>2, OwnInode, OwnBlocks
<1>4. OwnList(Giving(ino[i].nblk)) /\ OwnList(rest)
  BY <1>2, <1>3, OwnTwo, OwnMoves
<1> HIDE DEF rest
<1>5. OwnList(Giving(ino[i].nblk) \o rest)
  BY <1>4, OwnBoth
<1>6. Mutation(Giving(ino[i].nblk) \o rest)
  BY DEF OverwriteFile, rest
<1>7. QED
  BY <1>5, <1>6, MutationStarts

LEMMA TruncateStep ==
  ASSUME IInv, NEW i \in Inos, NEW n \in 0 .. MaxNBlocks, Truncate(i, n)
  PROVE  IInv'
<1> DEFINE d == ino[i].nblk - n
           r == [ino[i] EXCEPT !.nblk = n]
<1>1. i \notin QuotaInodes /\ IsInode(ino[i])
  BY FilesAreNotQuota DEF Truncate
<1>0. IsInode(r) /\ ino[i].nblk \in Nat
  BY <1>1, InodeChanges, Zenon
<1>2. d \in Int
  BY <1>0, QuotaAssumption
<1>3. Mutation(<<Blocks(d), Core(i, r)>>)
  BY DEF Truncate
<1> HIDE DEF d, r
<1>4. Own(Blocks(d)) /\ Own(Core(i, r))
  BY <1>0, <1>1, <1>2, OwnInode, OwnBlocks
<1>5. OwnList(<<Blocks(d), Core(i, r)>>)
  BY <1>4, OwnTwo
<1>6. QED
  BY <1>3, <1>5, MutationStarts

LEMMA DeleteFileStep ==
  ASSUME IInv, NEW i \in Inos, DeleteFile(i)
  PROVE  IInv'
<1> DEFINE r == [ino[i] EXCEPT !.live = FALSE]
           rest == <<Core(i, r), Slot(i, FALSE)>>
<1>1. i \notin QuotaInodes /\ IsInode(ino[i])
  BY FilesAreNotQuota DEF DeleteFile
<1>2. IsInode(r) /\ ino[i].nblk \in Nat
  BY <1>1, InodeChanges, Zenon
<1>3. Mutation(<<Entry(i, FALSE)>> \o Giving(ino[i].nblk) \o rest)
  BY DEF DeleteFile
<1> HIDE DEF r
<1>4. Own(Core(i, r)) /\ Own(Slot(i, FALSE)) /\ Own(Entry(i, FALSE))
  BY <1>1, <1>2, OwnInode, Zenon
<1>5. OwnList(<<Entry(i, FALSE)>>) /\ OwnList(Giving(ino[i].nblk)) /\ OwnList(rest)
  BY <1>2, <1>4, OwnOne, OwnTwo, OwnMoves, Zenon
<1> HIDE DEF rest
<1>6. OwnList(<<Entry(i, FALSE)>> \o Giving(ino[i].nblk) \o rest)
  BY <1>5, OwnBoth
<1>7. QED
  BY <1>3, <1>6, MutationStarts

LEMMA ChownStep ==
  ASSUME IInv, NEW i \in Inos, NEW o \in Owners, Chown(i, o[1], o[2])
  PROVE  IInv'
<1> DEFINE r == [ino[i] EXCEPT !.user = o[1], !.group = o[2]]
<1>1. i \notin QuotaInodes /\ IsInode(ino[i])
  BY FilesAreNotQuota DEF Chown
<1>2. IsInode(r) /\ Mutation(<<Core(i, r)>>)
  BY <1>1, InodeChanges, Zenon DEF Chown
<1> HIDE DEF r
<1>3. OwnList(<<Core(i, r)>>)
  BY <1>1, <1>2, OwnInode, OwnOne
<1>4. QED
  BY <1>2, <1>3, MutationStarts

LEMMA OtherMutationStep ==
  ASSUME IInv, OtherMutation
  PROVE  IInv'
BY OwnNothing, MutationStarts DEF OtherMutation

\* Grow writes superblocks only, with the types the primary has on.
LEMMA GrowStep ==
  ASSUME IInv, Grow
  PROVE  IInv'
<1> USE DEF Grow, Call
<1>1. /\ Pending = {} /\ mem = Fields(sb) /\ mem.on = sb.on /\ sb.on \in SUBSET Types
      /\ UNCHANGED <<ino, named, free, sb, sec, dq, mem, faults>> /\ done' = "grow"
  BY NothingPending
<1> DEFINE p == Primary(sb.on)
           s == <<Secondary, p, Secondary>>
<1>2. p # Secondary /\ Rank(p) = 1 /\ Rank(Secondary) = 1
  BY PrimaryIs, RankOf
<1>3. todo' = s /\ s \in Seq({Secondary, p}) /\ Len(s) = 3 /\ DOMAIN s = 1 .. 3
      /\ s[1] = Secondary /\ s[2] = p /\ s[3] = Secondary
  BY <1>1
<1>4. ASSUME NEW w \in {Secondary, p} PROVE IsWrite(w) /\ LaterWrite(w) /\ Rank(w) = 1
  BY <1>1, <1>2 DEF IsWrite, LaterWrite, Secondary, Primary
<1> HIDE DEF s, p
<1>5. Pending' = {Secondary, p}
  BY <1>3 DEF Pending, Range
<1>6. ShapeInv'
  <2>1. ShapeInv
    BY DEF IInv
  <2>2. QED
    BY <1>1, <2>1 DEF ShapeInv
<1>7. TodoInv'
  <2>1. Ordered(s)
    BY <1>2, <1>3 DEF Ordered, Ahead
  <2>2. QED
    BY <1>3, <1>4, <1>5, <2>1 DEF TodoInv
<1>8. SetupInv'
  BY <1>1 DEF SetupInv, Preparing
<1>9. LaterInv'
  <2>1. \A w \in {Secondary, p} : LaterWrite(w)'
    BY <1>1, <1>4 DEF LaterWrite, QuotaInodes
  <2>2. mem' = Fields(sb)'
    BY <1>1 DEF Fields
  <2>3. QED
    BY <1>5, <2>1, <2>2 DEF LaterInv
<1>10. PhaseInv' /\ ExactInv'
  BY <1>1, <1>4, <1>5 DEF PhaseInv, ExactInv
<1>11. QuotaInodesReady'
  BY <1>1 DEF IInv, QuotaInodesReady
<1>12. QED
  BY <1>6, <1>7, <1>8, <1>9, <1>10, <1>11 DEF IInv

-----------------------------------------------------------------------------
(* The next write of a call *)

\* What a write of each kind carries.
LEMMA WriteKinds ==
  ASSUME NEW w, IsWrite(w)
  PROVE  /\ w.w = "slot" => w.i \in Inos /\ w.b \in BOOLEAN /\ Rank(w) = 0
         /\ w.w = "blocks" => w.d \in Int /\ Rank(w) = 0
         /\ w.w = "core" => w = Core(w.i, w.rec) /\ w.i \in Inos /\ IsInode(w.rec) /\ Rank(w) = 0
         /\ w.w = "entry" => w.i \in Inos /\ w.b \in BOOLEAN /\ Rank(w) = 0
         /\ w.w = "cluster" =>
              w = Cluster(w.t, w.i) /\ w.t \in Types /\ w.i \in Inos /\ Rank(w) = 0
         /\ w.w = "dquots" => w = Dquots(w.t) /\ w.t \in Types
<1>1. Secondary.w = "secondary" /\ Counts.w = "counts"
  BY DEF Secondary, Counts
<1>2. w.w \in {"slot", "blocks", "core", "entry", "cluster"} => Rank(w) = 0
  BY DEF Rank
<1>3. ASSUME w.w = "slot" PROVE w.i \in Inos /\ w.b \in BOOLEAN
  BY <1>1, <1>3 DEF IsWrite
<1>4. ASSUME w.w = "blocks" PROVE w.d \in Int
  BY <1>1, <1>4 DEF IsWrite
<1>5. ASSUME w.w = "core" PROVE w = Core(w.i, w.rec) /\ w.i \in Inos /\ IsInode(w.rec)
  BY <1>1, <1>5 DEF IsWrite
<1>6. ASSUME w.w = "entry" PROVE w.i \in Inos /\ w.b \in BOOLEAN
  BY <1>1, <1>6 DEF IsWrite
<1>7. ASSUME w.w = "cluster" PROVE w = Cluster(w.t, w.i) /\ w.t \in Types /\ w.i \in Inos
  BY <1>1, <1>7 DEF IsWrite
<1>8. ASSUME w.w = "dquots" PROVE w = Dquots(w.t) /\ w.t \in Types
  BY <1>1, <1>8 DEF IsWrite
<1>9. QED
  BY <1>2, <1>3, <1>4, <1>5, <1>6, <1>7, <1>8

LEMMA Next1Facts ==
  ASSUME IInv, todo # <<>>
  PROVE  /\ Next1 \in Pending /\ IsWrite(Next1)
         /\ Lists(Tail(todo), Range(Tail(todo)))
         /\ Pending = {Next1} \cup Range(Tail(todo))
         /\ \A w \in Range(Tail(todo)) : w \in Pending /\ Ahead(Next1, w)
<1>1. Lists(todo, Pending) /\ \A w \in Pending : IsWrite(w)
  BY DEF IInv, TodoInv, Lists, Pending
<1>2. QED
  BY <1>1, Popped DEF Next1

\* While setupQuota prepares, its next write is to an inode or the primary.
LEMMA InSetup ==
  ASSUME IInv, NEW on \in SUBSET Types, Preparing(on)
  PROVE  /\ todo # <<>> /\ Next1 \in Pending /\ SetupWrite(on, Next1)
         /\ Next1 = Primary(on) \/ Rank(Next1) = 0
         /\ \A p \in SUBSET Types : Preparing(p) => p = on
<1>1. todo # <<>> /\ Primary(on) \in Pending
  BY DEF Preparing, Pending, Range
<1>2. \A w \in Pending : SetupWrite(on, w)
  BY DEF IInv, SetupInv
<1>3. \A p \in SUBSET Types : Preparing(p) => p = on
  BY <1>2, PrimaryIs DEF Preparing
<1>4. Next1 = Primary(on) \/ Ahead(Next1, Primary(on))
  BY <1>1, Next1Facts
<1>5. Rank(Next1) <= 1
  BY <1>4, PrimaryIs DEF Ahead
<1>6. SetupWrite(on, Next1) /\ Next1 \in Pending
  BY <1>1, <1>2, Next1Facts
<1>7. Next1 = Primary(on) \/ Rank(Next1) = 0
  <2>1. CASE Next1.w \in {"slot", "blocks", "core", "cluster"}
    BY <2>1 DEF Rank
  <2>2. CASE Next1.w \in {"counts", "dquots"}
    BY <1>5, <2>2 DEF Rank
  <2>3. QED
    BY <1>6, <2>1, <2>2 DEF SetupWrite
<1>8. QED
  BY <1>1, <1>3, <1>6, <1>7

\* Which writes a call has left, once it has made the first.
LEMMA Pops ==
  ASSUME IInv, todo # <<>>, todo' = Tail(todo), done' = done, sb'.on = sb.on \/ done # "mutation"
  PROVE  /\ TodoInv' /\ PhaseInv' /\ Pending = {Next1} \cup Pending'
         /\ \A w \in Pending' : w \in Pending /\ Ahead(Next1, w)
<1>1. Pending' = Range(Tail(todo))
  BY DEF Pending
<1>2. /\ Lists(Tail(todo), Pending') /\ Pending = {Next1} \cup Pending'
      /\ \A w \in Pending' : w \in Pending /\ Ahead(Next1, w)
  BY <1>1, Next1Facts
<1>3. TodoInv'
  BY <1>2 DEF IInv, TodoInv, Lists
<1>4. done # "error"
  BY DEF IInv, PhaseInv
<1>5. done = "grow" => \A w \in Pending' : Rank(w) = 1
  BY <1>2 DEF IInv, PhaseInv
<1>6. ASSUME done = "setup", NEW w \in Pending', Rank(w) <= 1
      PROVE  \E on \in SUBSET Types : Preparing(on)'
  <2>1. PICK on \in SUBSET Types : Preparing(on)
    BY <1>2, <1>6 DEF IInv, PhaseInv
  <2>2. CASE Next1 # Primary(on)
    BY <1>2, <2>1, <2>2 DEF Preparing
  <2>3. CASE Next1 = Primary(on)
    <3>1. Rank(Next1) = 1 /\ Ahead(Next1, w) /\ Next1 # Secondary /\ SetupWrite(on, w)
      BY <1>2, <2>1, <2>3, PrimaryIs DEF IInv, SetupInv
    <3>2. Rank(w) = 1
      BY <1>6, <3>1 DEF Ahead, Rank
    <3>3. w = Primary(on)
      BY <3>1, <3>2 DEF SetupWrite, Rank
    <3>4. QED
      BY <2>3, <3>1, <3>3 DEF Ahead
  <2>4. QED
    BY <2>2, <2>3
<1>7. done = "mutation" => \A w \in Pending' : Rank(w) # 1
  BY <1>2 DEF IInv, PhaseInv
<1>8. ASSUME done = "mutation", NEW w \in Pending', Rank(w) = 0
      PROVE  Counts \in Pending' /\ \A t \in sb.on : Dquots(t) \in Pending'
  <2>1. Counts \in Pending /\ \A t \in sb.on : Dquots(t) \in Pending
    BY <1>2, <1>8 DEF IInv, PhaseInv
  <2>2. Next1.w \notin {"counts", "dquots"}
    BY <1>2, <1>8 DEF Ahead, Rank
  <2>3. QED
    BY <1>2, <2>1, <2>2 DEF Counts, Dquots
<1>9. PhaseInv'
  BY <1>4, <1>5, <1>6, <1>7, <1>8 DEF PhaseInv
<1>10. QED
  BY <1>2, <1>3, <1>9

\* What a write of setupQuota must keep while it prepares.
SetupKept(on) ==
  /\ mem'.on = mem.on /\ named' = named
  /\ \A t \in Types \ on : mem'.q[t] = mem.q[t]
  /\ \A t \in on :
       /\ ino[QuotaSlot(on, t)] = NewInode(1) \/ Next1 = Core(QuotaSlot(on, t), NewInode(1)) =>
            ino'[QuotaSlot(on, t)] = NewInode(1)
       /\ (mem.q[t] = QuotaSlot(on, t) /\ dq[t] # <<>>) \/ Next1 = Cluster(t, QuotaSlot(on, t)) =>
            mem'.q[t] = QuotaSlot(on, t) /\ dq'[t] # <<>>

Prepares == \E on \in SUBSET Types : Preparing(on)

\* A write before the superblock.
LEMMA FrontStep ==
  ASSUME IInv, todo # <<>>, Rank(Next1) = 0, todo' = Tail(todo), done' = done, sb' = sb,
         ShapeInv',
         \A on \in SUBSET Types : Preparing(on) => SetupKept(on),
         ~Prepares => mem' = mem /\ QuotaInodesReady'
  PROVE  IInv'
<1>1. /\ TodoInv' /\ PhaseInv' /\ Pending = {Next1} \cup Pending'
      /\ \A w \in Pending' : w \in Pending
  BY Pops
<1>2. Next1 # Counts /\ (\A on : Next1 # Primary(on)) /\ (\A t \in Types : Next1 # Dquots(t))
  BY DEF Rank, Counts, Primary, Dquots
<1>3. \A on \in SUBSET Types : Preparing(on) <=> Preparing(on)'
  BY <1>1, <1>2 DEF Preparing
<1>4. CASE Prepares
  <2>1. PICK on \in SUBSET Types : Preparing(on)
    BY <1>4 DEF Prepares
  <2>2. SetupKept(on) /\ \A p \in SUBSET Types : Preparing(p) => p = on
    BY <2>1, InSetup
  <2>3. /\ sb.on = {} /\ mem.on = {} /\ named = {Root}
        /\ \A t \in Types \ on : mem.q[t] = None
        /\ \A t \in on :
             /\ \/ Core(QuotaSlot(on, t), NewInode(1)) \in Pending
                \/ ino[QuotaSlot(on, t)] = NewInode(1)
             /\ \/ Cluster(t, QuotaSlot(on, t)) \in Pending
                \/ mem.q[t] = QuotaSlot(on, t) /\ dq[t] # <<>>
        /\ \A w \in Pending : SetupWrite(on, w)
        /\ Counts \in Pending /\ \A t \in on : Dquots(t) \in Pending
    BY <2>1 DEF IInv, SetupInv
  <2>4. /\ sb'.on = {} /\ mem'.on = {} /\ named' = {Root}
        /\ \A t \in Types \ on : mem'.q[t] = None
    BY <2>2, <2>3 DEF SetupKept
  <2>5. ASSUME NEW t \in on
        PROVE  /\ \/ Core(QuotaSlot(on, t), NewInode(1)) \in Pending'
                  \/ ino'[QuotaSlot(on, t)] = NewInode(1)
               /\ \/ Cluster(t, QuotaSlot(on, t)) \in Pending'
                  \/ mem'.q[t] = QuotaSlot(on, t) /\ dq'[t] # <<>>
    BY <1>1, <2>2, <2>3, Zenon DEF SetupKept
  <2>6. /\ \A w \in Pending' : SetupWrite(on, w)
        /\ Counts \in Pending' /\ \A t \in on : Dquots(t) \in Pending'
    BY <1>1, <1>2, <2>3, Zenon
  <2>7. SetupInv'
    <3> SUFFICES ASSUME NEW p \in SUBSET Types, Preparing(p)' PROVE
          /\ sb'.on = {} /\ mem'.on = {} /\ named' = {Root}
          /\ \A t \in Types \ p : mem'.q[t] = None
          /\ \A t \in p :
               /\ \/ Core(QuotaSlot(p, t), NewInode(1)) \in Pending'
                  \/ ino'[QuotaSlot(p, t)] = NewInode(1)
               /\ \/ Cluster(t, QuotaSlot(p, t)) \in Pending'
                  \/ mem'.q[t] = QuotaSlot(p, t) /\ dq'[t] # <<>>
          /\ \A w \in Pending' : SetupWrite(p, w)
          /\ Counts \in Pending' /\ \A t \in p : Dquots(t) \in Pending'
      BY Zenon DEF SetupInv, SetupWrite
    <3>1. p = on
      BY <1>3, <2>2
    <3>2. QED
      BY <2>4, <2>5, <2>6, <3>1, Zenon
  <2>8. Preparing(on)' /\ Primary(on) \in Pending'
    BY <1>3, <2>1 DEF Preparing
  <2>9. LaterInv'
    BY <2>8 DEF LaterInv
  <2>10. QuotaInodesReady'
    BY <2>4 DEF QuotaInodesReady
  <2>11. ExactInv'
    <3>1. Rank(Primary(on)) = 1
      BY RankOf
    <3>2. QED
      BY <2>8, <3>1 DEF ExactInv
  <2>12. QED
    BY <1>1, <2>7, <2>9, <2>10, <2>11 DEF IInv
<1>5. CASE ~Prepares
  <2>1. mem' = mem /\ QuotaInodesReady' /\ \A on \in SUBSET Types : ~Preparing(on)
    BY <1>5 DEF Prepares
  <2>2. SetupInv'
    BY <1>3, <2>1 DEF SetupInv
  <2>3. LaterInv'
    <3>1. mem = Fields(sb) /\ \A w \in Pending : LaterWrite(w)
      BY <2>1 DEF IInv, LaterInv
    <3>2. mem' = Fields(sb)' /\ \A w \in Pending' : LaterWrite(w)'
      BY <1>1, <2>1, <3>1 DEF Fields, LaterWrite, QuotaInodes
    <3>3. QED
      BY <3>2 DEF LaterInv
  <2>4. Next1 \in Pending
    BY Next1Facts
  <2>5. done \notin {"setup", "grow"}
    BY <2>1, <2>4 DEF IInv, PhaseInv
  <2>6. done = "mutation" => Counts \in Pending' /\ \A t \in sb.on : Dquots(t) \in Pending'
    <3>1. done = "mutation" => Counts \in Pending /\ \A t \in sb.on : Dquots(t) \in Pending
      BY <2>4 DEF IInv, PhaseInv
    <3>2. sb.on \subseteq Types
      BY DEF IInv, ShapeInv
    <3>3. QED
      BY <1>1, <1>2, <3>1, <3>2
  <2>7. ExactInv'
    BY <2>5, <2>6 DEF ExactInv
  <2>8. QED
    BY <1>1, <2>1, <2>2, <2>3, <2>7 DEF IInv
<1>6. QED
  BY <1>4, <1>5

\* A call that returns an error.
LEMMA RefuseStep ==
  ASSUME IInv, todo' = <<>>, done' = "error", mem' = mem \/ mem' = Fields(sb),
         done = "setup" => mem' = Fields(sb), UNCHANGED <<ino, named, free, sb, dq>>,
         faults' \in 0 .. MaxFaults
  PROVE  IInv'
<1>1. mem' = Fields(sb)
  BY DEF IInv, LaterInv, Preparing
<1>2. Pending' = {}
  BY DEF Pending, Range
<1>3. ShapeInv'
  <2>1. /\ mem' = [on |-> sb.on, q |-> sb.q] /\ mem'.on = sb.on /\ mem'.q = sb.q
    BY <1>1 DEF Fields
  <2>2. QED
    BY <2>1 DEF IInv, ShapeInv
<1>4. TodoInv'
  BY <1>2 DEF TodoInv, Ordered
<1>5. SetupInv'
  BY <1>2 DEF SetupInv, Preparing
<1>6. LaterInv'
  BY <1>1, <1>2 DEF LaterInv, Fields
<1>7. PhaseInv' /\ ExactInv'
  BY DEF PhaseInv, ExactInv
<1>8. QuotaInodesReady'
  <2>1. QuotaInodesReady
    BY DEF IInv
  <2>2. QED
    BY <2>1 DEF QuotaInodesReady
<1>9. QED
  BY <1>3, <1>4, <1>5, <1>6, <1>7, <1>8 DEF IInv

LEMMA QuotaUntouched ==
  ASSUME IInv, sb' = sb, dq' = dq,
         \A i \in QuotaInodes : ino'[i] = ino[i] /\ (i \in named' => i \in named)
  PROVE  QuotaInodesReady'
<1>1. \A t \in sb.on : ino'[sb.q[t]] = ino[sb.q[t]] /\ (sb.q[t] \in named' => sb.q[t] \in named)
  BY DEF QuotaInodes
<1>2. QED
  BY <1>1 DEF IInv, QuotaInodesReady

LEMMA NotPreparing ==
  ASSUME IInv, ~Prepares
  PROVE  mem = Fields(sb) /\ \A w \in Pending : LaterWrite(w)
BY DEF IInv, LaterInv, Prepares

LEMMA WriteSlotStep ==
  ASSUME IInv, WriteSlot
  PROVE  IInv'
<1> DEFINE i == Next1.i
           b == Next1.b
<1>1. /\ todo # <<>> /\ Next1.w = "slot" /\ todo' = Tail(todo)
      /\ ino' = [ino EXCEPT ![i] = [ino[i] EXCEPT !.bit = b]]
      /\ UNCHANGED <<named, free, sb, sec, dq, mem, done, faults>>
  BY DEF WriteSlot, Is
<1>2. i \in Inos /\ b \in BOOLEAN /\ Rank(Next1) = 0 /\ Next1 \in Pending
  BY <1>1, Next1Facts, WriteKinds
<1> HIDE DEF i, b
<1>3. /\ ino' = [j \in Inos |-> ino'[j]]
      /\ \A j \in Inos : ino'[j] = IF j = i THEN [ino[i] EXCEPT !.bit = b] ELSE ino[j]
  BY <1>1, <1>2, Zenon DEF IInv, ShapeInv
<1>4. IsInode([ino[i] EXCEPT !.bit = b])
  BY <1>2, InodeChanges, Zenon DEF IInv, ShapeInv
<1>5. ShapeInv'
  <2>1. ShapeInv
    BY DEF IInv
  <2>2. QED
    BY <1>1, <1>3, <1>4, <2>1, Zenon DEF ShapeInv
<1>6. ASSUME NEW on \in SUBSET Types, Preparing(on) PROVE SetupKept(on)
  <2>1. b = TRUE
    <3>1. SetupWrite(on, Next1)
      BY <1>6, InSetup
    <3>2. Next1.w \notin {"blocks", "core", "cluster", "counts", "dquots"} /\ Next1 # Primary(on)
      BY <1>1 DEF Primary
    <3>3. QED
      BY <3>1, <3>2, Zenon DEF SetupWrite, b
  <2>2. ASSUME NEW x, x = [NewInode(1) EXCEPT !.bit = b] PROVE x = NewInode(1)
    BY <2>1, <2>2, Zenon DEF NewInode
  <2>3. \A t \in on : QuotaSlot(on, t) \in Inos
    BY SlotOf
  <2>4. ASSUME NEW t \in on, ino[QuotaSlot(on, t)] = NewInode(1)
        PROVE  ino'[QuotaSlot(on, t)] = NewInode(1)
    BY <1>3, <2>2, <2>3, <2>4
  <2>5. \A t, j, r : Next1 # Core(j, r) /\ Next1 # Cluster(t, j)
    BY <1>1 DEF Core, Cluster
  <2>6. QED
    BY <1>1, <2>4, <2>5 DEF SetupKept
<1>7. ASSUME ~Prepares PROVE QuotaInodesReady'
  <2>1. i \notin QuotaInodes
    BY <1>1, <1>2, <1>7, NotPreparing DEF LaterWrite, i
  <2>2. QuotaInodes \subseteq Inos
    BY DEF QuotaInodes, IInv, QuotaInodesReady
  <2>3. QED
    BY <1>1, <1>3, <2>1, <2>2, QuotaUntouched
<1>8. QED
  BY <1>1, <1>2, <1>5, <1>6, <1>7, FrontStep

LEMMA WriteBlocksStep ==
  ASSUME IInv, WriteBlocks
  PROVE  IInv'
<1> DEFINE d == Next1.d
<1>1. /\ todo # <<>> /\ Next1.w = "blocks"
      /\ UNCHANGED <<ino, named, sb, sec, dq, faults>>
      /\ IF HasRoom(d)
         THEN free' = free + d /\ todo' = Tail(todo) /\ done' = done /\ mem' = mem
         ELSE free' = free /\ Refuse
  BY DEF WriteBlocks, Is
<1>2. d \in Int /\ Rank(Next1) = 0
  BY <1>1, Next1Facts, WriteKinds
<1> HIDE DEF d
<1>3. CASE HasRoom(d)
  <2>1. free' = free + d /\ todo' = Tail(todo) /\ done' = done /\ mem' = mem
    BY <1>1, <1>3
  <2>2. free' \in Nat
    BY <1>2, <1>3, <2>1 DEF HasRoom, IInv, ShapeInv
  <2>3. ShapeInv'
    BY <1>1, <2>1, <2>2 DEF IInv, ShapeInv
  <2>4. \A on, t, j, r : Next1 # Core(j, r) /\ Next1 # Cluster(t, j)
    BY <1>1 DEF Core, Cluster
  <2>5. \A on \in SUBSET Types : SetupKept(on)
    BY <1>1, <2>1, <2>4 DEF SetupKept
  <2>6. QuotaInodesReady'
    BY <1>1, QuotaUntouched
  <2>7. QED
    BY <1>1, <1>2, <2>1, <2>3, <2>5, <2>6, FrontStep
<1>4. CASE ~HasRoom(d)
  <2>1. free' = free /\ Refuse
    BY <1>1, <1>4
  <2>2. faults' \in 0 .. MaxFaults
    BY <1>1 DEF IInv, ShapeInv
  <2>3. QED
    BY <1>1, <2>1, <2>2, RefuseStep DEF Refuse
<1>5. QED
  BY <1>3, <1>4

LEMMA WriteCoreStep ==
  ASSUME IInv, WriteCore
  PROVE  IInv'
<1> DEFINE i == Next1.i
           r == Next1.rec
<1>1. /\ todo # <<>> /\ Next1.w = "core" /\ todo' = Tail(todo)
      /\ ino' = [ino EXCEPT ![i] = r]
      /\ UNCHANGED <<named, free, sb, sec, dq, mem, done, faults>>
  BY DEF WriteCore, Is
<1>2. i \in Inos /\ IsInode(r) /\ Rank(Next1) = 0 /\ Next1 \in Pending /\ Next1 = Core(i, r)
  BY <1>1, Next1Facts, WriteKinds
<1>3. ASSUME NEW on \in SUBSET Types, Preparing(on) PROVE r = NewInode(1)
  BY <1>1, <1>3, InSetup DEF SetupWrite, Primary
<1>4. ASSUME ~Prepares PROVE i \notin QuotaInodes
  BY <1>1, <1>2, <1>4, NotPreparing DEF LaterWrite
<1> HIDE DEF i, r
<1>5. /\ ino' = [j \in Inos |-> ino'[j]]
      /\ \A j \in Inos : ino'[j] = IF j = i THEN r ELSE ino[j]
  BY <1>1, <1>2 DEF IInv, ShapeInv
<1>6. ShapeInv'
  <2>1. ShapeInv
    BY DEF IInv
  <2>2. QED
    BY <1>1, <1>2, <1>5, <2>1 DEF ShapeInv
<1>7. ASSUME NEW on \in SUBSET Types, Preparing(on) PROVE SetupKept(on)
  <2>1. \A t \in on : QuotaSlot(on, t) \in Inos
    BY SlotOf
  <2>2. \A j : Next1 = Core(j, NewInode(1)) => j = i
    BY <1>2 DEF Core
  <2>3. ASSUME NEW t \in on,
               ino[QuotaSlot(on, t)] = NewInode(1) \/ Next1 = Core(QuotaSlot(on, t), NewInode(1))
        PROVE  ino'[QuotaSlot(on, t)] = NewInode(1)
    BY <1>3, <1>5, <1>7, <2>1, <2>2, <2>3
  <2>4. \A t, j : Next1 # Cluster(t, j)
    BY <1>1 DEF Cluster
  <2>5. QED
    BY <1>1, <2>3, <2>4 DEF SetupKept
<1>8. ASSUME ~Prepares PROVE QuotaInodesReady'
  <2>1. QuotaInodes \subseteq Inos
    BY DEF QuotaInodes, IInv, QuotaInodesReady
  <2>2. QED
    BY <1>1, <1>4, <1>5, <1>8, <2>1, QuotaUntouched
<1>9. QED
  BY <1>1, <1>2, <1>6, <1>7, <1>8, FrontStep

LEMMA WriteEntryStep ==
  ASSUME IInv, WriteEntry
  PROVE  IInv'
<1> DEFINE i == Next1.i
<1>1. /\ todo # <<>> /\ Next1.w = "entry" /\ todo' = Tail(todo)
      /\ named' \in {named \cup {i}, named \ {i}}
      /\ UNCHANGED <<ino, free, sb, sec, dq, mem, done, faults>>
  BY DEF WriteEntry, Is
<1>2. i \in Inos /\ Rank(Next1) = 0 /\ Next1 \in Pending
  BY <1>1, Next1Facts, WriteKinds
<1>3. ASSUME NEW on \in SUBSET Types, Preparing(on) PROVE FALSE
  BY <1>1, <1>3, InSetup DEF SetupWrite, Primary
<1>4. i \notin QuotaInodes
  BY <1>1, <1>2, <1>3, NotPreparing DEF LaterWrite, Prepares
<1> HIDE DEF i
<1>5. ShapeInv'
  <2>1. ShapeInv
    BY DEF IInv
  <2>2. QED
    BY <1>1, <1>2, <2>1 DEF ShapeInv
<1>6. QuotaInodesReady'
  BY <1>1, <1>4, QuotaUntouched
<1>7. QED
  BY <1>1, <1>2, <1>3, <1>5, <1>6, FrontStep

LEMMA WriteClusterStep ==
  ASSUME IInv, WriteCluster
  PROVE  IInv'
<1> DEFINE t == Next1.t
           i == Next1.i
           fresh == [id \in 0 .. PerBlock - 1 |-> [b |-> 0, i |-> 0]]
<1>1. /\ todo # <<>> /\ Next1.w = "cluster" /\ todo' = Tail(todo)
      /\ dq' = [dq EXCEPT ![t] = fresh]
      /\ mem' = [mem EXCEPT !.q = [mem.q EXCEPT ![t] = i]]
      /\ UNCHANGED <<ino, named, free, sb, sec, done, faults>>
  BY DEF WriteCluster, Is
<1>2. t \in Types /\ Rank(Next1) = 0 /\ Next1 \in Pending /\ Next1 = Cluster(t, i)
  BY <1>1, Next1Facts, WriteKinds
<1>3. Prepares
  BY <1>1, <1>2, NotPreparing DEF LaterWrite
<1>4. ASSUME NEW on \in SUBSET Types, Preparing(on) PROVE t \in on /\ i = QuotaSlot(on, t)
  BY <1>1, <1>4, InSetup DEF SetupWrite, Primary
<1>5. fresh \in [0 .. PerBlock - 1 -> Dquot] /\ fresh # <<>>
  <2>1. 0 \in DOMAIN fresh /\ DOMAIN << >> = {}
    BY QuotaAssumption
  <2>2. fresh \in [0 .. PerBlock - 1 -> Dquot]
    BY DEF Dquot
  <2>3. QED
    BY <2>1, <2>2
<1> HIDE DEF t, i, fresh
<1>6. /\ dq' = [u \in Types |-> dq'[u]]
      /\ \A u \in Types : dq'[u] = IF u = t THEN fresh ELSE dq[u]
  BY <1>1, <1>2 DEF IInv, ShapeInv
<1>7. /\ mem' = [on |-> mem'.on, q |-> mem'.q] /\ mem'.on = mem.on
      /\ mem'.q = [mem.q EXCEPT ![t] = i]
  BY <1>1, Zenon DEF IInv, ShapeInv
<1>8. /\ mem'.q = [u \in Types |-> mem'.q[u]]
      /\ \A u \in Types : mem'.q[u] = IF u = t THEN i ELSE mem.q[u]
  BY <1>2, <1>7, Zenon DEF IInv, ShapeInv
<1>9. ShapeInv'
  <2>1. \A u \in Types : dq'[u] = <<>> \/ dq'[u] \in [0 .. PerBlock - 1 -> Dquot]
    BY <1>5, <1>6 DEF IInv, ShapeInv
  <2>2. QED
    BY <1>1, <1>6, <1>7, <1>8, <2>1 DEF IInv, ShapeInv
<1>10. ASSUME NEW on \in SUBSET Types, Preparing(on) PROVE SetupKept(on)
  <2>1. t \in on /\ i = QuotaSlot(on, t)
    BY <1>4, <1>10
  <2>2. \A j, r : Next1 # Core(j, r)
    BY <1>1 DEF Core
  <2>3. \A u, j : Next1 = Cluster(u, j) => u = t
    BY <1>2 DEF Cluster
  <2>4. \A u \in Types \ on : mem'.q[u] = mem.q[u]
    BY <1>8, <2>1
  <2>5. ASSUME NEW u \in on,
               (mem.q[u] = QuotaSlot(on, u) /\ dq[u] # <<>>) \/ Next1 = Cluster(u, QuotaSlot(on, u))
        PROVE  mem'.q[u] = QuotaSlot(on, u) /\ dq'[u] # <<>>
    <3>1. u \in Types
      OBVIOUS
    <3>2. CASE u = t
      BY <1>5, <1>6, <1>8, <2>1, <3>1, <3>2
    <3>3. CASE u # t
      BY <1>6, <1>8, <2>3, <2>5, <3>1, <3>3
    <3>4. QED
      BY <3>2, <3>3
  <2>6. QED
    BY <1>1, <1>7, <2>2, <2>4, <2>5 DEF SetupKept
<1>11. QED
  BY <1>1, <1>2, <1>3, <1>9, <1>10, FrontStep

\* A superblock that Grow writes.
LEMMA GrowWrites ==
  ASSUME IInv, ~Prepares, todo # <<>>, Rank(Next1) = 1, todo' = Tail(todo),
         ShapeInv', sb'.on = sb.on, sb'.q = sb.q, UNCHANGED <<ino, named, free, dq, mem, done>>
  PROVE  IInv'
<1>1. done = "grow"
  <2>1. Next1 \in Pending
    BY Next1Facts
  <2>2. done # "setup" /\ done # "mutation" /\ done # "error"
    BY <2>1 DEF IInv, PhaseInv, Prepares
  <2>3. QED
    BY <2>2 DEF IInv, ShapeInv
<1>2. TodoInv' /\ PhaseInv' /\ \A w \in Pending' : w \in Pending
  BY Pops
<1>3. SetupInv' /\ ExactInv'
  BY <1>1 DEF SetupInv, Preparing, ExactInv
<1>4. LaterInv'
  <2>1. mem = Fields(sb) /\ \A w \in Pending : LaterWrite(w)
    BY NotPreparing
  <2>2. mem' = Fields(sb)' /\ \A w \in Pending' : LaterWrite(w)'
    BY <1>2, <2>1 DEF Fields, LaterWrite, QuotaInodes
  <2>3. QED
    BY <2>2 DEF LaterInv
<1>5. QuotaInodesReady'
  <2>1. QuotaInodesReady
    BY DEF IInv
  <2>2. QED
    BY <2>1 DEF QuotaInodesReady
<1>6. QED
  BY <1>2, <1>3, <1>4, <1>5 DEF IInv

LEMMA WriteSecondaryStep ==
  ASSUME IInv, WriteSecondary
  PROVE  IInv'
<1>1. /\ todo # <<>> /\ Next1.w = "secondary" /\ todo' = Tail(todo)
      /\ UNCHANGED <<ino, named, free, sb, dq, mem, done, faults>>
  BY DEF WriteSecondary, Is
<1>2. Rank(Next1) = 1
  BY <1>1 DEF Rank
<1>3. ~Prepares
  <2> SUFFICES ASSUME NEW on \in SUBSET Types, Preparing(on) PROVE FALSE
    BY DEF Prepares
  <2>1. QED
    BY <1>1, InSetup DEF SetupWrite, Primary
<1>4. ShapeInv'
  <2>1. ShapeInv
    BY DEF IInv
  <2>2. QED
    BY <1>1, <2>1 DEF ShapeInv
<1>5. QED
  BY <1>1, <1>2, <1>3, <1>4, GrowWrites

\* The write that turns the quotas on: every type has its inode by now, and the
\* counters and the dquots follow.
LEMMA TurnsOn ==
  ASSUME IInv, WritePrimary, NEW on \in SUBSET Types, Preparing(on)
  PROVE  IInv'
<1>1. /\ todo # <<>> /\ Next1.w = "primary" /\ todo' = Tail(todo)
      /\ mem' = [mem EXCEPT !.on = Next1.on] /\ sb' = SuperblockBuffer(mem)'
      /\ UNCHANGED <<ino, named, free, sec, dq, done, faults>>
  BY DEF WritePrimary, Is, SuperblockBuffer
<1>2. done = "setup" /\ Next1 = Primary(on) /\ Next1.on = on /\ Rank(Next1) = 1
  <2>1. Rank(Next1) = 1
    BY <1>1 DEF Rank
  <2>2. Next1 = Primary(on)
    BY <2>1, InSetup
  <2>3. done = "setup"
    BY DEF Preparing
  <2>4. QED
    BY <2>1, <2>2, <2>3 DEF Primary
<1>3. /\ TodoInv' /\ PhaseInv' /\ Pending = {Next1} \cup Pending'
      /\ \A w \in Pending' : w \in Pending /\ Ahead(Next1, w)
  BY <1>1, <1>2, Pops
<1>4. /\ sb.on = {} /\ mem.on = {} /\ named = {Root}
      /\ \A t \in Types \ on : mem.q[t] = None
      /\ \A t \in on :
           /\ \/ Core(QuotaSlot(on, t), NewInode(1)) \in Pending
              \/ ino[QuotaSlot(on, t)] = NewInode(1)
           /\ \/ Cluster(t, QuotaSlot(on, t)) \in Pending
              \/ mem.q[t] = QuotaSlot(on, t) /\ dq[t] # <<>>
      /\ \A w \in Pending : SetupWrite(on, w)
      /\ Counts \in Pending /\ \A t \in on : Dquots(t) \in Pending
  BY Zenon DEF IInv, SetupInv
<1>5. \A w \in Pending : Rank(w) # 0
  BY <1>2, <1>3 DEF Ahead
<1>6. \A t \in on : /\ ino[QuotaSlot(on, t)] = NewInode(1)
                    /\ mem.q[t] = QuotaSlot(on, t) /\ dq[t] # <<>>
  <2> TAKE t \in on
  <2>1. Rank(Core(QuotaSlot(on, t), NewInode(1))) = 0 /\ Rank(Cluster(t, QuotaSlot(on, t))) = 0
    BY RankOf
  <2>2. /\ Core(QuotaSlot(on, t), NewInode(1)) \notin Pending
        /\ Cluster(t, QuotaSlot(on, t)) \notin Pending
    BY <1>5, <2>1
  <2>3. QED
    BY <1>4, <2>2
<1>7. ASSUME NEW w \in Pending' PROVE w.w \in {"counts", "dquots"}
  <2>1. SetupWrite(on, w) /\ Rank(w) # 0
    BY <1>3, <1>4, <1>5, Zenon
  <2>2. w # Primary(on)
    BY <1>2, <1>3, PrimaryIs DEF Ahead
  <2>3. QED
    BY <2>1, <2>2 DEF SetupWrite, Rank
<1>8. \A p : Primary(p) \notin Pending'
  BY <1>7 DEF Primary
<1>9. /\ mem' = [on |-> on, q |-> mem.q] /\ mem'.on = on /\ mem'.q = mem.q
  BY <1>1, <1>2 DEF IInv, ShapeInv
<1>10. /\ sb' = [on |-> on, q |-> mem.q, ifree |-> Cardinality(Inos) - 1, fdblocks |-> Space]
       /\ sb'.on = on /\ sb'.q = mem.q
  BY <1>1, <1>9 DEF SuperblockBuffer
<1>11. ShapeInv'
  <2>1. /\ sb' = [on |-> sb'.on, q |-> sb'.q, ifree |-> sb'.ifree, fdblocks |-> sb'.fdblocks]
        /\ sb'.on \subseteq Types /\ sb'.q = [t \in Types |-> sb'.q[t]]
        /\ \A t \in Types \ sb'.on : sb'.q[t] = None
    BY <1>4, <1>10 DEF IInv, ShapeInv
  <2>2. /\ mem' = [on |-> mem'.on, q |-> mem'.q]
        /\ mem'.on \subseteq Types /\ mem'.q = [t \in Types |-> mem'.q[t]]
    BY <1>9 DEF IInv, ShapeInv
  <2>3. QED
    BY <1>1, <2>1, <2>2 DEF IInv, ShapeInv, IsInode
<1>12. SetupInv'
  BY <1>8 DEF SetupInv, Preparing
<1>13. LaterInv'
  <2>1. mem' = Fields(sb)'
    BY <1>9, <1>10 DEF Fields
  <2>2. \A w \in Pending' : LaterWrite(w)'
    BY <1>7 DEF LaterWrite
  <2>3. QED
    BY <2>1, <2>2 DEF LaterInv
<1>14. ExactInv'
  <2>1. Next1 # Counts /\ \A t : Next1 # Dquots(t)
    BY <1>1 DEF Counts, Dquots
  <2>2. Counts \in Pending' /\ \A t \in on : Dquots(t) \in Pending'
    BY <1>3, <1>4, <2>1, Zenon
  <2>3. QED
    BY <1>10, <2>2 DEF ExactInv
<1>15. QuotaInodesReady'
  <2> SUFFICES ASSUME NEW t \in on
               PROVE  /\ sb'.q[t] \in Inos \ named'
                      /\ ino'[sb'.q[t]].bit /\ ino'[sb'.q[t]].live /\ ino'[sb'.q[t]].nblk = 1
                      /\ dq'[t] # <<>>
                      /\ \A u \in on \ {t} : sb'.q[u] # sb'.q[t]
    BY <1>10 DEF QuotaInodesReady
  <2>1. /\ \A u \in on : sb'.q[u] = QuotaSlot(on, u)
        /\ ino'[QuotaSlot(on, t)] = NewInode(1) /\ dq'[t] # <<>> /\ named' = {Root}
    BY <1>1, <1>4, <1>6, <1>10
  <2>2. QuotaSlot(on, t) \in Inos \ {Root} /\ \A u \in on \ {t} : QuotaSlot(on, u) # QuotaSlot(on, t)
    BY SlotOf
  <2>3. NewInode(1).bit /\ NewInode(1).live /\ NewInode(1).nblk = 1
    BY DEF NewInode
  <2>4. sb'.q[t] = QuotaSlot(on, t) /\ \A u \in on \ {t} : sb'.q[u] = QuotaSlot(on, u)
    BY <2>1
  <2>5. QED
    BY <2>1, <2>2, <2>3, <2>4
<1>16. QED
  BY <1>3, <1>11, <1>12, <1>13, <1>14, <1>15 DEF IInv

\* Any later write of the primary superblock keeps its quota fields.
LEMMA PrimaryKeeps ==
  ASSUME IInv, ~Prepares, WritePrimary
  PROVE  /\ mem' = mem /\ sb'.on = sb.on /\ sb'.q = sb.q
         /\ sb' = [on |-> sb'.on, q |-> sb'.q, ifree |-> sb'.ifree, fdblocks |-> sb'.fdblocks]
<1>1. /\ todo # <<>> /\ Next1.w = "primary"
      /\ mem' = [mem EXCEPT !.on = Next1.on] /\ sb' = SuperblockBuffer(mem)'
  BY DEF WritePrimary, Is, SuperblockBuffer
<1>2. mem = Fields(sb) /\ Next1.on = sb.on
  BY <1>1, Next1Facts, NotPreparing DEF LaterWrite
<1>3. mem = [on |-> sb.on, q |-> sb.q] /\ mem.on = sb.on /\ mem.q = sb.q
  BY <1>2 DEF Fields
<1>4. mem' = mem
  BY <1>1, <1>2, <1>3
<1>5. sb' = [on |-> sb.on, q |-> sb.q, ifree |-> Cardinality(Inos) - 1, fdblocks |-> Space]
  BY <1>1, <1>3, <1>4 DEF SuperblockBuffer
<1>6. QED
  BY <1>4, <1>5

LEMMA WritePrimaryStep ==
  ASSUME IInv, WritePrimary
  PROVE  IInv'
<1>1. CASE Prepares
  BY <1>1, TurnsOn DEF Prepares
<1>2. CASE ~Prepares
  <2>1. /\ mem' = mem /\ sb'.on = sb.on /\ sb'.q = sb.q
        /\ sb' = [on |-> sb'.on, q |-> sb'.q, ifree |-> sb'.ifree, fdblocks |-> sb'.fdblocks]
    BY <1>2, PrimaryKeeps
  <2>2. /\ todo # <<>> /\ Rank(Next1) = 1 /\ todo' = Tail(todo)
        /\ UNCHANGED <<ino, named, free, sec, dq, done, faults>>
    BY DEF WritePrimary, Is, Rank
  <2>3. ShapeInv'
    BY <2>1, <2>2 DEF IInv, ShapeInv, IsInode
  <2>4. QED
    BY <1>2, <2>1, <2>2, <2>3, GrowWrites
<1>3. QED
  BY <1>1, <1>2

-----------------------------------------------------------------------------
(* The end of a mutation *)

\* Where the counters or dquots come next, nothing else is left to write.
LEMMA AtTheEnd ==
  ASSUME IInv, todo # <<>>, Next1.w \in {"counts", "dquots"}
  PROVE  /\ ~Prepares /\ done \in {"setup", "mutation"}
         /\ Next1 \in Pending /\ Rank(Next1) >= 2
         /\ \A w \in Pending : Rank(w) >= 2 /\ Rank(w) >= Rank(Next1)
<1>1. Rank(Next1) >= 2 /\ Next1 \in Pending
  BY Next1Facts DEF Rank
<1>2. \A w \in Pending : Rank(w) >= 2 /\ Rank(w) >= Rank(Next1)
  <2>1. \A w : Rank(w) \in Nat
    BY DEF Rank
  <2>2. \A w \in Pending : Rank(w) >= Rank(Next1)
    BY <1>1, <2>1, Next1Facts DEF Ahead
  <2>3. QED
    BY <1>1, <2>1, <2>2
<1>3. ~Prepares
  <2> SUFFICES ASSUME NEW on \in SUBSET Types, Preparing(on) PROVE FALSE
    BY DEF Prepares
  <2>1. QED
    BY <1>1, InSetup, PrimaryIs
<1>4. done \in {"setup", "mutation"}
  BY <1>1 DEF IInv, PhaseInv, ShapeInv
<1>5. QED
  BY <1>1, <1>2, <1>3, <1>4

\* A write of the end of a call that keeps the quota fields.
LEMMA EndWrites ==
  ASSUME IInv, todo # <<>>, Next1.w \in {"counts", "dquots"}, todo' = Tail(todo),
         ShapeInv', sb'.on = sb.on, sb'.q = sb.q, UNCHANGED <<ino, named, free, mem, done>>,
         \A t \in sb.on : dq[t] # <<>> => dq'[t] # <<>>,
         Next1 = Counts \/ CountsExact => CountsExact',
         \A t \in sb.on : Next1 = Dquots(t) \/ (ExactFor(t) /\ Addressable(t)) =>
           ExactFor(t)' /\ Addressable(t)'
  PROVE  IInv'
<1>1. /\ ~Prepares /\ done \in {"setup", "mutation"} /\ Next1 \in Pending
      /\ \A w \in Pending : Rank(w) >= 2
  BY AtTheEnd
<1>2. /\ TodoInv' /\ PhaseInv' /\ Pending = {Next1} \cup Pending'
      /\ \A w \in Pending' : w \in Pending
  BY Pops
<1>3. SetupInv'
  BY <1>1, <1>2, Zenon DEF SetupInv, Preparing, Prepares
<1>4. LaterInv'
  <2>1. mem = Fields(sb) /\ \A w \in Pending : LaterWrite(w)
    BY <1>1, NotPreparing
  <2>2. mem' = Fields(sb)' /\ \A w \in Pending' : LaterWrite(w)'
    BY <1>2, <2>1 DEF Fields, LaterWrite, QuotaInodes
  <2>3. QED
    BY <2>2, Zenon DEF LaterInv
<1>5. ExactInv'
  <2>1. /\ Counts \in Pending \/ CountsExact
        /\ \A t \in sb.on : Dquots(t) \in Pending \/ (ExactFor(t) /\ Addressable(t))
    BY <1>1 DEF IInv, ExactInv
  <2>2. Counts \in Pending' \/ CountsExact'
    BY <1>2, <2>1
  <2>3. \A t \in sb.on : Dquots(t) \in Pending' \/ (ExactFor(t)' /\ Addressable(t)')
    BY <1>2, <2>1
  <2>4. QED
    BY <2>2, <2>3 DEF ExactInv
<1>6. QuotaInodesReady'
  <2>1. QuotaInodesReady
    BY Zenon DEF IInv
  <2>2. QED
    BY <2>1, Zenon DEF QuotaInodesReady
<1>7. QED
  BY <1>2, <1>3, <1>4, <1>5, <1>6 DEF IInv

LEMMA SyncStep ==
  ASSUME IInv, SyncSuperblockCounts
  PROVE  IInv' /\ sb'.on = sb.on /\ sb'.q = sb.q
<1>1. /\ todo # <<>> /\ Next1.w = "counts" /\ todo' = Tail(todo)
      /\ sb' = [sb EXCEPT !.fdblocks = free, !.ifree = Cardinality(FreeSlots(ino))]
      /\ UNCHANGED <<ino, named, free, sec, dq, mem, done, faults>>
  BY DEF SyncSuperblockCounts, Is, Counted
<1>2. sb' = [on |-> sb.on, q |-> sb.q, ifree |-> Cardinality(FreeSlots(ino)), fdblocks |-> free]
  BY <1>1, Zenon DEF IInv, ShapeInv
<1>3. /\ sb'.on = sb.on /\ sb'.q = sb.q /\ sb'.fdblocks = free
      /\ sb'.ifree = Cardinality(FreeSlots(ino))
      /\ sb' = [on |-> sb'.on, q |-> sb'.q, ifree |-> sb'.ifree, fdblocks |-> sb'.fdblocks]
  BY <1>2
<1>4. ShapeInv'
  <2>1. ShapeInv
    BY DEF IInv
  <2>2. QED
    BY <1>1, <1>3, <2>1 DEF ShapeInv
<1>5. CountsExact'
  BY <1>1, <1>3 DEF CountsExact
<1>6. ASSUME NEW t \in sb.on, ExactFor(t), Addressable(t) PROVE ExactFor(t)' /\ Addressable(t)'
  BY <1>1, <1>3, <1>6 DEF ExactFor, Addressable, Owned, QuotaInodes
<1>7. \A t : Next1 # Dquots(t)
  BY <1>1 DEF Dquots
<1>8. QED
  BY <1>1, <1>3, <1>4, <1>5, <1>6, <1>7, EndWrites

\* A quotacheck charges the inodes of the volume other than the quota inodes.
LEMMA ChargedOwned ==
  ASSUME IInv, mem = Fields(sb), NEW t \in Types
  PROVE  /\ \A id : {i \in Charged : ino[i][t] = id} = Owned(t, id)
         /\ InRange(t) <=> Addressable(t)
<1>1. mem.q = sb.q /\ DOMAIN sb.q = Types
  BY DEF Fields, IInv, ShapeInv
<1>2. ASSUME NEW i \in Inos PROVE i \in Range(mem.q) <=> i \in QuotaInodes
  <2>1. ASSUME NEW u \in Types, i = sb.q[u] PROVE u \in sb.on
    BY <2>1, QuotaAssumption DEF IInv, ShapeInv
  <2>2. sb.on \subseteq Types
    BY DEF IInv, ShapeInv
  <2>3. QED
    BY <1>1, <2>1, <2>2 DEF Range, QuotaInodes
<1>3. Charged = {i \in Inos \ QuotaInodes : ino[i].bit /\ ino[i].live}
  BY <1>2 DEF Charged, Enumerated
<1>4. \A id : {i \in Charged : ino[i][t] = id} = Owned(t, id)
  BY <1>3 DEF Owned
<1>5. \A i \in Inos : i \in Owned(t, ino[i][t]) <=> i \in Charged
  BY <1>3 DEF Owned
<1>6. InRange(t) <=> Addressable(t)
  BY <1>3, <1>5 DEF InRange, Addressable
<1>7. QED
  BY <1>4, <1>6
=============================================================================
