----------------------------- MODULE DirLayout ------------------------------
(***************************************************************************)
(* How a directory is laid out in blocks (leafdir.go, write.go) and read   *)
(* back (dir.go), as operators.                                            *)
(*                                                                         *)
(* A data block is a sequence of cells of 8 bytes, its header left out.    *)
(* An entry is an inode cell, a cell that begins with the name's length    *)
(* and the name, and padding; a free region is one "unused" cell and       *)
(* padding.  The readers walk the cells the way the code walks the bytes,  *)
(* so they also walk into the hash array at the end of a block-form        *)
(* directory: Spelt says what the bytes of a hash are when they are taken  *)
(* for a name field ("" for length 0).  In the code every index block      *)
(* holds (blkSize - 64) / 8 entries; the capacities are separate constants *)
(* here, so that every form is met with few names.                         *)
(***************************************************************************)
EXTENDS Integers, FiniteSets, SequencesExt

CONSTANTS
  Size,        \* name -> cells of its entry ("." and ".." included)
  Hash,        \* name -> xfsDirHash
  Spelt,       \* hash -> [name, size]: its bytes read as a name field
  Self,        \* the directory's inode number
  DataRoom,    \* cells of a data block after the header
  Leaf1Room,   \* quarter cells of a leaf1 block after the header
  LeafCap,     \* hash entries of a leafN block
  NodeCap,     \* entries of an internal node
  BestsCap,    \* bests of a free-index block
  LeafLog      \* logical number of the first index block

ASSUME CapAssumption == LeafCap > 0 /\ NodeCap > 2 /\ BestsCap > 0

Garbage == -1  \* an inode number put together from the bytes of a hash entry

Dot(parent) == <<[name |-> ".", ino |-> Self], [name |-> "..", ino |-> parent]>>

CeilDiv(a, b) == (a + b - 1) \div b

-----------------------------------------------------------------------------
(* Placing the entries. *)

Cells(entries) == SumFunction([i \in DOMAIN entries |-> Size[entries[i].name]])

\* The block-form footprint: entries, one hash entry for each, the tail.
FitsOneBlock(all) == Cells(all) + Len(all) + 1 <= DataRoom

\* An entry that does not fit the rest of the block starts the next one.
PackOne(acc, e) ==
  IF acc.off + Size[e.name] > DataRoom
  THEN [placed |-> Append(acc.placed, [ent |-> e, blk |-> Len(acc.ends) + 1, off |-> 0]),
        ends   |-> Append(acc.ends, acc.off),
        off    |-> Size[e.name]]
  ELSE [acc EXCEPT !.placed = Append(@, [ent |-> e, blk |-> Len(acc.ends), off |-> acc.off]),
                   !.off = @ + Size[e.name]]

\* The entries with their block and offset, and where each block's entries end.
PackDirEntries(all) ==
  LET Closed(acc) == [placed |-> acc.placed, ends |-> Append(acc.ends, acc.off)]
  IN  Closed(FoldLeft(PackOne, [placed |-> <<>>, ends |-> <<>>, off |-> 0], all))

HashOrder(l, m) == l.hash < m.hash \/ (l.hash = m.hash /\ l.addr < m.addr)

\* The hash index, by (hash, address); an address is a cell of the data region.
LeafEntries(placed) ==
  SortSeq([i \in DOMAIN placed |-> [hash |-> Hash[placed[i].ent.name],
                                    addr |-> placed[i].blk * DataRoom + placed[i].off]],
          HashOrder)

-----------------------------------------------------------------------------
(* Blocks. *)

Pad(n) == [i \in 1 .. n |-> [k |-> "pad"]]

EntryCells(e) ==
  <<[k |-> "ino", ino |-> e.ino], [k |-> "name", name |-> e.name]>> \o Pad(Size[e.name] - 2)

UnusedCells(n) == IF n = 0 THEN <<>> ELSE <<[k |-> "unused", len |-> n]>> \o Pad(n - 1)

\* A block-form directory: entries, one free region, hash array, tail.
BuildBlockDirBlock(all) ==
  LET ents == FlattenSeq([i \in DOMAIN all |-> EntryCells(all[i])])
      free == DataRoom - 1 - Len(all) - Cells(all)
      hashes == LeafEntries(PackDirEntries(all).placed)
  IN  [kind  |-> "block",
       best  |-> free,
       cells |-> ents \o UnusedCells(free)
                 \o [i \in DOMAIN hashes |-> [k |-> "hash", hash |-> hashes[i].hash, addr |-> hashes[i].addr]]
                 \o <<[k |-> "tail", count |-> Len(all)]>>]

\* The data blocks of a leaf- or node-form directory.
DataRegion(pack) ==
  [b \in DOMAIN pack.ends |->
     LET here == SelectSeq(pack.placed, LAMBDA p : p.blk = b - 1)
     IN  [kind  |-> "data",
          best  |-> DataRoom - pack.ends[b],
          cells |-> FlattenSeq([i \in DOMAIN here |-> EntryCells(here[i].ent)])
                    \o UnusedCells(DataRoom - pack.ends[b])]]

\* The single index block of leaf form, if the hashes and the bests fit it.
FitsLeaf1(lents, D) == 4 * Len(lents) + D + 2 <= Leaf1Room

Leaf1(lents, ends) ==
  [kind |-> "leaf1", lents |-> lents, bests |-> [b \in DOMAIN ends |-> DataRoom - ends[b]]]

\* The hash tree of node form, bottom-up: leaves, then the levels above them.
LeafLevel(lents) ==
  [j \in 1 .. CeilDiv(Len(lents), LeafCap) |->
     LET hi == IF j * LeafCap < Len(lents) THEN j * LeafCap ELSE Len(lents)
     IN  [hash |-> lents[hi].hash, chunk |-> SubSeq(lents, (j - 1) * LeafCap + 1, hi)]]

\* The parents of a level: children are spread evenly, the first get one more.
BadParentLevel(level) ==
  [p \in 1 .. CeilDiv(Len(level), NodeCap) |->
     LET last == IF p * NodeCap < Len(level) THEN p * NodeCap ELSE Len(level)
     IN  [hash |-> level[last].hash, kids |-> (p - 1) * NodeCap + 1 .. last]]

ParentLevel(level) ==
  LET m     == CeilDiv(Len(level), NodeCap)
      base  == Len(level) \div m
      extra == Len(level) % m
      Before(p) == p * base + (IF p < extra THEN p ELSE extra)
  IN  [p \in 1 .. m |-> [hash |-> level[Before(p)].hash, kids |-> Before(p - 1) + 1 .. Before(p)]]

RECURSIVE Levels(_)
Levels(levels) ==
  IF Len(Last(levels)) <= 1 THEN levels ELSE Levels(Append(levels, ParentLevel(Last(levels))))

\* Logical numbers go breadth-first from the root, that is level by level.
LogOf(levels, l, i) ==
  LeafLog + SumFunction([k \in 1 .. Len(levels) - l |-> Len(levels[l + k])]) + i - 1

\* A block of the tree; 0 is "no sibling".
NodeBlock(levels, l, i) ==
  LET forw == IF i < Len(levels[l]) THEN LogOf(levels, l, i + 1) ELSE 0
      back == IF i > 1 THEN LogOf(levels, l, i - 1) ELSE 0
      node == levels[l][i]
  IN  IF l = 1
      THEN [kind |-> "leafn", forw |-> forw, back |-> back, lents |-> node.chunk]
      ELSE [kind |-> "node", forw |-> forw, back |-> back, level |-> l - 1,
            ents |-> [c \in 1 .. Cardinality(node.kids) |->
                        [hash   |-> levels[l - 1][Min(node.kids) + c - 1].hash,
                         before |-> LogOf(levels, l - 1, Min(node.kids) + c - 1)]]]

DirNodeBuild(lents) ==
  LET Region(levels) ==
        LET top == Len(levels)
        IN  FlattenSeq([d \in 1 .. top |->
              [i \in DOMAIN levels[top - d + 1] |-> NodeBlock(levels, top - d + 1, i)]])
  IN  Region(Levels(<<LeafLevel(lents)>>))

\* The free index: each block covers a window of the data blocks.
FreeIndex(ends) ==
  [f \in 1 .. CeilDiv(Len(ends), BestsCap) |->
     LET first == (f - 1) * BestsCap
         n == IF first + BestsCap > Len(ends) THEN Len(ends) - first ELSE BestsCap
     IN  [kind |-> "free", first |-> first, bests |-> [b \in 1 .. n |-> DataRoom - ends[first + b]]]]

-----------------------------------------------------------------------------
(* Reading a data block back. *)

\* The name field a reader finds in a cell, and the cells of such an entry.
NameField(cell) ==
  CASE cell.k = "name" -> [name |-> cell.name, size |-> Size[cell.name]]
    [] cell.k = "hash" -> Spelt[cell.hash]
    [] OTHER           -> [name |-> "", size |-> 2]

InoField(cell) == IF cell.k = "ino" THEN cell.ino ELSE Garbage

\* The inode number under name n, or 0: reads on through the hash array.
RECURSIVE SearchFrom(_, _, _)
SearchFrom(cells, c, n) ==
  LET On(field) == IF field.name = n THEN InoField(cells[c]) ELSE SearchFrom(cells, c + field.size, n)
  IN  IF c >= Len(cells) THEN 0
      ELSE IF cells[c].k = "unused" THEN SearchFrom(cells, c + cells[c].len, n)
      ELSE On(NameField(cells[c + 1]))

SearchDirBlock(blk, n) == SearchFrom(blk.cells, 1, n)

\* The entries of a block: stops at a name of length 0.
RECURSIVE ParseFrom(_, _)
ParseFrom(cells, c) ==
  LET On(field) == IF field.name = "" THEN <<>>
                   ELSE <<[name |-> field.name, ino |-> InoField(cells[c])]>> \o ParseFrom(cells, c + field.size)
  IN  IF c >= Len(cells) THEN <<>>
      ELSE IF cells[c].k = "unused" THEN ParseFrom(cells, c + cells[c].len)
      ELSE On(NameField(cells[c + 1]))

\* The listing leaves "." and ".." out; the parent is the first "..".
ParseDirBlock(blk) == SelectSeq(ParseFrom(blk.cells, 1), LAMBDA e : e.name \notin {".", ".."})

BlockDirParent(blk) ==
  LET up == SelectSeq(ParseFrom(blk.cells, 1), LAMBDA e : e.name = "..")
  IN  IF up = <<>> THEN 0 ELSE up[1].ino

\* xfsUpdateDotDot on a block: the inode cell of its ".." entry, if it has one.
SetDotDot(blk, parent) ==
  [blk EXCEPT !.cells =
     [c \in DOMAIN @ |-> IF c < Len(@) /\ @[c + 1] = [k |-> "name", name |-> ".."]
                         THEN [k |-> "ino", ino |-> parent] ELSE @[c]]]

=============================================================================
