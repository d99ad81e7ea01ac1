------------------------------ MODULE Namespace ------------------------------
(***************************************************************************)
(* The directory tree: creating files, directories and symbolic links,     *)
(* hard links, rename, and the two deletes (write.go, mkdir.go, link.go,   *)
(* rename.go, delete.go), over the path walk of dir.go.                    *)
(*                                                                         *)
(* A call runs alone under FS.mu and is one step, but it works by path: it *)
(* looks its parents up again after it has changed the tree, and deleteDir *)
(* and renameEntry call the other deletes by path.  Operations are         *)
(* functions from one image to the next; err means that the call returned  *)
(* an error, at the point it did, with what it had written so far.         *)
(*                                                                         *)
(* A directory is inline until its fork is full (SFMax entries); the entry *)
(* after that needs a block, which the allocator may refuse (`room').      *)
(* Larger forms are not the subject here.  The contents of files are       *)
(* FileBody's; but renameEntry does not ask whether the new parent is a    *)
(* directory, so a file's fork may come to hold entries.                   *)
(*                                                                         *)
(* `hurt' records the histories after which the tree is known to be wrong: *)
(*   "leaked"     an inode was allocated and never got its name            *)
(*   "counted"    link(2) was refused after the link count was raised      *)
(*   "severed"    a file was freed while another name still led to it      *)
(*   "halfway"    deleteDir stopped in the middle                          *)
(*   "nonempty"   rename replaced a directory that had entries             *)
(*   "lost"       rename stopped after it had deleted its destination      *)
(*   "cycle"      rename moved a directory below itself                    *)
(*   "misfiled"   rename put an entry into a regular file                  *)
(*   "moved"      rename moved a directory to another parent               *)
(***************************************************************************)
EXTENDS Integers, Sequences, FiniteSets, SequencesExt

CONSTANTS
  Names,
  MaxIno,           \* inodes of the image, the root directory among them
  SFMax,            \* entries an inline directory has room for
  MaxPath,          \* bound: components of a path
  MaxSymlinkDepth,  \* symbolic links one lookup follows
  Targets           \* what symbolic links may say

ASSUME TreeAssumption ==
  MaxIno \in Nat \ {0} /\ SFMax \in Nat /\ MaxPath \in Nat /\ MaxSymlinkDepth \in Nat

NULL == 0
Root == 1
Inodes == 1 .. MaxIno

Paths == UNION {[1 .. n -> Names] : n \in 1 .. MaxPath}

Free == [type |-> "free"]

Entry(name, i) == [name |-> name, ino |-> i]

-----------------------------------------------------------------------------
(* Lookup *)

LookupInDir(s, d, name) ==
  LET k == SelectInSeq(s.ino[d].ents, LAMBDA e: e.name = name)
  IN  IF k = 0 THEN NULL ELSE s.ino[d].ents[k].ino

\* pathLookupResolve: every component is followed when it is a symbolic link,
\* the last one as well.  NULL: not found, or too many links.
RECURSIVE Walk(_, _, _, _)
Walk(s, cur, p, depth) ==
  IF p = <<>> THEN cur
  ELSE LET child == LookupInDir(s, cur, Head(p))
           next  == IF child = NULL \/ s.ino[child].type # "lnk" THEN child
                    ELSE IF depth + 1 >= MaxSymlinkDepth THEN NULL
                    ELSE Walk(s, Root, s.ino[child].target, depth + 1)
       IN  IF next = NULL THEN NULL ELSE Walk(s, next, Tail(p), depth)

PathLookup(s, p) == Walk(s, Root, p, 0)

-----------------------------------------------------------------------------
(* Directory entries and inodes *)

Err(s) == [s EXCEPT !.err = TRUE]
Hurt(s, h) == [s EXCEPT !.hurt = @ \cup {h}]

\* addDirEntry: inline, or in the directory's block once it has one.
AddDirEntry(s, d, name, i) ==
  LET full == s.ino[d].form = "sf" /\ Len(s.ino[d].ents) >= SFMax
  IN  IF full /\ ~s.room THEN Err(s)
      ELSE [s EXCEPT !.ino[d].ents = Append(@, Entry(name, i)),
                     !.ino[d].form = IF full THEN "block" ELSE @]

RemoveDirEntry(s, d, name) ==
  [s EXCEPT !.ino[d].ents = SelectSeq(@, LAMBDA e: e.name # name)]

\* The lowest free inode, NULL when there is none.
AllocInode(s) ==
  IF \A i \in Inodes : s.ino[i].type # "free" THEN NULL
  ELSE CHOOSE i \in Inodes : /\ s.ino[i].type = "free"
                             /\ \A j \in 1 .. i - 1 : s.ino[j].type # "free"

FreeInode(s, i) == [s EXCEPT !.ino[i] = Free]

NewInode(type, nlink, parent, target) ==
  [type |-> type, nlink |-> nlink, form |-> "sf", ents |-> <<>>,
   dotdot |-> parent, target |-> target]

\* What all creations do once they know that the name is free: inode, then
\* entry.  A symbolic link needs a block for its target.
MakeInode(s, p, in) ==
  LET d == PathLookup(s, Front(p))
      i == AllocInode(s)
      t == AddDirEntry([s EXCEPT !.ino[i] = in], d, Last(p), i)
  IN  IF i = NULL THEN Err(s)
      ELSE IF in.type = "lnk" /\ ~s.room THEN Hurt(Err([s EXCEPT !.ino[i] = in]), "leaked")
      ELSE IF t.err THEN Hurt(t, "leaked") ELSE t

\* Mutant: the parent's link count is not raised.
BadMakeDir(s, p) == MakeInode(s, p, NewInode("dir", 2, PathLookup(s, Front(p)), <<>>))

\* makeDir: the new inode, its entry, and the parent's link count for "..".
MakeDir(s, p) ==
  LET d == PathLookup(s, Front(p))
      t == MakeInode(s, p, NewInode("dir", 2, d, <<>>))
  IN  IF t.err THEN t ELSE [t EXCEPT !.ino[d].nlink = @ + 1]

\* linkInode: the count first, then the entry.
LinkInode(s, src, p) ==
  LET t == AddDirEntry([s EXCEPT !.ino[src].nlink = @ + 1],
                       PathLookup(s, Front(p)), Last(p), src)
  IN  IF t.err THEN Hurt(t, "counted") ELSE t

-----------------------------------------------------------------------------
(* Delete *)

\* Mutant: the inode of a file is never returned.
BadDeleteFileAt(s, p) ==
  LET d == PathLookup(s, Front(p))
      i == IF d = NULL THEN NULL ELSE LookupInDir(s, d, Last(p))
  IN  IF i = NULL THEN s
      ELSE IF s.ino[i].type # "reg" THEN Err(s)
      ELSE RemoveDirEntry(s, d, Last(p))

\* deleteFile: regular files only, and the inode goes whatever its link count.
DeleteFileAt(s, p) ==
  LET d == PathLookup(s, Front(p))
      i == IF d = NULL THEN NULL ELSE LookupInDir(s, d, Last(p))
      t == FreeInode(RemoveDirEntry(s, d, Last(p)), i)
  IN  IF i = NULL THEN s
      ELSE IF s.ino[i].type # "reg" THEN Err(s)
      ELSE IF s.ino[i].nlink > 1 THEN Hurt(t, "severed") ELSE t

\* deleteDir: the children by path, one after the other, then the directory.
RECURSIVE DeleteDirAt(_, _)
DeleteDirAt(s, p) ==
  LET d == PathLookup(s, Front(p))
      i == IF d = NULL THEN NULL ELSE LookupInDir(s, d, Last(p))
      Child(t, e) ==
        IF t.err THEN t
        ELSE IF t.ino[e.ino].type = "dir" THEN DeleteDirAt(t, Append(p, e.name))
        ELSE DeleteFileAt(t, Append(p, e.name))
      t  == FoldLeft(Child, s, s.ino[i].ents)
      d2 == PathLookup(t, Front(p))
      u  == RemoveDirEntry(t, d2, Last(p))
  IN  IF i = NULL THEN s
      ELSE IF s.ino[i].type # "dir" THEN Err(s)
      ELSE IF t.err THEN Hurt(t, "halfway")
      ELSE IF d2 = NULL THEN Hurt(Err(t), "halfway")
      ELSE FreeInode([u EXCEPT !.ino[d2].nlink = IF @ > 0 THEN @ - 1 ELSE @], i)

-----------------------------------------------------------------------------
(* Rename *)

RECURSIVE Below(_, _, _)
Below(s, d, seen) ==
  IF d \in seen \/ s.ino[d].type # "dir" THEN {d}
  ELSE {d} \cup UNION {Below(s, e.ino, seen \cup {d}) : e \in ToSet(s.ino[d].ents)}

\* What becomes of an object that has the new name already.
Replace(s, src, dst, np) ==
  IF dst = NULL THEN s
  ELSE IF (s.ino[src].type = "dir") # (s.ino[dst].type = "dir") THEN Err(s)
  ELSE IF s.ino[dst].type = "dir"
  THEN IF s.ino[dst].ents = <<>> THEN DeleteDirAt(s, np)
       ELSE Hurt(DeleteDirAt(s, np), "nonempty")
  ELSE DeleteFileAt(s, np)

\* Mutant: ".." of the moved directory is left as it was.
BadUpdateDotDot(s, src, from, to) == s

\* xfsUpdateDotDot, for a directory that changes parents.
UpdateDotDot(s, src, from, to) ==
  IF s.ino[src].type = "dir" /\ from # to
  THEN Hurt([s EXCEPT !.ino[src].dotdot = to], "moved") ELSE s

\* The parents are looked up again, the new entry is added, the old parent is
\* looked up once more, and the old entry is removed.
Move(s, src, op, np) ==
  LET from == PathLookup(s, Front(op))
      to   == PathLookup(s, Front(np))
      t    == AddDirEntry(s, to, Last(np), src)
      frm  == PathLookup(t, Front(op))
      u    == RemoveDirEntry(t, frm, Last(op))
      v    == IF s.ino[to].type # "dir" THEN Hurt(u, "misfiled")
              ELSE IF to \in Below(s, src, {}) THEN Hurt(u, "cycle") ELSE u
  IN  IF from = NULL \/ to = NULL THEN Err(s)
      ELSE IF t.err \/ frm = NULL THEN Err(t)
      ELSE UpdateDotDot(v, src, frm, to)

RenameEntry(s, op, np) ==
  LET from == PathLookup(s, Front(op))
      to   == PathLookup(s, Front(np))
      src  == IF from = NULL \/ to = NULL THEN NULL ELSE LookupInDir(s, from, Last(op))
      dst  == LookupInDir(s, to, Last(np))
      t    == Replace(s, src, dst, np)
      u    == Move(t, src, op, np)
  IN  IF src = NULL THEN Err(s)
      ELSE IF from = to /\ Last(op) = Last(np) THEN s
      ELSE IF t.err THEN t
      ELSE IF u.err /\ dst # NULL THEN Hurt(u, "lost") ELSE u

-----------------------------------------------------------------------------
(* The state machine *)

VARIABLE st    \* the image; err and room belong to the running call

Blank ==
  [ino |-> [i \in Inodes |-> IF i = Root THEN NewInode("dir", 2, Root, <<>>) ELSE Free],
   err |-> FALSE, room |-> TRUE, hurt |-> {}]

Init == st = Blank

\* One call, with and without room for a block.
Call(F(_)) ==
  \E room \in BOOLEAN :
    st' = [F([st EXCEPT !.room = room]) EXCEPT !.err = FALSE, !.room = TRUE]

\* The parent of p is a directory that has no entry of that name.
NameIsFree(p) ==
  LET d == PathLookup(st, Front(p))
  IN  d # NULL /\ st.ino[d].type = "dir" /\ LookupInDir(st, d, Last(p)) = NULL

WriteFile(p) ==
  NameIsFree(p) /\ Call(LAMBDA s: MakeInode(s, p, NewInode("reg", 1, NULL, <<>>)))

Symlink(target, p) ==
  NameIsFree(p) /\ Call(LAMBDA s: MakeInode(s, p, NewInode("lnk", 1, NULL, target)))

MkDir(p) == NameIsFree(p) /\ Call(LAMBDA s: MakeDir(s, p))

Link(op, np) ==
  LET src == PathLookup(st, op)
  IN  /\ src # NULL /\ st.ino[src].type # "dir"
      /\ NameIsFree(np)
      /\ Call(LAMBDA s: LinkInode(s, src, np))

DeleteFile(p) == Call(LAMBDA s: DeleteFileAt(s, p))

DeleteDir(p) == Call(LAMBDA s: DeleteDirAt(s, p))

Rename(op, np) == Call(LAMBDA s: RenameEntry(s, op, np))

Next ==
  \E p \in Paths :
    \/ WriteFile(p)
    \/ MkDir(p)
    \/ \E target \in Targets : Symlink(target, p)
    \/ \E q \in Paths : Link(q, p)
    \/ DeleteFile(p)
    \/ DeleteDir(p)
    \/ \E q \in Paths : Rename(p, q)

Spec == Init /\ [][Next]_st

-----------------------------------------------------------------------------
(* Properties *)

Used == {i \in Inodes : st.ino[i].type # "free"}
Dirs == {i \in Used : st.ino[i].type = "dir"}
Entries == UNION {{<<d, k>> : k \in DOMAIN st.ino[d].ents} : d \in Used}
Leads(e) == st.ino[e[1]].ents[e[2]].ino
NamesOf(i) == {e \in Entries : Leads(e) = i}
Subdirs(d) == {e \in Entries : e[1] = d /\ Leads(e) \in Dirs}

\* Nothing but the ordinary, and directories that changed parents.
Fine == st.hurt \subseteq {"moved"}

\* Entries are in directories, no directory has a name twice, and an inline
\* directory has no more entries than its fork can hold.
TypeOK ==
  /\ st.ino[Root].type = "dir"
  /\ "misfiled" \notin st.hurt =>
       \A d \in Used : st.ino[d].ents # <<>> => d \in Dirs
  /\ \A d \in Dirs :
       /\ st.ino[d].form = "sf" => Len(st.ino[d].ents) <= SFMax
       /\ "cycle" \notin st.hurt =>
            \A j, k \in DOMAIN st.ino[d].ents :
              st.ino[d].ents[j].name = st.ino[d].ents[k].name => j = k

\* Names lead to inodes that are there, and every inode that is there can be
\* reached from the root, as long as no history of the header's list (but the
\* last) has happened: in the others no create, link, rename or delete, by any
\* path or symbolic link, leaves a name without inode or an inode without name.
NoNameDangles ==
  Fine => /\ \A e \in Entries : Leads(e) \in Used
          /\ Used = Below(st, Root, {})

\* The directories are a tree whose ".." entries point upwards: each has one
\* name, in the directory its ".." says.
DotDotIsTheParent ==
  Fine => \A d \in Dirs \ {Root} :
            \E e \in Entries : NamesOf(d) = {e} /\ st.ino[d].dotdot = e[1]

\* Directories are sound after every rename, link and removal: each leads back to
\* its parent, has a name once, and is inline only as long as its entries fit
\* (xfsUpdateDotDot, addDirEntry).
DirectoriesSound == TypeOK /\ DotDotIsTheParent

\* In the same histories link counts are exact: for a file its names, for a
\* directory two and its subdirectories (as long as none has changed parents).
LinkCountsExact ==
  Fine => \A i \in Used :
            IF i \in Dirs
            THEN "moved" \in st.hurt \/ st.ino[i].nlink = 2 + Cardinality(Subdirs(i))
            ELSE st.ino[i].nlink = Cardinality(NamesOf(i))

-----------------------------------------------------------------------------
(* What the comments say and the code does not do *)

\* renameEntry and FS.Rename on an existing destination: "directories must be
\* empty".
ReplacedDirsAreEmpty == "nonempty" \notin st.hurt

\* makeDir: "xfs_repair flags a parent whose nlink doesn't account for its
\* child directories".  So it does, also after a rename.
ParentsCountSubdirs ==
  Fine => \A d \in Dirs : st.ino[d].nlink = 2 + Cardinality(Subdirs(d))

\* linkInode makes "a directory entry at newPath that points at the same inode
\* as oldPath, the POSIX hardlink operation": the inode is there as long as one
\* of the names is.
LinksKeepTheInode ==
  st.hurt \subseteq {"severed", "moved"} => \A e \in Entries : Leads(e) \in Used

\* FS.DeleteDir "removes the directory at path and all of its contents
\* recursively": it does not stop halfway.
DeleteDirFinishes == "halfway" \notin st.hurt
=============================================================================
