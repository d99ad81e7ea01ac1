----------------------------- MODULE MCLargeDir -----------------------------
(* Six names of two to six cells, three with the same hash.  Forms: inline   *)
(* up to two names, one block for small names, a leaf for three, a tree of one     *)
(* level for four and of two levels from five on.                            *)
EXTENDS LargeDir

MCNames == {"a", "b", "c", "d", "e", "f"}

MCSize == [n \in MCNames \cup {".", ".."} |-> CASE n \in {"c", "e"} -> 6 [] n = "b" -> 4 [] OTHER -> 2]

MCHash ==
  [n \in MCNames \cup {".", ".."} |->
     CASE n = "." -> 1 [] n = ".." -> 3 [] n = "a" -> 8 [] n = "b" -> 2 [] n = "c" -> 9
       [] n = "d" -> 8 [] n = "e" -> 8 [] n = "f" -> 12]

\* Hashes up to 3 begin with a zero byte, the others with one that makes an
\* entry of three cells and no name in use.
MCSpelt == [h \in 0 .. 12 |-> IF h <= 3 THEN [name |-> "", size |-> 2] ELSE [name |-> "?", size |-> 3]]

\* The hash of d begins with the bytes 1, 'a'.
SpeltA == [h \in 0 .. 12 |->
  CASE h <= 3 -> [name |-> "", size |-> 2] [] h = 8 -> [name |-> "a", size |-> 2]
    [] OTHER -> [name |-> "?", size |-> 3]]

MCIno == [n \in MCNames |-> IF n = "f" THEN 70 ELSE 10]

\* What follows a cut call is not explored.
Uncut == ~cutting.cut
=============================================================================
