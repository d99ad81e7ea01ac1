---------------------------- MODULE MCNamespace -----------------------------
(* Four inodes, two names, paths of at most two components, directories of  *)
(* one inline entry, symbolic links to /a and to /b.                        *)
EXTENDS Namespace

CONSTANTS a, b, MaxDrift

MCTargets == {<<a>>, <<b>>}

\* What follows a call that left the tree wrong is not explored, and link
\* counts that renames drive away from the truth are bounded.
Sane ==
  /\ Fine
  /\ \A d \in Dirs : st.ino[d].nlink - 2 - Cardinality(Subdirs(d)) \in -MaxDrift .. MaxDrift
\* The two names are interchangeable.
BothNames == Permutations({a, b})
=============================================================================
