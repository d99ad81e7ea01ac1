----------------------------- MODULE MCFileBody ------------------------------
(* Two files, four blocks of two cells, forks of one cell, a refcount root  *)
(* of one record.  The imported files have two extents, or a hole.          *)
EXTENDS FileBody

MCImported == {<<Ext(0, 1, 1), Ext(1, 3, 1)>>, <<Ext(1, 2, 1)>>}

\* The second extent of the first file is preallocated, not written.
MCPreallocated == {<<Ext(0, 1, 1), Unwritten(Ext(1, 3, 1))>>}

\* What follows a call that left the image in a known bad state is not
\* explored: nothing is claimed of it.
Unspoilt ==
  /\ st.hurt = {}
  /\ \A f \in Files : mark[f] \in {"clean", "shrunk"}

\* Names are interchangeable.
Names == Permutations(Files)
=============================================================================
