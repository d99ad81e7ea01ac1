-------------------------- MODULE MCAllocBTreeDeep --------------------------
(***************************************************************************)
(* AllocBTree on trees of three levels.  A fixed sequence of calls, made   *)
(* from the layout mkfs writes, builds the trees; up to MaxCalls free      *)
(* calls follow it.                                                        *)
(***************************************************************************)
EXTENDS AllocBTree

CONSTANTS MaxCalls, AllocSizes, FreeSpots

VARIABLE calls

allvars == <<st, held, calls>>

Script ==
  [i \in 1 .. 30 |-> <<"alloc", 1>>] \o
  << <<"free", 25, 1>>, <<"alloc", 3>>, <<"alloc", 1>>, <<"free", 13, 2>>, <<"alloc", 3>>,
     <<"free", 20, 2>>, <<"free", 25, 2>>, <<"alloc", 2>>, <<"alloc", 3>>, <<"alloc", 3>>,
     <<"free", 30, 1>>, <<"alloc", 2>>, <<"free", 33, 1>>, <<"free", 11, 1>>, <<"alloc", 2>>,
     <<"free", 42, 1>>, <<"free", 23, 1>>, <<"free", 47, 1>>, <<"free", 9, 1>>,
     <<"free", 37, 1>>, <<"free", 35, 1>>, <<"alloc", 1>>, <<"free", 28, 1>> >>

\* The calls that may be made after i steps.
Calls(i) ==
  IF i < Len(Script) THEN {Script[i + 1]}
  ELSE {<<"alloc", n>> : n \in AllocSizes} \cup {<<"free", b, 1>> : b \in FreeSpots}

Scripting == calls <= Len(Script) /\ st.carved

\* Only a node carved after the script counts.
Forget ==
  /\ Scripting
  /\ st' = [st EXCEPT !.carved = FALSE]
  /\ UNCHANGED <<held, calls>>

Call ==
  /\ ~Scripting /\ calls < Len(Script) + MaxCalls
  /\ calls' = calls + 1
  /\ \E c \in Calls(calls) : \/ c[1] = "alloc" /\ AllocBlocks(c[2])
                             \/ c[1] = "free" /\ FreeBlocks(c[2], c[3])

DeepInit == Init /\ calls = 0

DeepNext == Forget \/ Call

\* Searchable, but for a node carved by the script.
DeepSearchable == Scripting \/ Searchable

DeepSpec == DeepInit /\ [][DeepNext]_allvars
=============================================================================
