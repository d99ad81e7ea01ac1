-------------------------- MODULE Induction_proofs --------------------------
(***************************************************************************)
(* Induction for the proofs about data.  The induction theorems of the     *)
(* library take a predicate as a parameter; stated for a set, the same     *)
(* facts can be used with any set the proof at hand defines.               *)
(***************************************************************************)
EXTENDS Integers, FiniteSets, Functions, FiniteSetTheorems, WellFoundedInduction, TLAPS

\* A set of natural numbers that is not empty has a least element.
LEMMA NatMin ==
  ASSUME NEW T, T \subseteq Nat, T # {}
  PROVE  \E n \in T : \A m \in T : n <= m
<1>1. IsWellFoundedOn(OpToRel(<, Nat), Nat)
  BY NatLessThanWellFounded, Zenon
<1>2. PICK n \in T : \A m \in T : ~ (<<m, n>> \in OpToRel(<, Nat))
  BY <1>1, WFMin, Zenon
<1>3. \A m \in T : <<m, n>> \in OpToRel(<, Nat) <=> m < n
  BY SMT DEF OpToRel
<1>4. \A m \in T : ~(m < n)
  BY <1>2, <1>3, Zenon
<1>5. QED
  BY <1>4

\* A set that contains 0 and the successor of each of its members contains all.
LEMMA NatSetInduction ==
  ASSUME NEW S, 0 \in S, \A n \in Nat : n \in S => n + 1 \in S
  PROVE  Nat \subseteq S
<1> DEFINE T == Nat \ S
<1>1. ASSUME T # {} PROVE FALSE
  <2>1. PICK n \in T : \A m \in T : n <= m
    BY <1>1, NatMin
  <2>2. n # 0 /\ n - 1 \in Nat /\ n - 1 \notin T
    BY <2>1
  <2>3. QED
    BY <2>1, <2>2
<1>2. QED
  BY <1>1

-----------------------------------------------------------------------------
Pick(s) == CHOOSE x \in s : TRUE

\* sum gives the sum of f over each subset of S.
Sums(sum, f, S) ==
  sum = [s \in SUBSET S |-> IF s = {} THEN 0 ELSE f[Pick(s)] + sum[s \ {Pick(s)}]]

\* SumFunction is defined by recursion over the subsets of a domain.  Here is
\* that this recursion means what it says for a finite domain.
LEMMA SumDef ==
  ASSUME NEW S, IsFiniteSet(S), NEW f, DOMAIN f = S
  PROVE  \E sum : SumFunction(f) = sum[S] /\ Sums(sum, f, S)
<1> DEFINE Upto(k) == {s \in SUBSET S : Cardinality(s) <= k}
           Step(g, D) == [s \in D |-> IF s = {} THEN 0 ELSE f[Pick(s)] + g[s \ {Pick(s)}]]
           N == {k \in Nat : \E g : g = Step(g, Upto(k))}
           sum == CHOOSE g : g = Step(g, SUBSET S)
<1>1. SumFunction(f) = sum[S]
  BY DEF SumFunction, SumFunctionOnSet, FoldFunctionOnSet, MapThenFoldSet, Pick
<1>2. \A s \in SUBSET S : /\ Cardinality(s) \in Nat /\ Cardinality(s) <= Cardinality(S)
                          /\ s # {} => Cardinality(s \ {Pick(s)}) = Cardinality(s) - 1
                          /\ Cardinality(s) <= 0 => s = {}
  <2> SUFFICES ASSUME NEW s \in SUBSET S
               PROVE  /\ Cardinality(s) \in Nat /\ Cardinality(s) <= Cardinality(S)
                      /\ s # {} => Cardinality(s \ {Pick(s)}) = Cardinality(s) - 1
                      /\ Cardinality(s) <= 0 => s = {}
    OBVIOUS
  <2>1. IsFiniteSet(s) /\ Cardinality(s) \in Nat /\ Cardinality(s) <= Cardinality(S)
    BY FS_Subset, FS_CardinalityType
  <2>2. s # {} => Pick(s) \in s
    BY DEF Pick
  <2>3. s # {} => Cardinality(s \ {Pick(s)}) = Cardinality(s) - 1
    BY <2>1, <2>2, FS_RemoveElement
  <2>4. Cardinality(s) <= 0 => s = {}
    BY <2>1, FS_EmptySet
  <2>5. QED
    BY <2>1, <2>3, <2>4
<1>3. 0 \in N
  <2> DEFINE g == [s \in Upto(0) |-> 0]
  <2>1. \A s \in Upto(0) : s = {}
    BY <1>2, Zenon
  <2>2. g = Step(g, Upto(0))
    BY <2>1
  <2> HIDE DEF g
  <2>3. QED
    BY <2>2
<1>4. ASSUME NEW k \in Nat, k \in N PROVE k + 1 \in N
  <2>1. PICK g : g = Step(g, Upto(k))
    BY <1>4
  <2> DEFINE V(s) == IF s = {} THEN 0 ELSE f[Pick(s)] + g[s \ {Pick(s)}]
             h == [s \in Upto(k + 1) |-> V(s)]
  <2>2. \A s \in Upto(k) : g[s] = V(s)
    BY <2>1
  <2>3. \A s \in Upto(k + 1) : s # {} => s \ {Pick(s)} \in Upto(k)
    BY <1>2
  <2>4. ASSUME NEW s \in Upto(k) PROVE s \in Upto(k + 1)
    <3>1. s \in SUBSET S /\ Cardinality(s) \in Nat /\ Cardinality(s) <= k
      BY <1>2
    <3>2. QED
      BY <3>1
  <2>5. \A s \in Upto(k + 1) : s # {} => h[s \ {Pick(s)}] = g[s \ {Pick(s)}]
    <3>1. \A s \in Upto(k) : h[s] = g[s]
      BY <2>2, <2>4
    <3> HIDE DEF h
    <3>2. QED
      BY <2>3, <3>1
  <2>6. h = Step(h, Upto(k + 1))
    <3>1. \A s \in Upto(k + 1) :
            h[s] = IF s = {} THEN 0 ELSE f[Pick(s)] + h[s \ {Pick(s)}]
      BY <2>5
    <3>2. h = [s \in Upto(k + 1) |-> h[s]]
      OBVIOUS
    <3> HIDE DEF h, Upto
    <3>3. QED
      BY <3>1, <3>2
  <2> HIDE DEF h, Step, Upto
  <2>7. QED
    BY <2>6
<1>5. Nat \subseteq N
  <2> HIDE DEF N
  <2>1. QED
    BY <1>3, <1>4, NatSetInduction
<1>6. Cardinality(S) \in Nat /\ Upto(Cardinality(S)) = SUBSET S
  BY <1>2
<1>7. \E g : g = Step(g, SUBSET S)
  <2>1. Cardinality(S) \in N
    BY <1>5, <1>6
  <2> HIDE DEF Step
  <2>2. QED
    BY <1>6, <2>1
<1>8. sum = Step(sum, SUBSET S)
  <2> HIDE DEF Step
  <2>1. QED
    BY <1>7, Zenon
<1> HIDE DEF sum
<1>9. QED
  BY <1>1, <1>8 DEF Sums

\* The sum of finitely many natural numbers is one.
LEMMA SumNat ==
  ASSUME NEW S, IsFiniteSet(S), NEW f \in [S -> Nat]
  PROVE  SumFunction(f) \in Nat
<1>1. PICK sum : SumFunction(f) = sum[S] /\ Sums(sum, f, S)
  <2>1. DOMAIN f = S
    OBVIOUS
  <2>2. QED
    BY <2>1, SumDef
<1>2. \A s \in SUBSET S : s # {} => Pick(s) \in s
  BY DEF Pick
<1> DEFINE N == {k \in Nat : \A s \in SUBSET S : Cardinality(s) = k => sum[s] \in Nat}
<1>3. \A s \in SUBSET S : sum[s] = IF s = {} THEN 0 ELSE f[Pick(s)] + sum[s \ {Pick(s)}]
  BY <1>1 DEF Sums
<1>4. \A s \in SUBSET S : IsFiniteSet(s) /\ Cardinality(s) \in Nat
  BY FS_Subset, FS_CardinalityType
<1>5. 0 \in N
  BY <1>3, <1>4, FS_EmptySet
<1>6. ASSUME NEW k \in Nat, k \in N PROVE k + 1 \in N
  <2> SUFFICES ASSUME NEW s \in SUBSET S, Cardinality(s) = k + 1 PROVE sum[s] \in Nat
    OBVIOUS
  <2>1. s # {}
    BY FS_EmptySet
  <2>2. Pick(s) \in s /\ Cardinality(s \ {Pick(s)}) = k
    <3>1. Pick(s) \in s /\ IsFiniteSet(s)
      BY <1>2, <1>4, <2>1
    <3>2. Cardinality(s \ {Pick(s)}) = Cardinality(s) - 1
      BY <3>1, FS_RemoveElement
    <3>3. QED
      BY <3>1, <3>2
  <2>3. sum[s \ {Pick(s)}] \in Nat
    BY <1>6, <2>2
  <2>4. QED
    BY <1>3, <2>1, <2>2, <2>3
<1>7. Nat \subseteq N
  <2> HIDE DEF N
  <2>1. QED
    BY <1>5, <1>6, NatSetInduction
<1>8. Cardinality(S) \in N
  BY <1>4, <1>7
<1>9. QED
  BY <1>1, <1>8
=============================================================================
