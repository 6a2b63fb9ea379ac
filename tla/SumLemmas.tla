------------------------------ MODULE SumLemmas ------------------------------
(***************************************************************************)
(* Facts about MapThenSumSet(LAMBDA n : F[n], S), the sum of the values of *)
(* a function over a finite set, which SaplingConsolidation uses for the   *)
(* value of a batch of notes (SumValue).  MapThenFoldSet defines the sum   *)
(* by a recursive function over SUBSET S, so that the sum is a natural     *)
(* needs first that such a function exists and then that its values are   *)
(* naturals.  Both are shown by a least counterexample over the naturals   *)
(* (WFMin on NatLessThanWellFounded), building the function one layer of   *)
(* subsets of equal size at a time.                                        *)
(***************************************************************************)
EXTENDS FiniteSetsExt, FiniteSetTheorems, TLAPS

(* The sum of the values of F over S, as SaplingConsolidation writes it.   *)
SumOf(F, S) == MapThenSumSet(LAMBDA n : F[n], S)

(* The element MapThenSumSet takes out of a non-empty set.                 *)
SumPick(s) == CHOOSE x \in s : TRUE

(* The right-hand side of the recursive definition, for a candidate g.     *)
SumBody(F, g, s) == IF s = {} THEN 0 ELSE F[SumPick(s)] + g[s \ {SumPick(s)}]

(* The recursive function MapThenFoldSet defines, over SUBSET S.           *)
SumIter(F, S) == CHOOSE g : g = [s \in SUBSET S |-> SumBody(F, g, s)]

(* The subsets of S with at most n elements, and a function that solves    *)
(* the recursive equation on them.                                         *)
Layer(S, n) == {s \in SUBSET S : Cardinality(s) <= n}
Solves(F, S, n, g) == g = [s \in Layer(S, n) |-> SumBody(F, g, s)]

-----------------------------------------------------------------------------

(* The sum is the recursive function's value at S.                         *)
LEMMA SumUnfold ==
    ASSUME NEW F, NEW S
    PROVE  MapThenSumSet(LAMBDA n : F[n], S) = SumIter(F, S)[S]
BY DEF MapThenSumSet, MapThenFoldSet, SumIter, SumBody, SumPick

(* Every non-empty set of naturals has a least element.                    *)
LEMMA NatLeast ==
    ASSUME NEW T \in SUBSET Nat, T # {}
    PROVE  \E m \in T : \A k \in T : m <= k
<1>1. \E m \in T : \A k \in T : ~(<<k, m>> \in OpToRel(<, Nat))
    BY NatLessThanWellFounded, WFMin
<1>2. \E m \in T : \A k \in T : ~(k < m)
    BY <1>1, Zenon DEF OpToRel
<1>3. QED
    BY <1>2

(* What the provers need about a subset of a finite set and the set left   *)
(* when SumPick's element is taken out of it.                              *)
LEMMA SubsetFacts ==
    ASSUME NEW S, IsFiniteSet(S), NEW s \in SUBSET S
    PROVE  /\ IsFiniteSet(s)
           /\ Cardinality(s) \in Nat
           /\ Cardinality(s) = 0 <=> s = {}
           /\ s # {} => /\ SumPick(s) \in s
                        /\ s \ {SumPick(s)} \in SUBSET S
                        /\ Cardinality(s \ {SumPick(s)}) = Cardinality(s) - 1
<1>1. IsFiniteSet(s) /\ Cardinality(s) \in Nat
    BY FS_Subset, FS_CardinalityType
<1>2. Cardinality(s) = 0 <=> s = {}
    BY <1>1, FS_EmptySet
<1>3. ASSUME s # {} PROVE SumPick(s) \in s
    BY <1>3 DEF SumPick
<1>4. QED
    BY <1>1, <1>2, <1>3, FS_RemoveElement

(* The empty set alone has no element: the recursion starts there.        *)
LEMMA LayerZero ==
    ASSUME NEW F, NEW S, IsFiniteSet(S)
    PROVE  \E g : Solves(F, S, 0, g)
<1> DEFINE g0 == [s \in Layer(S, 0) |-> 0]
<1>1. ASSUME NEW s \in Layer(S, 0) PROVE s = {}
    <2>1. s \in SUBSET S /\ Cardinality(s) <= 0
        BY DEF Layer
    <2>2. Cardinality(s) \in Nat /\ (Cardinality(s) = 0 <=> s = {})
        BY <2>1, SubsetFacts
    <2>3. QED
        BY <2>1, <2>2
<1>2. \A s \in Layer(S, 0) : SumBody(F, g0, s) = 0
    BY <1>1 DEF SumBody
<1>3. Solves(F, S, 0, g0)
    BY <1>2 DEF Solves
<1>4. QED
    BY <1>3

(* A solution on the subsets of size at most m extends to size m + 1.     *)
LEMMA LayerStep ==
    ASSUME NEW F, NEW S, IsFiniteSet(S), NEW m \in Nat, NEW g, Solves(F, S, m, g)
    PROVE  \E h : Solves(F, S, m + 1, h)
<1> DEFINE h == [s \in Layer(S, m + 1) |->
                   IF Cardinality(s) <= m THEN g[s]
                   ELSE F[SumPick(s)] + g[s \ {SumPick(s)}]]
<1>1. ASSUME NEW s \in Layer(S, m + 1) PROVE h[s] = SumBody(F, h, s)
    <2>1. /\ Cardinality(s) \in Nat
          /\ Cardinality(s) = 0 <=> s = {}
          /\ s # {} => /\ s \ {SumPick(s)} \in SUBSET S
                       /\ Cardinality(s \ {SumPick(s)}) = Cardinality(s) - 1
        BY SubsetFacts DEF Layer
    <2>2. s # {} => /\ s \ {SumPick(s)} \in Layer(S, m)
                    /\ s \ {SumPick(s)} \in Layer(S, m + 1)
                    /\ h[s \ {SumPick(s)}] = g[s \ {SumPick(s)}]
        BY <2>1 DEF Layer
    <2>3. CASE Cardinality(s) <= m
        <3>1. s \in Layer(S, m) /\ h[s] = g[s]
            BY <2>3 DEF Layer
        <3>2. g[s] = SumBody(F, g, s)
            BY <3>1 DEF Solves
        <3>3. QED
            BY <2>2, <3>1, <3>2 DEF SumBody
    <2>4. CASE ~(Cardinality(s) <= m)
        BY <2>1, <2>2, <2>4 DEF SumBody
    <2>5. QED
        BY <2>3, <2>4
<1>2. Solves(F, S, m + 1, h)
    BY <1>1 DEF Solves
<1>3. QED
    BY <1>2

(* So the equation has a solution on the subsets of every size.           *)
LEMMA AllLayers ==
    ASSUME NEW F, NEW S, IsFiniteSet(S)
    PROVE  \A n \in Nat : \E g : Solves(F, S, n, g)
<1> DEFINE Bad == {n \in Nat : ~\E g : Solves(F, S, n, g)}
<1> SUFFICES ASSUME Bad # {} PROVE FALSE
    OBVIOUS
<1>1. PICK m \in Bad : \A k \in Bad : m <= k
    BY NatLeast
<1>2. m # 0
    BY <1>1, LayerZero
<1>3. \E g : Solves(F, S, m - 1, g)
    BY <1>1, <1>2
<1>4. \E h : Solves(F, S, m, h)
    <2>1. PICK g : Solves(F, S, m - 1, g)
        BY <1>3
    <2>2. m - 1 \in Nat /\ (m - 1) + 1 = m
        BY <1>2
    <2>3. QED
        BY <2>1, <2>2, LayerStep
<1>5. QED
    BY <1>1, <1>4

(* The recursive function MapThenFoldSet chooses exists for a finite set.  *)
LEMMA IterSolves ==
    ASSUME NEW F, NEW S, IsFiniteSet(S)
    PROVE  SumIter(F, S) = [s \in SUBSET S |-> SumBody(F, SumIter(F, S), s)]
<1>1. Cardinality(S) \in Nat
    BY FS_CardinalityType
<1>2. Layer(S, Cardinality(S)) = SUBSET S
    BY FS_Subset DEF Layer
<1>3. PICK g : Solves(F, S, Cardinality(S), g)
    BY <1>1, AllLayers
<1>4. g = [s \in SUBSET S |-> SumBody(F, g, s)]
    BY <1>2, <1>3 DEF Solves
<1>5. QED
    BY <1>4 DEF SumIter

(* Every solution of the equation for a natural-valued F has natural      *)
(* values: the least subset with another value would have one too.        *)
LEMMA SolutionNat ==
    ASSUME NEW D, NEW F \in [D -> Nat], NEW S \in SUBSET D, IsFiniteSet(S),
           NEW g, g = [s \in SUBSET S |-> SumBody(F, g, s)]
    PROVE  \A s \in SUBSET S : g[s] \in Nat
<1> DEFINE Bad == {s \in SUBSET S : g[s] \notin Nat}
           Sizes == {Cardinality(s) : s \in Bad}
<1> SUFFICES ASSUME Bad # {} PROVE FALSE
    OBVIOUS
<1>1. Sizes \in SUBSET Nat /\ Sizes # {}
    <2>1. \A s \in SUBSET S : Cardinality(s) \in Nat
        BY SubsetFacts
    <2>2. Sizes \in SUBSET Nat
        BY <2>1 DEF Sizes, Bad
    <2>3. Sizes # {}
        <3>1. PICK b \in Bad : TRUE
            OBVIOUS
        <3>2. Cardinality(b) \in Sizes
            BY <3>1, Zenon DEF Sizes
        <3>3. QED
            BY <3>2
    <2>4. QED
        BY <2>2, <2>3
<1>2. PICK m \in Sizes : \A k \in Sizes : m <= k
    BY <1>1, NatLeast
<1>3. PICK s \in Bad : Cardinality(s) = m
    BY <1>2
<1>4. /\ s # {}
      /\ SumPick(s) \in D
      /\ s \ {SumPick(s)} \in SUBSET S
      /\ Cardinality(s \ {SumPick(s)}) < m
    BY <1>3, SubsetFacts DEF SumBody
<1>5. g[s \ {SumPick(s)}] \in Nat
    <2> SUFFICES ASSUME g[s \ {SumPick(s)}] \notin Nat PROVE FALSE
        OBVIOUS
    <2>1. Cardinality(s \ {SumPick(s)}) \in Sizes
        BY <1>4
    <2>2. Cardinality(s \ {SumPick(s)}) \in Nat /\ m \in Nat
        BY <2>1, <1>1
    <2>3. QED
        BY <1>2, <1>4, <2>1, <2>2
<1>6. g[s] = F[SumPick(s)] + g[s \ {SumPick(s)}]
    BY <1>4 DEF SumBody
<1>7. QED
    BY <1>3, <1>4, <1>5, <1>6

(* The sum of natural values over a finite set is a natural.              *)
LEMMA SumNat ==
    ASSUME NEW D, NEW F \in [D -> Nat], NEW S \in SUBSET D, IsFiniteSet(S)
    PROVE  SumOf(F, S) \in Nat
<1>1. SumIter(F, S) = [s \in SUBSET S |-> SumBody(F, SumIter(F, S), s)]
    BY IterSolves
<1>2. \A s \in SUBSET S : SumIter(F, S)[s] \in Nat
    BY <1>1, SolutionNat
<1>3. SumIter(F, S)[S] \in Nat
    BY <1>2
<1>4. QED
    BY <1>3, SumUnfold DEF SumOf

=============================================================================
