--------------------------- MODULE NaturalExtrema ---------------------------
(* Least and greatest natural numbers of a set, for proofs about Min and   *)
(* Max.  An induction is an argument about a least counterexample: it      *)
(* rests on the well-foundedness of the order on the naturals.             *)
EXTENDS Integers, FiniteSetsExt, FiniteSetTheorems, TLAPS

\* A set of naturals that is not empty has a least element, which is its Min.
LEMMA LeastNatural ==
    ASSUME NEW S \in SUBSET Nat, S # {}
    PROVE  Min(S) \in S /\ \A y \in S : Min(S) <= y
<1> DEFINE R == {p \in Nat \X Nat : p[1] < p[2]}
<1>1. IsWellFoundedOn(R, Nat)
    BY NatLessThanWellFounded DEF OpToRel
<1>2. PICK x \in S : \A y \in S : ~(<<y, x>> \in R)
    BY <1>1, WFMin
<1>3. \A y \in S : ~(y < x)
    BY <1>2
<1>4. \A y \in S : x <= y
    BY <1>3
<1> QED BY <1>4 DEF Min

\* One that is bounded has a greatest element, which is its Max.
LEMMA GreatestNatural ==
    ASSUME NEW S \in SUBSET Nat, S # {}, NEW n \in Nat, \A y \in S : y <= n
    PROVE  Max(S) \in S /\ \A y \in S : Max(S) >= y
<1> DEFINE Above == {b \in Nat : \A y \in S : y <= b}
           top == Min(Above)
<1>1. top \in Above /\ \A b \in Above : top <= b
    BY LeastNatural
<1>2. top \in S
    <2>1. SUFFICES ASSUME top \notin S PROVE FALSE
        OBVIOUS
    <2>2. \A y \in S : y < top
        BY <1>1, <2>1
    <2>3. top \in Nat /\ \E y \in S : TRUE
        BY <1>1
    <2>4. top - 1 \in Nat /\ \A y \in S : y <= top - 1
        BY <2>2, <2>3
    <2>5. top <= top - 1
        BY <1>1, <2>4
    <2> QED BY <2>3, <2>5
<1>3. \A y \in S : top >= y
    BY <1>1
<1> HIDE DEF top
<1> QED BY <1>2, <1>3 DEF Max

\* A measure on a finite set has an upper bound: else take a smallest subset on which
\* it has none, and leave an element out.
LEMMA FiniteBounded ==
    ASSUME NEW S, IsFiniteSet(S), NEW f \in [S -> Nat]
    PROVE  \E n \in Nat : \A x \in S : f[x] <= n
<1> DEFINE Bounded(U) == \E n \in Nat : \A x \in U : f[x] <= n
           Bad == {k \in Nat : \E U \in SUBSET S : Cardinality(U) = k /\ ~Bounded(U)}
<1>1. SUFFICES ASSUME ~Bounded(S) PROVE FALSE
    OBVIOUS
<1>2. Cardinality(S) \in Bad
    BY <1>1, FS_CardinalityType
<1>3. Min(Bad) \in Bad /\ \A j \in Bad : Min(Bad) <= j
    BY <1>2, LeastNatural
<1>4. PICK U \in SUBSET S : Cardinality(U) = Min(Bad) /\ ~Bounded(U)
    BY <1>3
<1>5. PICK x \in U : TRUE
    <2>1. U # {}
        BY <1>4
    <2> QED BY <2>1
<1>6. IsFiniteSet(U)
    BY FS_Subset
<1>7. Cardinality(U \ {x}) = Cardinality(U) - 1 /\ Cardinality(U \ {x}) \in Nat
    BY <1>5, <1>6, FS_RemoveElement, FS_CardinalityType
<1>8. Bounded(U \ {x})
    BY <1>3, <1>4, <1>7
<1>9. PICK n \in Nat : \A y \in U \ {x} : f[y] <= n
    BY <1>8
<1>10. /\ n + f[x] \in Nat
       /\ \A y \in U : f[y] <= n + f[x]
    BY <1>5, <1>9
<1> QED BY <1>4, <1>10

=============================================================================
