------------------------- MODULE ExpertCacheProofs -------------------------
(* Theorems about ExpertCache for every value of its constants.             *)
EXTENDS ExpertCache, NaturalExtrema

-----------------------------------------------------------------------------
(* Sizes of sets of slices.                                                *)

\* There are finitely many slices, so every set of them is finite.
LEMMA SlicesFinite ==
    /\ IsFiniteSet(Tensors)
    /\ IsFiniteSet(Experts)
    /\ \A S \in SUBSET Slices : IsFiniteSet(S)
<1>1. IsFiniteSet(Tensors) /\ IsFiniteSet(Experts)
    BY CacheAssumption, FS_Interval DEF Tensors, Experts
<1>2. IsFiniteSet(Slices)
    BY <1>1, FS_Product DEF Slices
<1> QED BY <1>1, <1>2, FS_Subset

\* A set of slices covers finitely many bytes.
LEMMA CellsFinite ==
    ASSUME NEW S \in SUBSET Slices
    PROVE  IsFiniteSet(Cells(S)) /\ SizeOf(S) \in Nat
<1> DEFINE cell(s) == {s} \X (1 .. SliceBytes[s[1]])
           T == {cell(s) : s \in S}
           f == [s \in S |-> cell(s)]
<1>1. f \in Surjection(S, T)
    BY DEF Surjection
<1>2. IsFiniteSet(T)
    BY <1>1, SlicesFinite, FS_Surjection
<1>3. ASSUME NEW s \in S PROVE IsFiniteSet(cell(s))
    <2>1. SliceBytes[s[1]] \in Int
        BY CacheAssumption DEF Slices, Tensors
    <2>2. IsFiniteSet(1 .. SliceBytes[s[1]])
        BY <2>1, FS_Interval
    <2>3. IsFiniteSet({s})
        BY FS_Singleton
    <2> QED BY <2>2, <2>3, FS_Product
<1>4. IsFiniteSet(UNION T)
    BY <1>2, <1>3, FS_UNION
<1> QED BY <1>4, FS_CardinalityType DEF Cells, SizeOf

\* Sizes of disjoint sets add up.
LEMMA SizeUnion ==
    ASSUME NEW A \in SUBSET Slices, NEW B \in SUBSET Slices, A \cap B = {}
    PROVE  SizeOf(A \cup B) = SizeOf(A) + SizeOf(B)
<1>1. Cells(A \cup B) = Cells(A) \cup Cells(B)
    BY DEF Cells
<1>2. Cells(A) \cap Cells(B) = {}
    BY DEF Cells
<1>3. Cardinality(Cells(A) \cap Cells(B)) = 0
    BY <1>2, FS_EmptySet
<1>4. /\ IsFiniteSet(Cells(A)) /\ Cardinality(Cells(A)) \in Nat
      /\ IsFiniteSet(Cells(B)) /\ Cardinality(Cells(B)) \in Nat
    BY CellsFinite DEF SizeOf
<1>5. Cardinality(Cells(A) \cup Cells(B)) = Cardinality(Cells(A)) + Cardinality(Cells(B))
    <2>1. Cardinality(Cells(A) \cup Cells(B)) =
            Cardinality(Cells(A)) + Cardinality(Cells(B)) - Cardinality(Cells(A) \cap Cells(B))
        BY <1>4, FS_Union
    <2> QED BY <2>1, <1>3, <1>4
<1> QED BY <1>1, <1>5 DEF SizeOf

\* The size of a difference, for a set that is taken out of a larger one.
LEMMA SizeDifference ==
    ASSUME NEW A \in SUBSET Slices, NEW B \in SUBSET A
    PROVE  SizeOf(A \ B) = SizeOf(A) - SizeOf(B)
<1>1. A = (A \ B) \cup B /\ (A \ B) \cap B = {}
    OBVIOUS
<1>2. SizeOf(A) = SizeOf(A \ B) + SizeOf(B)
    BY <1>1, SizeUnion
<1>3. SizeOf(A \ B) \in Nat /\ SizeOf(B) \in Nat
    BY CellsFinite
<1> QED BY <1>2, <1>3

\* The size of nothing.
LEMMA SizeEmpty == SizeOf({}) = 0
<1>1. Cells({}) = {}
    BY DEF Cells
<1> QED BY <1>1, FS_EmptySet DEF SizeOf

-----------------------------------------------------------------------------
(* Types of the operators.                                                 *)

\* Cardinalities of parts of finite sets are naturals.
LEMMA HitsType ==
    ASSUME NEW ids \in Seq(Experts), NEW e
    PROVE  Hits(ids, e) \in Nat
<1>1. DOMAIN ids = 1 .. Len(ids) /\ Len(ids) \in Nat
    OBVIOUS
<1>2. IsFiniteSet(1 .. Len(ids))
    BY <1>1, FS_Interval
<1>3. IsFiniteSet({i \in DOMAIN ids : ids[i] = e})
    <2>1. {i \in DOMAIN ids : ids[i] = e} \in SUBSET (1 .. Len(ids))
        BY <1>1
    <2> QED BY <1>2, <2>1, FS_Subset
<1> QED BY <1>3, FS_CardinalityType DEF Hits

\* Hit counters stay natural numbers.
LEMMA CountHitsType ==
    ASSUME NEW hits \in [Slices -> Nat], NEW ids \in Seq(Experts)
    PROVE  CountHits(hits, ids) \in [Slices -> Nat]
<1>1. ASSUME NEW s \in Slices
      PROVE  hits[s] + (IF LayerOf[s[1]] = layer THEN Hits(ids, s[2]) ELSE 0) \in Nat
    BY HitsType
<1> QED BY <1>1 DEF CountHits

\* Every tensor has at least one unit of demand, so the division is defined
\* and the clamp yields a budget between 1 and MaxActive.
LEMMA BudgetsType ==
    ASSUME NEW total \in [Slices -> Nat]
    PROVE  RecomputeBudgets(total) \in [Tensors -> 1 .. MaxActive]
<1> DEFINE D == Demand(total)
<1>1. D \in SUBSET Slices
    BY DEF Demand
<1>2. IsFiniteSet(D) /\ Cardinality(D) \in Nat
    BY <1>1, SlicesFinite, FS_CardinalityType
<1>3. D # {}
    <2>1. 1 \in Tensors /\ 0 \in Experts
        BY CacheAssumption DEF Tensors, Experts
    <2>2. <<1, 0>> \in Slices
        BY <2>1 DEF Slices
    <2>3. CASE \A r \in SlicesOf(1) : total[r] = 0
        BY <2>2, <2>3 DEF Demand
    <2>4. CASE \E r \in SlicesOf(1) : total[r] # 0
        <3>1. PICK r \in SlicesOf(1) : total[r] # 0
            BY <2>4
        <3>2. r \in Slices
            BY <2>1 DEF SlicesOf, Slices
        <3>3. total[r] > 0
            BY <3>1, <3>2
        <3> QED BY <3>2, <3>3 DEF Demand
    <2> QED BY <2>3, <2>4
<1>4. Cardinality(D) # 0
    BY <1>2, <1>3, FS_EmptySet
<1>5. ASSUME NEW t \in Tensors
      PROVE  RecomputeBudgets(total)[t] \in 1 .. MaxActive
    <2> DEFINE a == Cardinality(D \cap SlicesOf(t)) * MaxActive * NTensors
               share == a \div Cardinality(D)
    <2>1. Cardinality(D \cap SlicesOf(t)) \in Nat
        BY <1>2, FS_Intersection, FS_CardinalityType
    <2>2. a \in Int
        BY <2>1, CacheAssumption
    <2>3. share \in Int
        <3> HIDE DEF a, D
        <3> QED BY <2>2, <1>2, <1>4
    <2>4. RecomputeBudgets(total)[t] =
            IF share < 1 THEN 1 ELSE IF share > MaxActive THEN MaxActive ELSE share
        BY DEF RecomputeBudgets
    <2> HIDE DEF share
    <2> QED BY <2>3, <2>4, CacheAssumption
<1> QED BY <1>5 DEF RecomputeBudgets

\* A nonempty set of positions of a list has a largest one.
LEMMA MaxPosition ==
    ASSUME NEW n \in Nat, NEW S \in SUBSET (1 .. n), S # {}
    PROVE  Max(S) \in S
<1> DEFINE T == {n - i : i \in S}
<1>1. \A i \in S : i \in Int /\ i <= n /\ n - i \in Nat
    OBVIOUS
<1>2. T \subseteq Nat /\ T # {}
    BY <1>1
<1>3. PICK x \in T : \A y \in T : ~ (<<y, x>> \in OpToRel(<, Nat))
    <2> HIDE DEF T
    <2> QED BY <1>2, NatLessThanWellFounded, WFMin, Zenon
<1>4. \A y \in T : ~ (y < x)
    <2> HIDE DEF T
    <2> QED BY <1>2, <1>3, Zenon DEF OpToRel
<1>5. PICK m \in S : x = n - m
    OBVIOUS
<1>6. \A i \in S : ~ (n - i < n - m)
    BY <1>4, <1>5
<1>7. \A i \in S : m >= i
    BY <1>1, <1>6
<1> QED BY <1>7 DEF Max

\* touch() writes natural ticks.
LEMMA TouchType ==
    ASSUME TypeOK, NEW l, NEW ids \in Seq(Experts), Touch(l, ids)
    PROVE  last_used' \in [Slices -> Nat] /\ eclock' \in Nat
<1> DEFINE rank(t) == Cardinality({u \in TensorsAt(l) : u < t})
           at(e) == Max({i \in DOMAIN ids : ids[i] = e})
<1>1. \A t : rank(t) \in Nat
    <2>1. \A t : {u \in TensorsAt(l) : u < t} \in SUBSET Tensors
        BY DEF TensorsAt
    <2> QED BY <2>1, SlicesFinite, FS_Subset, FS_CardinalityType
<1>2. Cardinality(TensorsAt(l)) \in Nat
    <2>1. TensorsAt(l) \in SUBSET Tensors
        BY DEF TensorsAt
    <2> QED BY <2>1, SlicesFinite, FS_Subset, FS_CardinalityType
<1>3. \A e \in Range(ids) : at(e) \in Nat
    <2> TAKE e \in Range(ids)
    <2> DEFINE P == {i \in DOMAIN ids : ids[i] = e}
    <2>1. DOMAIN ids = 1 .. Len(ids) /\ Len(ids) \in Nat
        OBVIOUS
    <2>2. P \in SUBSET (1 .. Len(ids)) /\ P # {}
        BY <2>1 DEF Range
    <2>3. Max(P) \in P
        BY <2>1, <2>2, MaxPosition
    <2> QED BY <2>1, <2>3
<1>4. ASSUME NEW s \in Slices, s \in Routed(l, ids)
      PROVE  eclock + rank(s[1]) * Len(ids) + at(s[2]) \in Nat
    <2>1. s[2] \in Range(ids)
        BY <1>4 DEF Routed
    <2> HIDE DEF rank, at
    <2>2. rank(s[1]) \in Nat /\ at(s[2]) \in Nat
        BY <2>1, <1>1, <1>3
    <2>3. Len(ids) \in Nat /\ eclock \in Nat
        BY DEF TypeOK
    <2> QED BY <2>2, <2>3
<1>5. last_used' = [s \in Slices |-> IF s \in Routed(l, ids)
                                    THEN eclock + rank(s[1]) * Len(ids) + at(s[2])
                                    ELSE last_used[s]]
    BY DEF Touch
<1>6. last_used' \in [Slices -> Nat]
    <2> HIDE DEF rank, at
    <2> QED BY <1>4, <1>5 DEF TypeOK
<1>7. eclock' \in Nat
    <2>1. eclock' = eclock + Len(ids) * Cardinality(TensorsAt(l))
        BY DEF Touch
    <2>2. Len(ids) \in Nat /\ eclock \in Nat
        BY DEF TypeOK
    <2> QED BY <1>2, <2>1, <2>2
<1> QED BY <1>6, <1>7

\* A ranking pass pins slices.
LEMMA PinSetsType ==
    ASSUME NEW score, NEW b, NEW top \in PinSets(score, b)
    PROVE  top \subseteq Slices
BY DEF PinSets, TopRanked

\* evict_to_budget drops loaded slices only and spares the pinned ones.
LEMMA VictimsUnpinned ==
    ASSUME NEW ld, NEW pn, NEW win, NEW b
    PROVE  UNION {EvictToBudget(t, ld, pn, win, b) : t \in Tensors} \subseteq ld \ pn
BY DEF EvictToBudget

\* The ceiling drops loaded slices only, and none when there is no ceiling.
LEMMA CutsLoaded ==
    ASSUME NEW ld, NEW bytes, NEW cut \in CeilingCuts(ld, bytes)
    PROVE  /\ cut \subseteq ld
           /\ expert_budget = 0 => cut = {}
BY DEF CeilingCuts

-----------------------------------------------------------------------------
(* The inductive invariant.  The byte counter is a natural number only     *)
(* because it is exact; the selected slices survive from the prefetch to   *)
(* the read only because the pilot evicts nothing; and the first MoE layer *)
(* learns nothing only because router nodes fire in MoE layers alone.      *)

SelectedKept ==
    phase \in {"pilot", "compute"} => Routed(layer, selected) \subseteq loaded \cup pinned

RouterInMoe ==
    /\ phase = "route" => layer \in MoeLayers
    /\ from_layer >= 0 => from_layer \in MoeLayers

CacheInv ==
    /\ TypeOK
    /\ BytesExact
    /\ SelectedKept
    /\ PinsStayLoaded
    /\ OnlyPinsEscape
    /\ RouterInMoe
    /\ NoWrapAroundLearned

\* Entering a layer keeps the control variables in their ranges.
LEMMA EnterType ==
    ASSUME NEW l \in 0 .. (NLayers - 1), Enter(l)
    PROVE  /\ layer' \in 0 .. (NLayers - 1)
           /\ phase' \in {"route", "boundary"}
           /\ phase' = "route" => layer' \in MoeLayers
BY DEF Enter, StartOf

\* Slices of a layer are slices.
LEMMA RoutedType ==
    ASSUME NEW l, NEW ids \in Seq(Experts)
    PROVE  Routed(l, ids) \subseteq Slices
<1>1. Range(ids) \subseteq Experts
    BY DEF Range
<1> QED BY <1>1 DEF Routed, TensorsAt, Slices

\* A prefetch keeps the residency part of the invariant and covers its ids.
LEMMA PrefetchStep ==
    ASSUME CacheInv, NEW l, NEW ids \in Seq(Experts), PrefetchInto(l, ids)
    PROVE  /\ loaded' \in SUBSET Slices
           /\ loaded \subseteq loaded'
           /\ pinned' = pinned
           /\ paged' \in SUBSET Slices
           /\ resident_bytes' = SizeOf(loaded')
           /\ resident_bytes' \in Nat
           /\ last_used' \in [Slices -> Nat] /\ eclock' \in Nat
           /\ Routed(l, ids) \subseteq loaded' \cup pinned'
           /\ paged' \subseteq loaded' \cup pinned'
<1> DEFINE want == Want(l, ids)
<1>1. want \in SUBSET Slices /\ want \cap loaded = {}
    BY RoutedType DEF Want
<1>2. /\ loaded' = loaded \cup want
      /\ pinned' = pinned
      /\ paged' = paged \cup want
      /\ resident_bytes' = resident_bytes + SizeOf(want)
    BY DEF PrefetchInto
<1>3. loaded \in SUBSET Slices /\ pinned \in SUBSET Slices /\ paged \in SUBSET Slices
    BY DEF CacheInv, TypeOK
<1>4. SizeOf(loaded \cup want) = SizeOf(loaded) + SizeOf(want)
    <2> HIDE DEF want
    <2> QED BY <1>1, <1>3, SizeUnion
<1>5. resident_bytes' = SizeOf(loaded')
    BY <1>2, <1>4 DEF CacheInv, BytesExact
<1>6. resident_bytes' \in Nat
    BY <1>1, <1>2, <1>3, <1>5, CellsFinite
<1>7. last_used' \in [Slices -> Nat] /\ eclock' \in Nat
    BY TouchType DEF PrefetchInto, CacheInv
<1>8. Routed(l, ids) \subseteq loaded' \cup pinned'
    BY <1>2 DEF Want
<1>9. paged' \subseteq loaded' \cup pinned'
    BY <1>2 DEF CacheInv, OnlyPinsEscape
<1> QED BY <1>1, <1>2, <1>3, <1>5, <1>6, <1>7, <1>8, <1>9

\* The loader is right when the tensors have just been registered.
LEMMA CacheInit == Init => CacheInv
<1> SUFFICES ASSUME Init PROVE CacheInv
    OBVIOUS
<1>1. SizeOf(Slices) \in Nat
    BY CellsFinite
<1>2. TypeOK
    BY <1>1, CacheAssumption DEF Init, TypeOK
<1>3. BytesExact /\ SelectedKept /\ PinsStayLoaded /\ OnlyPinsEscape
    BY DEF Init, BytesExact, SelectedKept, PinsStayLoaded, OnlyPinsEscape
<1>4. RouterInMoe /\ NoWrapAroundLearned
    BY DEF Init, RouterInMoe, NoWrapAroundLearned
<1> QED BY <1>2, <1>3, <1>4 DEF CacheInv

\* Enforcing the ceiling keeps the counter exact and brings it under the budget.
LEMMA CeilingStep ==
    ASSUME expert_budget \in Nat, NEW ld \in SUBSET Slices, NEW bytes, bytes = SizeOf(ld),
           NEW cut \in CeilingCuts(ld, bytes)
    PROVE  /\ bytes - SizeOf(cut) = SizeOf(ld \ cut)
           /\ bytes - SizeOf(cut) \in Nat
           /\ expert_budget = 0 \/ bytes - SizeOf(cut) <= expert_budget
<1>1. cut \in SUBSET ld
    BY CutsLoaded
<1>2. SizeOf(ld \ cut) = SizeOf(ld) - SizeOf(cut)
    BY <1>1, SizeDifference
<1>3. SizeOf(ld \ cut) \in Nat /\ SizeOf(ld) \in Nat /\ SizeOf(cut) \in Nat
    BY <1>1, CellsFinite
<1>4. expert_budget = 0 \/ bytes - SizeOf(cut) <= expert_budget
    <2>1. CASE expert_budget = 0
        BY <2>1
    <2>2. CASE expert_budget # 0 /\ bytes <= expert_budget
        <3>1. cut = {}
            BY <2>2 DEF CeilingCuts
        <3> QED BY <3>1, <2>2, <1>3, SizeEmpty
    <2>3. CASE expert_budget # 0 /\ ~(bytes <= expert_budget)
        <3>1. bytes - SizeOf(cut) <= expert_budget \/ cut = ld
            BY <2>3 DEF CeilingCuts
        <3>2. CASE cut = ld
            BY <3>2, <1>3
        <3> QED BY <3>1, <3>2
    <2> QED BY <2>1, <2>2, <2>3
<1> QED BY <1>2, <1>3, <1>4

\* A pin pass keeps the residency part of the invariant, sets legal budgets and
\* meets the ceiling.
LEMMA PinPassStep ==
    ASSUME CacheInv, NEW total \in [Slices -> Nat], NEW win,
           MaybePinHotExperts(total, win)
    PROVE  /\ loaded' \in SUBSET Slices
           /\ pinned' \in SUBSET Slices
           /\ paged' \in SUBSET Slices
           /\ budget' \in [Tensors -> 1 .. MaxActive]
           /\ resident_bytes' = SizeOf(loaded')
           /\ resident_bytes' \in Nat
           /\ expert_budget = 0 => pinned' \subseteq loaded'
           /\ paged' \subseteq loaded' \cup pinned'
           /\ expert_budget = 0 \/ resident_bytes' <= expert_budget
<1> DEFINE b == RecomputeBudgets(total)
<1>1. budget' = b /\ b \in [Tensors -> 1 .. MaxActive]
    BY BudgetsType DEF MaybePinHotExperts
<1>2. PICK top \in PinSets(win, b) :
        LET new == top \ pinned
            fresh == new \ loaded
            pn == pinned \cup new
            ld == loaded \cup new
            victims == UNION {EvictToBudget(t, ld, pn, win, b) : t \in Tensors}
            bytes == resident_bytes + SizeOf(fresh) - SizeOf(victims)
        IN  \E cut \in CeilingCuts(ld \ victims, bytes) :
                /\ pinned' = pn
                /\ loaded' = (ld \ victims) \ cut
                /\ resident_bytes' = bytes - SizeOf(cut)
                /\ paged' = ((paged \cup fresh) \ victims) \ cut
    BY DEF MaybePinHotExperts
<1> DEFINE new == top \ pinned
           fresh == new \ loaded
           pn == pinned \cup new
           ld == loaded \cup new
           victims == UNION {EvictToBudget(t, ld, pn, win, b) : t \in Tensors}
           bytes == resident_bytes + SizeOf(fresh) - SizeOf(victims)
<1>3. PICK cut \in CeilingCuts(ld \ victims, bytes) :
        /\ pinned' = pn
        /\ loaded' = (ld \ victims) \ cut
        /\ resident_bytes' = bytes - SizeOf(cut)
        /\ paged' = ((paged \cup fresh) \ victims) \ cut
    BY <1>2
<1>4. top \subseteq Slices
    BY PinSetsType
<1>5. loaded \in SUBSET Slices /\ pinned \in SUBSET Slices /\ paged \in SUBSET Slices
    BY DEF CacheInv, TypeOK
<1>6. /\ fresh \in SUBSET Slices /\ ld \in SUBSET Slices /\ pn \in SUBSET Slices
      /\ fresh \cap loaded = {} /\ ld = loaded \cup fresh
    BY <1>4, <1>5
<1>7. victims \subseteq ld \ pn
    <2> HIDE DEF ld, pn, b
    <2> QED BY VictimsUnpinned
<1>8. SizeOf(ld) = resident_bytes + SizeOf(fresh)
    <2> HIDE DEF ld, fresh
    <2> QED BY <1>5, <1>6, SizeUnion DEF CacheInv, BytesExact
<1>9. bytes = SizeOf(ld \ victims)
    <2>1. SizeOf(ld \ victims) = SizeOf(ld) - SizeOf(victims)
        <3> HIDE DEF ld, victims, pn
        <3> QED BY <1>6, <1>7, SizeDifference
    <2>2. bytes = resident_bytes + SizeOf(fresh) - SizeOf(victims)
        OBVIOUS
    <2> HIDE DEF ld, victims, fresh, bytes, pn
    <2>3. victims \in SUBSET Slices
        BY <1>6, <1>7
    <2>4. SizeOf(fresh) \in Nat /\ SizeOf(victims) \in Nat /\ resident_bytes \in Nat
        BY <2>3, <1>6, CellsFinite DEF CacheInv, TypeOK
    <2> QED BY <2>1, <2>2, <2>4, <1>8
<1>10. ld \ victims \in SUBSET Slices
    <2> HIDE DEF ld, victims
    <2> QED BY <1>6
<1> HIDE DEF ld, victims, bytes, pn, fresh, b
<1>11. /\ bytes - SizeOf(cut) = SizeOf((ld \ victims) \ cut)
       /\ bytes - SizeOf(cut) \in Nat
       /\ expert_budget = 0 \/ bytes - SizeOf(cut) <= expert_budget
    BY <1>9, <1>10, CeilingStep DEF CacheInv, TypeOK
<1>12. cut \subseteq ld \ victims /\ (expert_budget = 0 => cut = {})
    BY CutsLoaded
<1>13. expert_budget = 0 => pinned' \subseteq loaded'
    <2>1. expert_budget = 0 => pn \subseteq ld
        BY DEF CacheInv, PinsStayLoaded, ld, pn
    <2> QED BY <2>1, <1>3, <1>7, <1>12
<1>14. paged' \subseteq loaded' \cup pinned'
    <2>1. paged \cup fresh \subseteq ld \cup pn
        BY DEF CacheInv, OnlyPinsEscape, ld, pn, fresh
    <2> QED BY <2>1, <1>3
<1>15. loaded' \in SUBSET Slices /\ pinned' \in SUBSET Slices /\ paged' \in SUBSET Slices
    BY <1>3, <1>5, <1>6
<1> QED BY <1>1, <1>3, <1>11, <1>13, <1>14, <1>15

\* Learning transitions keeps the counts natural and the first MoE layer at zero.
LEMMA LearnStep ==
    ASSUME CacheInv, phase = "route", NEW ids \in Seq(Experts), LearnTransitions(ids)
    PROVE  /\ trans' \in [Tensors -> [Experts \X Experts -> Nat]]
           /\ NoWrapAroundLearned'
<1>1. from_ids \in Seq(Experts) /\ trans \in [Tensors -> [Experts \X Experts -> Nat]]
    BY DEF CacheInv, TypeOK
<1>2. ASSUME NEW t \in Tensors, NEW p \in Experts \X Experts
      PROVE  trans[t][p] + Hits(from_ids, p[1]) * Hits(ids, p[2]) \in Nat
    <2>1. trans[t][p] \in Nat
        BY <1>1
    <2>2. Hits(from_ids, p[1]) \in Nat /\ Hits(ids, p[2]) \in Nat
        BY <1>1, HitsType
    <2> QED BY <2>1, <2>2
<1>3. trans' \in [Tensors -> [Experts \X Experts -> Nat]]
    BY <1>1, <1>2 DEF LearnTransitions
<1>4. ASSUME NEW t \in Tensors, \A l \in MoeLayers : LayerOf[t] <= l
      PROVE  trans'[t] = trans[t]
    <2>1. CASE SameToken /\ LayerOf[t] = layer
        <3>1. from_layer \in MoeLayers
            BY <2>1 DEF SameToken, CacheInv, RouterInMoe
        <3>2. layer <= from_layer
            BY <3>1, <2>1, <1>4
        <3>3. layer \in Int /\ from_layer \in Int
            BY DEF CacheInv, TypeOK
        <3> QED BY <3>2, <3>3, <2>1 DEF SameToken
    <2>2. CASE ~(SameToken /\ LayerOf[t] = layer)
        BY <2>2 DEF LearnTransitions
    <2> QED BY <2>1, <2>2
<1>5. NoWrapAroundLearned'
    BY <1>4 DEF CacheInv, NoWrapAroundLearned
<1> QED BY <1>3, <1>5

\* record_routing.
LEMMA RecordRoutingStep == CacheInv /\ RecordRouting => CacheInv'
<1> SUFFICES ASSUME CacheInv, RecordRouting PROVE CacheInv'
    OBVIOUS
<1>1. PICK ids \in Routings :
        /\ selected' = ids
        /\ LearnTransitions(ids)
        /\ total_hits' = CountHits(total_hits, ids)
        /\ window_hits' = CountHits(window_hits, ids)
        /\ from_layer' = layer
        /\ from_ids' = ids
        /\ records' = records + 1
        /\ IF PinDue(records + 1)
           THEN MaybePinHotExperts(CountHits(total_hits, ids), CountHits(window_hits, ids))
           ELSE UNCHANGED <<residency, budget>>
    BY DEF RecordRouting
<1>2. ids \in Seq(Experts)
    BY CacheAssumption
<1>3. phase = "route" /\ phase' = "prefetch" /\ records < MaxRecords
    BY DEF RecordRouting
<1>4. UNCHANGED <<expert_budget, last_used, eclock, last_boundary, layer>>
    BY DEF RecordRouting, recency
<1>5. /\ CountHits(total_hits, ids) \in [Slices -> Nat]
      /\ CountHits(window_hits, ids) \in [Slices -> Nat]
    BY <1>2, CountHitsType DEF CacheInv, TypeOK
<1>6. trans' \in [Tensors -> [Experts \X Experts -> Nat]] /\ NoWrapAroundLearned'
    BY <1>1, <1>2, <1>3, LearnStep
<1>7. /\ loaded' \in SUBSET Slices /\ pinned' \in SUBSET Slices /\ paged' \in SUBSET Slices
      /\ budget' \in [Tensors -> 1 .. MaxActive]
      /\ resident_bytes' = SizeOf(loaded') /\ resident_bytes' \in Nat
      /\ expert_budget = 0 => pinned' \subseteq loaded'
      /\ paged' \subseteq loaded' \cup pinned'
    <2>1. CASE PinDue(records + 1)
        BY <2>1, <1>1, <1>5, PinPassStep
    <2>2. CASE ~PinDue(records + 1)
        <3>1. UNCHANGED <<loaded, pinned, resident_bytes, paged, budget>>
            BY <2>2, <1>1 DEF residency
        <3> QED BY <3>1 DEF CacheInv, TypeOK, BytesExact, PinsStayLoaded, OnlyPinsEscape
    <2> QED BY <2>1, <2>2
<1>8. TypeOK'
    <2>1. records' \in 0 .. MaxRecords
        BY <1>1, <1>3, CacheAssumption DEF CacheInv, TypeOK
    <2>2. from_layer' \in -1 .. (NLayers - 1) /\ layer' \in 0 .. (NLayers - 1)
        BY <1>1, <1>4, CacheAssumption DEF CacheInv, TypeOK
    <2>3. /\ last_used' \in [Slices -> Nat] /\ eclock' \in Nat /\ expert_budget' \in Nat
          /\ last_boundary' \in -1 .. (NLayers - 1)
        BY <1>4 DEF CacheInv, TypeOK
    <2>4. selected' \in Seq(Experts) /\ from_ids' \in Seq(Experts)
        BY <1>1, <1>2
    <2>5. total_hits' \in [Slices -> Nat] /\ window_hits' \in [Slices -> Nat]
        BY <1>1, <1>5
    <2> QED BY <2>1, <2>2, <2>3, <2>4, <2>5, <1>3, <1>6, <1>7 DEF TypeOK
<1>9. BytesExact' /\ PinsStayLoaded' /\ OnlyPinsEscape'
    BY <1>4, <1>7 DEF BytesExact, PinsStayLoaded, OnlyPinsEscape
<1>10. SelectedKept' /\ RouterInMoe'
    BY <1>1, <1>3, <1>4 DEF CacheInv, SelectedKept, RouterInMoe
<1> QED BY <1>6, <1>8, <1>9, <1>10 DEF CacheInv

\* prefetch_experts for the router's own ids.
LEMMA PrefetchExpertsStep == CacheInv /\ PrefetchExperts => CacheInv'
<1> SUFFICES ASSUME CacheInv, PrefetchExperts PROVE CacheInv'
    OBVIOUS
<1>1. selected \in Seq(Experts)
    BY DEF CacheInv, TypeOK
<1>2. PrefetchInto(layer, selected) /\ phase = "prefetch" /\ phase' = "pilot"
    BY DEF PrefetchExperts
<1>3. UNCHANGED <<expert_budget, total_hits, window_hits, budget, trans, from_layer, from_ids,
                  records, last_boundary, layer, selected>>
    BY DEF PrefetchExperts, stats, pilot
<1>4. /\ loaded' \in SUBSET Slices /\ loaded \subseteq loaded' /\ pinned' = pinned
      /\ paged' \in SUBSET Slices
      /\ resident_bytes' = SizeOf(loaded') /\ resident_bytes' \in Nat
      /\ last_used' \in [Slices -> Nat] /\ eclock' \in Nat
      /\ Routed(layer, selected) \subseteq loaded' \cup pinned'
      /\ paged' \subseteq loaded' \cup pinned'
    BY <1>1, <1>2, PrefetchStep
<1>5. TypeOK'
    BY <1>2, <1>3, <1>4 DEF CacheInv, TypeOK
<1>6. BytesExact' /\ PinsStayLoaded' /\ OnlyPinsEscape'
    BY <1>3, <1>4 DEF CacheInv, BytesExact, PinsStayLoaded, OnlyPinsEscape
<1>7. SelectedKept' /\ RouterInMoe' /\ NoWrapAroundLearned'
    BY <1>2, <1>3, <1>4 DEF CacheInv, SelectedKept, RouterInMoe, NoWrapAroundLearned, Routed
<1> QED BY <1>5, <1>6, <1>7 DEF CacheInv

\* pilot_prefetch_next_layer: whatever it predicts, it only adds slices.
LEMMA PilotStep == CacheInv /\ PilotPrefetchNextLayer => CacheInv'
<1> SUFFICES ASSUME CacheInv, PilotPrefetchNextLayer PROVE CacheInv'
    OBVIOUS
<1>1. phase = "pilot" /\ phase' = "compute"
    BY DEF PilotPrefetchNextLayer
<1>2. UNCHANGED <<expert_budget, total_hits, window_hits, budget, trans, from_layer, from_ids,
                  records, last_boundary, layer, selected>>
    BY DEF PilotPrefetchNextLayer, stats, pilot
<1>3. PICK predicted \in Predictions :
        IF predicted = {}
        THEN UNCHANGED <<residency, recency>>
        ELSE \E ids \in Injection(1 .. Cardinality(predicted), predicted) :
                PrefetchInto(NextMoe, ids)
    BY DEF PilotPrefetchNextLayer
<1>4. predicted \in SUBSET Experts
    <2>1. CASE UsePilot /\ Later # {}
        <3>1. PICK f \in [TensorsAt(NextMoe) -> SUBSET Experts] : predicted = UNION Range(f)
            BY <2>1 DEF Predictions
        <3> QED BY <3>1 DEF Range
    <2>2. CASE ~(UsePilot /\ Later # {})
        BY <2>2 DEF Predictions
    <2> QED BY <2>1, <2>2
<1>5. /\ loaded' \in SUBSET Slices /\ loaded \subseteq loaded' /\ pinned' = pinned
      /\ paged' \in SUBSET Slices
      /\ resident_bytes' = SizeOf(loaded') /\ resident_bytes' \in Nat
      /\ last_used' \in [Slices -> Nat] /\ eclock' \in Nat
      /\ paged' \subseteq loaded' \cup pinned'
    <2>1. CASE predicted = {}
        <3>1. UNCHANGED <<loaded, pinned, resident_bytes, paged, last_used, eclock>>
            BY <2>1, <1>3 DEF residency, recency
        <3> QED BY <3>1 DEF CacheInv, TypeOK, BytesExact, OnlyPinsEscape
    <2>2. CASE predicted # {}
        <3>1. PICK ids \in Injection(1 .. Cardinality(predicted), predicted) :
                PrefetchInto(NextMoe, ids)
            BY <2>2, <1>3
        <3>2. Cardinality(predicted) \in Nat
            BY <1>4, SlicesFinite, FS_Subset, FS_CardinalityType
        <3>3. ids \in [1 .. Cardinality(predicted) -> Experts]
            BY <3>1, <1>4 DEF Injection
        <3>4. ids \in Seq(Experts)
            BY <3>2, <3>3
        <3> QED BY <3>1, <3>4, PrefetchStep
    <2> QED BY <2>1, <2>2
<1>6. TypeOK'
    BY <1>1, <1>2, <1>5 DEF CacheInv, TypeOK
<1>7. BytesExact' /\ PinsStayLoaded' /\ OnlyPinsEscape'
    BY <1>2, <1>5 DEF CacheInv, BytesExact, PinsStayLoaded, OnlyPinsEscape
<1>8. SelectedKept' /\ RouterInMoe' /\ NoWrapAroundLearned'
    BY <1>1, <1>2, <1>5 DEF CacheInv, SelectedKept, RouterInMoe, NoWrapAroundLearned, Routed
<1> QED BY <1>6, <1>7, <1>8 DEF CacheInv

\* mul_mat_id: what it faults in is loaded or pinned.
LEMMA ComputeStep == CacheInv /\ Compute => CacheInv'
<1> SUFFICES ASSUME CacheInv, Compute PROVE CacheInv'
    OBVIOUS
<1>1. /\ phase = "compute" /\ phase' = "boundary"
      /\ paged' = paged \cup Routed(layer, selected)
      /\ UNCHANGED <<expert_budget, loaded, pinned, resident_bytes, total_hits, window_hits,
                     last_used, eclock, budget, trans, from_layer, from_ids, records, last_boundary,
                     layer, selected>>
    BY DEF Compute, stats, recency, pilot
<1>2. Routed(layer, selected) \subseteq loaded \cup pinned
    BY <1>1 DEF CacheInv, SelectedKept
<1>3. TypeOK'
    BY <1>1, <1>2 DEF CacheInv, TypeOK
<1>4. BytesExact' /\ PinsStayLoaded' /\ OnlyPinsEscape'
    BY <1>1, <1>2 DEF CacheInv, BytesExact, PinsStayLoaded, OnlyPinsEscape
<1>5. SelectedKept' /\ RouterInMoe' /\ NoWrapAroundLearned'
    BY <1>1 DEF CacheInv, SelectedKept, RouterInMoe, NoWrapAroundLearned
<1> QED BY <1>3, <1>4, <1>5 DEF CacheInv

\* on_layer_boundary: the ceiling may take pinned slices out of loaded, but it
\* takes their pages along.
LEMMA BoundaryStep ==
    ASSUME CacheInv, OnLayerBoundary
    PROVE  /\ CacheInv'
           /\ NewPass => expert_budget = 0 \/ resident_bytes' <= expert_budget
<1>1. PICK cut \in IF NewPass THEN CeilingCuts(loaded, resident_bytes) ELSE {{}} :
        /\ loaded' = loaded \ cut
        /\ resident_bytes' = resident_bytes - SizeOf(cut)
        /\ paged' = paged \ cut
    BY DEF OnLayerBoundary
<1>2. /\ last_boundary' = layer
      /\ Enter((layer + 1) % NLayers)
      /\ UNCHANGED <<expert_budget, pinned, total_hits, window_hits, last_used, eclock, budget,
                     trans, from_layer, from_ids, records, selected>>
    BY DEF OnLayerBoundary, stats, recency, pilot
<1>3. /\ loaded \in SUBSET Slices /\ resident_bytes = SizeOf(loaded)
      /\ layer \in 0 .. (NLayers - 1)
    BY DEF CacheInv, TypeOK, BytesExact
<1>4. /\ cut \subseteq loaded /\ (expert_budget = 0 => cut = {})
      /\ resident_bytes - SizeOf(cut) = SizeOf(loaded \ cut)
      /\ resident_bytes - SizeOf(cut) \in Nat
      /\ NewPass => expert_budget = 0 \/ resident_bytes - SizeOf(cut) <= expert_budget
    <2>1. CASE NewPass
        <3>1. cut \in CeilingCuts(loaded, resident_bytes)
            BY <2>1, <1>1
        <3> QED BY <3>1, <1>3, CutsLoaded, CeilingStep DEF CacheInv, TypeOK
    <2>2. CASE ~NewPass
        <3>1. cut = {}
            BY <2>2, <1>1
        <3>2. resident_bytes \in Nat
            BY DEF CacheInv, TypeOK
        <3> QED BY <3>1, <3>2, <2>2, <1>3, SizeEmpty
    <2> QED BY <2>1, <2>2
<1>5. (layer + 1) % NLayers \in 0 .. (NLayers - 1)
    BY <1>3, CacheAssumption
<1>6. /\ layer' \in 0 .. (NLayers - 1) /\ phase' \in {"route", "boundary"}
      /\ phase' = "route" => layer' \in MoeLayers
    BY <1>2, <1>5, EnterType
<1>7. TypeOK'
    <2>1. last_boundary' \in -1 .. (NLayers - 1)
        BY <1>2, <1>3, CacheAssumption
    <2> QED BY <2>1, <1>1, <1>2, <1>4, <1>6 DEF CacheInv, TypeOK
<1>8. BytesExact' /\ PinsStayLoaded' /\ OnlyPinsEscape'
    BY <1>1, <1>2, <1>4 DEF CacheInv, BytesExact, PinsStayLoaded, OnlyPinsEscape
<1>9. SelectedKept' /\ RouterInMoe' /\ NoWrapAroundLearned'
    BY <1>2, <1>6 DEF CacheInv, SelectedKept, RouterInMoe, NoWrapAroundLearned
<1> QED BY <1>1, <1>4, <1>7, <1>8, <1>9 DEF CacheInv

\* load_imatrix_prior.
LEMMA LoadStep == CacheInv /\ LoadImatrixPrior => CacheInv'
<1> SUFFICES ASSUME CacheInv, LoadImatrixPrior PROVE CacheInv'
    OBVIOUS
<1>1. PICK prior \in Priors :
        /\ total_hits' = prior
        /\ IF \E s \in Slices : prior[s] > 0
           THEN /\ budget' = RecomputeBudgets(prior)
                /\ \E top \in PinSets(prior, RecomputeBudgets(prior)) :
                    LET fresh == top \ (pinned \cup loaded)
                    IN  /\ pinned' = pinned \cup top
                        /\ loaded' = loaded \cup fresh
                        /\ resident_bytes' = resident_bytes + SizeOf(fresh)
                        /\ paged' = paged \cup fresh
           ELSE UNCHANGED <<residency, budget>>
    BY DEF LoadImatrixPrior
<1>2. /\ Enter(0)
      /\ UNCHANGED <<expert_budget, window_hits, last_used, eclock, trans, from_layer, from_ids,
                     records, last_boundary, selected>>
    BY DEF LoadImatrixPrior, recency, pilot
<1>3. prior \in [Slices -> Nat]
    BY CacheAssumption
<1>4. /\ loaded' \in SUBSET Slices /\ pinned' \in SUBSET Slices /\ paged' \in SUBSET Slices
      /\ budget' \in [Tensors -> 1 .. MaxActive]
      /\ resident_bytes' = SizeOf(loaded') /\ resident_bytes' \in Nat
      /\ expert_budget = 0 => pinned' \subseteq loaded'
      /\ paged' \subseteq loaded' \cup pinned'
    <2>1. CASE \E s \in Slices : prior[s] > 0
        <3>1. PICK top \in PinSets(prior, RecomputeBudgets(prior)) :
                /\ pinned' = pinned \cup top
                /\ loaded' = loaded \cup (top \ (pinned \cup loaded))
                /\ resident_bytes' = resident_bytes + SizeOf(top \ (pinned \cup loaded))
                /\ paged' = paged \cup (top \ (pinned \cup loaded))
            BY <2>1, <1>1
        <3>2. top \subseteq Slices
            BY PinSetsType
        <3> DEFINE fresh == top \ (pinned \cup loaded)
        <3>3. /\ fresh \in SUBSET Slices /\ fresh \cap loaded = {}
              /\ loaded \in SUBSET Slices /\ resident_bytes = SizeOf(loaded)
            BY <3>2 DEF CacheInv, TypeOK, BytesExact
        <3>4. loaded' = loaded \cup fresh /\ resident_bytes' = resident_bytes + SizeOf(fresh)
            BY <3>1
        <3>5. resident_bytes' = SizeOf(loaded') /\ resident_bytes' \in Nat
            <4> HIDE DEF fresh
            <4> QED BY <3>3, <3>4, SizeUnion, CellsFinite
        <3>6. budget' \in [Tensors -> 1 .. MaxActive]
            BY <2>1, <1>1, <1>3, BudgetsType
        <3> QED BY <3>1, <3>2, <3>5, <3>6 DEF CacheInv, TypeOK, PinsStayLoaded, OnlyPinsEscape
    <2>2. CASE ~(\E s \in Slices : prior[s] > 0)
        <3>1. UNCHANGED <<loaded, pinned, resident_bytes, paged, budget>>
            BY <2>2, <1>1 DEF residency
        <3> QED BY <3>1 DEF CacheInv, TypeOK, BytesExact, PinsStayLoaded, OnlyPinsEscape
    <2> QED BY <2>1, <2>2
<1>5. /\ layer' \in 0 .. (NLayers - 1) /\ phase' \in {"route", "boundary"}
      /\ phase' = "route" => layer' \in MoeLayers
    BY <1>2, CacheAssumption, EnterType
<1>6. TypeOK'
    BY <1>1, <1>2, <1>3, <1>4, <1>5 DEF CacheInv, TypeOK
<1>7. BytesExact' /\ PinsStayLoaded' /\ OnlyPinsEscape'
    BY <1>2, <1>4 DEF BytesExact, PinsStayLoaded, OnlyPinsEscape
<1>8. SelectedKept' /\ RouterInMoe' /\ NoWrapAroundLearned'
    BY <1>2, <1>5 DEF CacheInv, SelectedKept, RouterInMoe, NoWrapAroundLearned
<1> QED BY <1>6, <1>7, <1>8 DEF CacheInv

\* An aborted graph changes the position in the pass only.
LEMMA AbortStep == CacheInv /\ Abort => CacheInv'
<1> SUFFICES ASSUME CacheInv, Abort PROVE CacheInv'
    OBVIOUS
<1>1. /\ Enter(0)
      /\ UNCHANGED <<expert_budget, loaded, pinned, resident_bytes, paged, total_hits,
                     window_hits, last_used, eclock, budget, trans, from_layer, from_ids, records, last_boundary,
                     selected>>
    BY DEF Abort, residency, stats, recency, pilot
<1>2. /\ layer' \in 0 .. (NLayers - 1) /\ phase' \in {"route", "boundary"}
      /\ phase' = "route" => layer' \in MoeLayers
    BY <1>1, CacheAssumption, EnterType
<1>3. TypeOK'
    BY <1>1, <1>2 DEF CacheInv, TypeOK
<1>4. BytesExact' /\ PinsStayLoaded' /\ OnlyPinsEscape'
    BY <1>1 DEF CacheInv, BytesExact, PinsStayLoaded, OnlyPinsEscape
<1>5. SelectedKept' /\ RouterInMoe' /\ NoWrapAroundLearned'
    BY <1>1, <1>2 DEF CacheInv, SelectedKept, RouterInMoe, NoWrapAroundLearned
<1> QED BY <1>3, <1>4, <1>5 DEF CacheInv

\* Steps that change nothing.
LEMMA CacheStutter == CacheInv /\ UNCHANGED vars => CacheInv'
BY DEF CacheInv, vars, residency, stats, recency, pilot, TypeOK, BytesExact, SelectedKept,
       PinsStayLoaded, OnlyPinsEscape, RouterInMoe, NoWrapAroundLearned

-----------------------------------------------------------------------------
(* The theorems.                                                           *)

\* The invariant holds in every reachable state, for any number of layers,
\* tensors and experts, any slice sizes, budget, ceiling, prior and routing.
THEOREM CacheInvariance == Spec => []CacheInv
<1>1. CacheInv /\ [Next]_vars => CacheInv'
    <2> SUFFICES ASSUME CacheInv, [Next]_vars PROVE CacheInv'
        OBVIOUS
    <2>1. CASE LoadImatrixPrior
        BY <2>1, LoadStep
    <2>2. CASE RecordRouting
        BY <2>2, RecordRoutingStep
    <2>3. CASE PrefetchExperts
        BY <2>3, PrefetchExpertsStep
    <2>4. CASE PilotPrefetchNextLayer
        BY <2>4, PilotStep
    <2>5. CASE Compute
        BY <2>5, ComputeStep
    <2>6. CASE OnLayerBoundary
        BY <2>6, BoundaryStep
    <2>7. CASE Abort
        BY <2>7, AbortStep
    <2>8. CASE Finished
        BY <2>8, CacheStutter DEF Finished
    <2>9. CASE UNCHANGED vars
        BY <2>9, CacheStutter
    <2> QED BY <2>1, <2>2, <2>3, <2>4, <2>5, <2>6, <2>7, <2>8, <2>9 DEF Next
<1> QED BY <1>1, CacheInit, PTL DEF Spec

\* Type correctness of the expert cache.
THEOREM TypeCorrect == Spec => []TypeOK
<1>1. CacheInv => TypeOK
    BY DEF CacheInv
<1> QED BY <1>1, CacheInvariance, PTL

\* The byte counter is exact: expert_resident_bytes_ never drifts from the
\* slices marked loaded, whatever the interleaving of pins and evictions.
THEOREM BytesAlwaysExact == Spec => []BytesExact
<1>1. CacheInv => BytesExact
    BY DEF CacheInv
<1> QED BY <1>1, CacheInvariance, PTL

\* The slices mul_mat_id is about to read are loaded, all of them without a byte
\* ceiling and the ones that are not pinned under any: what evict_to_budget drops in
\* record_routing is loaded again by prefetch_experts, or was not selected, and
\* nothing but the ceiling drops a pin.
THEOREM SelectedAlwaysResident == Spec => []SelectedResident
<1>1. CacheInv => SelectedResident
    <2> SUFFICES ASSUME CacheInv, phase = "compute"
                 PROVE  /\ expert_budget = 0 => Routed(layer, selected) \subseteq loaded
                        /\ Routed(layer, selected) \ pinned \subseteq loaded
        BY DEF SelectedResident
    <2>1. Routed(layer, selected) \subseteq loaded \cup pinned
        BY DEF CacheInv, SelectedKept
    <2>2. expert_budget = 0 => pinned \subseteq loaded
        BY DEF CacheInv, PinsStayLoaded
    <2> QED BY <2>1, <2>2
<1> QED BY <1>1, CacheInvariance, PTL

\* Without a ceiling, a pin is never undone by an eviction.
THEOREM PinsAlwaysLoaded == Spec => []PinsStayLoaded
<1>1. CacheInv => PinsStayLoaded
    BY DEF CacheInv
<1> QED BY <1>1, CacheInvariance, PTL

\* Only pinned slices can hold pages the byte counter does not know of.
THEOREM OnlyPinsUnaccounted == Spec => []OnlyPinsEscape
<1>1. CacheInv => OnlyPinsEscape
    BY DEF CacheInv
<1> QED BY <1>1, CacheInvariance, PTL

\* Pilot never learns the transition from the end of a token to the next one.
THEOREM WrapAroundNeverLearned == Spec => []NoWrapAroundLearned
<1>1. CacheInv => NoWrapAroundLearned
    BY DEF CacheInv
<1> QED BY <1>1, CacheInvariance, PTL

\* Every pin pass and every start of a forward pass leaves the counted bytes
\* within the ceiling.
THEOREM CeilingAlwaysMet == Spec => CeilingMet
<1> DEFINE Met == expert_budget = 0 \/ resident_bytes' <= expert_budget
<1>1. ASSUME CacheInv, Next, PinPass PROVE Met
    <2>1. CASE RecordRouting
        <3>1. PICK ids \in Routings :
                /\ records' = records + 1
                /\ IF PinDue(records + 1)
                   THEN MaybePinHotExperts(CountHits(total_hits, ids),
                                           CountHits(window_hits, ids))
                   ELSE UNCHANGED <<residency, budget>>
            BY <2>1 DEF RecordRouting
        <3>2. MaybePinHotExperts(CountHits(total_hits, ids), CountHits(window_hits, ids))
            BY <3>1, <1>1 DEF PinPass
        <3>3. ids \in Seq(Experts)
            BY CacheAssumption
        <3>4. CountHits(total_hits, ids) \in [Slices -> Nat]
            BY <3>3, <1>1, CountHitsType DEF CacheInv, TypeOK
        <3> QED BY <3>2, <3>4, <1>1, PinPassStep
    <2>2. CASE ~RecordRouting
        <3>1. records' = records
            BY <2>2, <1>1 DEF Next, LoadImatrixPrior, PrefetchExperts,
               PilotPrefetchNextLayer, Compute, OnLayerBoundary, Abort, Finished, vars
        <3> QED BY <3>1, <1>1 DEF PinPass
    <2> QED BY <2>1, <2>2
<1>2. ASSUME CacheInv, OnLayerBoundary, NewPass PROVE Met
    BY <1>2, BoundaryStep
<1>3. CacheInv /\ [Next]_vars
        => [PinPass \/ (OnLayerBoundary /\ NewPass) => Met]_vars
    BY <1>1, <1>2
<1> QED BY <1>3, CacheInvariance, PTL DEF Spec, CeilingMet

-----------------------------------------------------------------------------
(* What a pin pass leaves behind.                                          *)

\* The elements of C that fewer than n elements precede.
Foremost(C, R, n) == {s \in C : Cardinality({r \in C : <<r, s>> \in R}) < n}

\* Taking out of a finite set everything with fewer than n predecessors takes out n
\* elements, or all: the predecessors of the first one that stays are n or more, and
\* they all go.  The argument holds for any transitive, irreflexive order.
LEMMA EnoughEvicted ==
    ASSUME NEW C, IsFiniteSet(C), NEW R \in SUBSET (C \X C), NEW n \in Nat,
           \A a \in C : <<a, a>> \notin R,
           \A a, b, c \in C : <<a, b>> \in R /\ <<b, c>> \in R => <<a, c>> \in R
    PROVE  Foremost(C, R, n) = C \/ Cardinality(Foremost(C, R, n)) >= n
<1> DEFINE pred(s) == {r \in C : <<r, s>> \in R}
           V == {s \in C : Cardinality(pred(s)) < n}
           Ranks == {Cardinality(pred(s)) : s \in C \ V}
<1>1. SUFFICES ASSUME V # C PROVE Cardinality(V) >= n
    BY DEF Foremost
<1>2. ASSUME NEW s \in C
      PROVE  IsFiniteSet(pred(s)) /\ Cardinality(pred(s)) \in Nat
    <2>1. pred(s) \in SUBSET C
        OBVIOUS
    <2> QED BY <2>1, FS_Subset, FS_CardinalityType
<1>3. Ranks \in SUBSET Nat /\ Ranks # {}
    <2>1. C \ V # {}
        BY <1>1
    <2> HIDE DEF pred, V
    <2> QED BY <1>2, <2>1
<1>4. Min(Ranks) \in Ranks /\ \A y \in Ranks : Min(Ranks) <= y
    <2> HIDE DEF Ranks
    <2> QED BY <1>3, LeastNatural
<1>5. PICK s \in C \ V : \A u \in C \ V : Cardinality(pred(s)) <= Cardinality(pred(u))
    <2> HIDE DEF pred, V
    <2>1. PICK s \in C \ V : Min(Ranks) = Cardinality(pred(s))
        BY <1>4
    <2>2. \A u \in C \ V : Cardinality(pred(u)) \in Ranks
        OBVIOUS
    <2> HIDE DEF Ranks
    <2> QED BY <1>4, <2>1, <2>2
<1>6. ASSUME NEW r \in pred(s)
      PROVE  r \in V
    <2>1. r \in C /\ r \notin pred(r) /\ pred(r) \subseteq pred(s)
        OBVIOUS
    <2>2. pred(r) \in SUBSET pred(s) /\ pred(r) # pred(s)
        BY <1>6, <2>1
    <2>3. Cardinality(pred(r)) < Cardinality(pred(s))
        <3>1. IsFiniteSet(pred(s))
            BY <1>2, <1>5
        <3> HIDE DEF pred
        <3>2. Cardinality(pred(r)) <= Cardinality(pred(s))
              /\ (Cardinality(pred(r)) = Cardinality(pred(s)) => pred(r) = pred(s))
            BY <2>2, <3>1, FS_Subset
        <3>3. Cardinality(pred(r)) \in Nat /\ Cardinality(pred(s)) \in Nat
            BY <1>2, <1>5, <2>1
        <3> QED BY <2>2, <3>2, <3>3
    <2>4. Cardinality(pred(r)) \in Nat /\ Cardinality(pred(s)) \in Nat
        BY <1>2, <1>5, <2>1
    <2>5. ~(Cardinality(pred(s)) <= Cardinality(pred(r)))
        <3> HIDE DEF pred
        <3> QED BY <2>3, <2>4
    <2> HIDE DEF pred, V
    <2> QED BY <1>5, <2>1, <2>5
<1>7. Cardinality(pred(s)) >= n
    <2>1. ~(Cardinality(pred(s)) < n)
        BY <1>5
    <2> HIDE DEF pred
    <2> QED BY <1>2, <1>5, <2>1
<1>8. IsFiniteSet(V) /\ Cardinality(V) \in Nat
    <2>1. V \in SUBSET C
        OBVIOUS
    <2> HIDE DEF V
    <2> QED BY <2>1, FS_Subset, FS_CardinalityType
<1>9. Cardinality(pred(s)) <= Cardinality(V)
    <2>1. pred(s) \in SUBSET V
        BY <1>6
    <2> HIDE DEF pred, V
    <2> QED BY <1>8, <2>1, FS_Subset
<1> QED
    <2>1. Cardinality(pred(s)) \in Nat
        BY <1>2, <1>5
    <2> HIDE DEF pred, V
    <2> QED BY <1>7, <1>8, <1>9, <2>1

\* The slices of one tensor.
LEMMA TensorSlices ==
    ASSUME NEW t \in Tensors
    PROVE  /\ SlicesOf(t) \in SUBSET Slices
           /\ \A s \in SlicesOf(t) : s = <<t, s[2]>> /\ s[2] \in Nat
           /\ IsFiniteSet(SlicesOf(t)) /\ Cardinality(SlicesOf(t)) = NumExperts
<1>1. SlicesOf(t) \in SUBSET Slices /\ \A s \in SlicesOf(t) : s = <<t, s[2]>> /\ s[2] \in Nat
    BY DEF SlicesOf, Slices, Experts
<1>2. IsFiniteSet(Experts) /\ Cardinality(Experts) = NumExperts
    <2>1. NumExperts \in Nat /\ NumExperts # 0
        BY CacheAssumption
    <2>2. NumExperts - 1 \in Int /\ 0 <= NumExperts - 1
        BY <2>1
    <2>3. Cardinality(0 .. (NumExperts - 1)) = (NumExperts - 1) - 0 + 1
        BY <2>2, FS_Interval
    <2> QED BY <2>1, <2>2, <2>3, FS_Interval DEF Experts
<1>3. IsFiniteSet({t}) /\ Cardinality({t}) = 1
    BY FS_Singleton
<1>4. IsFiniteSet({t} \X Experts) /\ Cardinality({t} \X Experts) = 1 * NumExperts
    BY <1>2, <1>3, FS_Product
<1>5. NumExperts \in Nat
    BY CacheAssumption
<1> QED BY <1>1, <1>4, <1>5 DEF SlicesOf

\* The order in which evict_to_budget takes the slices of a tensor.
LEMMA EvictionOrder ==
    ASSUME last_used \in [Slices -> Nat], NEW t \in Tensors, NEW C \in SUBSET SlicesOf(t), NEW win
    PROVE  /\ \A a \in C : ~EvictedBefore(win, a, a)
           /\ \A a, b, c \in C : EvictedBefore(win, a, b) /\ EvictedBefore(win, b, c)
                    => EvictedBefore(win, a, c)
<1>1. \A a \in C : last_used[a] \in Nat /\ a[2] \in Nat
    BY TensorSlices
<1>2. ASSUME NEW a \in C
      PROVE  ~EvictedBefore(win, a, a)
    BY <1>1 DEF EvictedBefore
<1>3. ASSUME NEW a \in C, NEW b \in C, NEW c \in C,
             EvictedBefore(win, a, b), EvictedBefore(win, b, c)
      PROVE  EvictedBefore(win, a, c)
    <2>1. last_used[a] \in Nat /\ last_used[b] \in Nat /\ last_used[c] \in Nat
          /\ a[2] \in Nat /\ b[2] \in Nat /\ c[2] \in Nat
        BY <1>1
    <2> QED BY <1>3, <2>1 DEF EvictedBefore
<1> QED BY <1>2, <1>3

\* evict_to_budget brings a tensor within its budget or evicts all it may evict.
LEMMA EvictionMeets ==
    ASSUME last_used \in [Slices -> Nat], NEW t \in Tensors, NEW win,
           NEW ld \in SUBSET Slices, NEW pn \in SUBSET Slices,
           NEW b \in [Tensors -> 1 .. MaxActive]
    PROVE  LET gone == EvictToBudget(t, ld, pn, win, b)
               cands == (ld \ pn) \cap SlicesOf(t)
           IN  \/ gone = cands
               \/ Cardinality(((ld \cup pn) \cap SlicesOf(t)) \ gone) <= b[t]
<1> DEFINE C == (ld \ pn) \cap SlicesOf(t)
           all == (ld \cup pn) \cap SlicesOf(t)
           over == Cardinality(all) - b[t]
           R == {p \in C \X C : EvictedBefore(win, p[1], p[2])}
           V == Foremost(C, R, over)
<1>1. C \in SUBSET SlicesOf(t) /\ all \in SUBSET SlicesOf(t) /\ C \in SUBSET all
    OBVIOUS
<1>2. IsFiniteSet(C) /\ IsFiniteSet(all) /\ Cardinality(all) \in Nat
    <2> HIDE DEF C, all
    <2> QED BY <1>1, TensorSlices, FS_Subset, FS_CardinalityType
<1>3. b[t] \in Nat
    BY CacheAssumption
<1>4. EvictToBudget(t, ld, pn, win, b) = V
    <2>1. \A s \in C : {r \in C : <<r, s>> \in R} = {r \in C : EvictedBefore(win, r, s)}
        OBVIOUS
    <2> QED BY <2>1 DEF EvictToBudget, Foremost
<1>5. V \in SUBSET C
    BY DEF Foremost
<1>6. CASE over < 0
    <2>1. Cardinality(all) <= b[t]
        <3> HIDE DEF all
        <3> QED BY <1>2, <1>3, <1>6
    <2>2. all \ V \in SUBSET all
        OBVIOUS
    <2>3. Cardinality(all \ V) <= Cardinality(all) /\ Cardinality(all \ V) \in Nat
        <3> HIDE DEF all, V
        <3> QED BY <1>2, <2>2, FS_Subset, FS_CardinalityType
    <2>4. Cardinality(all \ V) <= b[t]
        <3> HIDE DEF all, V
        <3> QED BY <1>2, <1>3, <2>1, <2>3
    <2> QED BY <1>4, <2>4
<1>7. CASE over >= 0
    <2>1. over \in Nat
        <3> HIDE DEF all
        <3> QED BY <1>2, <1>3, <1>7
    <2>2. /\ R \in SUBSET (C \X C)
          /\ \A a \in C : <<a, a>> \notin R
          /\ \A x, y, z \in C : <<x, y>> \in R /\ <<y, z>> \in R => <<x, z>> \in R
        <3>1. \A x, y \in C : <<x, y>> \in R <=> EvictedBefore(win, x, y)
            OBVIOUS
        <3>2. R \in SUBSET (C \X C)
            OBVIOUS
        <3> HIDE DEF R, C
        <3> QED BY <1>1, <3>1, <3>2, EvictionOrder
    <2>3. V = C \/ Cardinality(V) >= over
        <3> HIDE DEF R, C, over
        <3> QED BY <1>2, <2>1, <2>2, EnoughEvicted
    <2>4. CASE Cardinality(V) >= over
        <3>1. V \in SUBSET all
            BY <1>5
        <3>2. Cardinality(all \ V) = Cardinality(all) - Cardinality(all \cap V)
            <4> HIDE DEF all, V
            <4> QED BY <1>2, FS_Difference
        <3>3. all \cap V = V /\ Cardinality(V) \in Nat
            <4>1. all \cap V = V
                BY <3>1
            <4> HIDE DEF all, V
            <4> QED BY <1>2, <3>1, <4>1, FS_Subset, FS_CardinalityType
        <3>4. Cardinality(all \ V) <= b[t]
            <4>1. /\ Cardinality(all \ V) = Cardinality(all) - Cardinality(V)
                  /\ Cardinality(V) >= Cardinality(all) - b[t]
                BY <2>4, <3>2, <3>3
            <4>2. Cardinality(all) \in Nat /\ Cardinality(V) \in Nat /\ b[t] \in Nat
                <5> HIDE DEF all, V
                <5> QED BY <1>2, <1>3, <3>3
            <4> HIDE DEF all, V, C, R, over
            <4> QED BY <4>1, <4>2
        <3> QED BY <1>4, <3>4
    <2> QED BY <1>4, <2>3, <2>4
<1>8. over < 0 \/ over >= 0
    <2> HIDE DEF all
    <2> QED BY <1>2, <1>3
<1> QED BY <1>6, <1>7, <1>8

\* Once the pins fill the budget of a tensor, everything else of it goes.
LEMMA FullPinsEvictAll ==
    ASSUME last_used \in [Slices -> Nat], NEW t \in Tensors, NEW win,
           NEW ld \in SUBSET Slices, NEW pn \in SUBSET Slices,
           NEW b \in [Tensors -> 1 .. MaxActive],
           Cardinality(pn \cap SlicesOf(t)) >= b[t]
    PROVE  EvictToBudget(t, ld, pn, win, b) = (ld \ pn) \cap SlicesOf(t)
<1> DEFINE C == (ld \ pn) \cap SlicesOf(t)
           P == pn \cap SlicesOf(t)
           all == (ld \cup pn) \cap SlicesOf(t)
           over == Cardinality(all) - b[t]
           pred(s) == {r \in C : EvictedBefore(win, r, s)}
<1>1. C \in SUBSET SlicesOf(t) /\ P \in SUBSET SlicesOf(t) /\ all = C \cup P /\ C \cap P = {}
    OBVIOUS
<1>2. EvictToBudget(t, ld, pn, win, b) = {s \in C : Cardinality(pred(s)) < over}
    BY DEF EvictToBudget
<1>3. b[t] \in Nat /\ Cardinality(P) >= b[t]
    BY CacheAssumption
<1> HIDE DEF C, P, all
<1>4. /\ IsFiniteSet(C) /\ Cardinality(C) \in Nat
      /\ IsFiniteSet(P) /\ Cardinality(P) \in Nat
    BY <1>1, TensorSlices, FS_Subset, FS_CardinalityType
<1>5. Cardinality(all) = Cardinality(C) + Cardinality(P)
    <2>1. Cardinality(C \cup P) = Cardinality(C) + Cardinality(P) - Cardinality(C \cap P)
        BY <1>4, FS_Union
    <2>2. Cardinality(C \cap P) = 0
        BY <1>1, FS_EmptySet
    <2> QED BY <1>1, <1>4, <2>1, <2>2
<1>6. over >= Cardinality(C)
    BY <1>3, <1>4, <1>5
<1>7. ASSUME NEW s \in C
      PROVE  Cardinality(pred(s)) < over
    <2>1. pred(s) \in SUBSET C /\ s \notin pred(s)
        BY <1>1, EvictionOrder
    <2>2. pred(s) # C
        BY <2>1
    <2> HIDE DEF pred
    <2>3. /\ Cardinality(pred(s)) \in Nat /\ Cardinality(pred(s)) <= Cardinality(C)
          /\ Cardinality(pred(s)) = Cardinality(C) => pred(s) = C
        BY <1>4, <2>1, FS_Subset, FS_CardinalityType
    <2>4. Cardinality(pred(s)) < Cardinality(C)
        BY <1>4, <2>2, <2>3
    <2>5. over \in Int
        BY <1>3, <1>4, <1>5
    <2> HIDE DEF over
    <2> QED BY <1>4, <1>6, <2>3, <2>4, <2>5
<1>8. {s \in C : Cardinality(pred(s)) < over} = C
    <2> HIDE DEF pred, over
    <2> QED BY <1>7
<1> QED BY <1>2, <1>8 DEF C

\* A slice with hits that the ranking leaves unpinned ranks behind a budget of
\* others, which all have hits and are pinned.
LEMMA PinsFillBudget ==
    ASSUME NEW win \in [Slices -> Nat], NEW b \in [Tensors -> 1 .. MaxActive],
           NEW top \in PinSets(win, b), NEW pn \in SUBSET Slices, top \subseteq pn,
           NEW t \in Tensors, NEW s \in SlicesOf(t), s \notin pn, win[s] > 0
    PROVE  Cardinality(pn \cap SlicesOf(t)) >= b[t]
<1>1. PICK H \in TopRanked(win, b) : top = {h \in H : win[h] > 0}
    BY DEF PinSets
<1> DEFINE T == H \cap SlicesOf(t)
           P == pn \cap SlicesOf(t)
<1>2. /\ H \in SUBSET Slices
      /\ Cardinality(T) = Min({b[t], NumExperts})
      /\ \A h \in T, r \in SlicesOf(t) \ H : win[h] >= win[r]
    BY <1>1 DEF TopRanked
<1>3. s \notin H
    BY <1>1
<1>4. T \in SUBSET P
    <2>1. SUFFICES ASSUME NEW h \in T PROVE h \in pn
        OBVIOUS
    <2>2. h \in H /\ h \in Slices /\ s \in Slices /\ win[h] >= win[s]
        BY <1>2, <1>3, TensorSlices
    <2>3. win[h] > 0
        BY <2>2
    <2> QED BY <1>1, <2>2, <2>3
<1>5. T \in SUBSET SlicesOf(t) /\ P \in SUBSET SlicesOf(t) /\ T # SlicesOf(t)
    BY <1>3
<1> HIDE DEF T, P
<1>6. b[t] \in Nat /\ NumExperts \in Nat
    BY CacheAssumption
<1>7. Cardinality(T) \in Nat /\ Cardinality(T) # NumExperts
    <2>1. IsFiniteSet(SlicesOf(t)) /\ Cardinality(SlicesOf(t)) = NumExperts
        BY TensorSlices
    <2> QED BY <1>5, <2>1, FS_Subset, FS_CardinalityType
<1>8. Min({b[t], NumExperts}) \in {b[t], NumExperts}
    <2>1. {b[t], NumExperts} \in SUBSET Nat /\ {b[t], NumExperts} # {}
        BY <1>6
    <2> QED BY <2>1, LeastNatural
<1>9. Cardinality(T) = b[t]
    BY <1>2, <1>7, <1>8
<1>10. Cardinality(T) <= Cardinality(P) /\ Cardinality(P) \in Nat
    <2>1. IsFiniteSet(P)
        BY <1>5, TensorSlices, FS_Subset
    <2> QED BY <1>4, <2>1, FS_Subset, FS_CardinalityType
<1> QED BY <1>6, <1>9, <1>10 DEF P

\* What a pin pass does with budgets b and a ranking top: new pins, evictions to the
\* budgets, then the cut of the ceiling, which only takes more away.
PinPassResult(b, top) ==
    LET pn == pinned \cup (top \ pinned)
        ld == loaded \cup (top \ pinned)
    IN  /\ window_hits' \in [Slices -> Nat]
        /\ budget' = b
        /\ ld \in SUBSET Slices /\ pn \in SUBSET Slices
        /\ pinned' = pn
        /\ \E V, cut : /\ V = UNION {EvictToBudget(t, ld, pn, window_hits', b) : t \in Tensors}
                       /\ loaded' = (ld \ V) \ cut

\* Every step that counts as a pin pass has that result.
LEMMA PinPassShape ==
    ASSUME CacheInv, Next, PinPass
    PROVE  \E b \in [Tensors -> 1 .. MaxActive] :
                \E top \in PinSets(window_hits', b) : PinPassResult(b, top)
<1>1. RecordRouting
    <2>1. CASE ~RecordRouting
        <3>1. records' = records
            BY <2>1 DEF Next, LoadImatrixPrior, PrefetchExperts,
               PilotPrefetchNextLayer, Compute, OnLayerBoundary, Abort, Finished, vars
        <3> QED BY <3>1 DEF PinPass
    <2> QED BY <2>1
<1>2. PICK ids \in Routings :
        /\ records' = records + 1
        /\ window_hits' = CountHits(window_hits, ids)
        /\ IF PinDue(records + 1)
           THEN MaybePinHotExperts(CountHits(total_hits, ids), CountHits(window_hits, ids))
           ELSE UNCHANGED <<residency, budget>>
    BY <1>1 DEF RecordRouting
<1>3. ids \in Seq(Experts)
    BY CacheAssumption
<1>4. window_hits' \in [Slices -> Nat] /\ CountHits(total_hits, ids) \in [Slices -> Nat]
    BY <1>2, <1>3, CountHitsType DEF CacheInv, TypeOK
<1>5. MaybePinHotExperts(CountHits(total_hits, ids), window_hits')
    BY <1>2 DEF PinPass
<1> DEFINE b == RecomputeBudgets(CountHits(total_hits, ids))
           pn(top) == pinned \cup (top \ pinned)
           ld(top) == loaded \cup (top \ pinned)
           V(top) == UNION {EvictToBudget(t, ld(top), pn(top), window_hits', b) : t \in Tensors}
<1>6. b \in [Tensors -> 1 .. MaxActive] /\ budget' = b
    BY <1>4, <1>5, BudgetsType DEF MaybePinHotExperts
<1>7. PICK top \in PinSets(window_hits', b) :
        \E cut \in CeilingCuts(ld(top) \ V(top),
                               resident_bytes + SizeOf((top \ pinned) \ loaded) - SizeOf(V(top))) :
            /\ pinned' = pn(top)
            /\ loaded' = (ld(top) \ V(top)) \ cut
    BY <1>5 DEF MaybePinHotExperts
<1>8. top \in SUBSET Slices /\ loaded \in SUBSET Slices /\ pinned \in SUBSET Slices
    BY PinSetsType DEF CacheInv, TypeOK
<1>9. ld(top) \in SUBSET Slices /\ pn(top) \in SUBSET Slices
    BY <1>8
<1> HIDE DEF b
<1>10. pinned' = pn(top) /\ \E W, cut : W = V(top) /\ loaded' = (ld(top) \ W) \ cut
    BY <1>7, Zenon
<1>11. PinPassResult(b, top)
    BY <1>4, <1>6, <1>9, <1>10, Zenon DEF PinPassResult
<1> QED BY <1>6, <1>11, Zenon

\* A pin pass leaves a tensor over its budget only if all that is left are pins:
\* evict_to_budget never stops early.
THEOREM BudgetAlwaysMet == Spec => BudgetMetOrAllPinned
<1> DEFINE Met(t) == \/ Cardinality((loaded' \cup pinned') \cap SlicesOf(t)) <= budget'[t]
                     \/ (loaded' \ pinned') \cap SlicesOf(t) = {}
<1>1. ASSUME CacheInv, Next, PinPass, NEW t \in Tensors
      PROVE  Met(t)
    <2>1. PICK b \in [Tensors -> 1 .. MaxActive] :
                \E top \in PinSets(window_hits', b) : PinPassResult(b, top)
        BY <1>1, PinPassShape
    <2>2. PICK top \in PinSets(window_hits', b) : PinPassResult(b, top)
        BY <2>1
    <2> DEFINE pn == pinned \cup (top \ pinned)
               ld == loaded \cup (top \ pinned)
               gone(u) == EvictToBudget(u, ld, pn, window_hits', b)
               all == (ld \cup pn) \cap SlicesOf(t)
               left == (loaded' \cup pinned') \cap SlicesOf(t)
    <2>3. PICK V, cut : V = UNION {gone(u) : u \in Tensors} /\ loaded' = (ld \ V) \ cut
        BY <2>2 DEF PinPassResult
    <2>4. /\ window_hits' \in [Slices -> Nat]
          /\ budget' = b
          /\ ld \in SUBSET Slices /\ pn \in SUBSET Slices /\ pinned' = pn
        BY <2>2 DEF PinPassResult
    <2> HIDE DEF pn, ld
    <2>5. gone(t) \subseteq V /\ gone(t) \cap pn = {}
        BY <2>3 DEF EvictToBudget
    <2>6. last_used \in [Slices -> Nat]
        BY <1>1 DEF CacheInv, TypeOK
    <2>7. gone(t) = (ld \ pn) \cap SlicesOf(t) \/ Cardinality(all \ gone(t)) <= b[t]
        BY <2>4, <2>6, EvictionMeets
    <2>8. CASE gone(t) = (ld \ pn) \cap SlicesOf(t)
        <3> HIDE DEF gone
        <3> QED BY <2>3, <2>4, <2>5, <2>8
    <2>9. CASE Cardinality(all \ gone(t)) <= b[t]
        <3>1. left \in SUBSET (all \ gone(t)) /\ all \ gone(t) \in SUBSET SlicesOf(t)
            <4> HIDE DEF gone
            <4> QED BY <2>3, <2>4, <2>5
        <3> DEFINE rest == all \ gone(t)
        <3>2. left \in SUBSET rest /\ rest \in SUBSET SlicesOf(t) /\ Cardinality(rest) <= b[t]
            BY <2>9, <3>1
        <3> HIDE DEF rest, left
        <3>3. IsFiniteSet(rest) /\ Cardinality(rest) \in Nat
            BY <3>2, TensorSlices, FS_Subset, FS_CardinalityType
        <3>4. Cardinality(left) <= Cardinality(rest) /\ Cardinality(left) \in Nat
            BY <3>2, <3>3, FS_Subset, FS_CardinalityType
        <3>5. b[t] \in Nat /\ budget'[t] = b[t]
            BY <2>4, CacheAssumption
        <3>6. Cardinality(left) <= budget'[t]
            BY <3>2, <3>3, <3>4, <3>5
        <3> QED BY <3>6 DEF left
    <2> QED BY <2>7, <2>8, <2>9
<1>2. CacheInv /\ [Next]_vars => [PinPass => \A t \in Tensors : Met(t)]_vars
    BY <1>1
<1> QED BY <1>2, CacheInvariance, PTL DEF Spec, BudgetMetOrAllPinned

\* After a pin pass a slice that is loaded and unpinned has never been routed to: the
\* hot-first order of evict_to_budget has nothing to decide.
THEOREM WarmSurvivorsNever == Spec => WarmSurvivorsUnused
<1>1. ASSUME CacheInv, Next, PinPass, NEW s \in loaded' \ pinned'
      PROVE  window_hits'[s] = 0
    <2>1. PICK b \in [Tensors -> 1 .. MaxActive] :
                \E top \in PinSets(window_hits', b) : PinPassResult(b, top)
        BY <1>1, PinPassShape
    <2>2. PICK top \in PinSets(window_hits', b) : PinPassResult(b, top)
        BY <2>1
    <2> DEFINE pn == pinned \cup (top \ pinned)
               ld == loaded \cup (top \ pinned)
               gone(u) == EvictToBudget(u, ld, pn, window_hits', b)
    <2>3. PICK V, cut : V = UNION {gone(u) : u \in Tensors} /\ loaded' = (ld \ V) \ cut
        BY <2>2 DEF PinPassResult
    <2>4. /\ window_hits' \in [Slices -> Nat]
          /\ budget' = b
          /\ ld \in SUBSET Slices /\ pn \in SUBSET Slices /\ pinned' = pn /\ top \subseteq pn
        BY <2>2 DEF PinPassResult
    <2> HIDE DEF pn, ld
    <2>5. s \in ld /\ s \notin pn /\ s \notin V /\ s \in Slices
        BY <1>1, <2>3, <2>4
    <2>6. PICK t \in Tensors : s \in SlicesOf(t)
        BY <2>5 DEF Slices, SlicesOf
    <2>7. last_used \in [Slices -> Nat]
        BY <1>1 DEF CacheInv, TypeOK
    <2>8. SUFFICES ASSUME window_hits'[s] > 0 PROVE FALSE
        BY <2>4, <2>5
    <2>9. Cardinality(pn \cap SlicesOf(t)) >= b[t]
        BY <2>4, <2>5, <2>6, <2>8, PinsFillBudget
    <2>10. gone(t) = (ld \ pn) \cap SlicesOf(t)
        BY <2>4, <2>7, <2>9, FullPinsEvictAll
    <2>11. s \in gone(t)
        BY <2>5, <2>6, <2>10
    <2> HIDE DEF gone
    <2> QED BY <2>3, <2>5, <2>11
<1>2. CacheInv /\ [Next]_vars
        => [PinPass => \A s \in loaded' \ pinned' : window_hits'[s] = 0]_vars
    BY <1>1
<1> QED BY <1>2, CacheInvariance, PTL DEF Spec, WarmSurvivorsUnused

=============================================================================
