-------------------------- MODULE ExpertReadsProofs --------------------------
(* HerdCache keeps its map and its list in step and its limit, and reads   *)
(* that have the file offset to themselves are right, for any keys,        *)
(* limits, router outputs, files and clients.                              *)
EXTENDS ExpertReads, NaturalExtrema, SequenceTheorems

-----------------------------------------------------------------------------
(* Lists without duplicates.                                               *)

Distinct(s) == \A i, j \in DOMAIN s : s[i] = s[j] => i = j

\* A list without duplicates is as long as the set of its entries is large.
LEMMA DistinctCount ==
    ASSUME NEW S, NEW s \in Seq(S), Distinct(s)
    PROVE  IsFiniteSet(ToSet(s)) /\ Cardinality(ToSet(s)) = Len(s)
<1>1. Len(s) \in Nat /\ DOMAIN s = 1 .. Len(s)
    OBVIOUS
<1>2. s \in Bijection(1 .. Len(s), ToSet(s))
    <2>1. s \in [1 .. Len(s) -> ToSet(s)]
        BY <1>1 DEF ToSet
    <2>2. \A a, b \in 1 .. Len(s) : s[a] = s[b] => a = b
        BY <1>1 DEF Distinct
    <2>3. \A t \in ToSet(s) : \E a \in 1 .. Len(s) : s[a] = t
        BY <1>1 DEF ToSet
    <2> QED BY <2>1, <2>2, <2>3 DEF Bijection, Injection, Surjection, IsInjective
<1>3. ExistsBijection(1 .. Len(s), ToSet(s))
    BY <1>2 DEF ExistsBijection
<1> QED BY <1>1, <1>3, FS_CountingElements, FS_NatBijection

\* Taking entries off the front takes exactly them out of the set.
LEMMA DropFront ==
    ASSUME NEW S, NEW s \in Seq(S), Distinct(s), NEW n \in 0 .. Len(s)
    PROVE  LET r == SubSeq(s, n + 1, Len(s))
           IN  /\ r \in Seq(S) /\ Len(r) = Len(s) - n
               /\ \A i \in 1 .. Len(r) : r[i] = s[n + i]
               /\ Distinct(r)
               /\ ToSet(r) = ToSet(s) \ ToSet(SubSeq(s, 1, n))
<1> DEFINE r == SubSeq(s, n + 1, Len(s))
           p == SubSeq(s, 1, n)
<1>1. Len(s) \in Nat /\ DOMAIN s = 1 .. Len(s) /\ \A i \in 1 .. Len(s) : s[i] \in S
    OBVIOUS
<1>2. /\ r \in Seq(S)
      /\ Len(r) = Len(s) - n
      /\ \A i \in 1 .. Len(r) : r[i] = s[n + i]
    <2>1. n + 1 \in Int /\ Len(s) \in Int /\ \A i \in (n + 1) .. Len(s) : s[i] \in S
        BY <1>1
    <2>2. /\ r \in Seq(S)
          /\ Len(r) = IF n + 1 <= Len(s) THEN Len(s) - (n + 1) + 1 ELSE 0
          /\ \A i \in 1 .. Len(s) - (n + 1) + 1 : r[i] = s[(n + 1) + i - 1]
        BY <2>1, SubSeqProperties
    <2> HIDE DEF r
    <2>3. Len(r) = Len(s) - n
        <3>1. \A l \in Nat : \A k \in 0 .. l :
                  (IF k + 1 <= l THEN l - (k + 1) + 1 ELSE 0) = l - k
            OBVIOUS
        <3> QED BY <1>1, <2>2, <3>1
    <2>4. ASSUME NEW i \in 1 .. Len(r) PROVE r[i] = s[n + i]
        <3>1. i \in 1 .. Len(s) - (n + 1) + 1 /\ (n + 1) + i - 1 = n + i
            BY <1>1, <2>3
        <3> QED BY <2>2, <3>1
    <2> QED BY <2>2, <2>3, <2>4
<1>3. /\ p \in Seq(S)
      /\ Len(p) = n
      /\ \A i \in 1 .. n : p[i] = s[i]
    BY <1>1, SubSeqProperties
<1> HIDE DEF r, p
<1>4. DOMAIN r = 1 .. Len(r) /\ DOMAIN p = 1 .. n /\ Len(r) \in Nat
    BY <1>2, <1>3
<1>5. Distinct(r)
    <2>1. SUFFICES ASSUME NEW i \in 1 .. Len(r), NEW j \in 1 .. Len(r), r[i] = r[j]
                   PROVE  i = j
        BY <1>4 DEF Distinct
    <2>2. n + i \in 1 .. Len(s) /\ n + j \in 1 .. Len(s) /\ s[n + i] = s[n + j]
        BY <1>1, <1>2, <2>1
    <2>3. n + i = n + j
        BY <1>1, <2>2 DEF Distinct
    <2> QED BY <2>3
<1>6. ToSet(r) \subseteq ToSet(s) \ ToSet(p)
    <2>1. SUFFICES ASSUME NEW i \in 1 .. Len(r) PROVE r[i] \in ToSet(s) \ ToSet(p)
        BY <1>4 DEF ToSet
    <2>2. n + i \in 1 .. Len(s) /\ r[i] = s[n + i]
        BY <1>1, <1>2
    <2>3. \A j \in 1 .. n : p[j] # r[i]
        BY <1>1, <1>3, <2>2 DEF Distinct
    <2> QED BY <1>1, <1>4, <2>2, <2>3 DEF ToSet
<1>7. ToSet(s) \ ToSet(p) \subseteq ToSet(r)
    <2>1. SUFFICES ASSUME NEW i \in 1 .. Len(s), s[i] \notin ToSet(p) PROVE s[i] \in ToSet(r)
        BY <1>1 DEF ToSet
    <2>2. ~(i <= n)
        BY <1>3, <1>4, <2>1 DEF ToSet
    <2>3. i - n \in 1 .. Len(r) /\ n + (i - n) = i
        BY <1>1, <1>2, <2>2
    <2>4. r[i - n] = s[i]
        BY <1>2, <2>3
    <2> QED BY <1>4, <2>3, <2>4 DEF ToSet
<1> QED BY <1>2, <1>5, <1>6, <1>7 DEF r, p

\* erase(find(key)) takes exactly that key out.
LEMMA RemoveKey ==
    ASSUME NEW S, NEW s \in Seq(S), Distinct(s), NEW e
    PROVE  LET r == RemoveFirst(s, e)
           IN  /\ r \in Seq(S) /\ Distinct(r)
               /\ ToSet(r) = ToSet(s) \ {e}
               /\ e \notin ToSet(s) => r = s
<1>1. Len(s) \in Nat /\ DOMAIN s = 1 .. Len(s) /\ \A i \in 1 .. Len(s) : s[i] \in S
    OBVIOUS
<1>2. CASE e \notin ToSet(s)
    <2>1. \A i \in 1 .. Len(s) : s[i] # e
        BY <1>1, <1>2 DEF ToSet
    <2> QED BY <1>2, <2>1 DEF RemoveFirst
<1>3. CASE e \in ToSet(s)
    <2> DEFINE I == {i \in 1 .. Len(s) : s[i] = e}
               k == Min(I)
    <2>1. \E i \in 1 .. Len(s) : s[i] = e
        BY <1>1, <1>3 DEF ToSet
    <2>2. I \in SUBSET Nat /\ I # {}
        BY <1>1, <2>1
    <2>3. k \in 1 .. Len(s) /\ s[k] = e
        BY <2>2, LeastNatural
    <2> DEFINE a == SubSeq(s, 1, k - 1)
               b == SubSeq(s, k + 1, Len(s))
               r == a \o b
    <2>4. RemoveFirst(s, e) = r
        BY <2>1, <2>2 DEF RemoveFirst, RemoveAt, SelectInSeq
    <2> HIDE DEF k
    <2>5. a \in Seq(S) /\ Len(a) = k - 1 /\ \A i \in 1 .. (k - 1) : a[i] = s[i]
        BY <1>1, <2>3, SubSeqProperties
    <2>6. b \in Seq(S) /\ Len(b) = Len(s) - k /\ \A i \in 1 .. Len(b) : b[i] = s[k + i]
        <3>1. k \in 0 .. Len(s)
            BY <1>1, <2>3
        <3> QED BY <3>1, DropFront
    <2>7. r \in Seq(S) /\ Len(r) = Len(a) + Len(b)
          /\ \A i \in 1 .. Len(a) + Len(b) : r[i] = IF i <= Len(a) THEN a[i] ELSE b[i - Len(a)]
        BY <2>5, <2>6, ConcatProperties
    <2> HIDE DEF a, b, r
    <2> DEFINE at(i) == IF i < k THEN i ELSE i + 1
    <2>8. Len(r) = Len(s) - 1 /\ DOMAIN r = 1 .. (Len(s) - 1)
        <3>1. Len(r) = Len(s) - 1
            BY <1>1, <2>3, <2>5, <2>6, <2>7
        <3> QED BY <2>7, <3>1
    <2>9. ASSUME NEW i \in 1 .. (Len(s) - 1)
          PROVE  at(i) \in 1 .. Len(s) /\ at(i) # k /\ r[i] = s[at(i)]
        <3>1. at(i) \in 1 .. Len(s) /\ at(i) # k
            BY <1>1, <2>3
        <3>2. CASE i < k
            <4>1. i \in 1 .. (k - 1) /\ i <= Len(a) /\ i \in 1 .. Len(a) + Len(b)
                BY <1>1, <2>3, <2>5, <2>6, <3>2
            <4> QED BY <2>5, <2>7, <3>1, <3>2, <4>1
        <3>3. CASE ~(i < k)
            <4>1. /\ i \in 1 .. Len(a) + Len(b) /\ ~(i <= Len(a))
                  /\ i - Len(a) \in 1 .. Len(b) /\ k + (i - Len(a)) = i + 1
                BY <1>1, <2>3, <2>5, <2>6, <3>3
            <4>2. r[i] = b[i - Len(a)] /\ b[i - Len(a)] = s[i + 1]
                BY <2>6, <2>7, <4>1
            <4> QED BY <3>1, <3>3, <4>2
        <3> QED BY <3>2, <3>3
    <2>10. Distinct(r)
        <3>1. SUFFICES ASSUME NEW i \in 1 .. (Len(s) - 1), NEW j \in 1 .. (Len(s) - 1),
                              r[i] = r[j]
                       PROVE  i = j
            BY <2>8 DEF Distinct
        <3>2. at(i) \in 1 .. Len(s) /\ at(j) \in 1 .. Len(s) /\ s[at(i)] = s[at(j)]
            BY <2>9, <3>1
        <3>3. at(i) = at(j)
            BY <1>1, <3>2 DEF Distinct
        <3> QED BY <1>1, <2>3, <3>3
    <2>11. ToSet(r) \subseteq ToSet(s) \ {e}
        <3>1. SUFFICES ASSUME NEW i \in 1 .. (Len(s) - 1) PROVE r[i] \in ToSet(s) \ {e}
            BY <2>8 DEF ToSet
        <3>2. at(i) \in 1 .. Len(s) /\ at(i) # k /\ r[i] = s[at(i)]
            BY <2>9
        <3>3. s[at(i)] # e
            BY <1>1, <2>3, <3>2 DEF Distinct
        <3> QED BY <1>1, <3>2, <3>3 DEF ToSet
    <2>12. ToSet(s) \ {e} \subseteq ToSet(r)
        <3>1. SUFFICES ASSUME NEW j \in 1 .. Len(s), s[j] # e PROVE s[j] \in ToSet(r)
            BY <1>1 DEF ToSet
        <3>2. j # k
            BY <2>3, <3>1
        <3>3. PICK i \in 1 .. (Len(s) - 1) : at(i) = j
            <4>1. CASE j < k
                BY <1>1, <2>3, <4>1
            <4>2. CASE j > k
                <5>1. j - 1 \in 1 .. (Len(s) - 1) /\ at(j - 1) = j
                    BY <1>1, <2>3, <4>2
                <5> QED BY <5>1
            <4> QED BY <1>1, <2>3, <3>2, <4>1, <4>2
        <3>4. r[i] = s[j]
            BY <2>9, <3>3
        <3> QED BY <2>8, <3>4 DEF ToSet
    <2> QED BY <1>3, <2>4, <2>7, <2>10, <2>11, <2>12
<1> QED BY <1>2, <1>3

\* push_back adds the key, and nothing twice.
LEMMA UpdateKey ==
    ASSUME NEW S, NEW s \in Seq(S), Distinct(s), NEW key \in S
    PROVE  LET u == UpdateLru(s, key)
           IN  /\ u \in Seq(S) /\ Distinct(u)
               /\ ToSet(u) = ToSet(s) \cup {key}
               /\ key \notin ToSet(s) => u = Append(s, key)
<1> DEFINE r == RemoveFirst(s, key)
           u == Append(r, key)
<1>1. /\ r \in Seq(S) /\ Distinct(r)
      /\ ToSet(r) = ToSet(s) \ {key}
      /\ key \notin ToSet(s) => r = s
    BY RemoveKey
<1>2. UpdateLru(s, key) = u
    BY DEF UpdateLru
<1> HIDE DEF r
<1>3. /\ u \in Seq(S) /\ Len(u) = Len(r) + 1 /\ Len(r) \in Nat
      /\ DOMAIN u = 1 .. (Len(r) + 1) /\ DOMAIN r = 1 .. Len(r)
      /\ \A i \in 1 .. Len(r) : u[i] = r[i]
      /\ u[Len(r) + 1] = key
    BY <1>1, AppendProperties
<1>4. \A i \in 1 .. Len(r) : r[i] # key
    BY <1>1, <1>3 DEF ToSet
<1> HIDE DEF u
<1>5. Distinct(u)
    <2>1. SUFFICES ASSUME NEW i \in 1 .. (Len(r) + 1), NEW j \in 1 .. (Len(r) + 1), u[i] = u[j]
                   PROVE  i = j
        BY <1>3 DEF Distinct
    <2>2. CASE i \in 1 .. Len(r) /\ j \in 1 .. Len(r)
        BY <1>1, <1>3, <2>1, <2>2 DEF Distinct
    <2>3. CASE i = Len(r) + 1 /\ j = Len(r) + 1
        BY <2>3
    <2>4. CASE i \in 1 .. Len(r) /\ j = Len(r) + 1
        BY <1>3, <1>4, <2>1, <2>4
    <2>5. CASE i = Len(r) + 1 /\ j \in 1 .. Len(r)
        BY <1>3, <1>4, <2>1, <2>5
    <2> QED BY <1>3, <2>2, <2>3, <2>4, <2>5
<1>6. ToSet(u) = ToSet(r) \cup {key}
    <2>1. \A i \in 1 .. (Len(r) + 1) : i \in 1 .. Len(r) \/ i = Len(r) + 1
        BY <1>3
    <2>2. 1 .. Len(r) \subseteq 1 .. (Len(r) + 1) /\ Len(r) + 1 \in 1 .. (Len(r) + 1)
        BY <1>3
    <2>3. ToSet(u) \subseteq ToSet(r) \cup {key}
        BY <1>3, <2>1 DEF ToSet
    <2>4. ToSet(r) \cup {key} \subseteq ToSet(u)
        BY <1>3, <2>2 DEF ToSet
    <2> QED BY <2>3, <2>4
<1>7. ToSet(u) = ToSet(s) \cup {key}
    BY <1>1, <1>6
<1>8. key \notin ToSet(s) => u = Append(s, key)
    BY <1>1 DEF u
<1> QED BY <1>2, <1>3, <1>5, <1>7, <1>8

-----------------------------------------------------------------------------
(* HerdCache.                                                              *)

\* The list has the keys of the map, each once.
HerdInv ==
    /\ HerdTypeOK
    /\ Distinct(lru)
    /\ ToSet(lru) = active

\* List and map agree in number too.
LEMMA HerdCount ==
    ASSUME HerdInv
    PROVE  /\ ListMatchesMap
           /\ IsFiniteSet(active)
           /\ Len(lru) \in Nat
BY DistinctCount DEF HerdInv, HerdTypeOK, ListMatchesMap

\* Where evict_if_needed stops: there is room for one slot, or nothing is left; and
\* it has not taken one entry more than that.
LEMMA EvictionStops ==
    ASSUME HerdInv
    PROVE  /\ EvictCount \in 0 .. Len(lru)
           /\ Remaining \in Seq(Keys) /\ Distinct(Remaining)
           /\ ToSet(Remaining) = active \ Evicted
           /\ Len(Remaining) = Len(lru) - EvictCount
           /\ \A i \in 1 .. Len(Remaining) : Remaining[i] = lru[EvictCount + i]
           /\ Len(Remaining) < max_active \/ Len(Remaining) = 0
           /\ EvictCount > 0 => Len(Remaining) + 1 >= max_active
<1> DEFINE left(n) == Cardinality(active \ ToSet(SubSeq(lru, 1, n)))
           C == {n \in 0 .. Len(lru) : left(n) < max_active \/ n = Len(lru)}
<1>1. Len(lru) \in Nat /\ max_active \in Nat /\ lru \in Seq(Keys) /\ Distinct(lru)
    BY HerdCount, HerdAssumption DEF HerdInv, HerdTypeOK
<1>2. ASSUME NEW n \in 0 .. Len(lru)
      PROVE  left(n) = Len(lru) - n
    <2> DEFINE r == SubSeq(lru, n + 1, Len(lru))
    <2>1. /\ r \in Seq(Keys) /\ Len(r) = Len(lru) - n /\ Distinct(r)
          /\ ToSet(r) = active \ ToSet(SubSeq(lru, 1, n))
        BY <1>1, DropFront DEF HerdInv
    <2> HIDE DEF r
    <2>2. Cardinality(ToSet(r)) = Len(r)
        BY <2>1, DistinctCount
    <2> QED BY <2>1, <2>2
<1>3. C \in SUBSET Nat /\ Len(lru) \in C
    BY <1>1
<1>4. EvictCount \in C /\ \A n \in C : EvictCount <= n
    <2>1. Min(C) \in C /\ \A n \in C : Min(C) <= n
        BY <1>3, LeastNatural
    <2> QED BY <2>1 DEF EvictCount
<1>5. EvictCount \in 0 .. Len(lru)
    BY <1>4
<1>6. /\ Remaining \in Seq(Keys) /\ Distinct(Remaining)
      /\ ToSet(Remaining) = active \ Evicted
      /\ Len(Remaining) = Len(lru) - EvictCount
      /\ \A i \in 1 .. Len(Remaining) : Remaining[i] = lru[EvictCount + i]
    <2> DEFINE rest == SubSeq(lru, EvictCount + 1, Len(lru))
    <2>1. /\ rest \in Seq(Keys) /\ Len(rest) = Len(lru) - EvictCount
          /\ \A i \in 1 .. Len(rest) : rest[i] = lru[EvictCount + i]
          /\ Distinct(rest)
          /\ ToSet(rest) = ToSet(lru) \ ToSet(SubSeq(lru, 1, EvictCount))
        <3> HIDE DEF C, left
        <3> QED BY <1>1, <1>5, DropFront DEF HerdInv
    <2>2. Remaining = rest /\ Evicted = ToSet(SubSeq(lru, 1, EvictCount))
        BY DEF Remaining, Evicted
    <2>3. ToSet(lru) = active
        BY DEF HerdInv
    <2> HIDE DEF rest, C, left
    <2> QED BY <2>1, <2>2, <2>3, Zenon
<1>7. left(EvictCount) = Len(Remaining)
    BY <1>2, <1>5, <1>6
<1>8. Len(Remaining) < max_active \/ Len(Remaining) = 0
    BY <1>1, <1>4, <1>6, <1>7
<1>9. ASSUME EvictCount > 0
      PROVE  Len(Remaining) + 1 >= max_active
    <2>1. EvictCount - 1 \in 0 .. Len(lru) /\ EvictCount - 1 # Len(lru)
        BY <1>1, <1>5, <1>9
    <2>2. EvictCount - 1 \notin C
        BY <1>4, <1>5
    <2>3. ~(left(EvictCount - 1) < max_active)
        BY <2>1, <2>2
    <2>4. left(EvictCount - 1) = Len(lru) - (EvictCount - 1)
        BY <1>2, <2>1
    <2> HIDE DEF left
    <2> QED BY <1>1, <1>5, <1>6, <2>3, <2>4
<1> QED BY <1>5, <1>6, <1>8, <1>9

\* allocate_slot keeps list and map in step.
LEMMA AllocateKeeps ==
    ASSUME HerdInv, NEW key \in Keys, AllocateSlot(key)
    PROVE  HerdInv'
<1>1. /\ Remaining \in Seq(Keys) /\ Distinct(Remaining)
      /\ ToSet(Remaining) = active \ Evicted
    BY EvictionStops
<1>2. /\ lru' \in Seq(Keys) /\ Distinct(lru)'
      /\ ToSet(lru') = ToSet(Remaining) \cup {key}
    BY <1>1, UpdateKey DEF AllocateSlot, Distinct
<1> QED BY <1>1, <1>2 DEF HerdInv, HerdTypeOK, AllocateSlot

\* An allocation for a key that is not active puts it last in the list, ends within
\* the limit, and leaves the list as long as the limit if it evicts.
LEMMA AllocateFits ==
    ASSUME HerdInv, NEW key \in Keys, key \notin active, AllocateSlot(key)
    PROVE  /\ lru' = Append(Remaining, key)
           /\ Len(lru') = Len(Remaining) + 1
           /\ Cardinality(active') <= Max({1, max_active'})
<1>1. /\ Remaining \in Seq(Keys) /\ Distinct(Remaining)
      /\ ToSet(Remaining) = active \ Evicted
      /\ Len(Remaining) < max_active \/ Len(Remaining) = 0
    BY EvictionStops
<1>2. key \notin ToSet(Remaining)
    BY <1>1
<1>3. lru' = Append(Remaining, key)
    BY <1>1, <1>2, UpdateKey DEF AllocateSlot
<1>4. Len(lru') = Len(Remaining) + 1 /\ Len(Remaining) \in Nat
    BY <1>1, <1>3, AppendProperties
<1>5. lru' \in Seq(Keys) /\ Distinct(lru') /\ ToSet(lru') = active'
    BY AllocateKeeps DEF HerdInv, HerdTypeOK, Distinct
<1>6. Cardinality(active') = Len(lru')
    BY <1>5, DistinctCount
<1>7. max_active' = max_active /\ max_active \in Nat
    BY HerdAssumption DEF AllocateSlot, HerdInv, HerdTypeOK
<1>8. Max({1, max_active}) >= 1 /\ Max({1, max_active}) >= max_active
    <2>1. \A y \in {1, max_active} : y <= max_active + 1
        BY <1>7
    <2>2. \A y \in {1, max_active} : Max({1, max_active}) >= y
        BY <1>7, <2>1, GreatestNatural
    <2> QED BY <2>2
<1>9. Max({1, max_active}) \in Nat
    <2>1. \A y \in {1, max_active} : y <= max_active + 1
        BY <1>7
    <2>2. Max({1, max_active}) \in {1, max_active}
        BY <1>7, <2>1, GreatestNatural
    <2> QED BY <1>7, <2>2
<1> QED BY <1>1, <1>3, <1>4, <1>6, <1>7, <1>8, <1>9

\* So does every other operation of the cache.
LEMMA HerdSteps ==
    ASSUME HerdInv
    PROVE  /\ \A key \in Keys : GetBuffer(key) => HerdInv'
           /\ \A key \in Keys : PinExpert(key) => HerdInv'
           /\ \A key \in Keys : UnpinExpert(key) => HerdInv'
           /\ EvictIfNeeded => HerdInv'
           /\ \A m \in MaxCaps : SetMaxActive(m) => HerdInv'
<1>1. lru \in Seq(Keys) /\ Distinct(lru) /\ ToSet(lru) = active
    BY DEF HerdInv, HerdTypeOK
<1>2. ASSUME NEW key \in Keys, GetBuffer(key)
      PROVE  HerdInv'
    <2>1. lru' \in Seq(Keys) /\ Distinct(lru') /\ ToSet(lru') = ToSet(lru) \cup {key}
        BY <1>1, <1>2, UpdateKey DEF GetBuffer
    <2> QED BY <1>1, <1>2, <2>1 DEF HerdInv, HerdTypeOK, GetBuffer, Distinct
<1>3. ASSUME NEW key \in Keys, PinExpert(key)
      PROVE  HerdInv'
    BY <1>2, <1>3, AllocateKeeps DEF PinExpert
<1>4. ASSUME NEW key \in Keys, UnpinExpert(key)
      PROVE  HerdInv'
    <2>1. lru' \in Seq(Keys) /\ Distinct(lru') /\ ToSet(lru') = ToSet(lru) \ {key}
        BY <1>1, <1>4, RemoveKey DEF UnpinExpert
    <2> QED BY <1>1, <1>4, <2>1 DEF HerdInv, HerdTypeOK, UnpinExpert, Distinct
<1>5. ASSUME EvictIfNeeded
      PROVE  HerdInv'
    <2>1. lru' \in Seq(Keys) /\ Distinct(lru') /\ ToSet(lru') = active \ Evicted
        BY <1>5, EvictionStops DEF EvictIfNeeded
    <2> QED BY <1>5, <2>1 DEF HerdInv, HerdTypeOK, EvictIfNeeded, Distinct
<1>6. ASSUME NEW m \in MaxCaps, SetMaxActive(m)
      PROVE  HerdInv'
    BY <1>6 DEF SetMaxActive, HerdInv, HerdTypeOK, Distinct
<1> QED BY <1>2, <1>3, <1>4, <1>5, <1>6

-----------------------------------------------------------------------------
(* The inductive invariant of the readers and the router.                  *)

Buffers == [ready : BOOLEAN, data : BoundedSeq(1 .. FileEnd, SliceLen)]

\* The offset is where the thread of t left it, after the chunks it has.
Placed(t) ==
    /\ fpos = SliceAt(reader[t]) + Len(buf[t].data)
    /\ \A i \in 1 .. Len(buf[t].data) : buf[t].data[i] = SliceAt(reader[t]) + i

\* A thread outside overlap is the only one, so that nobody moves its offset between
\* its lseek and its last read.
ReadInv ==
    /\ buf \in [Targets -> Buffers]
    /\ reader \in [Targets -> Entries \cup {NoKey}]
    /\ sought \subseteq Running
    /\ fpos \in Nat
    /\ overlap \subseteq Targets
    /\ \A k \in Keys : reader[k] \in {k, NoKey}
    /\ \A s, t \in Running : s # t => s \in overlap
    /\ \A t \in Running \ sought : buf[t].data = << >>
    /\ \A t \in sought \ overlap : Placed(t)
    /\ \A k \in Keys \ overlap : buf[k].ready => buf[k].data = Slice(k)

\* No thread is started for a buffer that already has one.
QuietInv ==
    /\ pc \in {"new", "idle"} => Running \cap Keys = {}
    /\ pc = "prefetch" => \A e \in ToSet(todo) : reader[<<layer, e>>] = NoKey
    /\ ~batch.open => Running \cap ClientBufs = {}

\* A token has enough calls left for its layers, and a list names an expert once.
RouterInv ==
    /\ pc \in {"new", "idle", "prefetch", "wait"}
    /\ layer \in Layers
    /\ token \in BOOLEAN
    /\ todo \in BoundedSeq(Experts, NumExperts)
    /\ Distinct(todo)
    /\ calls \in 0 .. MaxCalls
    /\ uses \in 0 .. MaxUses
    /\ batch \in [open : BOOLEAN, left : 0 .. MaxBatches]
    /\ pc \in {"new", "idle"} => ~token
    /\ token => calls + NumLayers <= MaxCalls + layer + 1

\* The slots of this call end the recency list, in the order of their allocation, as
\* far as both go; the list is shorter only if it is as long as the limit.
FreshInv ==
    pc \in {"prefetch", "wait"} =>
        /\ fresh \in Seq(Keys)
        /\ Len(fresh) <= Len(lru) \/ Len(lru) >= Max({1, max_active})
        /\ \A i \in 1 .. Len(fresh), j \in 1 .. Len(lru) :
                Len(fresh) - i = Len(lru) - j => fresh[i] = lru[j]

ReadsInv == HerdInv /\ ReadInv /\ QuietInv /\ RouterInv /\ FreshInv

\* Bounded lists are the lists up to a length.
LEMMA BoundedSeqFacts ==
    ASSUME NEW S, NEW n \in Nat
    PROVE  \A q : q \in BoundedSeq(S, n) <=> q \in Seq(S) /\ Len(q) <= n
<1>1. BoundedSeq(S, n) = UNION {[1 .. m -> S] : m \in 0 .. n}
    BY DEF BoundedSeq, SeqOf
<1>2. ASSUME NEW q \in BoundedSeq(S, n)
      PROVE  q \in Seq(S) /\ Len(q) <= n
    <2>1. PICK m \in 0 .. n : q \in [1 .. m -> S]
        BY <1>1, <1>2
    <2>2. m \in Nat
        OBVIOUS
    <2>3. q \in Seq(S) /\ Len(q) = m
        BY <2>1, <2>2
    <2> QED BY <2>3
<1>3. ASSUME NEW q \in Seq(S), Len(q) <= n
      PROVE  q \in BoundedSeq(S, n)
    <2>1. Len(q) \in 0 .. n /\ q \in [1 .. Len(q) -> S]
        BY <1>3, LenProperties
    <2> QED BY <1>1, <2>1
<1> QED BY <1>2, <1>3

\* A function on 1 .. n is a list of length n.
LEMMA FunctionSeq ==
    ASSUME NEW S, NEW n \in Nat, NEW f \in [1 .. n -> S]
    PROVE  f \in Seq(S) /\ Len(f) = n
OBVIOUS

\* What the assumptions say, in the form the proofs use.
LEMMA Constants ==
    /\ NumLayers \in Nat \ {0} /\ NumExperts \in Nat \ {0}
    /\ SliceLen \in Nat \ {0} /\ FileEnd \in Nat
    /\ MaxCalls \in Nat /\ MaxUses \in Nat /\ MaxBatches \in Nat
    /\ 0 \in Layers
    /\ \A l \in Layers, e \in Experts : <<l, e>> \in Keys
    /\ Entries \subseteq Keys
    /\ ClientBufs \cap Keys = {}
BY ReadsAssumption DEF Layers

\* Keys are pairs, and their slices lie at natural offsets.
LEMMA KeyFacts ==
    ASSUME NEW k \in Keys
    PROVE  k # NoKey /\ SliceAt(k) \in Nat
<1>1. k \in Layers \X Experts
    BY ReadsAssumption
<1>2. PICK l \in Layers, e \in Experts : k = <<l, e>>
    BY <1>1
<1>3. l \in Nat /\ e \in Nat /\ NumExperts \in Nat /\ SliceLen \in Nat
    BY Constants DEF Layers, Experts
<1>4. k # NoKey
    BY <1>2 DEF NoKey
<1>5. SliceAt(k) = (l * NumExperts + e) * SliceLen
    BY <1>2 DEF SliceAt
<1>6. \A a, b, c, d \in Nat : (a * b + c) * d \in Nat
    OBVIOUS
<1> QED BY <1>3, <1>4, <1>5, <1>6

\* There are finitely many buffers to read into.
LEMMA TargetsFinite == IsFiniteSet(Targets)
<1>1. NumLayers \in Nat /\ NumExperts \in Nat
    BY Constants
<1>2. IsFiniteSet(Layers) /\ IsFiniteSet(Experts)
    BY <1>1, FS_Interval DEF Layers, Experts
<1>3. IsFiniteSet(Keys)
    BY <1>2, FS_Product, ReadsAssumption
<1> QED BY <1>3, FS_Union, ReadsAssumption DEF Targets

\* A new buffer is a buffer.
LEMMA EmptyBuffer == NoBuffer \in Buffers
<1>1. << >> \in Seq(1 .. FileEnd) /\ Len(<< >>) = 0 /\ SliceLen \in Nat /\ 0 <= SliceLen
    BY Constants
<1>2. << >> \in BoundedSeq(1 .. FileEnd, SliceLen)
    BY <1>1, BoundedSeqFacts
<1> QED BY <1>2 DEF NoBuffer, Buffers

\* Before the first call everything is empty.
LEMMA ReadsInit == Init => ReadsInv
<1> SUFFICES ASSUME Init PROVE ReadsInv
    OBVIOUS
<1>1. HerdInv
    BY DEF Init, HerdInit, HerdInv, HerdTypeOK, Distinct, ToSet
<1>2. Running = {}
    BY DEF Init, Running
<1>3. ReadInv
    <2>1. buf \in [Targets -> Buffers]
        BY EmptyBuffer DEF Init
    <2>2. \A t \in Targets : reader[t] = NoKey /\ ~buf[t].ready
        BY DEF Init, NoBuffer
    <2>3. Keys \subseteq Targets
        BY DEF Targets
    <2>4. reader \in [Targets -> Entries \cup {NoKey}]
        BY DEF Init
    <2> QED BY <1>2, <2>1, <2>2, <2>3, <2>4 DEF Init, ReadInv
<1>4. QuietInv
    BY <1>2 DEF Init, QuietInv
<1>5. RouterInv
    <2>1. << >> \in Seq(Experts) /\ Len(<< >>) <= NumExperts /\ NumExperts \in Nat
        BY Constants
    <2>2. todo \in BoundedSeq(Experts, NumExperts)
        <3>1. << >> \in BoundedSeq(Experts, NumExperts)
            BY <2>1, BoundedSeqFacts
        <3> QED BY <3>1 DEF Init
    <2>3. Distinct(todo)
        BY DEF Init, Distinct
    <2>4. calls \in 0 .. MaxCalls /\ uses \in 0 .. MaxUses /\ MaxBatches \in 0 .. MaxBatches
        BY Constants DEF Init
    <2> QED BY <2>2, <2>3, <2>4, Constants DEF Init, RouterInv
<1>6. FreshInv
    BY DEF Init, FreshInv
<1> QED BY <1>1, <1>3, <1>4, <1>5, <1>6 DEF ReadsInv

-----------------------------------------------------------------------------
(* Steps of the threads.                                                   *)

\* A new buffer has no data and is not ready.
LEMMA NoBufferFacts == NoBuffer.data = << >> /\ ~NoBuffer.ready
BY DEF NoBuffer

\* What the invariant says of one buffer.
LEMMA TargetFacts ==
    ASSUME ReadInv, NEW t \in Targets
    PROVE  /\ buf[t] \in Buffers
           /\ buf[t].data \in Seq(1 .. FileEnd)
           /\ Len(buf[t].data) \in Nat /\ Len(buf[t].data) <= SliceLen
           /\ reader[t] # NoKey => reader[t] \in Keys /\ SliceAt(reader[t]) \in Nat
<1>1. buf[t] \in Buffers
    BY DEF ReadInv
<1>2. buf[t].data \in BoundedSeq(1 .. FileEnd, SliceLen) /\ SliceLen \in Nat
    BY <1>1, Constants DEF Buffers
<1>3. buf[t].data \in Seq(1 .. FileEnd) /\ Len(buf[t].data) <= SliceLen
    BY <1>2, BoundedSeqFacts
<1>4. reader[t] # NoKey => reader[t] \in Keys
    BY Constants DEF ReadInv
<1> QED BY <1>1, <1>3, <1>4, KeyFacts

\* A buffer keeps its contents while a thread holds it, and loses them at most.
LEMMA FreedFacts ==
    ASSUME NEW new \in [Targets -> Buffers], buf' = Freed(new)
    PROVE  /\ buf' \in [Targets -> Buffers]
           /\ \A t \in Targets : buf'[t] = new[t] \/ buf'[t] = NoBuffer
           /\ \A t \in Targets : reader'[t] # NoKey => buf'[t] = new[t]
BY EmptyBuffer DEF Freed, Kept

\* lseek takes the offset to the slice of its own thread.
LEMMA SeekKeeps ==
    ASSUME ReadInv, NEW t \in Targets, Seek(t)
    PROVE  ReadInv'
<1>1. /\ reader[t] # NoKey /\ t \notin sought
      /\ sought' = sought \cup {t}
      /\ fpos' = SliceAt(reader[t])
      /\ UNCHANGED <<buf, reader, overlap>>
    BY DEF Seek
<1>2. Running' = Running /\ t \in Running
    BY <1>1 DEF Running
<1>3. fpos' \in Nat
    BY <1>1, TargetFacts
<1>4. ASSUME NEW u \in sought' \ overlap'
      PROVE  Placed(u)'
    <2>1. CASE u = t
        <3>1. buf[t].data = << >>
            BY <1>1, <1>2 DEF ReadInv
        <3> QED BY <1>1, <1>3, <2>1, <3>1 DEF Placed, SliceAt
    <2>2. CASE u # t
        BY <1>1, <1>2, <1>4, <2>2 DEF ReadInv
    <2> QED BY <2>1, <2>2
<1> QED BY <1>1, <1>2, <1>3, <1>4 DEF ReadInv, Slice, SliceAt

\* A failed thread leaves its buffer as it is.
LEMMA FailKeeps ==
    ASSUME ReadInv, NEW t \in Targets, Fail(t)
    PROVE  ReadInv'
<1>1. /\ reader' = [reader EXCEPT ![t] = NoKey]
      /\ sought' = sought \ {t}
      /\ buf' = Freed(buf)
      /\ UNCHANGED <<fpos, overlap>>
    BY DEF Fail
<1>2. buf \in [Targets -> Buffers] /\ reader \in [Targets -> Entries \cup {NoKey}]
    BY DEF ReadInv
<1>3. /\ buf' \in [Targets -> Buffers]
      /\ \A u \in Targets : buf'[u] = buf[u] \/ buf'[u] = NoBuffer
      /\ \A u \in Targets : reader'[u] # NoKey => buf'[u] = buf[u]
    BY <1>1, <1>2, FreedFacts
<1>4. Running' = Running \ {t} /\ \A u \in Targets : u # t => reader'[u] = reader[u]
    BY <1>1, <1>2 DEF Running
<1>5. reader' \in [Targets -> Entries \cup {NoKey}] /\ \A k \in Keys : reader'[k] \in {k, NoKey}
    BY <1>1, <1>2 DEF ReadInv, Targets
<1>6. \A u \in sought' \ overlap' : Placed(u)'
    <2>1. SUFFICES ASSUME NEW u \in sought \ overlap, u # t PROVE Placed(u)'
        BY <1>1
    <2>2. Placed(u) /\ u \in Running /\ u \in Targets
        BY DEF ReadInv, Running
    <2>3. buf'[u] = buf[u] /\ reader'[u] = reader[u] /\ fpos' = fpos
        BY <1>1, <1>3, <1>4, <2>1, <2>2 DEF Running
    <2> QED BY <2>2, <2>3 DEF Placed, SliceAt
<1>7. \A u \in Running' \ sought' : buf'[u].data = << >>
    BY <1>1, <1>3, <1>4 DEF ReadInv, Running
<1>8. \A k \in Keys \ overlap' : buf'[k].ready => buf'[k].data = Slice(k)
    BY <1>1, <1>3, NoBufferFacts DEF ReadInv, Targets
<1> QED BY <1>1, <1>3, <1>4, <1>5, <1>6, <1>7, <1>8 DEF ReadInv, Slice, SliceAt

\* A read appends what lies at the offset and moves it on; alone, that is the next
\* part of its own slice.
LEMMA ReadKeeps ==
    ASSUME ReadInv, NEW t \in Targets, Read(t)
    PROVE  ReadInv'
<1>1. t \in sought /\ t \in Running /\ reader[t] # NoKey /\ UNCHANGED overlap
    BY DEF Read, ReadInv, Running
<1> DEFINE old == buf[t].data
           chunk(n) == [i \in 1 .. n |-> fpos + i]
           all(n) == old \o chunk(n)
           buffer(n) == [ready |-> Len(all(n)) >= SliceLen, data |-> all(n)]
<1>2. PICK n \in 1 .. Asked(t) :
        /\ fpos + n <= FileEnd
        /\ fpos' = fpos + n
        /\ reader' = IF Len(all(n)) >= SliceLen THEN [reader EXCEPT ![t] = NoKey] ELSE reader
        /\ sought' = IF Len(all(n)) >= SliceLen THEN sought \ {t} ELSE sought
        /\ buf' = Freed([buf EXCEPT ![t] = buffer(n)])
    BY DEF Read
<1>3. /\ old \in Seq(1 .. FileEnd) /\ Len(old) \in Nat /\ Len(old) <= SliceLen
      /\ reader[t] \in Keys /\ SliceAt(reader[t]) \in Nat
    BY <1>1, TargetFacts
<1>4. fpos \in Nat /\ SliceLen \in Nat \ {0} /\ FileEnd \in Nat
    BY Constants DEF ReadInv
<1>5. n \in Nat /\ Len(old) + n <= SliceLen
    BY <1>2, <1>3, <1>4 DEF Asked
<1>6. chunk(n) \in Seq(1 .. FileEnd) /\ Len(chunk(n)) = n
    <2>1. \A i \in 1 .. n : fpos + i \in 1 .. FileEnd
        BY <1>2, <1>4, <1>5
    <2>2. chunk(n) \in [1 .. n -> 1 .. FileEnd]
        BY <2>1
    <2> HIDE DEF chunk
    <2> QED BY <1>5, <2>2, FunctionSeq
<1> DEFINE data == all(n)
           full == Len(data) >= SliceLen
<1>7. /\ data \in Seq(1 .. FileEnd)
      /\ Len(data) = Len(old) + n
      /\ \A i \in 1 .. Len(old) + n : data[i] = IF i <= Len(old) THEN old[i] ELSE fpos + (i - Len(old))
    <2>1. /\ data \in Seq(1 .. FileEnd)
          /\ Len(data) = Len(old) + n
          /\ \A i \in 1 .. Len(old) + n :
                data[i] = IF i <= Len(old) THEN old[i] ELSE chunk(n)[i - Len(old)]
        <3> HIDE DEF chunk, old
        <3> QED BY <1>3, <1>6, ConcatProperties
    <2>2. ASSUME NEW i \in 1 .. Len(old) + n, ~(i <= Len(old))
          PROVE  chunk(n)[i - Len(old)] = fpos + (i - Len(old))
        <3>1. i - Len(old) \in 1 .. n
            BY <1>3, <1>5, <2>2
        <3> QED BY <3>1
    <2> QED BY <2>1, <2>2
<1>8. buffer(n) \in Buffers /\ buffer(n).data = data /\ buffer(n).ready = full
    <2>1. data \in BoundedSeq(1 .. FileEnd, SliceLen)
        <3> HIDE DEF data
        <3> QED BY <1>4, <1>5, <1>7, BoundedSeqFacts
    <2>2. full \in BOOLEAN
        OBVIOUS
    <2> HIDE DEF all
    <2> QED BY <2>1, <2>2 DEF Buffers
<1> DEFINE new == [buf EXCEPT ![t] = buffer(n)]
<1>9. new \in [Targets -> Buffers] /\ new[t] = buffer(n) /\ \A u \in Targets : u # t => new[u] = buf[u]
    <2> HIDE DEF buffer
    <2> QED BY <1>8 DEF ReadInv
<1>10. /\ buf' \in [Targets -> Buffers]
       /\ \A u \in Targets : buf'[u] = new[u] \/ buf'[u] = NoBuffer
       /\ \A u \in Targets : reader'[u] # NoKey => buf'[u] = new[u]
    <2>1. buf' = Freed(new)
        BY <1>2
    <2> HIDE DEF new
    <2> QED BY <1>9, <2>1, FreedFacts
<1>11. /\ reader' = IF full THEN [reader EXCEPT ![t] = NoKey] ELSE reader
       /\ sought' = IF full THEN sought \ {t} ELSE sought
       /\ fpos' = fpos + n /\ fpos' \in Nat
    BY <1>2, <1>4, <1>5
<1>12. \A i \in 1 .. Len(data) : t \notin overlap => data[i] = SliceAt(reader[t]) + i
    <2>1. SUFFICES ASSUME NEW i \in 1 .. Len(old) + n, t \notin overlap
                   PROVE  data[i] = SliceAt(reader[t]) + i
        BY <1>7
    <2>2. fpos = SliceAt(reader[t]) + Len(old) /\ \A j \in 1 .. Len(old) : old[j] = SliceAt(reader[t]) + j
        BY <1>1, <2>1 DEF ReadInv, Placed
    <2>3. CASE i <= Len(old)
        BY <1>3, <1>7, <2>2, <2>3
    <2>4. CASE ~(i <= Len(old))
        <3>1. data[i] = fpos + (i - Len(old))
            BY <1>7, <2>4
        <3> HIDE DEF data, old
        <3> QED BY <1>3, <1>5, <2>2, <3>1
    <2> QED BY <2>3, <2>4
<1> HIDE DEF data, old, new, buffer, full
<1>13. /\ Running' \subseteq Running
       /\ \A u \in Targets : u # t => reader'[u] = reader[u]
       /\ reader' \in [Targets -> Entries \cup {NoKey}]
       /\ \A k \in Keys : reader'[k] \in {k, NoKey}
       /\ sought' \subseteq Running'
       /\ t \in Running' => t \in sought' /\ ~full /\ reader'[t] = reader[t]
       /\ sought' \subseteq sought /\ sought \subseteq sought' \cup {t}
    <2>1. reader \in [Targets -> Entries \cup {NoKey}] /\ sought \subseteq Running
        BY DEF ReadInv
    <2>2. CASE full
        BY <1>11, <2>1, <2>2 DEF ReadInv, Running, Targets
    <2>3. CASE ~full
        BY <1>1, <1>11, <2>1, <2>3 DEF ReadInv, Running
    <2> QED BY <2>2, <2>3
<1>14. \A u \in sought' \ overlap' : Placed(u)'
    <2>1. SUFFICES ASSUME NEW u \in sought', u \notin overlap PROVE Placed(u)'
        BY <1>1
    <2>2. u = t
        BY <1>1, <1>13, <2>1 DEF ReadInv
    <2>3. t \in Running' /\ reader'[t] # NoKey /\ reader'[t] = reader[t]
        BY <1>13, <2>1, <2>2 DEF Running
    <2>4. buf'[t] = buffer(n)
        BY <1>9, <1>10, <2>3
    <2>5. buf'[t].data = data
        BY <1>8, <2>4
    <2>6. fpos' = SliceAt(reader[t]) + Len(data)
        <3>1. fpos = SliceAt(reader[t]) + Len(old)
            BY <1>1, <2>1, <2>2 DEF ReadInv, Placed, old
        <3> QED BY <1>3, <1>5, <1>7, <1>11, <3>1
    <2> QED BY <1>12, <2>1, <2>2, <2>3, <2>5, <2>6 DEF Placed, SliceAt
<1>15. ASSUME NEW u \in Running' \ sought'
       PROVE  buf'[u].data = << >>
    <2>1. u # t /\ u \in Running \ sought /\ reader'[u] # NoKey /\ u \in Targets
        BY <1>13, <1>15 DEF Running
    <2>2. buf'[u] = buf[u]
        BY <1>9, <1>10, <2>1
    <2> QED BY <2>1, <2>2 DEF ReadInv
<1>16. ASSUME NEW k \in Keys, k \notin overlap, buf'[k].ready
       PROVE  buf'[k].data = Slice(k)
    <2>1. k \in Targets /\ buf'[k] = new[k]
        BY <1>10, <1>16, NoBufferFacts DEF Targets
    <2>2. CASE k # t
        BY <1>9, <1>16, <2>1, <2>2 DEF ReadInv
    <2>3. CASE k = t
        <3>1. full /\ buf'[k].data = data
            BY <1>8, <1>9, <1>16, <2>1, <2>3
        <3>2. reader[t] = k
            BY <1>1, <1>16, <2>3 DEF ReadInv
        <3>3. Len(data) = SliceLen
            <4>1. Len(data) >= SliceLen
                BY <3>1 DEF full
            <4>2. Len(data) \in Nat /\ Len(data) <= SliceLen
                BY <1>3, <1>5, <1>7
            <4> QED BY <1>4, <4>1, <4>2
        <3>4. \A i \in 1 .. SliceLen : data[i] = SliceAt(k) + i
            BY <1>12, <1>16, <2>3, <3>2, <3>3
        <3>5. data = Slice(k)
            BY <1>7, <3>3, <3>4 DEF Slice
        <3> QED BY <3>1, <3>5
    <2> QED BY <2>2, <2>3
<1> QED BY <1>1, <1>10, <1>11, <1>13, <1>14, <1>15, <1>16 DEF ReadInv, Slice, SliceAt

-----------------------------------------------------------------------------
(* Starting threads.                                                       *)

\* Threads that join others put everyone into overlap; a thread that starts alone
\* is not in it.
LEMMA StartKeeps ==
    ASSUME ReadInv, NEW jobs,
           DOMAIN jobs \subseteq Targets \ Running,
           \A t \in DOMAIN jobs : jobs[t] \in Entries /\ (t \in Keys => jobs[t] = t),
           Start(jobs),
           buf' \in [Targets -> Buffers],
           \A t \in Targets : buf'[t] = buf[t] \/ buf'[t] = NoBuffer,
           \A t \in Running : buf'[t] = buf[t],
           \A t \in DOMAIN jobs : buf'[t] = NoBuffer
    PROVE  ReadInv' /\ \A t \in Targets \ DOMAIN jobs : reader'[t] = reader[t]
<1> DEFINE running == Running \cup DOMAIN jobs
<1>1. /\ reader' = [t \in Targets |-> IF t \in DOMAIN jobs THEN jobs[t] ELSE reader[t]]
      /\ overlap' = IF Cardinality(running) > 1 THEN overlap \cup running
                                                ELSE overlap \ DOMAIN jobs
      /\ UNCHANGED <<sought, fpos>>
    BY DEF Start
<1>2. running \subseteq Targets /\ sought \subseteq Running
    BY DEF Running, ReadInv
<1>3. /\ \A t \in DOMAIN jobs : reader'[t] = jobs[t] /\ jobs[t] # NoKey
      /\ \A t \in Targets \ DOMAIN jobs : reader'[t] = reader[t]
    BY <1>1, Constants, KeyFacts
<1>4. Running' = running
    BY <1>3 DEF Running
<1>5. reader' \in [Targets -> Entries \cup {NoKey}]
    BY <1>1 DEF ReadInv
<1>6. \A k \in Keys : reader'[k] \in {k, NoKey}
    <2>1. Keys \subseteq Targets
        BY DEF Targets
    <2> QED BY <1>3, <2>1 DEF ReadInv
<1>7. ASSUME NEW s \in running, NEW t \in running, s # t
      PROVE  s \in overlap'
    <2>1. IsFiniteSet(running)
        BY <1>2, TargetsFinite, FS_Subset
    <2>2. Cardinality({s, t}) = 2 /\ Cardinality({s, t}) <= Cardinality(running)
        <3>1. {s, t} \subseteq running
            OBVIOUS
        <3>2. IsFiniteSet({t}) /\ Cardinality({t}) = 1
            BY FS_Singleton
        <3>3. Cardinality({t} \cup {s}) = Cardinality({t}) + 1
            BY <1>7, <3>2, FS_AddElement
        <3>4. {t} \cup {s} = {s, t}
            OBVIOUS
        <3>5. Cardinality({s, t}) = 2
            BY <3>2, <3>3, <3>4
        <3> HIDE DEF running
        <3>6. Cardinality({s, t}) <= Cardinality(running)
            BY <2>1, <3>1, FS_Subset
        <3> QED BY <3>5, <3>6
    <2>3. Cardinality(running) > 1
        <3> HIDE DEF running
        <3> QED BY <2>1, <2>2, FS_CardinalityType
    <2> QED BY <1>1, <2>3
<1>8. overlap' \subseteq Targets
    BY <1>1, <1>2 DEF ReadInv
<1>9. \A t \in overlap : t \notin DOMAIN jobs => t \in overlap'
    BY <1>1
<1> HIDE DEF running
<1>10. \A t \in Running' \ sought' : buf'[t].data = << >>
    <2>1. SUFFICES ASSUME NEW t \in running, t \notin sought PROVE buf'[t].data = << >>
        BY <1>1, <1>4
    <2>2. CASE t \in Running
        BY <2>1, <2>2 DEF ReadInv
    <2>3. CASE t \in DOMAIN jobs
        BY <2>3, NoBufferFacts
    <2> QED BY <2>1, <2>2, <2>3 DEF running
<1>11. \A t \in sought' \ overlap' : Placed(t)'
    <2>1. SUFFICES ASSUME NEW t \in sought, t \notin overlap' PROVE Placed(t)'
        BY <1>1
    <2>2. t \in Running /\ t \in Targets /\ t \notin DOMAIN jobs /\ t \notin overlap
        BY <1>2, <1>9, <2>1 DEF Running
    <2>3. Placed(t)
        BY <2>1, <2>2 DEF ReadInv
    <2>4. buf'[t] = buf[t] /\ reader'[t] = reader[t] /\ fpos' = fpos
        BY <1>1, <1>3, <2>2
    <2> QED BY <2>3, <2>4 DEF Placed, SliceAt
<1>12. ASSUME NEW k \in Keys, k \notin overlap', buf'[k].ready
       PROVE  buf'[k].data = Slice(k)
    <2>1. k \in Targets /\ buf'[k] # NoBuffer
        BY <1>12, NoBufferFacts DEF Targets
    <2>2. buf'[k] = buf[k] /\ k \notin DOMAIN jobs
        BY <2>1
    <2> QED BY <1>9, <1>12, <2>2 DEF ReadInv
<1>13. sought' \subseteq Running' /\ fpos' \in Nat
    BY <1>1, <1>2, <1>4 DEF running, ReadInv
<1> QED BY <1>3, <1>4, <1>5, <1>6, <1>7, <1>8, <1>10, <1>11, <1>12, <1>13
        DEF ReadInv, Slice, SliceAt

\* What the allocation of a slot does to the readers.
LEMMA AllocationStarts ==
    ASSUME ReadInv, NEW key \in Keys, reader[key] = NoKey,
           Start(Found([k \in {key} |-> k])),
           buf' = Freed([buf EXCEPT ![key] = NoBuffer])
    PROVE  ReadInv' /\ \A t \in Targets : t # key => reader'[t] = reader[t]
<1> DEFINE jobs == Found([k \in {key} |-> k])
           new == [buf EXCEPT ![key] = NoBuffer]
<1>1. DOMAIN jobs \subseteq {key} /\ \A t \in DOMAIN jobs : jobs[t] = t /\ jobs[t] \in Entries
    BY DEF Found
<1>2. key \in Targets /\ key \notin Running
    BY DEF Targets, Running
<1>3. new \in [Targets -> Buffers] /\ new[key] = NoBuffer /\ \A t \in Targets : t # key => new[t] = buf[t]
    BY <1>2, EmptyBuffer DEF ReadInv
<1>4. Start(jobs) /\ buf' = Freed(new)
    OBVIOUS
<1> HIDE DEF jobs, new
<1>5. /\ buf' \in [Targets -> Buffers]
      /\ \A t \in Targets : buf'[t] = new[t] \/ buf'[t] = NoBuffer
      /\ \A t \in Targets : reader'[t] # NoKey => buf'[t] = new[t]
    BY <1>3, <1>4, FreedFacts
<1>6. ASSUME NEW t \in Running PROVE buf'[t] = buf[t]
    <2>1. t \in Targets /\ t # key /\ t \notin DOMAIN jobs /\ reader[t] # NoKey
        BY <1>1, <1>2 DEF Running
    <2>2. reader'[t] = reader[t]
        BY <1>4, <2>1 DEF Start
    <2> QED BY <1>3, <1>5, <2>1, <2>2
<1>7. \A t \in DOMAIN jobs : buf'[t] = NoBuffer
    BY <1>1, <1>2, <1>3, <1>5
<1>8. \A t \in Targets : buf'[t] = buf[t] \/ buf'[t] = NoBuffer
    BY <1>3, <1>5
<1>9. DOMAIN jobs \subseteq Targets \ Running
    BY <1>1, <1>2
<1>10. ReadInv' /\ \A t \in Targets \ DOMAIN jobs : reader'[t] = reader[t]
    BY <1>1, <1>4, <1>5, <1>6, <1>7, <1>8, <1>9, StartKeeps
<1> QED BY <1>1, <1>10

\* What a client's batch does to the readers.
LEMMA BatchStarts ==
    ASSUME ReadInv, NEW l \in Layers, NEW ids \in [ClientBufs -> Experts],
           Running \cap ClientBufs = {}, PrefetchExperts(l, ids)
    PROVE  ReadInv' /\ \A k \in Keys : reader'[k] = reader[k]
<1> DEFINE jobs == Found([b \in ClientBufs |-> <<l, ids[b]>>])
<1>1. DOMAIN jobs \subseteq ClientBufs /\ \A t \in DOMAIN jobs : jobs[t] \in Entries
    BY DEF Found
<1>2. /\ Start(jobs)
      /\ buf' = [t \in Targets |-> IF t \in ClientBufs THEN NoBuffer ELSE buf[t]]
    BY DEF PrefetchExperts
<1> HIDE DEF jobs
<1>3. /\ ClientBufs \subseteq Targets /\ Keys \subseteq Targets /\ ClientBufs \cap Keys = {}
      /\ Running \subseteq Targets
    BY Constants DEF Targets, Running
<1>4. buf' \in [Targets -> Buffers]
    BY <1>2, EmptyBuffer DEF ReadInv
<1>5. DOMAIN jobs \subseteq Targets \ Running
    BY <1>1, <1>3
<1>6. /\ \A t \in Targets : buf'[t] = buf[t] \/ buf'[t] = NoBuffer
      /\ \A t \in Running : buf'[t] = buf[t]
      /\ \A t \in DOMAIN jobs : buf'[t] = NoBuffer
    BY <1>1, <1>2, <1>3
<1>7. \A t \in DOMAIN jobs : jobs[t] \in Entries /\ (t \in Keys => jobs[t] = t)
    BY <1>1, <1>3
<1>8. ReadInv' /\ \A t \in Targets \ DOMAIN jobs : reader'[t] = reader[t]
    BY <1>2, <1>4, <1>5, <1>6, <1>7, StartKeeps
<1> QED BY <1>1, <1>3, <1>8

\* Slots that are freed take no buffer from a thread.
LEMMA FreeKeeps ==
    ASSUME ReadInv, buf' = Freed(buf), UNCHANGED <<reader, sought, fpos, overlap>>
    PROVE  ReadInv'
<1>1. buf \in [Targets -> Buffers]
    BY DEF ReadInv
<1>2. /\ buf' \in [Targets -> Buffers]
      /\ \A t \in Targets : buf'[t] = buf[t] \/ buf'[t] = NoBuffer
      /\ \A t \in Targets : reader'[t] # NoKey => buf'[t] = buf[t]
    BY <1>1, FreedFacts
<1>3. Running' = Running /\ \A t \in Running : t \in Targets /\ buf'[t] = buf[t]
    BY <1>2 DEF Running
<1>4. \A t \in sought' \ overlap' : Placed(t)'
    <2>1. SUFFICES ASSUME NEW t \in sought, t \notin overlap PROVE Placed(t)'
        OBVIOUS
    <2>2. Placed(t) /\ t \in Running
        BY <2>1 DEF ReadInv
    <2>3. buf'[t] = buf[t]
        BY <1>3, <2>2
    <2> QED BY <2>2, <2>3 DEF Placed, SliceAt
<1>5. \A k \in Keys \ overlap' : buf'[k].ready => buf'[k].data = Slice(k)
    BY <1>2, NoBufferFacts DEF ReadInv, Targets
<1>6. \A t \in Running' \ sought' : buf'[t].data = << >>
    BY <1>3 DEF ReadInv
<1> QED BY <1>2, <1>3, <1>4, <1>5, <1>6 DEF ReadInv, Slice, SliceAt

\* Steps that touch no reader.
LEMMA SameReaders ==
    ASSUME ReadInv, UNCHANGED readers
    PROVE  ReadInv'
<1>1. Running' = Running
    BY DEF readers, Running
<1>2. \A t : Placed(t)' <=> Placed(t)
    BY DEF readers, Placed, SliceAt
<1> QED BY <1>1, <1>2 DEF ReadInv, readers, Slice, SliceAt

-----------------------------------------------------------------------------
(* Steps of the router.                                                    *)

\* sort and unique leave a list of different experts.
LEMMA SortedFacts ==
    ASSUME NEW S \in SUBSET Experts, NEW q \in Sorted(S)
    PROVE  q \in BoundedSeq(Experts, NumExperts) /\ Distinct(q)
<1>1. NumExperts \in Nat \ {0}
    BY Constants
<1>2. IsFiniteSet(Experts) /\ Cardinality(Experts) = NumExperts
    <2>1. NumExperts - 1 \in Int /\ 0 <= NumExperts - 1
        BY <1>1
    <2>2. Cardinality(0 .. (NumExperts - 1)) = (NumExperts - 1) - 0 + 1
        BY <2>1, FS_Interval
    <2> QED BY <1>1, <2>1, <2>2, FS_Interval DEF Experts
<1>3. Cardinality(S) \in Nat /\ Cardinality(S) <= NumExperts
    BY <1>2, FS_Subset, FS_CardinalityType
<1>4. q \in [1 .. Cardinality(S) -> S] /\ \A i, j \in DOMAIN q : i < j => q[i] < q[j]
    BY DEF Sorted
<1>5. q \in [1 .. Cardinality(S) -> Experts]
    BY <1>4
<1>6. q \in Seq(Experts) /\ Len(q) = Cardinality(S)
    BY <1>3, <1>5, FunctionSeq
<1>7. q \in BoundedSeq(Experts, NumExperts)
    BY <1>1, <1>3, <1>6, BoundedSeqFacts
<1>8. Distinct(q)
    <2>1. SUFFICES ASSUME NEW i \in 1 .. Cardinality(S), NEW j \in 1 .. Cardinality(S),
                          q[i] = q[j], i # j
                   PROVE  FALSE
        BY <1>5 DEF Distinct
    <2>2. q[i] \in Int /\ q[j] \in Int
        BY <1>5 DEF Experts
    <2>3. i < j \/ j < i
        BY <1>3, <2>1
    <2>4. q[i] < q[j] \/ q[j] < q[i]
        BY <1>4, <2>3
    <2> QED BY <2>1, <2>2, <2>4
<1> QED BY <1>7, <1>8

\* What a router call starts from.
LEMMA InterceptFacts ==
    ASSUME NEW l, NEW tokens, Intercept(l, tokens)
    PROVE  /\ todo' \in BoundedSeq(Experts, NumExperts) /\ Distinct(todo')
           /\ ToSet(todo') \subseteq Experts
           /\ layer' = l /\ fresh' = << >> /\ pc' = "prefetch" /\ calls' = calls + 1
<1>1. PICK pick \in [tokens -> SUBSET Experts] :
            todo' \in Sorted(UNION {pick[scores] : scores \in tokens})
    BY DEF Intercept
<1>2. UNION {pick[scores] : scores \in tokens} \in SUBSET Experts
    OBVIOUS
<1>3. todo' \in BoundedSeq(Experts, NumExperts) /\ Distinct(todo')
    BY <1>1, <1>2, SortedFacts
<1>4. todo' \in Seq(Experts)
    BY <1>3, BoundedSeqFacts, Constants
<1>5. ToSet(todo') \subseteq Experts
    BY <1>4 DEF ToSet
<1> QED BY <1>3, <1>5 DEF Intercept

\* The first expert of the list, and the others.
LEMMA TailFacts ==
    ASSUME RouterInv, todo # << >>
    PROVE  /\ Head(todo) \in Experts
           /\ Tail(todo) \in BoundedSeq(Experts, NumExperts) /\ Distinct(Tail(todo))
           /\ ToSet(Tail(todo)) \subseteq ToSet(todo) \ {Head(todo)}
           /\ Head(todo) \in ToSet(todo)
           /\ ToSet(todo) \subseteq Experts
<1>1. todo \in Seq(Experts) /\ Len(todo) <= NumExperts /\ NumExperts \in Nat
    BY BoundedSeqFacts, Constants DEF RouterInv
<1>2. Distinct(todo)
    BY DEF RouterInv
<1>3. Len(todo) \in Nat /\ Len(todo) # 0 /\ DOMAIN todo = 1 .. Len(todo)
    BY <1>1, EmptySeq
<1> DEFINE r == Tail(todo)
<1>4. /\ Head(todo) = todo[1] /\ r \in Seq(Experts) /\ Len(r) = Len(todo) - 1
      /\ \A i \in 1 .. Len(r) : r[i] = todo[i + 1]
    BY <1>1, <1>3, HeadTailProperties
<1> HIDE DEF r
<1>5. DOMAIN r = 1 .. (Len(todo) - 1) /\ Len(r) <= NumExperts
    BY <1>1, <1>3, <1>4
<1>6. \A i \in 1 .. (Len(todo) - 1) : i + 1 \in 1 .. Len(todo) /\ i + 1 # 1
    BY <1>3
<1>7. 1 \in 1 .. Len(todo) /\ \A i \in 1 .. Len(todo) : todo[i] \in Experts
    BY <1>1, <1>3
<1>8. Distinct(r)
    <2>1. SUFFICES ASSUME NEW i \in 1 .. (Len(todo) - 1), NEW j \in 1 .. (Len(todo) - 1),
                          r[i] = r[j]
                   PROVE  i = j
        BY <1>5 DEF Distinct
    <2>2. i + 1 = j + 1
        BY <1>2, <1>3, <1>4, <1>6, <2>1 DEF Distinct
    <2> QED BY <2>2
<1>9. ToSet(r) \subseteq ToSet(todo) \ {Head(todo)}
    <2>1. SUFFICES ASSUME NEW i \in 1 .. (Len(todo) - 1)
                   PROVE  r[i] \in ToSet(todo) /\ r[i] # Head(todo)
        BY <1>5 DEF ToSet
    <2>2. r[i] = todo[i + 1] /\ i + 1 \in 1 .. Len(todo)
        BY <1>4, <1>6
    <2>3. todo[i + 1] # todo[1]
        BY <1>2, <1>3, <1>6, <1>7 DEF Distinct
    <2> QED BY <1>3, <1>4, <2>2, <2>3 DEF ToSet
<1>10. Tail(todo) \in BoundedSeq(Experts, NumExperts)
    BY <1>1, <1>4, <1>5, BoundedSeqFacts DEF r
<1> QED BY <1>3, <1>4, <1>7, <1>8, <1>9, <1>10 DEF r, ToSet

\* The limit of the cache counts as one at least.
LEMMA LimitFacts ==
    ASSUME HerdInv
    PROVE  /\ max_active \in Nat /\ Max({1, max_active}) \in Nat
           /\ \A n \in Nat : n >= 1 /\ n >= max_active => n >= Max({1, max_active})
<1>1. max_active \in Nat
    BY HerdAssumption DEF HerdInv, HerdTypeOK
<1>2. \A y \in {1, max_active} : y <= max_active + 1
    BY <1>1
<1>3. Max({1, max_active}) \in {1, max_active}
    BY <1>1, <1>2, GreatestNatural
<1> QED BY <1>1, <1>3

\* Allocating for the call: the new slot ends the list, and what is evicted are
\* the entries at its front.
LEMMA FreshKept ==
    ASSUME HerdInv, FreshInv, pc = "prefetch",
           NEW key \in Keys, key \notin active, AllocateSlot(key),
           fresh' = Append(fresh, key)
    PROVE  FreshInv'
<1>1. /\ fresh \in Seq(Keys)
      /\ Len(fresh) <= Len(lru) \/ Len(lru) >= Max({1, max_active})
      /\ \A i \in 1 .. Len(fresh), j \in 1 .. Len(lru) :
            Len(fresh) - i = Len(lru) - j => fresh[i] = lru[j]
    BY DEF FreshInv
<1> DEFINE E == EvictCount
           R == Remaining
           M == Max({1, max_active})
<1>2. /\ E \in 0 .. Len(lru)
      /\ R \in Seq(Keys)
      /\ Len(R) = Len(lru) - E
      /\ \A i \in 1 .. Len(R) : R[i] = lru[E + i]
      /\ E > 0 => Len(R) + 1 >= max_active
    BY EvictionStops
<1>3. lru' = Append(R, key) /\ Len(lru') = Len(R) + 1
    BY AllocateFits
<1>4. max_active' = max_active
    BY DEF AllocateSlot
<1>5. M \in Nat /\ max_active \in Nat /\ \A n \in Nat : n >= 1 /\ n >= max_active => n >= M
    BY LimitFacts
<1> HIDE DEF E, R, M
<1>6. /\ Len(fresh) \in Nat /\ Len(lru) \in Nat /\ Len(R) \in Nat
      /\ fresh' \in Seq(Keys) /\ Len(fresh') = Len(fresh) + 1
      /\ \A i \in 1 .. Len(fresh) : fresh'[i] = fresh[i]
      /\ fresh'[Len(fresh) + 1] = key
      /\ \A j \in 1 .. Len(R) : lru'[j] = R[j]
      /\ lru'[Len(R) + 1] = key
    BY <1>1, <1>2, <1>3, HerdCount, AppendProperties
<1>7. Len(fresh') <= Len(lru') \/ Len(lru') >= M
    <2>1. CASE E = 0
        <3>1. Len(lru') = Len(lru) + 1
            BY <1>2, <1>3, <1>6, <2>1
        <3>2. \A a, b, m \in Nat : a <= b \/ b >= m => a + 1 <= b + 1 \/ b + 1 >= m
            OBVIOUS
        <3>3. Len(fresh) <= Len(lru) \/ Len(lru) >= M
            BY <1>1 DEF M
        <3> QED BY <1>5, <1>6, <3>1, <3>2, <3>3
    <2>2. CASE E > 0
        <3>1. Len(R) + 1 \in Nat /\ Len(R) + 1 >= 1 /\ Len(R) + 1 >= max_active
            BY <1>2, <1>6, <2>2
        <3> QED BY <1>3, <1>5, <3>1
    <2> QED BY <1>2, <1>6, <2>1, <2>2
<1>8. ASSUME NEW i \in 1 .. (Len(fresh) + 1), NEW j \in 1 .. (Len(R) + 1),
             (Len(fresh) + 1) - i = (Len(R) + 1) - j
      PROVE  fresh'[i] = lru'[j]
    <2>1. CASE i = Len(fresh) + 1
        <3>1. j = Len(R) + 1
            BY <1>6, <1>8, <2>1
        <3> QED BY <1>6, <2>1, <3>1
    <2>2. CASE i # Len(fresh) + 1
        <3>1. i \in 1 .. Len(fresh) /\ j \in 1 .. Len(R)
            BY <1>6, <1>8, <2>2
        <3>2. E + j \in 1 .. Len(lru) /\ Len(fresh) - i = Len(lru) - (E + j)
            <4>1. \A f, n, r \in Nat : \A x \in 1 .. f, y \in 1 .. r, e \in 0 .. n :
                    r = n - e /\ (f + 1) - x = (r + 1) - y
                        => e + y \in 1 .. n /\ f - x = n - (e + y)
                OBVIOUS
            <4>2. Len(fresh) \in Nat /\ Len(lru) \in Nat /\ Len(R) \in Nat
                  /\ E \in 0 .. Len(lru) /\ Len(R) = Len(lru) - E
                BY <1>2, <1>6
            <4>3. (Len(fresh) + 1) - i = (Len(R) + 1) - j
                BY <1>8
            <4> QED BY ONLY <3>1, <4>1, <4>2, <4>3
        <3>3. fresh[i] = lru[E + j]
            BY <1>1, <3>1, <3>2
        <3> QED BY <1>2, <1>6, <3>1, <3>3
    <2> QED BY <2>1, <2>2
<1>9. \A i \in 1 .. Len(fresh'), j \in 1 .. Len(lru') :
        Len(fresh') - i = Len(lru') - j => fresh'[i] = lru'[j]
    BY <1>3, <1>6, <1>8
<1>10. Len(fresh') <= Len(lru') \/ Len(lru') >= Max({1, max_active'})
    BY <1>4, <1>7 DEF M
<1> QED BY <1>6, <1>9, <1>10 DEF FreshInv

-----------------------------------------------------------------------------
(* The invariant.                                                          *)

\* Steps that do not touch the cache.
LEMMA SameHerd ==
    ASSUME HerdInv, UNCHANGED herd
    PROVE  HerdInv'
BY DEF HerdInv, HerdTypeOK, herd, Distinct

\* Steps that do not touch the router.
LEMMA SameRouter ==
    ASSUME RouterInv, UNCHANGED <<pc, layer, token, todo, calls, uses, batch>>
    PROVE  RouterInv'
BY DEF RouterInv, Distinct

\* Steps that touch neither the cache nor the slots of the call.
LEMMA SameFresh ==
    ASSUME FreshInv, UNCHANGED <<herd, pc, fresh>>
    PROVE  FreshInv'
BY DEF FreshInv, herd

\* A thread that ends, or goes on, disturbs nobody who waits.
LEMMA QuietStays ==
    ASSUME RouterInv, QuietInv, \A t \in Targets : reader[t] = NoKey => reader'[t] = NoKey,
           UNCHANGED <<pc, layer, todo, batch>>
    PROVE  QuietInv'
<1>1. Keys \subseteq Targets /\ ClientBufs \subseteq Targets
    BY DEF Targets
<1>2. Running' \subseteq Running
    BY DEF Running
<1>3. todo \in Seq(Experts) /\ layer \in Layers
    BY BoundedSeqFacts, Constants DEF RouterInv
<1>4. \A e \in ToSet(todo) : <<layer, e>> \in Targets
    <2>1. ToSet(todo) \subseteq Experts
        BY <1>3 DEF ToSet
    <2> QED BY <1>1, <1>3, <2>1, Constants
<1> QED BY <1>2, <1>4 DEF QuietInv

\* Steps of a reader thread.
LEMMA ThreadKeeps ==
    ASSUME ReadsInv, NEW t \in Targets, ThreadStep(t)
    PROVE  ReadsInv'
<1>1. HerdInv /\ ReadInv /\ QuietInv /\ RouterInv /\ FreshInv
    BY DEF ReadsInv
<1>2. UNCHANGED <<herd, router, batch>>
    BY DEF ThreadStep, Seek, Read, ReadFails, Fail
<1>3. ReadInv'
    BY <1>1, SeekKeeps, ReadKeeps, FailKeeps DEF ThreadStep, ReadFails
<1>4. \A u \in Targets : reader[u] = NoKey => reader'[u] = NoKey
    <2>1. reader \in [Targets -> Entries \cup {NoKey}]
        BY <1>1 DEF ReadInv
    <2>2. reader' = reader \/ reader' = [reader EXCEPT ![t] = NoKey]
        BY DEF ThreadStep, Seek, Read, ReadFails, Fail
    <2> QED BY <2>1, <2>2
<1>5. UNCHANGED <<pc, layer, token, todo, fresh, calls, uses, batch>>
    BY <1>2 DEF router
<1>6. HerdInv' /\ QuietInv' /\ RouterInv' /\ FreshInv'
    BY <1>1, <1>2, <1>4, <1>5, SameHerd, QuietStays, SameRouter, SameFresh
<1> QED BY <1>3, <1>6 DEF ReadsInv

\* A call of the router starts when no thread reads into a slot.
LEMMA InterceptKeeps ==
    ASSUME ReadsInv, NEW l \in Layers, NEW tokens, Intercept(l, tokens),
           Running \cap Keys = {},
           UNCHANGED <<herd, readers, uses, batch>>,
           token' \in BOOLEAN,
           calls < MaxCalls,
           token' => calls + NumLayers <= MaxCalls + l
    PROVE  ReadsInv'
<1>1. HerdInv /\ ReadInv /\ QuietInv /\ RouterInv /\ FreshInv
    BY DEF ReadsInv
<1>2. /\ todo' \in BoundedSeq(Experts, NumExperts) /\ Distinct(todo')
      /\ ToSet(todo') \subseteq Experts
      /\ layer' = l /\ fresh' = << >> /\ pc' = "prefetch" /\ calls' = calls + 1
    BY InterceptFacts
<1>3. HerdInv' /\ ReadInv'
    BY <1>1, SameHerd, SameReaders
<1>4. QuietInv'
    <2>1. reader' = reader /\ Running' = Running /\ batch' = batch
        BY DEF readers, Running
    <2>2. \A e \in ToSet(todo') : <<l, e>> \in Keys /\ <<l, e>> \in Targets
        BY <1>2, Constants DEF Targets
    <2>3. \A e \in ToSet(todo') : reader[<<l, e>>] = NoKey
        BY <2>2 DEF Running
    <2> QED BY <1>1, <1>2, <2>1, <2>3 DEF QuietInv
<1>5. RouterInv'
    <2>1. calls \in Nat /\ l \in Nat /\ NumLayers \in Nat /\ MaxCalls \in Nat
        BY <1>1, Constants DEF RouterInv, Layers
    <2>2. calls' \in 0 .. MaxCalls
        BY <1>2, <2>1
    <2>3. token' => calls' + NumLayers <= MaxCalls + layer' + 1
        <3>1. \A c, n, m, k \in Nat : c + n <= m + k => (c + 1) + n <= m + k + 1
            OBVIOUS
        <3> QED BY <1>2, <2>1, <3>1
    <2> QED BY <1>1, <1>2, <2>2, <2>3 DEF RouterInv, Distinct
<1>6. FreshInv'
    <2>1. << >> \in Seq(Keys) /\ Len(<< >>) = 0
        OBVIOUS
    <2>2. Len(lru') \in Nat
        BY <1>3 DEF HerdInv, HerdTypeOK
    <2>3. \A n \in Nat : 0 <= n
        OBVIOUS
    <2>4. \A i \in 1 .. 0 : FALSE
        OBVIOUS
    <2> QED BY <1>2, <2>1, <2>2, <2>3, <2>4 DEF FreshInv
<1> QED BY <1>3, <1>4, <1>5, <1>6 DEF ReadsInv

\* One expert of the list.
LEMMA PrefetchKeeps ==
    ASSUME ReadsInv, PrefetchExpert
    PROVE  ReadsInv'
<1>1. HerdInv /\ ReadInv /\ QuietInv /\ RouterInv /\ FreshInv
    BY DEF ReadsInv
<1>2. /\ pc = "prefetch" /\ todo # << >> /\ todo' = Tail(todo)
      /\ UNCHANGED <<pc, layer, token, calls, uses, batch>>
    BY DEF PrefetchExpert
<1> DEFINE key == <<layer, Head(todo)>>
<1>3. /\ Head(todo) \in Experts
      /\ todo' \in BoundedSeq(Experts, NumExperts) /\ Distinct(todo')
      /\ ToSet(todo') \subseteq ToSet(todo) \ {Head(todo)}
      /\ Head(todo) \in ToSet(todo)
      /\ ToSet(todo) \subseteq Experts
    BY <1>1, <1>2, TailFacts
<1>4. layer \in Layers /\ key \in Keys /\ reader[key] = NoKey
    BY <1>1, <1>2, <1>3, Constants DEF RouterInv, QuietInv
<1>5. RouterInv'
    BY <1>1, <1>2, <1>3 DEF RouterInv, Distinct
<1>6. ASSUME ReadInv', \A t \in Targets : t # key => reader'[t] = reader[t]
      PROVE  QuietInv'
    <2>1. ASSUME NEW e \in ToSet(todo') PROVE reader'[<<layer', e>>] = NoKey
        <3>1. e \in ToSet(todo) /\ e # Head(todo) /\ e \in Experts
            BY <1>3
        <3>2. <<layer, e>> \in Targets /\ <<layer, e>> # key
            BY <1>4, <3>1, Constants DEF Targets
        <3> QED BY <1>1, <1>2, <1>6, <3>1, <3>2 DEF QuietInv
    <2>2. Running' \cap ClientBufs = Running \cap ClientBufs
        <3>1. ClientBufs \subseteq Targets /\ key \notin ClientBufs
            BY <1>4, Constants DEF Targets
        <3> HIDE DEF key
        <3> QED BY <1>6, <3>1 DEF Running
    <2> QED BY <1>1, <1>2, <2>1, <2>2 DEF QuietInv
<1>7. CASE key \in active
    <2>1. UNCHANGED <<herd, readers, fresh>>
        BY <1>7 DEF PrefetchExpert
    <2>2. HerdInv' /\ ReadInv' /\ FreshInv'
        BY <1>1, <1>2, <2>1, SameHerd, SameReaders, SameFresh
    <2>3. reader' = reader
        BY <2>1 DEF readers
    <2> QED BY <1>5, <1>6, <2>2, <2>3 DEF ReadsInv
<1>8. CASE key \notin active
    <2>1. /\ AllocateSlot(key)
          /\ fresh' = Append(fresh, key)
          /\ Start(Found([k \in {key} |-> k]))
          /\ buf' = Freed([buf EXCEPT ![key] = NoBuffer])
        BY <1>8 DEF PrefetchExpert
    <2> HIDE DEF key
    <2>2. HerdInv'
        BY <1>1, <1>4, <2>1, AllocateKeeps
    <2>3. FreshInv'
        BY <1>1, <1>2, <1>4, <1>8, <2>1, FreshKept
    <2>4. ReadInv' /\ \A t \in Targets : t # key => reader'[t] = reader[t]
        BY <1>1, <1>4, <2>1, AllocationStarts
    <2> QED BY <1>5, <1>6, <2>2, <2>3, <2>4 DEF ReadsInv
<1> QED BY <1>7, <1>8

\* The router returns, or goes to the next layer.
LEMMA ReturnKeeps ==
    ASSUME ReadsInv, RouterReturns
    PROVE  ReadsInv'
<1>1. HerdInv /\ ReadInv /\ QuietInv /\ RouterInv /\ FreshInv
    BY DEF ReadsInv
<1>2. pc = "wait" /\ Running \cap Keys = {} /\ UNCHANGED <<herd, readers, uses, batch>>
    BY DEF RouterReturns
<1>3. CASE token /\ layer + 1 < NumLayers
    <2>1. Intercept(layer + 1, {Ramp}) /\ token' = token
        BY <1>3 DEF RouterReturns
    <2>2. /\ layer \in Nat /\ calls \in Nat /\ NumLayers \in Nat /\ MaxCalls \in Nat
          /\ calls + NumLayers <= MaxCalls + layer + 1
        BY <1>1, <1>3, Constants DEF RouterInv, Layers
    <2>3. layer + 1 \in Layers
        BY <1>3, <2>2 DEF Layers
    <2>4. calls < MaxCalls /\ calls + NumLayers <= MaxCalls + (layer + 1)
        BY <1>3, <2>2
    <2>5. token' \in BOOLEAN
        BY <1>3, <2>1
    <2> QED BY <1>2, <2>1, <2>3, <2>4, <2>5, InterceptKeeps
<1>4. CASE ~(token /\ layer + 1 < NumLayers)
    <2>1. /\ pc' = "idle" /\ token' = FALSE /\ layer' = 0
          /\ UNCHANGED <<todo, calls>>
        BY <1>4 DEF RouterReturns
    <2>2. HerdInv' /\ ReadInv'
        BY <1>1, <1>2, SameHerd, SameReaders
    <2>3. QuietInv'
        BY <1>1, <1>2, <2>1 DEF QuietInv, Running, readers
    <2>4. RouterInv'
        BY <1>1, <1>2, <2>1, Constants DEF RouterInv, Distinct
    <2>5. FreshInv'
        BY <2>1 DEF FreshInv
    <2> QED BY <2>2, <2>3, <2>4, <2>5 DEF ReadsInv
<1> QED BY <1>3, <1>4

\* The owner uses the cache.
LEMMA UseKeeps ==
    ASSUME ReadsInv, UseCache
    PROVE  ReadsInv'
<1>1. HerdInv /\ ReadInv /\ QuietInv /\ RouterInv /\ FreshInv
    BY DEF ReadsInv
<1>2. /\ pc \in {"new", "idle"} /\ uses < MaxUses /\ uses' = uses + 1
      /\ reader' = reader /\ buf' = Freed(buf)
      /\ UNCHANGED <<sought, fpos, overlap, pc, layer, token, todo, fresh, calls, batch>>
    BY DEF UseCache
<1>3. HerdInv'
    BY <1>1, HerdSteps DEF UseCache
<1>4. ReadInv'
    BY <1>1, <1>2, FreeKeeps
<1>5. QuietInv'
    BY <1>1, <1>2, QuietStays
<1>6. uses' \in 0 .. MaxUses
    <2>1. uses \in 0 .. MaxUses /\ MaxUses \in Nat
        BY <1>1, Constants DEF RouterInv
    <2> QED BY <1>2, <2>1
<1>7. RouterInv'
    BY <1>1, <1>2, <1>6 DEF RouterInv, Distinct
<1>8. FreshInv'
    BY <1>2 DEF FreshInv
<1> QED BY <1>3, <1>4, <1>5, <1>7, <1>8 DEF ReadsInv

\* A client reads a batch and is told that it has ended.
LEMMA ClientKeeps ==
    ASSUME ReadsInv
    PROVE  /\ \A l \in Layers, ids \in [ClientBufs -> Experts] :
                    PrefetchExperts(l, ids) => ReadsInv'
           /\ ResolveBatch => ReadsInv'
<1>1. HerdInv /\ ReadInv /\ QuietInv /\ RouterInv /\ FreshInv
    BY DEF ReadsInv
<1>2. batch \in [open : BOOLEAN, left : 0 .. MaxBatches] /\ MaxBatches \in Nat
    BY <1>1, Constants DEF RouterInv
<1>3. ASSUME NEW l \in Layers, NEW ids \in [ClientBufs -> Experts], PrefetchExperts(l, ids)
      PROVE  ReadsInv'
    <2>1. /\ ~batch.open /\ batch.left > 0
          /\ batch' = [open |-> TRUE, left |-> batch.left - 1]
          /\ UNCHANGED <<herd, router>>
        BY <1>3 DEF PrefetchExperts
    <2>2. UNCHANGED <<pc, layer, token, todo, fresh, calls, uses>>
        BY <2>1 DEF router
    <2>3. Running \cap ClientBufs = {}
        BY <1>1, <2>1 DEF QuietInv
    <2>4. ReadInv' /\ \A k \in Keys : reader'[k] = reader[k]
        BY <1>1, <1>3, <2>3, BatchStarts
    <2>5. QuietInv'
        <3>1. Running' \cap Keys = Running \cap Keys
            BY <2>4 DEF Running, Targets
        <3>2. todo \in Seq(Experts) /\ layer \in Layers
            BY <1>1, BoundedSeqFacts, Constants DEF RouterInv
        <3>3. ToSet(todo) \subseteq Experts
            BY <3>2 DEF ToSet
        <3>4. \A e \in ToSet(todo) : <<layer, e>> \in Keys
            BY <3>2, <3>3, Constants
        <3> QED BY <1>1, <2>1, <2>2, <2>4, <3>1, <3>4 DEF QuietInv
    <2>6. batch' \in [open : BOOLEAN, left : 0 .. MaxBatches]
        <3>1. batch.left \in 0 .. MaxBatches
            BY <1>2
        <3>2. batch.left - 1 \in 0 .. MaxBatches
            BY <1>2, <2>1, <3>1
        <3> QED BY <2>1, <3>2
    <2>7. RouterInv'
        BY <1>1, <2>2, <2>6 DEF RouterInv, Distinct
    <2>8. HerdInv' /\ FreshInv'
        BY <1>1, <2>1, <2>2, SameHerd, SameFresh
    <2> QED BY <2>4, <2>5, <2>7, <2>8 DEF ReadsInv
<1>4. ASSUME ResolveBatch
      PROVE  ReadsInv'
    <2>1. /\ Running \cap ClientBufs = {}
          /\ batch' = [batch EXCEPT !.open = FALSE]
          /\ UNCHANGED <<herd, readers, router>>
        BY <1>4 DEF ResolveBatch
    <2>2. UNCHANGED <<pc, layer, token, todo, fresh, calls, uses>>
        BY <2>1 DEF router
    <2>3. batch' \in [open : BOOLEAN, left : 0 .. MaxBatches]
        BY <1>2, <2>1
    <2>4. HerdInv' /\ ReadInv' /\ FreshInv'
        BY <1>1, <2>1, <2>2, SameHerd, SameReaders, SameFresh
    <2>5. QuietInv'
        BY <1>1, <2>1, <2>2 DEF QuietInv, Running, readers
    <2>6. RouterInv'
        BY <1>1, <2>2, <2>3 DEF RouterInv, Distinct
    <2> QED BY <2>4, <2>5, <2>6 DEF ReadsInv
<1> QED BY <1>3, <1>4

\* Every step keeps the invariant.
LEMMA ReadsStep == ReadsInv /\ [Next]_vars => ReadsInv'
<1> SUFFICES ASSUME ReadsInv, [Next]_vars PROVE ReadsInv'
    OBVIOUS
<1>1. HerdInv /\ ReadInv /\ QuietInv /\ RouterInv /\ FreshInv
    BY DEF ReadsInv
<1>2. ASSUME UNCHANGED <<herd, readers, layer, token, todo, fresh, calls, uses, batch>>,
             \/ pc = "new" /\ pc' = "idle"
             \/ pc = "prefetch" /\ pc' = "wait"
             \/ pc' = pc
      PROVE  ReadsInv'
    <2>1. HerdInv' /\ ReadInv'
        BY <1>1, <1>2, SameHerd, SameReaders
    <2>2. QuietInv'
        BY <1>1, <1>2 DEF QuietInv, Running, readers
    <2>3. RouterInv'
        BY <1>1, <1>2 DEF RouterInv, Distinct
    <2>4. FreshInv'
        BY <1>1, <1>2 DEF FreshInv, herd
    <2> QED BY <2>1, <2>2, <2>3, <2>4 DEF ReadsInv
<1>3. CASE Initialize
    BY <1>2, <1>3 DEF Initialize
<1>4. CASE EvaluateToken
    <2>1. /\ pc = "idle" /\ calls + NumLayers <= MaxCalls /\ token' = TRUE
          /\ Intercept(0, {Ramp}) /\ UNCHANGED <<herd, readers, uses, batch>>
        BY <1>4 DEF EvaluateToken
    <2>2. /\ calls \in Nat /\ NumLayers \in Nat \ {0} /\ MaxCalls \in Nat /\ 0 \in Layers
          /\ Running \cap Keys = {}
        BY <1>1, <2>1, Constants DEF RouterInv, QuietInv
    <2>3. calls < MaxCalls /\ calls + NumLayers <= MaxCalls + 0
        BY <2>1, <2>2
    <2> QED BY <2>1, <2>2, <2>3, InterceptKeeps
<1>5. ASSUME NEW l \in Layers, NEW tokens \in Batches, InterceptRouter(l, tokens)
      PROVE  ReadsInv'
    <2>1. /\ pc = "idle" /\ calls < MaxCalls
          /\ Intercept(l, tokens) /\ UNCHANGED <<herd, readers, token, uses, batch>>
        BY <1>5 DEF InterceptRouter
    <2>2. Running \cap Keys = {} /\ ~token' /\ token' \in BOOLEAN
        BY <1>1, <2>1 DEF RouterInv, QuietInv
    <2> QED BY <2>1, <2>2, InterceptKeeps
<1>6. CASE RouterStep
    <2>1. CASE AwaitReads
        BY <1>2, <2>1 DEF AwaitReads
    <2> QED BY <1>6, <2>1, PrefetchKeeps, ReturnKeeps DEF RouterStep
<1>7. CASE Finished \/ UNCHANGED vars
    <2>1. UNCHANGED <<herd, readers, router, batch>>
        BY <1>7 DEF Finished, vars
    <2>2. UNCHANGED <<herd, readers, layer, token, todo, fresh, calls, uses, batch>> /\ pc' = pc
        BY <2>1 DEF router
    <2> QED BY <1>2, <2>2
<1> QED BY <1>3, <1>4, <1>5, <1>6, <1>7, UseKeeps, ClientKeeps, ThreadKeeps DEF Next

-----------------------------------------------------------------------------
(* Theorems.                                                               *)

\* Slots, readers, router and client stay in step for any number of threads.
THEOREM ReadsInvariance == Spec => []ReadsInv
<1>1. Init => ReadsInv
    BY ReadsInit
<1>2. ReadsInv /\ [Next]_vars => ReadsInv'
    BY ReadsStep
<1> QED BY <1>1, <1>2, PTL DEF Spec

\* Every variable of the engine keeps its type; a thread never reads past the slice
\* it was started for nor past the end of the file.
THEOREM ReadsTypeCorrect == Spec => []TypeOK
<1>1. ReadsInv => TypeOK
    <2> SUFFICES ASSUME ReadsInv PROVE TypeOK
        OBVIOUS
    <2>1. HerdInv /\ ReadInv /\ RouterInv
        BY DEF ReadsInv
    <2>2. \A t \in Targets : /\ buf[t].ready \in BOOLEAN
                             /\ buf[t].data \in BoundedSeq(1 .. FileEnd, SliceLen)
        BY <2>1 DEF ReadInv, Buffers
    <2> QED BY <2>1, <2>2 DEF TypeOK, HerdInv, ReadInv, RouterInv
<1> QED BY <1>1, ReadsInvariance, PTL

\* active_experts_ and lru_list_ name the same slots, each once, whatever the owner
\* and the router do to the cache.
THEOREM ListAlwaysMatches == Spec => []ListMatchesMap
<1>1. ReadsInv => ListMatchesMap
    BY HerdCount DEF ReadsInv
<1> QED BY <1>1, ReadsInvariance, PTL

\* A ready buffer whose read had fd_ to itself has the slice of its expert, after any
\* reads that failed, overlapped or were cut short before it.
THEOREM SoloReadsAlwaysRight == Spec => []SoloReadsRight
<1>1. ReadsInv => SoloReadsRight
    BY DEF ReadsInv, HerdInv, HerdTypeOK, ReadInv, SoloReadsRight
<1> QED BY <1>1, ReadsInvariance, PTL

\* allocate_slot evicts a slot of the same router call only if the call needs more
\* slots than the cache may hold.
THEOREM FreshSlotsAlwaysHeld == Spec => []FreshSlotsHeld
<1>1. ReadsInv => FreshSlotsHeld
    <2> SUFFICES ASSUME ReadsInv, pc = "wait", NEW i \in DOMAIN fresh,
                        i > Len(fresh) - Max({1, max_active})
                 PROVE  fresh[i] \in active
        BY DEF FreshSlotsHeld
    <2> DEFINE M == Max({1, max_active})
    <2>1. HerdInv /\ FreshInv
        BY DEF ReadsInv
    <2>2. /\ fresh \in Seq(Keys)
          /\ Len(fresh) <= Len(lru) \/ Len(lru) >= M
          /\ \A k \in 1 .. Len(fresh), j \in 1 .. Len(lru) :
                Len(fresh) - k = Len(lru) - j => fresh[k] = lru[j]
        BY <2>1 DEF FreshInv
    <2>3. Len(fresh) \in Nat /\ Len(lru) \in Nat /\ M \in Nat /\ i \in 1 .. Len(fresh)
        BY <2>1, <2>2, HerdCount, LimitFacts
    <2>4. i > Len(fresh) - M
        OBVIOUS
    <2> HIDE DEF M
    <2> DEFINE j == Len(lru) - (Len(fresh) - i)
    <2>5. j \in 1 .. Len(lru) /\ Len(fresh) - i = Len(lru) - j
        <3>1. \A f, n, m \in Nat : \A x \in 1 .. f :
                x > f - m /\ (f <= n \/ n >= m)
                    => n - (f - x) \in 1 .. n /\ f - x = n - (n - (f - x))
            OBVIOUS
        <3> QED BY <2>2, <2>3, <2>4, <3>1
    <2>6. fresh[i] = lru[j]
        BY <2>2, <2>3, <2>5
    <2>7. lru[j] \in ToSet(lru)
        <3>1. DOMAIN lru = 1 .. Len(lru)
            BY <2>1 DEF HerdInv, HerdTypeOK
        <3> HIDE DEF j
        <3> QED BY <2>5, <3>1 DEF ToSet
    <2> QED BY <2>1, <2>6, <2>7 DEF HerdInv
<1> QED BY <1>1, ReadsInvariance, PTL

\* A step that adds a slot to the cache ends within its limit, also when the limit
\* was lowered below the number of slots before.
THEOREM AllocationAlwaysFits == Spec => AllocationWithinCapacity
<1> DEFINE Fits == active' \subseteq active \/ Cardinality(active') <= Max({1, max_active'})
<1>1. ASSUME ReadsInv, [Next]_vars
      PROVE  [Fits]_herd
    <2>1. HerdInv /\ RouterInv
        BY <1>1 DEF ReadsInv
    <2>2. ASSUME NEW key \in Keys, key \notin active, AllocateSlot(key)
          PROVE  Fits
        BY <2>1, <2>2, AllocateFits
    <2>3. CASE UseCache
        <3>1. CASE \E key \in Keys : GetBuffer(key) \/ PinExpert(key) \/ UnpinExpert(key)
            <4>1. PICK key \in Keys : GetBuffer(key) \/ PinExpert(key) \/ UnpinExpert(key)
                BY <3>1
            <4>2. CASE PinExpert(key) /\ key \notin active
                BY <2>2, <4>2 DEF PinExpert
            <4>3. CASE ~(PinExpert(key) /\ key \notin active)
                BY <4>1, <4>3 DEF GetBuffer, PinExpert, UnpinExpert
            <4> QED BY <4>2, <4>3
        <3>2. CASE EvictIfNeeded
            BY <3>2 DEF EvictIfNeeded
        <3>3. CASE \E m \in MaxCaps : SetMaxActive(m)
            BY <3>3 DEF SetMaxActive
        <3> QED BY <2>3, <3>1, <3>2, <3>3 DEF UseCache
    <2>4. CASE PrefetchExpert
        <3>1. <<layer, Head(todo)>> \in Keys
            BY <2>1, <2>4, TailFacts, Constants DEF RouterInv, PrefetchExpert
        <3> QED BY <2>2, <2>4, <3>1 DEF PrefetchExpert
    <2>5. CASE UNCHANGED herd
        BY <2>5
    <2>6. UseCache \/ PrefetchExpert \/ UNCHANGED herd
        BY <1>1 DEF Next, vars, Initialize, EvaluateToken, InterceptRouter, RouterStep, AwaitReads,
                    RouterReturns, PrefetchExperts, ResolveBatch, ThreadStep, Seek, Read,
                    ReadFails, Fail, Finished
    <2> QED BY <2>3, <2>4, <2>5, <2>6
<1> QED BY <1>1, ReadsInvariance, PTL DEF Spec, AllocationWithinCapacity

=============================================================================
