--------------------------- MODULE UringSlabProofs ---------------------------
(* What the calls of UringSlab do to the number of requests and completions *)
(* of a token, and to the types of ring and memory.                         *)
EXTENDS UringSlab, FiniteSetTheorems, SequenceTheorems, TLAPS

\* The positions of a token in a queue, and their number.
Places(s, t) == {i \in DOMAIN s : s[i].token = t}

Count(s, t) == Cardinality(Places(s, t))

-----------------------------------------------------------------------------
(* Counting.                                                               *)

\* A queue has finitely many places, and none of them counts for nothing.
LEMMA CountType ==
    ASSUME NEW S, NEW s \in Seq(S), NEW t
    PROVE  /\ IsFiniteSet(Places(s, t))
           /\ Count(s, t) \in Nat
           /\ Count(s, t) = 0 <=> \A i \in DOMAIN s : s[i].token # t
<1>1. IsFiniteSet(1 .. Len(s))
    BY LenProperties, FS_Interval
<1>2. Places(s, t) \in SUBSET (1 .. Len(s))
    BY LenProperties DEF Places
<1>3. IsFiniteSet(Places(s, t))
    BY <1>1, <1>2, FS_Subset
<1>4. Count(s, t) = 0 <=> Places(s, t) = {}
    BY <1>3, FS_EmptySet DEF Count
<1> QED BY <1>3, <1>4, FS_CardinalityType DEF Count, Places

\* An empty queue counts nothing.
LEMMA CountEmpty == \A t : Count(<< >>, t) = 0
<1> TAKE t
<1>1. Places(<< >>, t) = {}
    BY DEF Places
<1> QED BY <1>1, FS_EmptySet DEF Count

\* A queue of one token counts in full.
LEMMA CountFull ==
    ASSUME NEW S, NEW s \in Seq(S), NEW t, \A i \in DOMAIN s : s[i].token = t
    PROVE  Count(s, t) = Len(s)
<1>1. Places(s, t) = 1 .. Len(s) /\ Len(s) \in Nat
    BY LenProperties DEF Places
<1>2. Cardinality(1 .. Len(s)) = Len(s)
    BY <1>1, FS_Interval
<1> QED BY <1>1, <1>2 DEF Count

\* Counts of two queues in a row add up.
LEMMA CountConcat ==
    ASSUME NEW S, NEW s \in Seq(S), NEW u \in Seq(S), NEW t
    PROVE  Count(s \o u, t) = Count(s, t) + Count(u, t)
<1> DEFINE n == Len(s)
           shifted == {i \in DOMAIN (s \o u) : i > n /\ (s \o u)[i].token = t}
           f == [i \in Places(u, t) |-> n + i]
<1>1. /\ n \in Nat /\ Len(u) \in Nat
      /\ DOMAIN s = 1 .. n /\ DOMAIN u = 1 .. Len(u)
      /\ DOMAIN (s \o u) = 1 .. (n + Len(u))
      /\ \A i \in 1 .. n : (s \o u)[i] = s[i]
      /\ \A i \in 1 .. Len(u) : (s \o u)[n + i] = u[i]
    BY LenProperties, ConcatProperties
<1> HIDE DEF n
<1>2. Places(s \o u, t) = Places(s, t) \cup shifted
    BY <1>1 DEF Places
<1>3. Places(s, t) \cap shifted = {}
    BY <1>1 DEF Places
<1>4. f \in Bijection(Places(u, t), shifted)
    <2>1. f \in [Places(u, t) -> shifted]
        BY <1>1 DEF Places
    <2>2. \A a, b \in Places(u, t) : f[a] = f[b] => a = b
        BY <1>1 DEF Places
    <2>3. \A j \in shifted : \E i \in Places(u, t) : f[i] = j
        <3> SUFFICES ASSUME NEW j \in shifted PROVE \E i \in Places(u, t) : f[i] = j
            OBVIOUS
        <3>1. j - n \in 1 .. Len(u) /\ n + (j - n) = j
            BY <1>1
        <3>2. j - n \in Places(u, t)
            BY <1>1, <3>1 DEF Places
        <3> QED BY <3>1, <3>2
    <2> QED BY <2>1, <2>2, <2>3 DEF Bijection, Injection, Surjection, IsInjective
<1>5. IsFiniteSet(Places(s, t)) /\ IsFiniteSet(Places(u, t))
    BY CountType
<1>6. IsFiniteSet(shifted) /\ Cardinality(shifted) = Count(u, t)
    BY <1>4, <1>5, FS_Bijection DEF Count, ExistsBijection
<1> HIDE DEF shifted, f
<1>7. Cardinality(Places(s, t) \cap shifted) = 0
    BY <1>3, FS_EmptySet
<1>8. Cardinality(Places(s, t) \cup shifted)
        = Cardinality(Places(s, t)) + Cardinality(shifted) - Cardinality(Places(s, t) \cap shifted)
    BY <1>5, <1>6, FS_Union
<1>9. Count(s, t) \in Nat /\ Count(u, t) \in Nat
    BY CountType
<1> QED BY <1>2, <1>6, <1>7, <1>8, <1>9 DEF Count

\* A queue of one entry.
LEMMA CountOne ==
    ASSUME NEW S, NEW x \in S, NEW t
    PROVE  Count(<<x>>, t) = IF x.token = t THEN 1 ELSE 0
<1>1. <<x>> \in Seq(S) /\ Len(<<x>>) = 1 /\ DOMAIN <<x>> = {1} /\ <<x>>[1] = x
    OBVIOUS
<1>2. CASE x.token = t
    BY <1>1, <1>2, CountFull
<1>3. CASE x.token # t
    BY <1>1, <1>3, CountType
<1> QED BY <1>2, <1>3

\* An entry at the end adds to the count of its token.
LEMMA CountAppend ==
    ASSUME NEW S, NEW s \in Seq(S), NEW x \in S, NEW t
    PROVE  Count(Append(s, x), t) = Count(s, t) + (IF x.token = t THEN 1 ELSE 0)
<1>1. Append(s, x) = s \o <<x>> /\ <<x>> \in Seq(S)
    BY AppendIsConcat
<1>2. Count(s \o <<x>>, t) = Count(s, t) + Count(<<x>>, t)
    BY <1>1, CountConcat
<1>3. Count(<<x>>, t) = IF x.token = t THEN 1 ELSE 0
    BY CountOne
<1> QED BY <1>1, <1>2, <1>3

\* An entry off the front takes from the count of its token.
LEMMA CountTail ==
    ASSUME NEW S, NEW s \in Seq(S), s # << >>, NEW t
    PROVE  Count(s, t) = Count(Tail(s), t) + (IF Head(s).token = t THEN 1 ELSE 0)
<1>1. /\ Head(s) \in S /\ Tail(s) \in Seq(S) /\ <<Head(s)>> \in Seq(S)
      /\ s = <<Head(s)>> \o Tail(s)
    OBVIOUS
<1>2. Count(s, t) = Count(<<Head(s)>>, t) + Count(Tail(s), t)
    <2> DEFINE h == <<Head(s)>>
               r == Tail(s)
    <2>1. h \in Seq(S) /\ r \in Seq(S) /\ s = h \o r
        BY <1>1, Zenon
    <2> HIDE DEF h, r
    <2>2. Count(h \o r, t) = Count(h, t) + Count(r, t)
        BY <2>1, CountConcat
    <2>3. Count(s, t) = Count(h, t) + Count(r, t)
        BY <2>1, <2>2, Zenon
    <2> QED BY <2>3, Zenon DEF h, r
<1>3. Count(Tail(s), t) \in Nat
    BY <1>1, CountType
<1>4. Count(<<Head(s)>>, t) = IF Head(s).token = t THEN 1 ELSE 0
    BY <1>1, CountOne
<1> QED BY <1>2, <1>3, <1>4

\* Taking one element out of a queue: the others keep their order.
LEMMA RemoveAtProperties ==
    ASSUME NEW S, NEW s \in Seq(S), NEW i \in DOMAIN s
    PROVE  /\ RemoveAt(s, i) \in Seq(S)
           /\ Len(RemoveAt(s, i)) = Len(s) - 1
           /\ \A j \in 1 .. (Len(s) - 1) :
                RemoveAt(s, i)[j] = IF j < i THEN s[j] ELSE s[j + 1]
<1> DEFINE a == SubSeq(s, 1, i - 1)
           b == SubSeq(s, i + 1, Len(s))
           r == RemoveAt(s, i)
<1>1. DOMAIN s = 1 .. Len(s) /\ Len(s) \in Nat /\ i \in 1 .. Len(s)
    BY LenProperties
<1>2. /\ a \in Seq(S) /\ Len(a) = i - 1
      /\ \A j \in 1 .. (i - 1) : a[j] = s[j]
    BY <1>1, SubSeqProperties, ElementOfSeq
<1>3. /\ b \in Seq(S) /\ Len(b) = Len(s) - i
      /\ \A j \in 1 .. (Len(s) - i) : b[j] = s[i + j]
    BY <1>1, SubSeqProperties, ElementOfSeq
<1>4. r = a \o b
    BY DEF RemoveAt
<1> HIDE DEF a, b, r
<1>5. /\ r \in Seq(S) /\ Len(r) = Len(a) + Len(b)
      /\ \A j \in 1 .. (Len(a) + Len(b)) :
            r[j] = IF j <= Len(a) THEN a[j] ELSE b[j - Len(a)]
    BY <1>2, <1>3, <1>4, ConcatProperties
<1>6. Len(a) + Len(b) = Len(s) - 1
    BY <1>1, <1>2, <1>3
<1>7. ASSUME NEW j \in 1 .. (Len(s) - 1)
      PROVE  r[j] = IF j < i THEN s[j] ELSE s[j + 1]
    <2>1. CASE j < i
        BY <1>1, <1>2, <1>5, <1>6, <2>1
    <2>2. CASE j >= i
        <3>1. r[j] = b[j - (i - 1)] /\ j - (i - 1) \in 1 .. (Len(s) - i)
            BY <1>1, <1>2, <1>5, <1>6, <2>2
        <3>2. b[j - (i - 1)] = s[i + (j - (i - 1))]
            BY <1>3, <3>1
        <3>3. i + (j - (i - 1)) = j + 1 /\ ~(j < i)
            BY <1>1, <2>2
        <3> QED BY <3>1, <3>2, <3>3
    <2> QED BY <1>1, <2>1, <2>2
<1> QED BY <1>5, <1>6, <1>7 DEF r

\* So does an entry off the middle.
LEMMA CountRemoveAt ==
    ASSUME NEW S, NEW s \in Seq(S), NEW i \in DOMAIN s, NEW t
    PROVE  Count(s, t) = Count(RemoveAt(s, i), t) + (IF s[i].token = t THEN 1 ELSE 0)
<1> DEFINE a == SubSeq(s, 1, i - 1)
           b == SubSeq(s, i + 1, Len(s))
<1>1. Len(s) \in Nat /\ i \in 1 .. Len(s) /\ s[i] \in S
    BY LenProperties, ElementOfSeq
<1>2. /\ a \in Seq(S) /\ b \in Seq(S) /\ <<s[i]>> \in Seq(S)
    <2>1. \A j \in 1 .. (i - 1) : s[j] \in S
        BY <1>1, ElementOfSeq
    <2>2. \A j \in (i + 1) .. Len(s) : s[j] \in S
        BY <1>1, ElementOfSeq
    <2> QED BY <1>1, <2>1, <2>2, SubSeqProperties
<1>3. SubSeq(s, i, Len(s)) = <<s[i]>> \o b
    <2>1. Len(s) \in i .. Len(s)
        BY <1>1
    <2> QED BY <1>1, <2>1, SubSeqRecursiveFirst
<1>4. s = a \o (<<s[i]>> \o b)
    <2>1. 1 \in 1 .. (Len(s) + 1) /\ i - 1 \in (1 - 1) .. Len(s) /\ Len(s) \in (i - 1) .. Len(s)
        BY <1>1
    <2>2. a \o SubSeq(s, (i - 1) + 1, Len(s)) = SubSeq(s, 1, Len(s))
        BY <2>1, ConcatAdjacentSubSeq, Zenon
    <2>3. (i - 1) + 1 = i
        BY <1>1
    <2> QED BY <1>3, <2>2, <2>3, SubSeqFull
<1>5. RemoveAt(s, i) = a \o b
    BY DEF RemoveAt
<1> HIDE DEF a, b
<1>6. Count(s, t) = Count(a, t) + Count(<<s[i]>> \o b, t)
    <2> DEFINE c == <<s[i]>> \o b
    <2>1. c \in Seq(S)
        BY <1>2, ConcatProperties
    <2>2. s = a \o c
        BY <1>4, Zenon
    <2> HIDE DEF c
    <2>3. Count(a \o c, t) = Count(a, t) + Count(c, t)
        BY <1>2, <2>1, CountConcat
    <2>4. Count(s, t) = Count(a, t) + Count(c, t)
        BY <2>2, <2>3, Zenon
    <2> QED BY <2>4, Zenon DEF c
<1>7. Count(<<s[i]>> \o b, t) = Count(<<s[i]>>, t) + Count(b, t)
    BY <1>2, CountConcat
<1>8. Count(RemoveAt(s, i), t) = Count(a, t) + Count(b, t)
    BY <1>2, <1>5, CountConcat
<1>9. Count(a, t) \in Nat /\ Count(b, t) \in Nat
    BY <1>2, CountType
<1>10. Count(<<s[i]>>, t) = IF s[i].token = t THEN 1 ELSE 0
    BY <1>1, CountOne
<1> QED BY <1>6, <1>7, <1>8, <1>9, <1>10

=============================================================================
