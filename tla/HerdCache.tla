----------------------------- MODULE HerdCache -----------------------------
(***************************************************************************)
(* The class HerdCache of guanaco_herdcache.cpp: a map of active expert    *)
(* slots and a recency list beside it.  The two are separate containers    *)
(* that every operation has to keep in step.  The map is its set of keys   *)
(* here; the buffers behind the keys are in ExpertReads.                   *)
(*                                                                         *)
(* madvise() on a buffer is left out: a heap block does not begin on a     *)
(* page, so the call fails and nobody looks at its result.                 *)
(***************************************************************************)
EXTENDS Naturals, SequencesExt

CONSTANTS
    Keys,    \* ExpertKey: <<layer_idx, expert_idx>>
    MaxCaps  \* the values max_active_experts may be set to

ASSUME HerdAssumption == MaxCaps \subseteq Nat /\ MaxCaps # {}

VARIABLES
    active,     \* keys of active_experts_
    lru,        \* lru_list_, least recently used first
    max_active  \* config_.max_active_experts

herd == <<active, lru, max_active>>

HerdTypeOK ==
    /\ active \subseteq Keys
    /\ lru \in Seq(Keys)
    /\ max_active \in MaxCaps

HerdInit ==
    /\ active = {}
    /\ lru = << >>
    /\ max_active \in MaxCaps

\* Fault: the old place in the list is kept.
UpdateLruTwice(list, key) == Append(list, key)

UpdateLru(list, key) == Append(RemoveFirst(list, key), key)

\* How many entries evict_if_needed takes off the front of the list.
\* Fault: it stops when the limit is met, without room for one more.
EvictCountFull ==
    Min({n \in 0 .. Len(lru) :
            \/ Cardinality(active \ ToSet(SubSeq(lru, 1, n))) <= max_active
            \/ n = Len(lru)})

\* Fault: room for two slots.
EvictCountTwo ==
    Min({n \in 0 .. Len(lru) :
            \/ Cardinality(active \ ToSet(SubSeq(lru, 1, n))) + 1 < max_active
            \/ n = Len(lru)})

EvictCount ==
    Min({n \in 0 .. Len(lru) :
            \/ Cardinality(active \ ToSet(SubSeq(lru, 1, n))) < max_active
            \/ n = Len(lru)})

\* The keys evict_lru has taken from the map, and the list it has left.
Evicted == ToSet(SubSeq(lru, 1, EvictCount))
Remaining == SubSeq(lru, EvictCount + 1, Len(lru))

\* allocate_slot makes room first, even for a key that is active already.
AllocateSlot(key) ==
    /\ active' = (active \ Evicted) \cup {key}
    /\ lru' = UpdateLru(Remaining, key)
    /\ UNCHANGED max_active

GetBuffer(key) ==
    /\ key \in active
    /\ lru' = UpdateLru(lru, key)
    /\ UNCHANGED <<active, max_active>>

PinExpert(key) == IF key \in active THEN GetBuffer(key) ELSE AllocateSlot(key)

UnpinExpert(key) ==
    /\ key \in active
    /\ active' = active \ {key}
    /\ lru' = RemoveFirst(lru, key)
    /\ UNCHANGED max_active

EvictIfNeeded ==
    /\ active' = active \ Evicted
    /\ lru' = Remaining
    /\ UNCHANGED max_active

SetMaxActive(m) == max_active' = m /\ UNCHANGED <<active, lru>>

-----------------------------------------------------------------------------
(* Properties.                                                             *)

\* The list names every active slot exactly once and nothing else, so that a slot
\* can always be evicted and an eviction always frees a slot.
ListMatchesMap == ToSet(lru) = active /\ Len(lru) = Cardinality(active)

\* A step that adds a slot ends within the limit that is set at that time (one
\* slot for a limit of zero), also after the limit was lowered.
AllocationWithinCapacity ==
    [][active' \subseteq active
       \/ Cardinality(active') <= Max({1, max_active'})]_herd

=============================================================================
