---------------------------- MODULE ExpertCache ----------------------------
(***************************************************************************)
(* The in-place expert cache of SteppeLoader ("HerdCache" in its logs):    *)
(* which slices of the fused expert tensors the loader believes resident   *)
(* (loaded), which it has pinned, how it ranks and evicts them, and what   *)
(* the kernel holds as a consequence of its madvise() calls.               *)
(*                                                                         *)
(* The eval callback of llama.cpp drives it from one thread.  For every    *)
(* MoE layer: record_routing, prefetch_experts, pilot_prefetch_next_layer, *)
(* then mul_mat_id reads the selected slices; for every layer: l_out, i.e. *)
(* on_layer_boundary, of which this module keeps the expert half.          *)
(*                                                                         *)
(* window_hits is an EWMA that only a hit moves (w := 0.95 w + 1), so it   *)
(* is a strictly increasing function of the number of hits: the model      *)
(* keeps that number.  w > 0 is one hit, w > kHotProtect_ = 1.0 is two.    *)
(* The sort of the ranking and of the ceiling is std::sort, which leaves   *)
(* ties in an unspecified order: every order of equal keys is a choice.    *)
(***************************************************************************)
EXTENDS Integers, Sequences, FiniteSetsExt, Functions

CONSTANTS
    NLayers,       \* transformer layers of the model
    NTensors,      \* fused expert tensors, numbered in expert_tensors_ order
    LayerOf,       \* ExpertTensor::layer
    NumExperts,    \* ExpertTensor::num_experts
    SliceBytes,    \* ExpertTensor::per_expert_bytes
    MaxActive,     \* config_.max_active_experts
    ExpertBudgets, \* the values fill_resident_layers may give expert_budget_bytes_
    UsePilot,      \* config_.use_pilot
    PilotMass,     \* config_.pilot_mass, in percent
    Warmup,        \* kWarmupLayers_
    Cadence,       \* kLogEveryLayers_
    Priors,        \* the imatrix counts the model directory may hold
    Routings,      \* the id lists a router node may produce
    MaxRecords     \* bound on routing_records_

Tensors == 1 .. NTensors
Experts == 0 .. (NumExperts - 1)
Slices == Tensors \X Experts

ASSUME CacheAssumption ==
    /\ NLayers \in Nat \ {0}
    /\ NTensors \in Nat \ {0}
    /\ NumExperts \in Nat \ {0, 1}
    /\ LayerOf \in [Tensors -> 0 .. (NLayers - 1)]
    /\ SliceBytes \in [Tensors -> Nat \ {0}]
    /\ MaxActive \in Nat \ {0}
    /\ ExpertBudgets \subseteq Nat
    /\ UsePilot \in BOOLEAN
    /\ PilotMass \in 0 .. 100
    /\ Warmup \in Nat \ {0}
    /\ Cadence \in Nat \ {0}
    /\ Priors \subseteq [Slices -> Nat]
    /\ Routings \subseteq Seq(Experts) \ {<< >>}
    /\ MaxRecords \in Nat

VARIABLES
    expert_budget,   \* expert_budget_bytes_, set once; 0 for no ceiling
    loaded,          \* slices with loaded[id], as the loader believes
    pinned,          \* slices with pinned[id]
    resident_bytes,  \* expert_resident_bytes_
    total_hits,      \* per slice, imatrix counts included
    window_hits,     \* per slice, run-time hits (see above)
    last_used,       \* per slice, the eclock_ tick of its last touch
    eclock,          \* eclock_
    budget,          \* ExpertTensor::budget
    trans,           \* ExpertTensor::trans, (from, to) counts
    from_layer,      \* pilot_from_layer_
    from_ids,        \* pilot_from_ids_
    records,         \* routing_records_
    last_boundary,   \* last_boundary_layer_
    layer,           \* the layer the forward pass is in
    phase,           \* what the forward pass does next in that layer
    selected,        \* ids of the router node being handled
    paged            \* slices whose pages the process brought in and has not
                     \* advised away since: an upper bound of what RAM holds

stats == <<total_hits, window_hits>>
recency == <<last_used, eclock>>
pilot == <<trans, from_layer, from_ids>>
residency == <<loaded, pinned, resident_bytes, paged>>
vars == <<expert_budget, residency, stats, recency, budget, pilot, records, last_boundary,
          layer, phase, selected>>

MoeLayers == Range(LayerOf)
TensorsAt(l) == {t \in Tensors : LayerOf[t] = l}
SlicesOf(t) == {t} \X Experts
Routed(l, ids) == TensorsAt(l) \X Range(ids)
Hits(ids, e) == Cardinality({i \in DOMAIN ids : ids[i] = e})

\* Bytes of a set of slices, counted as the (slice, byte) cells it covers.
Cells(S) == UNION {{s} \X (1 .. SliceBytes[s[1]]) : s \in S}
SizeOf(S) == Cardinality(Cells(S))

TypeOK ==
    /\ expert_budget \in Nat
    /\ loaded \subseteq Slices
    /\ pinned \subseteq Slices
    /\ paged \subseteq Slices
    /\ resident_bytes \in Nat
    /\ total_hits \in [Slices -> Nat]
    /\ window_hits \in [Slices -> Nat]
    /\ last_used \in [Slices -> Nat]
    /\ eclock \in Nat
    /\ budget \in [Tensors -> 1 .. MaxActive]
    /\ trans \in [Tensors -> [Experts \X Experts -> Nat]]
    /\ from_layer \in -1 .. (NLayers - 1)
    /\ from_ids \in Seq(Experts)
    /\ records \in 0 .. MaxRecords
    /\ last_boundary \in -1 .. (NLayers - 1)
    /\ layer \in 0 .. (NLayers - 1)
    /\ phase \in {"load", "route", "prefetch", "pilot", "compute", "boundary"}
    /\ selected \in Seq(Experts)

-----------------------------------------------------------------------------
(* The forward pass: router node and mul_mat_id in MoE layers, then l_out. *)

StartOf(l) == IF l \in MoeLayers THEN "route" ELSE "boundary"

Enter(l) == layer' = l /\ phase' = StartOf(l)

(* register_expert_tensor for every tensor: slices count as resident the   *)
(* moment they are mapped, though the mapping is demand-paged.             *)
Init ==
    /\ expert_budget \in ExpertBudgets
    /\ loaded = Slices
    /\ pinned = {}
    /\ resident_bytes = SizeOf(Slices)
    /\ total_hits = [s \in Slices |-> 0]
    /\ window_hits = [s \in Slices |-> 0]
    /\ last_used = [s \in Slices |-> 0]
    /\ eclock = 0
    /\ budget = [t \in Tensors |-> MaxActive]
    /\ trans = [t \in Tensors |-> [p \in Experts \X Experts |-> 0]]
    /\ from_layer = -1
    /\ from_ids = << >>
    /\ records = 0
    /\ last_boundary = -1
    /\ layer = 0
    /\ phase = "load"
    /\ selected = << >>
    /\ paged = {}

-----------------------------------------------------------------------------
(* Ranking, budgets and pins.                                              *)

\* recompute_budgets: one unit of demand per expert ever used, at least one
\* per tensor; shares of MaxActive * NTensors, clamped to 1 .. MaxActive.
Demand(total) ==
    {s \in Slices : \/ total[s] > 0
                    \/ s[2] = 0 /\ \A r \in SlicesOf(s[1]) : total[r] = 0}

\* Fault: the share is not capped.
UncappedBudgets(total) ==
    [t \in Tensors |->
        Max({1, (Cardinality(Demand(total) \cap SlicesOf(t)) * MaxActive * NTensors)
                    \div Cardinality(Demand(total))})]

RecomputeBudgets(total) ==
    [t \in Tensors |->
        LET share == (Cardinality(Demand(total) \cap SlicesOf(t)) * MaxActive * NTensors)
                        \div Cardinality(Demand(total))
        IN  IF share < 1 THEN 1 ELSE IF share > MaxActive THEN MaxActive ELSE share]

\* The first b[t] experts of every tensor t in some order of descending score.
\* Fault: the last rank is left out.
TopRankedShort(score, b) ==
    {H \in SUBSET Slices : \A t \in Tensors :
        /\ Cardinality(H \cap SlicesOf(t)) = Min({b[t], NumExperts}) - 1
        /\ \A h \in H \cap SlicesOf(t), s \in SlicesOf(t) \ H : score[h] >= score[s]}

TopRanked(score, b) ==
    {H \in SUBSET Slices : \A t \in Tensors :
        /\ Cardinality(H \cap SlicesOf(t)) = Min({b[t], NumExperts})
        /\ \A h \in H \cap SlicesOf(t), s \in SlicesOf(t) \ H : score[h] >= score[s]}

\* What a ranking pass may pin: ranks without any usage end it.
PinSets(score, b) == {{s \in H : score[s] > 0} : H \in TopRanked(score, b)}

\* evict_to_budget: cold slices first (PASS A), then hot ones (PASS B), each
\* least recently used first and lowest id first among equals.
Hot(win, s) == win[s] > 1

EvictedBefore(win, r, s) ==
    \/ ~Hot(win, r) /\ Hot(win, s)
    \/ /\ Hot(win, r) <=> Hot(win, s)
       /\ \/ last_used[r] < last_used[s]
          \/ last_used[r] = last_used[s] /\ r[2] < s[2]

\* Fault: pinned slices are not exempt.
EvictAnyLoaded(t, ld, pn, win, b) ==
    LET cands == ld \cap SlicesOf(t)
        over == Cardinality((ld \cup pn) \cap SlicesOf(t)) - b[t]
    IN  {s \in cands : Cardinality({r \in cands : EvictedBefore(win, r, s)}) < over}

\* Fault: the global cap instead of the tensor's own budget.
EvictToGlobalCap(t, ld, pn, win, b) ==
    LET cands == (ld \ pn) \cap SlicesOf(t)
        over == Cardinality((ld \cup pn) \cap SlicesOf(t)) - MaxActive
    IN  {s \in cands : Cardinality({r \in cands : EvictedBefore(win, r, s)}) < over}

EvictToBudget(t, ld, pn, win, b) ==
    LET cands == (ld \ pn) \cap SlicesOf(t)
        over == Cardinality((ld \cup pn) \cap SlicesOf(t)) - b[t]
    IN  {s \in cands : Cardinality({r \in cands : EvictedBefore(win, r, s)}) < over}

\* enforce_expert_byte_ceiling: the least recently used slices of all tensors,
\* pinned ones included, up to the first at which the bytes fit.
\* Fault: pinned slices are exempt from the ceiling.
CeilingSparingPins(ld, bytes) ==
    IF expert_budget = 0 \/ bytes <= expert_budget
    THEN {{}}
    ELSE {D \in SUBSET (ld \ pinned) :
            /\ \A d \in D, r \in (ld \ pinned) \ D : last_used[d] <= last_used[r]
            /\ bytes - SizeOf(D) <= expert_budget \/ D = ld \ pinned}

CeilingCuts(ld, bytes) ==
    IF expert_budget = 0 \/ bytes <= expert_budget
    THEN {{}}
    ELSE {D \in SUBSET ld :
            /\ \A d \in D, r \in ld \ D : last_used[d] <= last_used[r]
            /\ bytes - SizeOf(D) <= expert_budget \/ D = ld
            /\ \E last \in D : /\ \A d \in D : last_used[d] <= last_used[last]
                               /\ bytes - SizeOf(D \ {last}) > expert_budget}

\* maybe_pin_hot_experts, given the hit counts the caller has just updated.
MaybePinHotExperts(total, win) ==
    LET b == RecomputeBudgets(total)
    IN  /\ budget' = b
        /\ \E top \in PinSets(win, b) :
            LET new == top \ pinned
                fresh == new \ loaded
                pn == pinned \cup new
                ld == loaded \cup new
                victims == UNION {EvictToBudget(t, ld, pn, win, b) : t \in Tensors}
                bytes == resident_bytes + SizeOf(fresh) - SizeOf(victims)
            IN  \E cut \in CeilingCuts(ld \ victims, bytes) :
                    /\ pinned' = pn
                    /\ loaded' = (ld \ victims) \ cut
                    /\ resident_bytes' = bytes - SizeOf(cut)
                    /\ paged' = ((paged \cup fresh) \ victims) \ cut

-----------------------------------------------------------------------------
(* The operations.                                                         *)

\* load_imatrix_prior and pin_from_seeded_totals; every slice is loaded then.
LoadImatrixPrior ==
    /\ phase = "load"
    /\ \E prior \in Priors :
        /\ total_hits' = prior
        /\ IF \E s \in Slices : prior[s] > 0
           THEN /\ budget' = RecomputeBudgets(prior)
                /\ \E top \in PinSets(prior, RecomputeBudgets(prior)) :
                    LET fresh == top \ (pinned \cup loaded)
                    IN  /\ pinned' = pinned \cup top
                        /\ loaded' = loaded \cup fresh
                        /\ resident_bytes' = resident_bytes + SizeOf(fresh)
                        /\ paged' = paged \cup fresh
           ELSE UNCHANGED <<residency, budget>>
    /\ Enter(0)
    /\ UNCHANGED <<expert_budget, window_hits, recency, pilot, records, last_boundary, selected>>

\* record_routing learns a transition only inside one token, that is while
\* the firing layers increase.
\* Fault: the wrap-around from one token to the next is learned too.
AnyToken == from_layer >= 0 /\ from_ids # << >>

SameToken == from_layer >= 0 /\ layer > from_layer /\ from_ids # << >>

LearnTransitions(ids) ==
    trans' = [t \in Tensors |->
                IF SameToken /\ LayerOf[t] = layer
                THEN [p \in Experts \X Experts |->
                        trans[t][p] + Hits(from_ids, p[1]) * Hits(ids, p[2])]
                ELSE trans[t]]

CountHits(hits, ids) ==
    [s \in Slices |-> hits[s] + (IF LayerOf[s[1]] = layer THEN Hits(ids, s[2]) ELSE 0)]

PinDue(n) == n = Warmup \/ (n > Warmup /\ n % Cadence = 0)

RecordRouting ==
    /\ phase = "route"
    /\ records < MaxRecords
    /\ \E ids \in Routings :
        /\ selected' = ids
        /\ LearnTransitions(ids)
        /\ total_hits' = CountHits(total_hits, ids)
        /\ window_hits' = CountHits(window_hits, ids)
        /\ from_layer' = layer
        /\ from_ids' = ids
        /\ records' = records + 1
        /\ IF PinDue(records + 1)
           THEN MaybePinHotExperts(CountHits(total_hits, ids), CountHits(window_hits, ids))
           ELSE UNCHANGED <<residency, budget>>
    /\ phase' = "prefetch"
    /\ UNCHANGED <<expert_budget, recency, last_boundary, layer>>

\* touch() in tensor order, ids in list order: the last tick of a slice wins.
Touch(l, ids) ==
    LET n == Len(ids)
        rank(t) == Cardinality({u \in TensorsAt(l) : u < t})
        at(e) == Max({i \in DOMAIN ids : ids[i] = e})
    IN  /\ last_used' = [s \in Slices |->
                            IF s \in Routed(l, ids)
                            THEN eclock + rank(s[1]) * n + at(s[2])
                            ELSE last_used[s]]
        /\ eclock' = eclock + n * Cardinality(TensorsAt(l))

\* The misses of a prefetch: neither pinned nor loaded, each once.
\* Fault: slices that are loaded already are counted again.
WantLoadedToo(l, ids) == Routed(l, ids) \ pinned

\* Fault: hot slices are taken to be resident.
WantCold(l, ids) ==
    {s \in Routed(l, ids) \ (pinned \cup loaded) : ~Hot(window_hits, s)}

Want(l, ids) == Routed(l, ids) \ (pinned \cup loaded)

\* prefetch_experts(l, ids): touch everything, page in the misses, evict nothing.
PrefetchInto(l, ids) ==
    LET want == Want(l, ids)
    IN  /\ Touch(l, ids)
        /\ loaded' = loaded \cup want
        /\ resident_bytes' = resident_bytes + SizeOf(want)
        /\ paged' = paged \cup want
        /\ UNCHANGED pinned

PrefetchExperts ==
    /\ phase = "prefetch"
    /\ PrefetchInto(layer, selected)
    /\ phase' = "pilot"
    /\ UNCHANGED <<expert_budget, stats, budget, pilot, records, last_boundary, layer,
                   selected>>

\* Pilot: rank the experts of tensor t by the transition counts out of ids and
\* keep the head of the ranking that reaches PilotMass, at most budget[t].
Score(t, ids) ==
    [e \in Experts |-> MapThenSumSet(LAMBDA i : trans[t][<<ids[i], e>>], DOMAIN ids)]

Kept(score, k) ==
    LET mass(P) == MapThenSumSet(LAMBDA e : score[e], P)
        cutoff == (PilotMass * mass(Experts)) \div 100
    IN  IF mass(Experts) = 0 THEN {{}}
        ELSE {P \in SUBSET Experts \ {{}} :
                /\ \A e \in P, f \in Experts \ P : score[e] >= score[f]
                /\ Cardinality(P) <= k
                /\ \/ Cardinality(P) = 1
                   \/ mass(P) - Min({score[e] : e \in P}) < cutoff
                /\ Cardinality(P) \in {k, NumExperts} \/ mass(P) >= cutoff}

Later == {l \in MoeLayers : l > layer}
NextMoe == CHOOSE l \in Later : \A m \in Later : l <= m

Predictions ==
    IF UsePilot /\ Later # {}
    THEN {UNION Range(f) : f \in {g \in [TensorsAt(NextMoe) -> SUBSET Experts] :
            \A t \in TensorsAt(NextMoe) : g[t] \in Kept(Score(t, selected), budget[t])}}
    ELSE {{}}

PilotPrefetchNextLayer ==
    /\ phase = "pilot"
    /\ \E predicted \in Predictions :
        IF predicted = {}
        THEN UNCHANGED <<residency, recency>>
        ELSE \E ids \in Injection(1 .. Cardinality(predicted), predicted) :
                PrefetchInto(NextMoe, ids)
    /\ phase' = "compute"
    /\ UNCHANGED <<expert_budget, stats, budget, pilot, records, last_boundary, layer,
                   selected>>

\* mul_mat_id reads the selected slices through the mmap; what is not in RAM
\* faults in.
Compute ==
    /\ phase = "compute"
    /\ paged' = paged \cup Routed(layer, selected)
    /\ phase' = "boundary"
    /\ UNCHANGED <<expert_budget, loaded, pinned, resident_bytes, stats, recency, budget, pilot,
                   records, last_boundary, layer, selected>>

\* The expert half of on_layer_boundary: a layer that does not increase starts
\* a new pass, and the ceiling is enforced there.
NewPass == layer <= last_boundary

OnLayerBoundary ==
    /\ phase = "boundary"
    /\ \E cut \in IF NewPass THEN CeilingCuts(loaded, resident_bytes) ELSE {{}} :
        /\ loaded' = loaded \ cut
        /\ resident_bytes' = resident_bytes - SizeOf(cut)
        /\ paged' = paged \ cut
    /\ last_boundary' = layer
    /\ Enter((layer + 1) % NLayers)
    /\ UNCHANGED <<expert_budget, pinned, stats, recency, budget, pilot, records, selected>>

\* A user callback that returns false ends the graph between two nodes; the
\* next decode starts again at layer 0.
Abort ==
    /\ phase \in {"route", "boundary"}
    /\ layer > 0
    /\ Enter(0)
    /\ UNCHANGED <<expert_budget, residency, stats, recency, budget, pilot, records,
                   last_boundary, selected>>

\* The bound MaxRecords is reached: generation ends.
Finished ==
    /\ phase = "route"
    /\ records = MaxRecords
    /\ UNCHANGED vars

Next ==
    \/ LoadImatrixPrior
    \/ RecordRouting
    \/ PrefetchExperts
    \/ PilotPrefetchNextLayer
    \/ Compute
    \/ OnLayerBoundary
    \/ Abort
    \/ Finished

Spec == Init /\ [][Next]_vars

-----------------------------------------------------------------------------
(* Properties.                                                             *)

\* The global byte counter is exactly the size of the slices marked loaded:
\* registration, prefetch, pilot, pins, both evictions and the ceiling agree
\* on who adds and who subtracts a slice (expert_resident_bytes_), so the
\* clamp of its subtractions never bites.
BytesExact == resident_bytes = SizeOf(loaded)

\* When mul_mat_id reads the selected slices they are loaded: all of them without a
\* byte ceiling, and those that are not pinned under any.  A ceiling may have dropped
\* a selected slice that is pinned, in record_routing of the same callback or earlier,
\* and prefetch_experts takes every pin for resident and does not load it again,
\* although its comment calls a pin "always resident, zero page fault".
SelectedResident ==
    phase = "compute" =>
        /\ expert_budget = 0 => Routed(layer, selected) \subseteq loaded
        /\ Routed(layer, selected) \ pinned \subseteq loaded

\* Without a byte ceiling nothing ever drops a pinned slice.
PinsStayLoaded == expert_budget = 0 => pinned \subseteq loaded

\* The only pages the loader does not account for are those of pinned slices.
OnlyPinsEscape == paged \subseteq loaded \cup pinned

\* Pilot never learns a transition across tokens: the tensors of the first MoE
\* layer, which only follow the last layer of an earlier token, stay at zero.
NoWrapAroundLearned ==
    \A t \in Tensors : (\A l \in MoeLayers : LayerOf[t] <= l)
        => \A p \in Experts \X Experts : trans[t][p] = 0

PinPass == records' # records /\ PinDue(records')

\* A pin pass leaves every tensor within its budget, or with nothing that it
\* was allowed to evict.
BudgetMetOrAllPinned ==
    [][PinPass => \A t \in Tensors :
        \/ Cardinality((loaded' \cup pinned') \cap SlicesOf(t)) <= budget'[t]
        \/ (loaded' \ pinned') \cap SlicesOf(t) = {}]_vars

\* A slice that a pin pass leaves loaded but unpinned was never routed to.  The
\* pass pins up to budget slices with hits first, so whenever a slice with hits
\* stays unpinned the pins alone fill the budget and every other slice goes:
\* the order of evict_to_budget (cold before hot) never decides anything.
WarmSurvivorsUnused ==
    [][PinPass => \A s \in loaded' \ pinned' : window_hits'[s] = 0]_vars

\* Both places that enforce the byte ceiling leave the counted bytes under it, which
\* takes pins too: the code says so at the loop, while guanaco.h declares the function
\* as one that evicts slices that are not pinned.
CeilingMet ==
    [][PinPass \/ (OnLayerBoundary /\ NewPass)
        => expert_budget = 0 \/ resident_bytes' <= expert_budget]_vars

(* A statement of the documentation, which the code breaks.                *)

\* docs/PINNING.md: a cap of N pins at most N experts per tensor.
PinsWithinMaxExperts ==
    \A t \in Tensors : Cardinality(pinned \cap SlicesOf(t)) <= MaxActive

=============================================================================
