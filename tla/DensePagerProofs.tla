-------------------------- MODULE DensePagerProofs --------------------------
(* Theorems about DensePager for any number of layers, tensors per layer,   *)
(* layers read ahead, contexts and passes.                                  *)
EXTENDS DensePager, UringSlabProofs

-----------------------------------------------------------------------------
(* Batches and slabs.                                                      *)

\* The requests of one layer: one per tensor, all with the token of the batch.
LEMMA BatchProperties ==
    ASSUME NEW t \in Layers, NEW l \in Layers
    PROVE  /\ Batch(t, SlicesOf(l)) \in Seq(Requests)
           /\ Len(Batch(t, SlicesOf(l))) = NSlices
           /\ \A i \in 1 .. NSlices :
                Batch(t, SlicesOf(l))[i] = [token |-> t, slab |-> <<l, i>>]
<1> DEFINE b == [i \in 1 .. NSlices |-> [token |-> t, slab |-> <<l, i>>]]
<1>1. Batch(t, SlicesOf(l)) = b
    BY DEF Batch, SlicesOf
<1>2. NSlices \in Nat /\ b \in [1 .. NSlices -> Requests]
    BY PagerAssumption DEF Requests
<1>3. b \in Seq(Requests) /\ Len(b) = NSlices
    BY <1>2
<1> QED BY <1>1, <1>3

\* The slabs of a layer are slabs.
LEMMA SlabsOfType == \A l \in Layers : SlabsOf(l) \subseteq Slabs
BY PagerAssumption DEF SlabsOf

-----------------------------------------------------------------------------
(* Types.                                                                  *)

\* The resident prefix has been read.
Opened == pc = "run" \/ busy # {}

\* Where the callback stands determines who is in it and which layer it may read.
PhaseOK ==
    /\ pc \in {"fill", "run"} => busy = {}
    /\ pc \in {"drain", "submit", "ensure", "wait", "evict"} => busy # {}
    /\ pc \in {"sync", "read", "pread", "wait"} => cur + 1 < NLayers
    /\ busy # {} => \E c \in Contexts : busy = {c} /\ pos[c] = cur
    /\ busy # {} => passes < MaxPasses /\ cur = last_boundary
    /\ ~Opened => cur < W /\ last_boundary = -1
    /\ ~Opened /\ pc # "fill" => cur + 1 < W

TypeInv == TypeOK /\ PhaseOK

\* The initial state is well typed, with the callback outside of everything.
LEMMA TypeInit == Init => TypeInv
BY PagerAssumption, EmptySeq DEF Init, RingInit, TypeInv, TypeOK, RingTypeOK, PhaseOK, Opened,
    NoneInflight, Layers

\* Ring and memory keep their types in the calls of the pager.
LEMMA SubmitOkType ==
    ASSUME RingTypeOK, NEW t \in Layers, NEW l \in Layers, faults' = faults,
           SubmitOk(t, SlicesOf(l))
    PROVE  RingTypeOK'
<1>1. kernel \o sq \in Seq(Requests)
    BY ConcatProperties DEF RingTypeOK
<1>2. (kernel \o sq) \o Batch(t, SlicesOf(l)) \in Seq(Requests)
    BY <1>1, BatchProperties, ConcatProperties
<1> QED BY <1>2, EmptySeq DEF RingTypeOK, SubmitOk, memory

\* A failed submission leaves its requests queued, which are requests still.
LEMMA SubmitFailType ==
    ASSUME RingTypeOK, NEW t \in Layers, NEW l \in Layers, faults' = faults,
           SubmitFail(t, SlicesOf(l))
    PROVE  RingTypeOK'
BY BatchProperties, ConcatProperties DEF RingTypeOK, SubmitFail, memory

\* A reap takes completions away.
LEMMA ReapType ==
    ASSUME RingTypeOK, faults' = faults, Reap
    PROVE  /\ RingTypeOK'
           /\ Head(cq) \in [token : Tokens, res : Outcomes]
BY HeadTailProperties DEF RingTypeOK, Reap, memory

\* A synchronous read fills slabs.
LEMMA FillType ==
    ASSUME RingTypeOK, faults' = faults, UNCHANGED ring,
           NEW S \in SUBSET Slabs, Fill(S) \/ UNCHANGED memory
    PROVE  RingTypeOK'
BY DEF RingTypeOK, Fill, ring, memory

\* madvise moves slabs between filled, lazy and gone.
LEMMA AdviseType ==
    ASSUME RingTypeOK, faults' = faults, UNCHANGED ring,
           NEW S \in SUBSET Slabs, NEW advice, Advise(S, advice)
    PROVE  RingTypeOK'
BY DEF RingTypeOK, Advise, ring

\* The kernel turns a request into a completion.
LEMMA CompleteType ==
    ASSUME RingTypeOK, faults' = faults, Complete
    PROVE  RingTypeOK'
<1>1. PICK i \in DOMAIN kernel, res \in Outcomes :
        /\ kernel' = RemoveAt(kernel, i)
        /\ cq' = Append(cq, [token |-> kernel[i].token, res |-> res])
        /\ IF res = "ok" THEN Fill({kernel[i].slab}) ELSE UNCHANGED memory
        /\ UNCHANGED sq
    BY DEF Complete
<1>2. kernel[i] \in Requests
    BY ElementOfSeq, LenProperties DEF RingTypeOK
<1>3. kernel' \in Seq(Requests)
    BY <1>1, RemoveAtProperties DEF RingTypeOK
<1>4. cq' \in Seq([token : Tokens, res : Outcomes])
    BY <1>1, <1>2, AppendProperties DEF RingTypeOK, Requests
<1> QED BY <1>1, <1>2, <1>3, <1>4 DEF RingTypeOK, Fill, memory, Requests

\* Steps of the callback that make no call to the ring.
LEMMA RingStutterType ==
    ASSUME RingTypeOK, UNCHANGED <<faults, ring, memory>>
    PROVE  RingTypeOK'
BY DEF RingTypeOK, ring, memory

\* Layers the pager addresses, in terms of its constants.
LEMMA Bounds ==
    /\ NLayers \in Nat \ {0} /\ W \in 1 .. NLayers /\ NSlices \in Nat \ {0}
    /\ Ahead \in Nat \ {0} /\ MaxPasses \in Nat
    /\ Layers = 0 .. (NLayers - 1) /\ Tokens = Layers /\ 0 \in Layers
BY PagerAssumption DEF Layers

\* One step of the callback that does not touch the ring's types.
LEMMA FillResidentLayersType ==
    ASSUME TypeInv, FillResidentLayers, faults' = faults
    PROVE  TypeInv'
<1>1. RingTypeOK'
    BY RingStutterType DEF FillResidentLayers, TypeInv, TypeOK
<1> QED BY <1>1, Bounds DEF FillResidentLayers, TypeInv, TypeOK, PhaseOK, Opened, Goto, window, passing

\* Marking a layer and moving on, in the prefix or in a pass.
LEMMA MarkResidentType ==
    ASSUME TypeInv, MarkResident, UNCHANGED <<todo, passing>>, all_ok' \in BOOLEAN,
           pc \in {"read", "pread", "wait"}, RingTypeOK'
    PROVE  TypeInv'
<1>1. cur + 1 \in Layers
    BY Bounds DEF TypeInv, TypeOK, PhaseOK
<1>2. CASE busy = {}
    BY <1>1, <1>2, Bounds DEF MarkResident, TypeInv, TypeOK, PhaseOK, Opened, Goto, passing
<1>3. CASE busy # {}
    BY <1>1, <1>3, Bounds DEF MarkResident, TypeInv, TypeOK, PhaseOK, Opened, Goto, passing
<1> QED BY <1>2, <1>3

\* io_uring_slab_read hands its batch over.
LEMMA SyncSubmitType ==
    ASSUME TypeInv, SyncSubmit, faults' = faults
    PROVE  TypeInv'
<1>1. cur + 1 \in Layers /\ pc = "sync"
    BY Bounds DEF TypeInv, TypeOK, PhaseOK, SyncSubmit
<1>2. RingTypeOK'
    BY <1>1, Bounds, SubmitOkType, SubmitFailType, RingStutterType DEF SyncSubmit, TypeInv, TypeOK
<1>3. /\ pc' \in {"read", "pread"} /\ todo' \in 0 .. NSlices
      /\ UNCHANGED <<uring, resident, inflight, submitted_upto, last_boundary, cur, busy, pos, passes>>
    BY Bounds DEF SyncSubmit, TypeInv, TypeOK, Goto, window, passing
<1>4. all_ok' \in BOOLEAN
    BY DEF SyncSubmit, TypeInv, TypeOK
<1> QED BY <1>1, <1>2, <1>3, <1>4 DEF TypeInv, TypeOK, PhaseOK, Opened

\* io_uring_slab_read takes one completion.
LEMMA SyncReapType ==
    ASSUME TypeInv, SyncReap, faults' = faults
    PROVE  TypeInv'
<1>1. RingTypeOK'
    BY ReapType, RingStutterType DEF SyncReap, ReapFails, TypeInv, TypeOK
<1>2. /\ todo' \in 0 .. NSlices
      /\ UNCHANGED <<uring, resident, inflight, submitted_upto, last_boundary, pc, cur, busy, pos, passes>>
    BY Bounds DEF SyncReap, TypeInv, TypeOK, window, passing
<1>3. all_ok' \in BOOLEAN
    BY DEF SyncReap, TypeInv, TypeOK
<1> QED BY <1>1, <1>2, <1>3 DEF TypeInv, TypeOK, PhaseOK, Opened

\* io_uring_slab_read returns.
LEMMA SyncDoneType ==
    ASSUME TypeInv, SyncDone, faults' = faults
    PROVE  TypeInv'
<1>1. RingTypeOK'
    BY RingStutterType DEF SyncDone, TypeInv, TypeOK
<1>2. CASE all_ok
    BY <1>1, <1>2, MarkResidentType DEF SyncDone, TypeInv, TypeOK
<1>3. CASE ~all_ok
    BY <1>1, <1>3, Bounds DEF SyncDone, TypeInv, TypeOK, PhaseOK, Opened, Goto, window, passing
<1> QED BY <1>2, <1>3

\* The fallback reads of prefetch_layer.
LEMMA PreadType ==
    ASSUME TypeInv, Pread, faults' = faults
    PROVE  TypeInv'
<1>1. cur + 1 \in Layers
    BY Bounds DEF TypeInv, TypeOK, PhaseOK, Pread
<1>2. RingTypeOK'
    BY <1>1, SlabsOfType, FillType DEF Pread, TypeInv, TypeOK
<1> QED BY <1>2, MarkResidentType DEF Pread, TypeInv, TypeOK

\* on_layer_boundary is entered by one context.
LEMMA OnLayerBoundaryType ==
    ASSUME TypeInv, NEW c \in Contexts, OnLayerBoundary(c)
    PROVE  TypeInv'
<1>1. RingTypeOK'
    BY RingStutterType DEF OnLayerBoundary, TypeInv, TypeOK
<1> QED BY <1>1, Bounds DEF OnLayerBoundary, TypeInv, TypeOK, PhaseOK, Opened, Goto

\* A count in dense_inflight_ stops at zero.
LEMMA CountDownType ==
    ASSUME NEW counts \in [Layers -> 0 .. NSlices], NEW t \in Layers
    PROVE  CountDown(counts, t) \in [Layers -> 0 .. NSlices]
BY Bounds DEF CountDown

\* drain_inflight at the start of a pass.
LEMMA DrainInflightType ==
    ASSUME TypeInv, DrainInflight, faults' = faults
    PROVE  TypeInv'
<1>1. RingTypeOK'
    BY ReapType, RingStutterType DEF DrainInflight, ReapFails, TypeInv, TypeOK
<1>2. inflight' \in [Layers -> 0 .. NSlices]
    <2>1. CASE Reap /\ inflight' = CountDown(inflight, Head(cq).token)
        BY <2>1, ReapType, CountDownType, Bounds DEF DrainInflight, TypeInv, TypeOK
    <2>2. CASE Drained
        BY <2>2, Bounds DEF Drained, NoneInflight
    <2> QED BY <2>1, <2>2 DEF DrainInflight
<1>3. /\ pc' \in {"drain", "submit"} /\ submitted_upto' \in -1 .. (NLayers - 1) /\ pc = "drain"
      /\ UNCHANGED <<uring, resident, last_boundary, cur, todo, all_ok, busy, pos, passes>>
    BY Bounds DEF DrainInflight, Drained, TypeInv, TypeOK, Goto, passing
<1> QED BY <1>1, <1>2, <1>3 DEF TypeInv, TypeOK, PhaseOK, Opened

\* One round of the submit loop.
LEMMA SubmitLayerAsyncType ==
    ASSUME TypeInv, SubmitLayerAsync, faults' = faults
    PROVE  TypeInv'
<1> DEFINE k == submitted_upto + 1
<1>1. CASE k <= Target /\ k < NLayers
    <2>1. k \in Layers /\ Submit(k) /\ UNCHANGED pc
        BY <1>1, Bounds DEF SubmitLayerAsync, TypeInv, TypeOK
    <2>2. RingTypeOK'
        BY <2>1, SubmitOkType, SubmitFailType, RingStutterType DEF Submit, TypeInv, TypeOK
    <2>3. inflight' \in [Layers -> 0 .. NSlices]
        BY <2>1, Bounds DEF Submit, TypeInv, TypeOK
    <2>4. /\ UNCHANGED <<uring, resident, last_boundary, cur, todo, all_ok, pc>>
          /\ UNCHANGED <<busy, pos, passes>>
        BY <2>1 DEF SubmitLayerAsync, passing
    <2>5. submitted_upto' \in -1 .. (NLayers - 1)
        BY <2>1, Bounds DEF Submit, Layers
    <2>6. TypeOK'
        BY <2>2, <2>3, <2>4, <2>5 DEF TypeInv, TypeOK
    <2>7. PhaseOK'
        BY <2>4 DEF TypeInv, PhaseOK, Opened
    <2> QED BY <2>6, <2>7 DEF TypeInv
<1>2. CASE ~(k <= Target /\ k < NLayers)
    <2>1. RingTypeOK'
        BY <1>2, RingStutterType DEF SubmitLayerAsync, TypeInv, TypeOK
    <2> QED BY <1>2, <2>1, Bounds DEF SubmitLayerAsync, TypeInv, TypeOK, PhaseOK, Opened, Goto, passing
<1> QED BY <1>1, <1>2

\* ensure_layer decides what to wait for.
LEMMA EnsureLayerType ==
    ASSUME TypeInv, EnsureLayer, faults' = faults
    PROVE  TypeInv'
<1>1. RingTypeOK'
    BY RingStutterType DEF EnsureLayer, TypeInv, TypeOK
<1> QED BY <1>1, Bounds DEF EnsureLayer, TypeInv, TypeOK, PhaseOK, Opened, Goto, window, passing

\* ensure_layer takes one completion.
LEMMA EnsureReapType ==
    ASSUME TypeInv, EnsureReap, faults' = faults
    PROVE  TypeInv'
<1>1. RingTypeOK'
    BY ReapType, RingStutterType
    DEF EnsureReap, CountCompletion, GiveUp, ReapFails, TypeInv, TypeOK
<1>2. inflight' \in [Layers -> 0 .. NSlices] /\ all_ok' \in BOOLEAN
    <2>1. CASE CountCompletion
        BY <2>1, ReapType, CountDownType, Bounds
        DEF EnsureReap, CountCompletion, TypeInv, TypeOK
    <2>2. CASE GiveUp
        <3>1. inflight \in [Layers -> 0 .. NSlices] /\ 0 \in 0 .. NSlices
            BY Bounds DEF TypeInv, TypeOK
        <3>2. inflight' = [inflight EXCEPT ![cur + 1] = 0] /\ all_ok' = FALSE
            BY <2>2 DEF GiveUp
        <3> QED BY <3>1, <3>2
    <2> QED BY <2>1, <2>2 DEF EnsureReap
<1> QED BY <1>1, <1>2, Bounds DEF EnsureReap, TypeInv, TypeOK, PhaseOK, Opened, passing

\* ensure_layer stops waiting.
LEMMA EnsureDoneType ==
    ASSUME TypeInv, EnsureDone, faults' = faults
    PROVE  TypeInv'
<1>1. RingTypeOK'
    BY RingStutterType DEF EnsureDone, TypeInv, TypeOK
<1>2. CASE all_ok
    BY <1>1, <1>2, MarkResidentType DEF EnsureDone, TypeInv, TypeOK
<1>3. CASE ~all_ok
    BY <1>1, <1>3, Bounds DEF EnsureDone, TypeInv, TypeOK, PhaseOK, Opened, Goto, window, passing
<1> QED BY <1>2, <1>3

\* evict_layer, and the return of the callback.
LEMMA EvictLayerType ==
    ASSUME TypeInv, EvictLayer, faults' = faults
    PROVE  TypeInv'
<1>1. cur \in Layers /\ busy # {} /\ passes < MaxPasses
    BY Bounds DEF EvictLayer, TypeInv, TypeOK, PhaseOK
<1>2. RingTypeOK' /\ resident' \subseteq Layers
    BY <1>1, SlabsOfType, AdviseType, RingStutterType DEF EvictLayer, Release, TypeInv, TypeOK
<1>3. pos' \in [Contexts -> Layers]
    <2>1. (cur + 1) % NLayers \in Layers
        BY <1>1, Bounds
    <2> QED BY <2>1 DEF EvictLayer, TypeInv, TypeOK
<1> QED BY <1>1, <1>2, <1>3, Bounds DEF EvictLayer, TypeInv, TypeOK, PhaseOK, Opened, Goto

\* A stopped graph.
LEMMA AbortType ==
    ASSUME TypeInv, NEW c \in Contexts, Abort(c)
    PROVE  TypeInv'
<1>1. RingTypeOK'
    BY RingStutterType DEF Abort, TypeInv, TypeOK
<1> QED BY <1>1, Bounds DEF Abort, TypeInv, TypeOK, PhaseOK, Opened, window, control

\* The kernel completes reads and takes pages back.
LEMMA KernelType ==
    ASSUME TypeInv, KernelStep \/ ReclaimStep
    PROVE  TypeInv'
<1>1. RingTypeOK'
    BY CompleteType DEF KernelStep, ReclaimStep, Reclaim, RingTypeOK, ring, TypeInv, TypeOK
<1> QED BY <1>1 DEF KernelStep, ReclaimStep, TypeInv, TypeOK, PhaseOK, Opened, window, control, passing

\* Every step keeps types and phases.
LEMMA TypeStep ==
    ASSUME TypeInv, [Next]_vars
    PROVE  TypeInv'
<1>1. CASE LoaderStep
    BY <1>1, FillResidentLayersType, SyncSubmitType, SyncReapType, SyncDoneType, PreadType,
       DrainInflightType, SubmitLayerAsyncType, EnsureLayerType, EnsureReapType,
       EnsureDoneType, EvictLayerType DEF LoaderStep
<1>2. CASE \E c \in Contexts : OnLayerBoundary(c) \/ Abort(c)
    BY <1>2, OnLayerBoundaryType, AbortType
<1>3. CASE KernelStep \/ ReclaimStep
    BY <1>3, KernelType
<1>4. CASE UNCHANGED vars
    <2>1. RingTypeOK'
        BY <1>4, RingStutterType DEF vars, TypeInv, TypeOK
    <2> QED BY <1>4, <2>1 DEF vars, window, control, passing, TypeInv, TypeOK, PhaseOK, Opened
<1> QED BY <1>1, <1>2, <1>3, <1>4 DEF Next, Finished

\* Every variable of the pager keeps its type, whatever faults, orders of completion,
\* aborts and contexts a run meets; in particular the callback never addresses a layer
\* beyond the last and no count leaves 0 .. NSlices.
THEOREM PagerTypeCorrect == Spec => []TypeOK
<1>1. TypeInv /\ [Next]_vars => TypeInv'
    BY TypeStep
<1>2. TypeInv => TypeOK
    BY DEF TypeInv
<1> QED BY <1>1, <1>2, TypeInit, PTL DEF Spec

-----------------------------------------------------------------------------
(* The pager when no read fails: any order of completion, any number of    *)
(* layers ahead, any number of contexts.                                   *)

\* Every slab of layer l is held, or on its way under token t.
Covered(requests, held, t, l) ==
    \A s \in SlabsOf(l) :
        \/ s \in held
        \/ \E i \in DOMAIN requests : requests[i] = [token |-> t, slab |-> s]

\* A count may be too high (a synchronous read takes completions without counting
\* them, which is what makes a callback hang), but never too low.
QueueOK ==
    /\ sq = << >>
    /\ ~uring => kernel = << >> /\ cq = << >>
    /\ \A l \in W .. (NLayers - 1) : Count(kernel, l) + Count(cq, l) <= inflight[l]

\* What was submitted in this pass and not passed yet is there or on its way, and the
\* callback waits for such a layer only, or reads one again that is there already.
AheadOK ==
    /\ pc # "drain" /\ uring =>
        \A l \in W .. (NLayers - 1) :
            last_boundary < l /\ l <= submitted_upto => Covered(kernel, Held, l, l)
    /\ pc # "drain" => \A l \in Layers : submitted_upto < l => inflight[l] = 0
    /\ pc \in {"ensure", "wait"} /\ cur + 1 < NLayers => cur + 1 <= submitted_upto
    /\ pc = "wait" => cur + 1 >= W
    /\ pc \in {"wait", "read"} => uring
    /\ busy # {} /\ uring /\ pc \in {"sync", "read"} => SlabsOf(cur + 1) \subseteq Held

\* While the prefix is read there is one batch at a time.
FillOK ==
    /\ ~Opened => inflight = NoneInflight
    /\ ~Opened /\ pc # "read" => kernel = << >> /\ cq = << >>
    /\ ~Opened /\ pc = "read" =>
        Len(kernel) + Len(cq) = todo /\ Covered(kernel, Held, 0, cur + 1)

ResidentOK ==
    /\ \A l \in resident : SlabsOf(l) \subseteq Held
    /\ Opened => 0 .. (W - 1) \subseteq resident
    /\ ~Opened => 0 .. cur \subseteq resident
    /\ pc = "evict" => cur + 1 = NLayers \/ cur + 1 \in resident

OkInv == QueueOK /\ AheadOK /\ FillOK /\ ResidentOK

\* Slabs of different layers are different.
LEMMA SlabsApart ==
    ASSUME NEW l, NEW m, l # m
    PROVE  SlabsOf(l) \cap SlabsOf(m) = {}
BY DEF SlabsOf

\* Bytes that were written are held, bytes that were given up are not, and the kernel
\* takes nothing that is held.
LEMMA FillHeld ==
    ASSUME NEW S, Fill(S)
    PROVE  Held' = Held \cup S
BY DEF Held, Fill

\* What madvise leaves held, or takes.
LEMMA AdviseHeld ==
    ASSUME NEW S, NEW advice, Advise(S, advice)
    PROVE  Held' = Held \ S
BY DEF Held, Advise

\* The kernel takes only slabs that were given up.
LEMMA ReclaimHeld ==
    ASSUME Reclaim
    PROVE  Held' = Held
BY DEF Held, Reclaim

\* What is held besides does not uncover a layer.
LEMMA CoveredMore ==
    ASSUME NEW r, NEW held, NEW more, NEW t, NEW l, Covered(r, held, t, l), held \subseteq more
    PROVE  Covered(r, more, t, l)
BY DEF Covered

\* Releasing another layer does not uncover this one.
LEMMA CoveredRelease ==
    ASSUME NEW r, NEW held, NEW t, NEW l, NEW m, Covered(r, held, t, l), l # m
    PROVE  Covered(r, held \ SlabsOf(m), t, l)
BY SlabsApart DEF Covered

\* A completed read turns a request into bytes.
LEMMA CoveredComplete ==
    ASSUME NEW r \in Seq(Requests), NEW i \in DOMAIN r, NEW held, NEW t, NEW l,
           Covered(r, held, t, l)
    PROVE  Covered(RemoveAt(r, i), held \cup {r[i].slab}, t, l)
<1> DEFINE u == RemoveAt(r, i)
<1>1. /\ u \in Seq(Requests) /\ Len(u) = Len(r) - 1
      /\ \A j \in 1 .. (Len(r) - 1) : u[j] = IF j < i THEN r[j] ELSE r[j + 1]
    BY RemoveAtProperties
<1>2. DOMAIN u = 1 .. (Len(r) - 1) /\ DOMAIN r = 1 .. Len(r) /\ Len(r) \in Nat
    BY <1>1, LenProperties
<1> HIDE DEF u
<1>3. ASSUME NEW s \in SlabsOf(l), s \notin held \cup {r[i].slab}
      PROVE  \E j \in DOMAIN u : u[j] = [token |-> t, slab |-> s]
    <2>1. PICK j \in DOMAIN r : r[j] = [token |-> t, slab |-> s]
        BY <1>3 DEF Covered
    <2>2. j # i
        BY <1>3, <2>1
    <2>3. CASE j < i
        BY <1>1, <1>2, <2>1, <2>3
    <2>4. CASE j > i
        <3>1. j - 1 \in DOMAIN u /\ u[j - 1] = r[(j - 1) + 1] /\ (j - 1) + 1 = j
            BY <1>1, <1>2, <2>4
        <3> QED BY <2>1, <3>1
    <2> QED BY <1>2, <2>2, <2>3, <2>4
<1> QED BY <1>3 DEF Covered, u

\* Queued requests still cover a layer after more are queued.
LEMMA CoveredConcat ==
    ASSUME NEW r \in Seq(Requests), NEW b \in Seq(Requests), NEW held, NEW t, NEW l,
           Covered(r, held, t, l) \/ Covered(b, held, t, l)
    PROVE  Covered(r \o b, held, t, l)
<1> DEFINE u == r \o b
<1>1. /\ u \in Seq(Requests) /\ Len(u) = Len(r) + Len(b)
      /\ \A j \in 1 .. (Len(r) + Len(b)) : u[j] = IF j <= Len(r) THEN r[j] ELSE b[j - Len(r)]
    BY ConcatProperties
<1>2. /\ DOMAIN u = 1 .. (Len(r) + Len(b)) /\ Len(r) \in Nat /\ Len(b) \in Nat
      /\ DOMAIN r = 1 .. Len(r) /\ DOMAIN b = 1 .. Len(b)
    BY <1>1, LenProperties
<1> HIDE DEF u
<1>3. \A j \in DOMAIN r : j \in DOMAIN u /\ u[j] = r[j]
    BY <1>1, <1>2
<1>4. ASSUME NEW j \in DOMAIN b PROVE Len(r) + j \in DOMAIN u /\ u[Len(r) + j] = b[j]
    <2>1. Len(r) + j \in 1 .. (Len(r) + Len(b)) /\ ~(Len(r) + j <= Len(r))
        BY <1>2
    <2>2. (Len(r) + j) - Len(r) = j
        BY <1>2
    <2> QED BY <1>1, <1>2, <2>1, <2>2
<1>5. ASSUME NEW s, (\E j \in DOMAIN r : r[j] = s) \/ (\E j \in DOMAIN b : b[j] = s)
      PROVE  \E j \in DOMAIN u : u[j] = s
    BY <1>3, <1>4, <1>5
<1>6. Covered(u, held, t, l)
    BY <1>5 DEF Covered
<1> QED BY <1>6 DEF u

\* A batch covers its layer.
LEMMA CoveredBatch ==
    ASSUME NEW t \in Layers, NEW l \in Layers, NEW held
    PROVE  Covered(Batch(t, SlicesOf(l)), held, t, l)
<1> DEFINE b == Batch(t, SlicesOf(l))
<1>1. /\ b \in Seq(Requests) /\ Len(b) = NSlices
      /\ \A i \in 1 .. NSlices : b[i] = [token |-> t, slab |-> <<l, i>>]
    BY BatchProperties
<1>2. DOMAIN b = 1 .. NSlices
    BY <1>1, LenProperties
<1> HIDE DEF b
<1>3. \A s \in SlabsOf(l) : \E i \in 1 .. NSlices : s = <<l, i>>
    BY DEF SlabsOf
<1>4. ASSUME NEW s \in SlabsOf(l)
      PROVE  \E i \in DOMAIN b : b[i] = [token |-> t, slab |-> s]
    <2>1. PICK i \in 1 .. NSlices : s = <<l, i>>
        BY <1>3
    <2> QED BY <1>1, <1>2, <2>1
<1> QED BY <1>4 DEF Covered, b

\* A covered layer without requests is held.
LEMMA CoveredNone ==
    ASSUME NEW r \in Seq(Requests), NEW held, NEW t, NEW l, Covered(r, held, t, l), Count(r, t) = 0
    PROVE  SlabsOf(l) \subseteq held
<1>1. \A i \in DOMAIN r : r[i].token # t
    BY CountType
<1> QED BY <1>1 DEF Covered

\* The counts of a batch.
LEMMA CountBatch ==
    ASSUME NEW t \in Layers, NEW l \in Layers, NEW m
    PROVE  Count(Batch(t, SlicesOf(l)), m) = IF m = t THEN NSlices ELSE 0
<1> DEFINE b == Batch(t, SlicesOf(l))
<1>1. /\ b \in Seq(Requests) /\ Len(b) = NSlices
      /\ \A i \in 1 .. NSlices : b[i] = [token |-> t, slab |-> <<l, i>>]
    BY BatchProperties
<1>2. DOMAIN b = 1 .. NSlices
    BY <1>1, LenProperties
<1>3. \A i \in DOMAIN b : b[i].token = t
    BY <1>1, <1>2
<1> HIDE DEF b
<1>4. CASE m = t
    BY <1>1, <1>3, <1>4, CountFull DEF b
<1>5. CASE m # t
    BY <1>1, <1>3, <1>5, CountType DEF b
<1> QED BY <1>4, <1>5

\* What a batch adds to the queues of the kernel.
LEMMA SubmitOkQueues ==
    ASSUME RingTypeOK, sq = << >>, NEW t \in Layers, NEW l \in Layers, SubmitOk(t, SlicesOf(l))
    PROVE  /\ sq' = << >> /\ cq' = cq /\ Held' = Held
           /\ Len(kernel') = Len(kernel) + NSlices
           /\ \A m : Count(kernel', m) = Count(kernel, m) + (IF m = t THEN NSlices ELSE 0)
           /\ \A held, u, m : Covered(kernel, held, u, m) => Covered(kernel', held, u, m)
           /\ \A held : Covered(kernel', held, t, l)
<1> DEFINE b == Batch(t, SlicesOf(l))
<1>1. kernel \in Seq(Requests) /\ b \in Seq(Requests) /\ Len(b) = NSlices
    BY BatchProperties DEF RingTypeOK
<1>2. kernel' = kernel \o b /\ sq' = << >> /\ cq' = cq /\ Held' = Held
    <2>1. kernel' = (kernel \o << >>) \o b
        BY DEF SubmitOk
    <2>2. kernel \o << >> = kernel
        BY <1>1, ConcatEmptySeq
    <2> QED BY <2>1, <2>2 DEF SubmitOk, memory, Held
<1>3. \A m : Count(b, m) = IF m = t THEN NSlices ELSE 0
    BY CountBatch
<1>4. \A held : Covered(b, held, t, l)
    BY CoveredBatch
<1> HIDE DEF b
<1>5. Len(kernel') = Len(kernel) + NSlices
    BY <1>1, <1>2, ConcatProperties
<1>6. \A m : Count(kernel', m) = Count(kernel, m) + Count(b, m)
    BY <1>1, <1>2, CountConcat
<1>7. \A held, u, m : Covered(kernel, held, u, m) \/ Covered(b, held, u, m)
                        => Covered(kernel', held, u, m)
    BY <1>1, <1>2, CoveredConcat
<1> QED BY <1>2, <1>3, <1>4, <1>5, <1>6, <1>7

\* A reap takes one completion of one token.
LEMMA ReapQueues ==
    ASSUME RingTypeOK, Reap
    PROVE  /\ kernel' = kernel /\ sq' = sq /\ Held' = Held
           /\ Len(cq) \in Nat \ {0} /\ Len(cq') = Len(cq) - 1
           /\ Head(cq).token \in Layers
           /\ \A m : /\ Count(cq', m) \in Nat
                     /\ Count(cq, m) = Count(cq', m) + (IF Head(cq).token = m THEN 1 ELSE 0)
<1>1. cq \in Seq([token : Tokens, res : Outcomes]) /\ cq # << >> /\ cq' = Tail(cq)
    BY DEF RingTypeOK, Reap
<1>2. \A m : Count(cq, m) = Count(Tail(cq), m) + (IF Head(cq).token = m THEN 1 ELSE 0)
    BY <1>1, CountTail
<1>3. Len(cq) \in Nat \ {0} /\ Len(cq') = Len(cq) - 1
    BY <1>1, HeadTailProperties, EmptySeq, LenProperties
<1>4. Head(cq).token \in Layers /\ Tail(cq) \in Seq([token : Tokens, res : Outcomes])
    <2>1. Head(cq) \in [token : Tokens, res : Outcomes]
        BY <1>1, HeadTailProperties
    <2> QED BY <1>1, <2>1, HeadTailProperties, Bounds
<1>5. \A m : Count(Tail(cq), m) \in Nat
    BY <1>4, CountType
<1> QED BY <1>1, <1>2, <1>3, <1>4, <1>5 DEF Reap, memory, Held

\* Where no read fails, a completion moves one request from queue to queue and one
\* slab into memory.
LEMMA CompleteQueues ==
    ASSUME RingTypeOK, Outcomes = {"ok"}, Complete
    PROVE  /\ sq' = sq /\ Held \subseteq Held'
           /\ Len(kernel) \in Nat \ {0} /\ Len(kernel') = Len(kernel) - 1
           /\ Len(cq) \in Nat /\ Len(cq') = Len(cq) + 1
           /\ \A m : Count(kernel', m) + Count(cq', m) = Count(kernel, m) + Count(cq, m)
           /\ \A u, m : Covered(kernel, Held, u, m) => Covered(kernel', Held', u, m)
<1> USE DEF RingTypeOK
<1>1. PICK i \in DOMAIN kernel, res \in Outcomes :
        /\ kernel' = RemoveAt(kernel, i)
        /\ cq' = Append(cq, [token |-> kernel[i].token, res |-> res])
        /\ IF res = "ok" THEN Fill({kernel[i].slab}) ELSE UNCHANGED memory
        /\ UNCHANGED sq
    BY DEF Complete
<1> DEFINE x == [token |-> kernel[i].token, res |-> res]
<1>2. x \in [token : Tokens, res : Outcomes] /\ x.token = kernel[i].token
    <2>1. kernel[i] \in Requests
        BY ElementOfSeq, LenProperties
    <2> QED BY <2>1 DEF Requests
<1>3. Held' = Held \cup {kernel[i].slab}
    BY <1>1, FillHeld
<1>4. \A m : Count(kernel, m) = Count(kernel', m) + (IF kernel[i].token = m THEN 1 ELSE 0)
    BY <1>1, CountRemoveAt
<1>5. \A m : Count(cq', m) = Count(cq, m) + (IF kernel[i].token = m THEN 1 ELSE 0)
    <2>1. cq' = Append(cq, x)
        BY <1>1
    <2> HIDE DEF x
    <2> DEFINE Completions == [token : Tokens, res : Outcomes]
    <2>2. cq \in Seq(Completions) /\ x \in Completions
        BY <1>2
    <2> HIDE DEF Completions, RingTypeOK
    <2>3. \A m : Count(Append(cq, x), m) = Count(cq, m) + (IF x.token = m THEN 1 ELSE 0)
        BY <2>2, CountAppend
    <2> QED BY <1>2, <2>1, <2>3
<1>6. kernel' \in Seq(Requests) /\ Len(kernel') = Len(kernel) - 1 /\ Len(kernel) \in Nat \ {0}
    BY <1>1, RemoveAtProperties, LenProperties
<1>7. cq' \in Seq([token : Tokens, res : Outcomes]) /\ Len(cq') = Len(cq) + 1 /\ Len(cq) \in Nat
    BY <1>1, <1>2, AppendProperties, LenProperties
<1>8. \A m : Count(kernel', m) \in Nat /\ Count(cq, m) \in Nat
    BY <1>6, CountType
<1>9. \A m : Count(kernel', m) + Count(cq', m) = Count(kernel, m) + Count(cq, m)
    BY <1>4, <1>5, <1>8
<1>10. \A u, m : Covered(kernel, Held, u, m) => Covered(kernel', Held', u, m)
    BY <1>1, <1>3, CoveredComplete
<1> QED BY <1>1, <1>3, <1>6, <1>7, <1>9, <1>10

\* All counts are natural numbers.
LEMMA CountsNat ==
    ASSUME RingTypeOK
    PROVE  /\ \A m : Count(kernel, m) \in Nat /\ Count(cq, m) \in Nat
           /\ Len(kernel) \in Nat /\ Len(cq) \in Nat
           /\ Len(kernel) = 0 => kernel = << >>
           /\ Len(cq) = 0 => cq = << >>
<1>1. kernel \in Seq(Requests) /\ cq \in Seq([token : Tokens, res : Outcomes])
    BY DEF RingTypeOK
<1>2. \A m : Count(kernel, m) \in Nat
    BY <1>1, CountType
<1>3. \A m : Count(cq, m) \in Nat
    BY <1>1, CountType
<1> QED BY <1>1, <1>2, <1>3, EmptySeq, LenProperties

\* Steps of the callback that leave the ring alone.
LEMMA FillResidentLayersOk ==
    ASSUME TypeInv, OkInv, FillResidentLayers
    PROVE  OkInv'
<1>1. /\ pc = "fill" /\ busy = {} /\ ~Opened /\ cur \in -1 .. (NLayers - 1)
      /\ pc' = IF cur + 1 < W THEN "sync" ELSE "run"
      /\ UNCHANGED <<sq, kernel, cq, uring, resident, inflight, submitted_upto, last_boundary,
                     cur, todo, busy>>
    BY DEF FillResidentLayers, TypeInv, TypeOK, PhaseOK, Opened, Goto, ring, window, passing
<1>2. Held' = Held
    BY DEF FillResidentLayers, Held, memory
<1>3. QueueOK' /\ AheadOK' /\ FillOK'
    BY <1>1, <1>2 DEF OkInv, QueueOK, AheadOK, FillOK, Opened
<1>4. ResidentOK'
    BY <1>1, <1>2, Bounds DEF OkInv, ResidentOK, Opened
<1> QED BY <1>3, <1>4 DEF OkInv

\* A layer that is held may be marked.
LEMMA MarkResidentOk ==
    ASSUME TypeInv, OkInv, MarkResident, UNCHANGED ring, Held \subseteq Held',
           UNCHANGED <<todo, passing>>, pc \in {"read", "pread", "wait"},
           SlabsOf(cur + 1) \subseteq Held',
           ~Opened => kernel = << >> /\ cq = << >>
    PROVE  OkInv'
<1>1. /\ resident' = resident \cup {cur + 1} /\ cur \in -1 .. (NLayers - 1)
      /\ IF busy = {} THEN cur' = cur + 1 /\ pc' = "fill" ELSE cur' = cur /\ pc' = "evict"
      /\ UNCHANGED <<sq, kernel, cq, uring, inflight, submitted_upto, last_boundary, todo, busy>>
    BY DEF MarkResident, TypeInv, TypeOK, Goto, ring, passing
<1>2. QueueOK'
    BY <1>1 DEF OkInv, QueueOK
<1>3. \A u, m : Covered(kernel, Held, u, m) => Covered(kernel', Held', u, m)
    BY <1>1, CoveredMore
<1>4. AheadOK'
    BY <1>1, <1>3 DEF OkInv, AheadOK
<1>5. FillOK'
    BY <1>1 DEF OkInv, FillOK, Opened
<1>6. ResidentOK'
    BY <1>1, Bounds DEF OkInv, ResidentOK, Opened
<1> QED BY <1>2, <1>4, <1>5, <1>6 DEF OkInv

\* Entering the callback changes neither ring nor marks.
LEMMA OnLayerBoundaryOk ==
    ASSUME TypeInv, OkInv, NEW c \in Contexts, OnLayerBoundary(c)
    PROVE  OkInv'
<1>1. /\ pc = "run" /\ busy' = {c} /\ cur' = pos[c] /\ last_boundary' = pos[c]
      /\ pc' = IF pos[c] <= last_boundary THEN "drain" ELSE "submit"
      /\ last_boundary \in -1 .. (NLayers - 1) /\ pos[c] \in Layers
      /\ UNCHANGED <<sq, kernel, cq, uring, resident, inflight, submitted_upto, todo>>
    BY DEF OnLayerBoundary, TypeInv, TypeOK, Goto, ring
<1>2. Held' = Held
    BY DEF OnLayerBoundary, Held, memory
<1>3. QueueOK' /\ FillOK' /\ ResidentOK'
    BY <1>1, <1>2 DEF OkInv, QueueOK, FillOK, ResidentOK, Opened
<1>4. AheadOK'
    BY <1>1, <1>2, Bounds DEF OkInv, AheadOK
<1> QED BY <1>3, <1>4 DEF OkInv

\* A stopped graph leaves reads and marks as they are.
LEMMA AbortOk ==
    ASSUME OkInv, NEW c \in Contexts, Abort(c)
    PROVE  OkInv'
<1>1. UNCHANGED <<sq, kernel, cq, uring, resident, inflight, submitted_upto, last_boundary, pc, cur,
                  todo, busy>>
    BY DEF Abort, ring, window, control
<1>2. Held' = Held
    BY DEF Abort, Held, memory
<1> QED BY <1>1, <1>2 DEF OkInv, QueueOK, AheadOK, FillOK, ResidentOK, Opened

\* Pages taken back were not held.
LEMMA ReclaimOk ==
    ASSUME OkInv, ReclaimStep
    PROVE  OkInv'
<1>1. UNCHANGED <<sq, kernel, cq, uring, resident, inflight, submitted_upto, last_boundary, pc, cur,
                  todo, busy>>
    BY DEF ReclaimStep, Reclaim, ring, window, control, passing
<1>2. Held' = Held
    BY ReclaimHeld DEF ReclaimStep
<1> QED BY <1>1, <1>2 DEF OkInv, QueueOK, AheadOK, FillOK, ResidentOK, Opened

\* Steps that change nothing.
LEMMA StutterOk ==
    ASSUME OkInv, UNCHANGED vars
    PROVE  OkInv'
<1>1. UNCHANGED <<sq, kernel, cq, uring, resident, inflight, submitted_upto, last_boundary, pc, cur,
                  todo, busy>>
    BY DEF vars, ring, window, control, passing
<1>2. Held' = Held
    BY DEF vars, Held, memory
<1> QED BY <1>1, <1>2 DEF OkInv, QueueOK, AheadOK, FillOK, ResidentOK, Opened

\* A layer whose count is down to zero is there.
LEMMA CountedDown ==
    ASSUME TypeInv, OkInv, NEW l \in W .. (NLayers - 1), pc # "drain", uring,
           last_boundary < l, l <= submitted_upto, inflight[l] = 0
    PROVE  SlabsOf(l) \subseteq Held
<1>1. Covered(kernel, Held, l, l)
    BY DEF OkInv, AheadOK
<1>2. Count(kernel, l) + Count(cq, l) <= 0
    BY DEF OkInv, QueueOK
<1>3. Count(kernel, l) \in Nat /\ Count(cq, l) \in Nat
    BY CountsNat DEF TypeInv, TypeOK
<1>4. Count(kernel, l) = 0
    BY <1>2, <1>3
<1> QED BY <1>1, <1>4, CoveredNone DEF TypeInv, TypeOK, RingTypeOK

\* ensure_layer finds the layer marked, in flight, or has it read.
LEMMA EnsureLayerOk ==
    ASSUME TypeInv, OkInv, EnsureLayer
    PROVE  OkInv'
<1> DEFINE next == cur + 1
<1>1. /\ pc = "ensure" /\ busy # {} /\ cur \in -1 .. (NLayers - 1) /\ cur = last_boundary
      /\ inflight \in [Layers -> 0 .. NSlices]
      /\ pc' = IF next >= W /\ next < NLayers /\ next \notin resident
               THEN IF uring /\ inflight[next] > 0 THEN "wait" ELSE "sync"
               ELSE "evict"
      /\ UNCHANGED <<sq, kernel, cq, uring, resident, inflight, submitted_upto, last_boundary,
                     cur, todo, busy>>
    BY DEF EnsureLayer, TypeInv, TypeOK, PhaseOK, Goto, ring, window, passing
<1>2. Held' = Held
    BY DEF EnsureLayer, Held, memory
<1>3. ASSUME pc' = "sync", uring PROVE SlabsOf(next) \subseteq Held
    <2>1. next \in W .. (NLayers - 1) /\ next \in Layers /\ ~(inflight[next] > 0)
        BY <1>1, <1>3, Bounds
    <2>2. inflight[next] = 0
        BY <1>1, <2>1, Bounds
    <2>3. next <= submitted_upto /\ last_boundary < next
        BY <1>1, <2>1, Bounds DEF OkInv, AheadOK
    <2> QED BY <1>1, <1>3, <2>1, <2>2, <2>3, CountedDown
<1>4. QueueOK' /\ FillOK'
    BY <1>1, <1>2 DEF OkInv, QueueOK, FillOK, Opened
<1>5. AheadOK'
    BY <1>1, <1>2, <1>3 DEF OkInv, AheadOK
<1>6. ResidentOK'
    BY <1>1, <1>2, Bounds DEF OkInv, ResidentOK, Opened
<1> QED BY <1>4, <1>5, <1>6 DEF OkInv

\* A count of zero means that the slabs of the layer are held.
LEMMA EnsureDoneOk ==
    ASSUME TypeInv, OkInv, EnsureDone
    PROVE  OkInv'
<1>1. /\ pc = "wait" /\ busy # {} /\ cur \in -1 .. (NLayers - 1) /\ cur = last_boundary
      /\ cur + 1 < NLayers /\ cur + 1 >= W /\ inflight[cur + 1] = 0 /\ uring
      /\ cur + 1 <= submitted_upto
    BY DEF EnsureDone, TypeInv, TypeOK, PhaseOK, OkInv, AheadOK
<1>2. SlabsOf(cur + 1) \subseteq Held
    <2>1. cur + 1 \in W .. (NLayers - 1) /\ last_boundary < cur + 1
        BY <1>1, Bounds
    <2> QED BY <1>1, <2>1, CountedDown
<1>3. Held' = Held
    BY DEF EnsureDone, Held, memory
<1>4. CASE all_ok
    <2>1. MarkResident /\ UNCHANGED ring /\ UNCHANGED <<todo, passing>>
        BY <1>4 DEF EnsureDone
    <2> QED BY <1>1, <1>2, <1>3, <2>1, MarkResidentOk DEF Opened
<1>5. CASE ~all_ok
    <2>1. /\ pc' = "sync"
          /\ UNCHANGED <<sq, kernel, cq, uring, resident, inflight, submitted_upto, last_boundary,
                     cur, todo, busy>>
        BY <1>5 DEF EnsureDone, Goto, ring, window, passing
    <2> QED BY <1>1, <1>2, <1>3, <2>1 DEF OkInv, QueueOK, AheadOK, FillOK, ResidentOK, Opened
<1> QED BY <1>4, <1>5

\* The synchronous read of layer cur + 1.  Inside a callback that uses the ring the layer
\* is there already: the pass submitted it and its count came down to zero.
LEMMA SyncSubmitOk ==
    ASSUME TypeInv, OkInv, faults = {}, SyncSubmit
    PROVE  OkInv'
<1>1. /\ pc = "sync" /\ cur + 1 \in Layers /\ 0 \in Layers /\ RingTypeOK /\ sq = << >>
      /\ UNCHANGED <<uring, resident, inflight, submitted_upto, last_boundary, cur, busy>>
    BY Bounds DEF SyncSubmit, TypeInv, TypeOK, PhaseOK, OkInv, QueueOK, window, passing
<1>2. CASE ~uring
    <2>1. UNCHANGED <<sq, kernel, cq, todo>> /\ pc' = "pread"
        BY <1>2 DEF SyncSubmit, Goto, ring
    <2>2. Held' = Held
        BY <1>2 DEF SyncSubmit, Held, memory
    <2> QED BY <1>1, <1>2, <2>1, <2>2 DEF OkInv, QueueOK, AheadOK, FillOK, ResidentOK, Opened
<1>3. CASE uring
    <2>1. SubmitOk(0, SlicesOf(cur + 1)) /\ pc' = "read" /\ todo' = NSlices
        BY <1>3 DEF SyncSubmit, SubmitFail, Goto
    <2>2. /\ sq' = << >> /\ cq' = cq /\ Held' = Held
          /\ Len(kernel') = Len(kernel) + NSlices
          /\ \A m : Count(kernel', m) = Count(kernel, m) + (IF m = 0 THEN NSlices ELSE 0)
          /\ \A held, u, m : Covered(kernel, held, u, m) => Covered(kernel', held, u, m)
          /\ \A held : Covered(kernel', held, 0, cur + 1)
        BY <1>1, <2>1, SubmitOkQueues
    <2>3. QueueOK'
        <3>1. \A l \in W .. (NLayers - 1) : Count(kernel', l) = Count(kernel, l)
            <4>1. \A l \in W .. (NLayers - 1) : l # 0
                BY Bounds
            <4>2. \A m : Count(kernel, m) \in Nat
                BY <1>1, CountsNat
            <4> QED BY <2>2, <4>1, <4>2
        <3> QED BY <1>1, <1>3, <2>2, <3>1 DEF OkInv, QueueOK
    <2>4. AheadOK'
        BY <1>1, <1>3, <2>1, <2>2 DEF OkInv, AheadOK
    <2>5. FillOK'
        <3>1. Len(<< >>) = 0
            BY EmptySeq
        <3>2. ~Opened => Len(kernel') + Len(cq') = NSlices
            BY <1>1, <2>2, <3>1, Bounds DEF OkInv, FillOK
        <3>3. Covered(kernel', Held', 0, cur' + 1)
            BY <1>1, <2>2
        <3> QED BY <1>1, <2>1, <3>2, <3>3 DEF OkInv, FillOK, Opened
    <2>6. ResidentOK'
        BY <1>1, <2>1, <2>2 DEF OkInv, ResidentOK, Opened
    <2> QED BY <2>3, <2>4, <2>5, <2>6 DEF OkInv
<1> QED BY <1>2, <1>3

\* A completion taken by io_uring_slab_read lowers no count of dense_inflight_.
LEMMA SyncReapOk ==
    ASSUME TypeInv, OkInv, faults = {}, SyncReap
    PROVE  OkInv'
<1>1. /\ pc = "read" /\ RingTypeOK /\ Reap /\ todo' = todo - 1 /\ pc' = pc
      /\ todo \in 0 .. NSlices /\ inflight \in [Layers -> 0 .. NSlices]
      /\ UNCHANGED <<uring, resident, inflight, submitted_upto, last_boundary, cur, busy>>
    BY DEF SyncReap, ReapFails, TypeInv, TypeOK, window, passing
<1>2. /\ kernel' = kernel /\ sq' = sq /\ Held' = Held
      /\ Len(cq) \in Nat \ {0} /\ Len(cq') = Len(cq) - 1
    BY <1>1, ReapQueues
<1>3. QueueOK'
    <2>1. ASSUME NEW l \in W .. (NLayers - 1)
          PROVE  Count(kernel, l) + Count(cq', l) <= inflight[l]
        <3>1. Count(kernel, l) + Count(cq, l) <= inflight[l] /\ inflight[l] \in Nat
            BY <1>1, Bounds DEF OkInv, QueueOK
        <3>2. Count(kernel, l) \in Nat /\ Count(cq', l) \in Nat
            BY <1>1, CountsNat, ReapQueues
        <3>3. Count(cq, l) = Count(cq', l) + (IF Head(cq).token = l THEN 1 ELSE 0)
            BY <1>1, ReapQueues
        <3> QED BY <3>1, <3>2, <3>3
    <2>2. uring
        BY <1>1 DEF OkInv, AheadOK
    <2> QED BY <1>1, <1>2, <2>1, <2>2 DEF OkInv, QueueOK
<1>4. AheadOK' /\ ResidentOK'
    BY <1>1, <1>2 DEF OkInv, AheadOK, ResidentOK, Opened
<1>5. FillOK'
    <2>1. Len(kernel) \in Nat /\ NSlices \in Nat
        BY <1>1, CountsNat, Bounds
    <2>2. ~Opened => Len(kernel') + Len(cq') = todo'
        BY <1>1, <1>2, <2>1 DEF OkInv, FillOK
    <2> QED BY <1>1, <1>2, <2>2 DEF OkInv, FillOK, Opened
<1> QED BY <1>3, <1>4, <1>5 DEF OkInv

\* io_uring_slab_read returns with every slab of its layer held.
LEMMA SyncDoneOk ==
    ASSUME TypeInv, OkInv, SyncDone
    PROVE  OkInv'
<1>1. pc = "read" /\ todo = 0 /\ RingTypeOK /\ uring
    BY DEF SyncDone, TypeInv, TypeOK, OkInv, AheadOK
<1>2. Held' = Held
    BY DEF SyncDone, Held, memory
<1>3. ~Opened => kernel = << >> /\ cq = << >>
    BY <1>1, CountsNat DEF OkInv, FillOK
<1>4. SlabsOf(cur + 1) \subseteq Held
    <2>1. CASE busy # {}
        BY <1>1, <2>1 DEF OkInv, AheadOK
    <2>2. CASE busy = {}
        <3>1. Covered(kernel, Held, 0, cur + 1) /\ kernel = << >>
            BY <1>1, <1>3, <2>2 DEF OkInv, FillOK, Opened
        <3>2. Count(kernel, 0) = 0
            BY <3>1, CountEmpty
        <3> QED BY <1>1, <3>1, <3>2, CoveredNone DEF RingTypeOK
    <2> QED BY <2>1, <2>2
<1>5. CASE all_ok
    <2>1. MarkResident /\ UNCHANGED ring /\ UNCHANGED <<todo, passing>>
        BY <1>5 DEF SyncDone
    <2> QED BY <1>1, <1>2, <1>3, <1>4, <2>1, MarkResidentOk
<1>6. CASE ~all_ok
    <2>1. /\ pc' = "pread"
          /\ UNCHANGED <<sq, kernel, cq, uring, resident, inflight, submitted_upto, last_boundary,
                     cur, todo, busy>>
        BY <1>6 DEF SyncDone, Goto, ring, window, passing
    <2> QED BY <1>1, <1>2, <1>3, <2>1 DEF OkInv, QueueOK, AheadOK, FillOK, ResidentOK, Opened
<1> QED BY <1>5, <1>6

\* pread fills the layer itself.
LEMMA PreadOk ==
    ASSUME TypeInv, OkInv, faults = {}, Pread
    PROVE  OkInv'
<1>1. /\ pc = "pread" /\ MarkResident /\ UNCHANGED ring /\ UNCHANGED <<todo, passing>>
      /\ Fill(SlabsOf(cur + 1))
    BY DEF Pread
<1>2. Held' = Held \cup SlabsOf(cur + 1)
    BY <1>1, FillHeld
<1>3. ~Opened => kernel = << >> /\ cq = << >>
    BY <1>1 DEF OkInv, FillOK
<1> QED BY <1>1, <1>2, <1>3, MarkResidentOk

\* A reap that is counted: the count of no layer falls below what is outstanding.
LEMMA CountDownOk ==
    ASSUME TypeInv, OkInv, Reap, inflight' = CountDown(inflight, Head(cq).token)
    PROVE  /\ \A l \in W .. (NLayers - 1) : Count(kernel', l) + Count(cq', l) <= inflight'[l]
           /\ \A l \in Layers : inflight[l] = 0 => inflight'[l] = 0
<1> DEFINE t == Head(cq).token
<1>1. RingTypeOK /\ inflight \in [Layers -> 0 .. NSlices]
    BY DEF TypeInv, TypeOK
<1>2. kernel' = kernel /\ t \in Layers
    BY <1>1, ReapQueues
<1>3. \A l \in Layers : inflight'[l] = IF l = t /\ inflight[l] > 0 THEN inflight[l] - 1 ELSE
                                       IF l = t THEN 0 ELSE inflight[l]
    BY <1>1, <1>2 DEF CountDown
<1>4. ASSUME NEW l \in W .. (NLayers - 1)
      PROVE  Count(kernel, l) + Count(cq', l) <= inflight'[l]
    <2>1. Count(kernel, l) + Count(cq, l) <= inflight[l] /\ inflight[l] \in Nat /\ l \in Layers
        BY <1>1, Bounds DEF OkInv, QueueOK
    <2>2. Count(kernel, l) \in Nat /\ Count(cq', l) \in Nat
        BY <1>1, CountsNat, ReapQueues
    <2>3. Count(cq, l) = Count(cq', l) + (IF t = l THEN 1 ELSE 0)
        BY <1>1, ReapQueues
    <2> HIDE DEF t
    <2>4. CASE t = l
        BY <1>3, <2>1, <2>2, <2>3, <2>4
    <2>5. CASE t # l
        BY <1>3, <2>1, <2>2, <2>3, <2>5
    <2> QED BY <2>4, <2>5
<1> HIDE DEF t
<1> QED BY <1>1, <1>2, <1>3, <1>4, Bounds

\* A drained ring leaves all counts at zero.
LEMMA DrainInflightOk ==
    ASSUME TypeInv, OkInv, faults = {}, DrainInflight
    PROVE  OkInv'
<1>1. /\ pc = "drain" /\ busy # {} /\ RingTypeOK
      /\ UNCHANGED <<uring, resident, last_boundary, cur, todo, busy>>
    BY DEF DrainInflight, TypeInv, TypeOK, PhaseOK, passing
<1>2. CASE /\ uring /\ Reap /\ inflight' = CountDown(inflight, Head(cq).token)
           /\ UNCHANGED <<submitted_upto, pc>>
    <2>1. sq' = sq /\ Held' = Held
        BY <1>1, <1>2, ReapQueues
    <2>2. \A l \in W .. (NLayers - 1) : Count(kernel', l) + Count(cq', l) <= inflight'[l]
        BY <1>2, CountDownOk
    <2> QED BY <1>1, <1>2, <2>1, <2>2 DEF OkInv, QueueOK, AheadOK, FillOK, ResidentOK, Opened
<1>3. CASE (~uring \/ inflight = NoneInflight) /\ Drained /\ UNCHANGED <<ring, memory>>
    <2>1. /\ inflight' = NoneInflight /\ submitted_upto' = W - 1 /\ pc' = "submit"
          /\ UNCHANGED <<sq, kernel, cq>>
        BY <1>3 DEF Drained, Goto, ring
    <2>2. Held' = Held
        BY <1>3 DEF Held, memory
    <2>3. \A l \in Layers : NoneInflight[l] = 0
        BY DEF NoneInflight
    <2>4. QueueOK'
        <3>1. CASE inflight = NoneInflight
            BY <1>1, <2>1, <3>1 DEF OkInv, QueueOK
        <3>2. CASE ~uring
            <4>1. \A l : Count(kernel, l) = 0 /\ Count(cq, l) = 0
                BY <3>2, CountEmpty DEF OkInv, QueueOK
            <4>2. \A l \in W .. (NLayers - 1) : NoneInflight[l] = 0
                BY <2>3, Bounds
            <4> QED BY <1>1, <2>1, <3>2, <4>1, <4>2 DEF OkInv, QueueOK
        <3> QED BY <1>3, <3>1, <3>2
    <2>5. AheadOK'
        BY <1>1, <2>1, <2>3, Bounds DEF OkInv, AheadOK
    <2> QED BY <1>1, <2>1, <2>2, <2>4, <2>5 DEF OkInv, FillOK, ResidentOK, Opened
<1> QED BY <1>2, <1>3 DEF DrainInflight, ReapFails

\* A completion taken by ensure_layer is counted for its token.
LEMMA EnsureReapOk ==
    ASSUME TypeInv, OkInv, faults = {}, EnsureReap
    PROVE  OkInv'
<1>1. /\ pc = "wait" /\ busy # {} /\ RingTypeOK /\ uring
      /\ Reap /\ inflight' = CountDown(inflight, Head(cq).token)
      /\ UNCHANGED <<uring, resident, submitted_upto, last_boundary, pc, cur, todo, busy>>
    BY DEF EnsureReap, CountCompletion, GiveUp, ReapFails, TypeInv, TypeOK, PhaseOK, OkInv, AheadOK,
       passing
<1>2. sq' = sq /\ Held' = Held /\ kernel' = kernel
    BY <1>1, ReapQueues
<1>3. /\ \A l \in W .. (NLayers - 1) : Count(kernel', l) + Count(cq', l) <= inflight'[l]
      /\ \A l \in Layers : inflight[l] = 0 => inflight'[l] = 0
    BY <1>1, CountDownOk
<1> QED BY <1>1, <1>2, <1>3 DEF OkInv, QueueOK, AheadOK, FillOK, ResidentOK, Opened

\* The submit loop: a layer that is declined is resident or needs no slab, since nothing
\* beyond the frontier is counted.
LEMMA SubmitLayerAsyncOk ==
    ASSUME TypeInv, OkInv, faults = {}, SubmitLayerAsync
    PROVE  OkInv'
<1> DEFINE k == submitted_upto + 1
<1>1. /\ pc = "submit" /\ busy # {} /\ RingTypeOK /\ sq = << >>
      /\ inflight \in [Layers -> 0 .. NSlices]
      /\ submitted_upto \in -1 .. (NLayers - 1) /\ cur \in -1 .. (NLayers - 1)
      /\ UNCHANGED <<uring, resident, last_boundary, cur, todo, busy>>
    BY DEF SubmitLayerAsync, TypeInv, TypeOK, PhaseOK, OkInv, QueueOK, passing
<1>2. CASE k <= Target /\ k < NLayers
    <2>1. k \in Layers /\ Submit(k) /\ pc' = "submit" /\ submitted_upto' = k /\ inflight[k] = 0
        BY <1>1, <1>2, Bounds DEF SubmitLayerAsync, Submit, OkInv, AheadOK
    <2>2. CASE Declined(k) /\ UNCHANGED <<ring, memory, inflight>>
        <3>1. UNCHANGED <<sq, kernel, cq, inflight>>
            BY <2>2 DEF ring
        <3>2. Held' = Held
            BY <2>2 DEF memory, Held
        <3>3. k >= W /\ uring => Covered(kernel, Held, k, k)
            <4>1. k >= W /\ uring => k \in resident
                BY <2>1, <2>2, Bounds DEF Declined
            <4> QED BY <4>1 DEF OkInv, ResidentOK, Covered
        <3>4. QueueOK' /\ FillOK' /\ ResidentOK'
            BY <1>1, <2>1, <3>1, <3>2 DEF OkInv, QueueOK, FillOK, ResidentOK, Opened
        <3>5. AheadOK'
            <4>1. \A l \in W .. (NLayers - 1) : l <= k => l = k \/ l <= submitted_upto
                BY <1>1, Bounds
            <4>2. \A l \in Layers : k < l => submitted_upto < l
                BY <1>1, Bounds
            <4> HIDE DEF k
            <4> QED BY <1>1, <2>1, <3>1, <3>2, <3>3, <4>1, <4>2 DEF OkInv, AheadOK
        <3> QED BY <3>4, <3>5 DEF OkInv
    <2>3. CASE /\ ~Declined(k) /\ SubmitOk(k, SlicesOf(k))
               /\ inflight' = [inflight EXCEPT ![k] = NSlices]
        <3> HIDE DEF k
        <3>1. /\ sq' = << >> /\ cq' = cq /\ Held' = Held
              /\ \A m : Count(kernel', m) = Count(kernel, m) + (IF m = k THEN NSlices ELSE 0)
              /\ \A held, u, m : Covered(kernel, held, u, m) => Covered(kernel', held, u, m)
              /\ \A held : Covered(kernel', held, k, k)
            BY <1>1, <2>1, <2>3, SubmitOkQueues
        <3>2. uring
            BY <2>3 DEF Declined
        <3>3. ASSUME NEW l \in W .. (NLayers - 1)
              PROVE  Count(kernel', l) + Count(cq, l) <= inflight'[l]
            <4>1. /\ Count(kernel, l) + Count(cq, l) <= inflight[l] /\ l \in Layers
                  /\ Count(kernel', l) = Count(kernel, l) + (IF l = k THEN NSlices ELSE 0)
                  /\ inflight'[l] = IF l = k THEN NSlices ELSE inflight[l]
                BY <1>1, <2>1, <2>3, <3>1, Bounds DEF OkInv, QueueOK
            <4>2. Count(kernel, l) \in Nat /\ Count(cq, l) \in Nat /\ NSlices \in Nat
                BY <1>1, CountsNat, Bounds
            <4>3. CASE l = k
                BY <2>1, <4>1, <4>2, <4>3
            <4>4. CASE l # k
                BY <4>1, <4>2, <4>4
            <4> QED BY <4>3, <4>4
        <3>4. QueueOK' /\ FillOK' /\ ResidentOK'
            BY <1>1, <2>1, <3>1, <3>2, <3>3 DEF OkInv, QueueOK, FillOK, ResidentOK, Opened
        <3>5. AheadOK'
            <4>1. \A l \in W .. (NLayers - 1) : l <= k => l = k \/ l <= submitted_upto
                BY <1>1, Bounds DEF k
            <4>2. \A l \in Layers : k < l => submitted_upto < l /\ l # k
                BY <1>1, Bounds DEF k
            <4>3. \A l \in Layers : k < l => inflight'[l] = 0
                BY <1>1, <2>1, <2>3, <4>2 DEF OkInv, AheadOK
            <4> QED BY <1>1, <2>1, <3>1, <3>2, <4>1, <4>3 DEF OkInv, AheadOK
        <3> QED BY <3>4, <3>5 DEF OkInv
    <2> QED BY <2>1, <2>2, <2>3 DEF Submit, SubmitFail
<1>3. CASE ~(k <= Target /\ k < NLayers)
    <2>1. UNCHANGED <<sq, kernel, cq, inflight, submitted_upto>> /\ pc' = "ensure"
        BY <1>3 DEF SubmitLayerAsync, Goto, ring
    <2>2. Held' = Held
        BY <1>3 DEF SubmitLayerAsync, memory, Held
    <2>3. cur + 1 < NLayers => cur + 1 <= submitted_upto
        BY <1>1, <1>3, Bounds DEF Target
    <2> HIDE DEF k
    <2> QED BY <1>1, <2>1, <2>2, <2>3 DEF OkInv, QueueOK, AheadOK, FillOK, ResidentOK, Opened
<1> QED BY <1>2, <1>3

\* The layer that is released is behind everything submitted ahead.
LEMMA EvictLayerOk ==
    ASSUME TypeInv, OkInv, EvictLayer
    PROVE  OkInv'
<1>1. /\ pc = "evict" /\ busy # {} /\ cur = last_boundary /\ cur \in Layers
      /\ pc' = "run" /\ busy' = {}
      /\ UNCHANGED <<sq, kernel, cq, uring, inflight, submitted_upto, last_boundary, cur, todo>>
    BY Bounds DEF EvictLayer, TypeInv, TypeOK, PhaseOK, Goto, ring
<1>2. QueueOK' /\ FillOK'
    BY <1>1 DEF OkInv, QueueOK, FillOK, Opened
<1>3. CASE cur >= W /\ cur \in resident
    <2>1. resident' = resident \ {cur} /\ Held' = Held \ SlabsOf(cur)
        BY <1>3, AdviseHeld DEF EvictLayer, Release
    <2>2. AheadOK'
        <3>1. \A l \in W .. (NLayers - 1) :
                last_boundary < l /\ Covered(kernel, Held, l, l) => Covered(kernel, Held', l, l)
            BY <1>1, <2>1, CoveredRelease, Bounds
        <3> QED BY <1>1, <3>1 DEF OkInv, AheadOK
    <2>3. ResidentOK'
        <3>1. \A l \in resident' : SlabsOf(l) \subseteq Held'
            BY <2>1, SlabsApart DEF OkInv, ResidentOK
        <3>2. 0 .. (W - 1) \subseteq resident'
            BY <1>1, <1>3, <2>1, Bounds DEF OkInv, ResidentOK, Opened
        <3> QED BY <1>1, <3>1, <3>2 DEF ResidentOK, Opened
    <2> QED BY <1>2, <2>2, <2>3 DEF OkInv
<1>4. CASE ~(cur >= W /\ cur \in resident)
    <2>1. resident' = resident /\ Held' = Held
        BY <1>4 DEF EvictLayer, Release, memory, Held
    <2> QED BY <1>1, <1>2, <2>1 DEF OkInv, AheadOK, ResidentOK, Opened
<1> QED BY <1>3, <1>4

\* A completed read moves its token from the kernel to the completions.
LEMMA KernelOk ==
    ASSUME TypeInv, OkInv, Outcomes = {"ok"}, KernelStep
    PROVE  OkInv'
<1>1. /\ RingTypeOK /\ Complete
      /\ UNCHANGED <<uring, resident, inflight, submitted_upto, last_boundary, pc, cur, todo, busy>>
    BY DEF KernelStep, TypeInv, TypeOK, window, control, passing
<1>2. /\ sq' = sq /\ Held \subseteq Held'
      /\ Len(kernel) \in Nat \ {0} /\ Len(kernel') = Len(kernel) - 1
      /\ Len(cq) \in Nat /\ Len(cq') = Len(cq) + 1
      /\ \A m : Count(kernel', m) + Count(cq', m) = Count(kernel, m) + Count(cq, m)
      /\ \A u, m : Covered(kernel, Held, u, m) => Covered(kernel', Held', u, m)
    BY <1>1, CompleteQueues
<1>3. kernel # << >>
    BY <1>2, EmptySeq
<1>4. QueueOK'
    BY <1>1, <1>2, <1>3 DEF OkInv, QueueOK
<1>5. AheadOK' /\ ResidentOK'
    BY <1>1, <1>2 DEF OkInv, AheadOK, ResidentOK, Opened
<1>6. FillOK'
    BY <1>1, <1>2, <1>3 DEF OkInv, FillOK, Opened
<1> QED BY <1>4, <1>5, <1>6 DEF OkInv

\* The initial state satisfies the counting invariant.
LEMMA OkInit == Init => OkInv
<1> SUFFICES ASSUME Init PROVE OkInv
    OBVIOUS
<1>1. /\ sq = << >> /\ kernel = << >> /\ cq = << >> /\ resident = {} /\ inflight = NoneInflight
      /\ submitted_upto = -1 /\ last_boundary = -1 /\ pc = "fill" /\ cur = -1 /\ busy = {}
    BY DEF Init, RingInit
<1>2. \A l \in Layers : NoneInflight[l] = 0
    BY DEF NoneInflight
<1>3. QueueOK
    <2>1. \A l : Count(kernel, l) = 0 /\ Count(cq, l) = 0
        BY <1>1, CountEmpty
    <2> QED BY <1>1, <1>2, <2>1, Bounds DEF QueueOK
<1>4. AheadOK
    BY <1>1, <1>2, Bounds DEF AheadOK
<1>5. FillOK /\ ResidentOK
    BY <1>1, Bounds DEF FillOK, ResidentOK, Opened
<1> QED BY <1>3, <1>4, <1>5 DEF OkInv

\* Where no read fails, every step keeps the counting invariant.
LEMMA OkStep ==
    ASSUME Outcomes = {"ok"}, TypeInv, OkInv, faults = {}, [Next]_vars
    PROVE  OkInv'
<1>1. CASE LoaderStep
    BY <1>1, FillResidentLayersOk, SyncSubmitOk, SyncReapOk, SyncDoneOk, PreadOk,
       DrainInflightOk, SubmitLayerAsyncOk, EnsureLayerOk, EnsureReapOk,
       EnsureDoneOk, EvictLayerOk DEF LoaderStep
<1>2. CASE \E c \in Contexts : OnLayerBoundary(c) \/ Abort(c)
    BY <1>2, OnLayerBoundaryOk, AbortOk
<1>3. CASE KernelStep
    BY <1>3, KernelOk
<1>4. CASE ReclaimStep
    BY <1>4, ReclaimOk
<1>5. CASE UNCHANGED vars
    BY <1>5, StutterOk
<1> QED BY <1>1, <1>2, <1>3, <1>4, <1>5 DEF Next, Finished

\* The faults of a run are chosen at its start.
LEMMA FaultsStep ==
    ASSUME [Next]_vars
    PROVE  faults' = faults
BY DEF Next, KernelStep, ReclaimStep, LoaderStep, OnLayerBoundary, Abort, Finished, vars

PagerInv == TypeInv /\ (faults = {} => OkInv)

\* Types and counts together are inductive.
LEMMA PagerStep ==
    ASSUME Outcomes = {"ok"}
    PROVE  PagerInv /\ [Next]_vars => PagerInv'
BY TypeStep, OkStep, FaultsStep DEF PagerInv

\* Where no read fails, a layer marked resident is there, for every order in which the
\* kernel completes reads, every number of layers read ahead and every number of contexts:
\* ensure_layer is right to set layer_resident_ once the count of the layer is down to
\* zero, although completions carry no slab and counts may be too high.
THEOREM ResidentAlwaysFilled ==
    ASSUME Outcomes = {"ok"}
    PROVE  Spec => []ResidentFilled
<1>1. Init => PagerInv
    BY TypeInit, OkInit DEF PagerInv
<1>2. PagerInv => ResidentFilled
    BY DEF PagerInv, OkInv, ResidentOK, ResidentFilled
<1>3. PagerInv /\ [Next]_vars => PagerInv'
    BY PagerStep
<1> QED BY <1>1, <1>2, <1>3, PTL DEF Spec

-----------------------------------------------------------------------------
(* One context: what it computes, and the service it is given.             *)

OneContext == \A c, d \in Contexts : c = d

\* Between callbacks the pass is in a resident layer.
PlaceOK ==
    /\ ~Opened => \A c \in Contexts : pos[c] = 0
    /\ pc = "run" => \A c \in Contexts : pos[c] \in resident

SoloInv == PagerInv /\ (faults = {} => PlaceOK)

\* The layer that a pass enters at the end of a callback stays resident.
LEMMA EnteredResident ==
    ASSUME TypeInv, ResidentOK, EvictLayer
    PROVE  /\ (cur + 1) % NLayers \in resident'
           /\ (cur + 1) % NLayers \in resident
<1>1. /\ pc = "evict" /\ busy # {} /\ cur \in Layers
      /\ resident' = IF cur >= W /\ cur \in resident THEN resident \ {cur} ELSE resident
    BY Bounds DEF EvictLayer, Release, TypeInv, TypeOK, PhaseOK
<1>2. 0 \in resident /\ (cur + 1 = NLayers \/ cur + 1 \in resident)
    BY <1>1, Bounds DEF ResidentOK, Opened
<1>3. CASE cur + 1 = NLayers
    <2>1. (cur + 1) % NLayers = 0
        BY <1>3, Bounds
    <2> QED BY <1>1, <1>2, <2>1, Bounds
<1>4. CASE cur + 1 # NLayers
    <2>1. (cur + 1) % NLayers = cur + 1
        BY <1>1, <1>4, Bounds
    <2> QED BY <1>1, <1>2, <1>4, <2>1, Bounds
<1> QED BY <1>3, <1>4

\* A pass stays in layers that are marked.
LEMMA PlaceStep ==
    ASSUME OneContext, TypeInv, ResidentOK, PlaceOK, [Next]_vars
    PROVE  PlaceOK'
<1>1. CASE EvictLayer
    <2>1. /\ pc' = "run"
          /\ pos' = [c \in Contexts |-> IF c \in busy THEN (cur + 1) % NLayers ELSE pos[c]]
        BY <1>1 DEF EvictLayer, Goto
    <2>2. \A c \in Contexts : c \in busy
        BY <1>1 DEF OneContext, EvictLayer, TypeInv, PhaseOK
    <2>3. \A c \in Contexts : pos'[c] = (cur + 1) % NLayers
        BY <2>1, <2>2
    <2> QED BY <1>1, <2>1, <2>3, EnteredResident DEF PlaceOK, Opened
<1>2. CASE FillResidentLayers
    <2>1. /\ UNCHANGED <<pos, resident, busy>> /\ pc = "fill" /\ cur \in -1 .. (NLayers - 1)
          /\ pc' = IF cur + 1 < W THEN "sync" ELSE "run"
          /\ busy = {} /\ ~Opened
        BY <1>2 DEF FillResidentLayers, TypeInv, TypeOK, PhaseOK, Opened, Goto, window, passing
    <2>2. pc' = "run" => 0 \in resident
        BY <2>1, Bounds DEF ResidentOK
    <2> QED BY <2>1, <2>2 DEF PlaceOK, Opened
<1>3. ASSUME NEW c \in Contexts, Abort(c) PROVE PlaceOK'
    <2>1. 0 \in resident
        BY <1>3, Bounds DEF Abort, ResidentOK, Opened
    <2>2. pc = "run" /\ UNCHANGED <<pc, resident>> /\ \A d \in Contexts : pos'[d] \in {0, pos[d]}
        BY <1>3 DEF Abort, window, control, TypeInv, TypeOK
    <2> QED BY <2>1, <2>2 DEF PlaceOK, Opened
<1>4. ASSUME NEW c \in Contexts, OnLayerBoundary(c) PROVE PlaceOK'
    BY <1>4 DEF OnLayerBoundary, PlaceOK, Opened, Goto
<1>5. CASE UNCHANGED <<pos, resident, pc, busy>>
    BY <1>5 DEF PlaceOK, Opened
<1>6. CASE UNCHANGED <<pos, busy>> /\ pc # "run" /\ pc' # "run"
    BY <1>6 DEF PlaceOK, Opened
<1>7. CASE LoaderStep
    BY <1>1, <1>2, <1>6, <1>7
    DEF LoaderStep, SyncSubmit, SyncReap, SyncDone, Pread, MarkResident, DrainInflight, Drained,
        SubmitLayerAsync, EnsureLayer, EnsureReap, EnsureDone, Goto, passing
<1>8. CASE KernelStep \/ ReclaimStep \/ UNCHANGED vars
    BY <1>5, <1>8 DEF KernelStep, ReclaimStep, vars, window, control, passing
<1> QED BY <1>3, <1>4, <1>7, <1>8 DEF Next, Finished

\* The initial state satisfies the invariant for one context.
LEMMA SoloInit == Init => SoloInv
<1>1. Init => TypeInv /\ OkInv
    BY TypeInit, OkInit
<1>2. Init => PlaceOK
    BY DEF Init, PlaceOK, Opened
<1> QED BY <1>1, <1>2 DEF SoloInv, PagerInv

\* With one context, counts and places together are inductive.
LEMMA SoloStep ==
    ASSUME Outcomes = {"ok"}, OneContext
    PROVE  SoloInv /\ [Next]_vars => SoloInv'
BY PagerStep, PlaceStep, FaultsStep DEF SoloInv, PagerInv, OkInv

\* Where no read fails, a single context never computes a layer that is not there,
\* whatever the order of completion and the number of layers read ahead.  (Two contexts
\* may: the run "contexts" shows how.)
THEOREM ComputedAlwaysFilled ==
    ASSUME Outcomes = {"ok"}, OneContext
    PROVE  Spec => []ComputedFilled
<1>1. SoloInv => ComputedFilled
    <2> SUFFICES ASSUME SoloInv, faults = {}, pc = "run" \/ busy # {},
                        NEW c \in Contexts, c \notin busy
                 PROVE  SlabsOf(pos[c]) \subseteq Held
        BY DEF ComputedFilled
    <2>1. pc = "run"
        BY DEF SoloInv, PagerInv, TypeInv, PhaseOK, OneContext
    <2> QED BY <2>1 DEF SoloInv, PagerInv, PlaceOK, OkInv, ResidentOK
<1> QED BY <1>1, SoloInit, SoloStep, PTL DEF Spec

\* The layers that are there, as LayerService sees them.
Ready == {l \in Layers : SlabsOf(l) \subseteq Held}

\* Filled slabs of one layer complete that layer or none.
LEMMA ServiceFetch ==
    ASSUME NEW l \in Layers, NEW S \in SUBSET SlabsOf(l), Held' = Held \cup S,
           Opened' = Opened, pos' = pos
    PROVE  Service!Next \/ UNCHANGED Service!vars
<1>1. \A m \in Layers : m # l => (SlabsOf(m) \subseteq Held' <=> SlabsOf(m) \subseteq Held)
    BY SlabsApart
<1>2. Ready' = Ready \/ Ready' = Ready \cup {l}
    BY <1>1 DEF Ready
<1>3. CASE Ready' = Ready
    BY <1>3 DEF Service!vars, Ready, Opened
<1>4. CASE Ready' = Ready \cup {l}
    <2>1. Service!Fetch(l)
        BY <1>4 DEF Service!Fetch, Ready, Opened
    <2> QED BY <2>1 DEF Service!Next, Service!Layers, Layers
<1> QED BY <1>2, <1>3, <1>4

\* A step that leaves held slabs and passes alone is invisible to LayerService.
LEMMA ServiceStutter ==
    ASSUME Held' = Held, Opened' = Opened, pos' = pos
    PROVE  UNCHANGED Service!vars
<1>1. Ready' = Ready
    BY DEF Ready
<1> QED BY <1>1 DEF Service!vars, Ready, Opened

\* The pager starts where LayerService does.
LEMMA ServiceInit == Init => Service!Init
<1> SUFFICES ASSUME Init PROVE Service!Init
    OBVIOUS
<1>1. Held = {} /\ ~Opened /\ pos = [c \in Contexts |-> 0]
    BY DEF Init, RingInit, Held, Opened
<1>2. \A l \in Layers : <<l, 1>> \in SlabsOf(l)
    BY Bounds DEF SlabsOf
<1>3. Ready = {}
    BY <1>1, <1>2 DEF Ready
<1> QED BY <1>1, <1>3 DEF Service!Init, Ready, Opened

\* The end of a callback: one layer is entered, at most the one behind it is given up.
LEMMA ServiceAdvance ==
    ASSUME OneContext, TypeInv, ResidentOK, EvictLayer
    PROVE  Service!Next
<1>1. PICK c \in Contexts : busy = {c} /\ pos[c] = cur
    BY DEF EvictLayer, TypeInv, PhaseOK
<1> DEFINE next == (pos[c] + 1) % NLayers
<1>2. /\ pc = "evict" /\ pc' = "run" /\ cur \in Layers /\ pos \in [Contexts -> Layers]
      /\ Opened /\ Opened' /\ Release(cur)
    BY <1>1, Bounds DEF EvictLayer, TypeInv, TypeOK, PhaseOK, Opened, Goto
<1>3. next \in Layers /\ next \in resident
    BY <1>1, <1>2, Bounds, EnteredResident
<1>4. next \in Ready
    BY <1>3 DEF Ready, ResidentOK
<1> HIDE DEF next
<1>5. pos' = [pos EXCEPT ![c] = next]
    <2>1. pos' = [d \in Contexts |-> IF d \in {c} THEN next ELSE pos[d]]
        BY <1>1 DEF EvictLayer, next
    <2> QED BY <1>2, <2>1
<1>6. \/ Ready' = Ready
      \/ /\ pos[c] >= W
         /\ Ready' = Ready \ {pos[c]}
    <2>1. CASE cur >= W /\ cur \in resident
        <3>1. Held' = Held \ SlabsOf(cur)
            BY <1>2, <2>1, AdviseHeld DEF Release
        <3>2. \A m \in Layers : m # cur => (SlabsOf(m) \subseteq Held' <=> SlabsOf(m) \subseteq Held)
            BY <3>1, SlabsApart
        <3>3. <<cur, 1>> \in SlabsOf(cur)
            BY Bounds DEF SlabsOf
        <3>4. ~(SlabsOf(cur) \subseteq Held')
            BY <3>1, <3>3
        <3> QED BY <1>1, <2>1, <3>2, <3>4 DEF Ready
    <2>2. CASE ~(cur >= W /\ cur \in resident)
        <3>1. Held' = Held
            BY <1>2, <2>2 DEF Release, memory, Held
        <3> QED BY <3>1 DEF Ready
    <2> QED BY <2>1, <2>2
<1>7. Service!Advance(c)
    BY <1>2, <1>4, <1>5, <1>6 DEF Service!Advance, OneContext, Ready, Opened, next
<1> QED BY <1>7 DEF Service!Next

\* Every step of the pager is a step of LayerService, or none.
LEMMA ServiceNext ==
    ASSUME OneContext, faults = {}, TypeInv, ResidentOK, [Next]_vars
    PROVE  Service!Next \/ UNCHANGED Service!vars
<1>1. CASE EvictLayer
    BY <1>1, ServiceAdvance
<1>2. CASE FillResidentLayers
    <2>1. /\ UNCHANGED <<pos, busy>> /\ pc = "fill" /\ cur \in -1 .. (NLayers - 1)
          /\ pc' = IF cur + 1 < W THEN "sync" ELSE "run"
          /\ busy = {} /\ ~Opened
        BY <1>2 DEF FillResidentLayers, TypeInv, TypeOK, PhaseOK, Opened, Goto, window, passing
    <2>2. Held' = Held
        BY <1>2 DEF FillResidentLayers, memory, Held
    <2>3. CASE pc' = "sync"
        BY <2>1, <2>2, <2>3, ServiceStutter DEF Opened
    <2>4. CASE pc' = "run"
        <3>1. 0 .. (W - 1) \subseteq Ready
            BY <2>1, <2>4, Bounds DEF ResidentOK, Ready
        <3>2. Ready' = Ready /\ Opened'
            BY <2>2, <2>4 DEF Ready, Opened
        <3>3. Service!Open
            BY <2>1, <3>1, <3>2 DEF Service!Open, Ready, Opened
        <3> QED BY <3>3 DEF Service!Next
    <2> QED BY <2>1, <2>3, <2>4
<1>3. ASSUME NEW c \in Contexts, Abort(c) PROVE Service!Next
    <2>1. /\ pos' = [pos EXCEPT ![c] = 0] /\ Opened /\ Opened'
        BY <1>3 DEF Abort, Opened, control
    <2>2. Ready' = Ready
        BY <1>3 DEF Abort, memory, Held, Ready
    <2>3. Service!Restart(c)
        BY <2>1, <2>2 DEF Service!Restart, Ready, Opened
    <2> QED BY <2>3 DEF Service!Next
<1>4. ASSUME NEW c \in Contexts, OnLayerBoundary(c) PROVE UNCHANGED Service!vars
    <2>1. Opened /\ Opened' /\ pos' = pos
        BY <1>4 DEF OnLayerBoundary, Opened
    <2>2. Held' = Held
        BY <1>4 DEF OnLayerBoundary, memory, Held
    <2> QED BY <2>1, <2>2, ServiceStutter
<1>5. CASE Pread
    <2>1. /\ cur + 1 \in Layers /\ Fill(SlabsOf(cur + 1)) /\ UNCHANGED <<busy, pos>>
          /\ pc # "run" /\ pc' # "run"
        BY <1>5, Bounds DEF Pread, MarkResident, Goto, TypeInv, TypeOK, PhaseOK, passing
    <2>2. Held' = Held \cup SlabsOf(cur + 1) /\ Opened' = Opened
        BY <2>1, FillHeld DEF Opened
    <2> QED BY <2>1, <2>2, ServiceFetch
<1>6. CASE KernelStep
    <2>1. RingTypeOK /\ Complete /\ UNCHANGED <<pc, busy, pos>>
        BY <1>6 DEF KernelStep, TypeInv, TypeOK, control, passing
    <2>2. PICK i \in DOMAIN kernel : Held' = Held \/ Held' = Held \cup {kernel[i].slab}
        BY <2>1, FillHeld DEF Complete, memory, Held
    <2>3. kernel[i] \in Requests
        BY <2>1, ElementOfSeq, LenProperties DEF RingTypeOK
    <2>4. kernel[i].slab \in Layers \X (1 .. NSlices)
        BY <2>3, PagerAssumption DEF Requests
    <2>5. PICK l \in Layers : kernel[i].slab \in SlabsOf(l)
        BY <2>4 DEF SlabsOf
    <2>6. Opened' = Opened
        BY <2>1 DEF Opened
    <2>7. {kernel[i].slab} \in SUBSET SlabsOf(l)
        BY <2>5
    <2> QED BY <2>1, <2>2, <2>6, <2>7, ServiceFetch, ServiceStutter
<1>7. CASE ReclaimStep
    <2>1. Opened' = Opened /\ pos' = pos
        BY <1>7 DEF ReclaimStep, control, passing, Opened
    <2> QED BY <1>7, <2>1, ReclaimHeld, ServiceStutter DEF ReclaimStep
<1>8. CASE UNCHANGED <<memory, pos, busy>> /\ pc # "run" /\ pc' # "run"
    <2>1. Held' = Held /\ Opened' = Opened
        BY <1>8 DEF memory, Held, Opened
    <2> QED BY <1>8, <2>1, ServiceStutter
<1>9. CASE LoaderStep
    BY <1>1, <1>2, <1>5, <1>8, <1>9
    DEF LoaderStep, SyncSubmit, SubmitOk, SubmitFail, SyncReap, Reap, ReapFails, SyncDone,
        MarkResident, DrainInflight, Drained, SubmitLayerAsync, Submit, EnsureLayer, EnsureReap,
        CountCompletion, GiveUp, EnsureDone, Goto, passing
<1>10. CASE UNCHANGED vars
    <2>1. Held' = Held /\ Opened' = Opened /\ pos' = pos
        BY <1>10 DEF vars, memory, control, passing, Held, Opened
    <2> QED BY <2>1, ServiceStutter
<1> QED BY <1>3, <1>4, <1>6, <1>7, <1>9, <1>10 DEF Next, Finished

\* The slab path implements LayerService where no read fails and one context runs: reads
\* that are split into slabs, sent ahead in batches and completed in any order amount to
\* layers that appear one by one, none is entered before its last slab is filled, and
\* only the layer behind the pass is given up.
THEOREM ServiceImplemented ==
    ASSUME Outcomes = {"ok"}, OneContext, FaultSets = {{}}
    PROVE  Spec => ServiceProvided
<1>1. Init => PagerInv
    BY TypeInit, OkInit DEF PagerInv
<1>2. PagerInv /\ [Next]_vars => PagerInv'
    BY PagerStep
<1>3. PagerInv /\ [Next]_vars => [Service!Next]_(Service!vars)
    <2>1. PagerInv => TypeInv /\ ResidentOK /\ faults = {}
        BY DEF PagerInv, OkInv, TypeInv, TypeOK, RingTypeOK
    <2> QED BY <2>1, ServiceNext
<1> QED BY <1>1, <1>2, <1>3, ServiceInit, PTL DEF Spec, ServiceProvided, Service!Spec

=============================================================================
