----------------------------- MODULE DensePager -----------------------------
(***************************************************************************)
(* The layer-window pager of SteppeLoader: the resident prefix [0, W) is   *)
(* read once, the streamed tail [W, NLayers) is read into private slabs    *)
(* ahead of the layer that is computed and released behind it, through the *)
(* shared ring of UringSlab.  Without a ring it uses pread, and without    *)
(* slabs MADV_WILLNEED and MADV_DONTNEED on the file mapping, in the same  *)
(* order of calls: Pread stands for both.                                  *)
(*                                                                         *)
(* on_layer_boundary runs in the eval callback, after layer cur and before *)
(* layer cur + 1.  It blocks in reaps while the kernel completes reads, so *)
(* its calls are steps: drain, submit, wait (ensure_layer), read and pread *)
(* (prefetch_layer), evict.  Callbacks of several contexts of one model    *)
(* are serialised here; their forward passes interleave.  The expert half  *)
(* of on_layer_boundary, the byte ceiling, is in ExpertCache.              *)
(***************************************************************************)
EXTENDS UringSlab

CONSTANTS
    NLayers,    \* stream_n_layers_
    W,          \* stream_resident_layers_
    NSlices,    \* tensors per layer
    Ahead,      \* config_.dense_prefetch_ahead
    EvictMode,  \* GUANACO_DENSE_EVICT
    Cgroups,    \* what the files of the cgroup may say
    Contexts,   \* llama_contexts that share the model and its hook
    Aborts,     \* a user callback may stop a graph
    MaxPasses   \* bound on the forward passes started

Layers == 0 .. (NLayers - 1)
SlicesOf(l) == [i \in 1 .. NSlices |-> <<l, i>>]
SlabsOf(l) == {l} \X (1 .. NSlices)

ASSUME PagerAssumption ==
    /\ NLayers \in Nat \ {0}
    /\ W \in 1 .. NLayers
    /\ NSlices \in Nat \ {0}
    /\ Ahead \in Nat \ {0}
    /\ EvictMode \in {"auto", "free", "dontneed"}
    /\ Cgroups \subseteq [valid : BOOLEAN, current : Nat, max : Nat]
    /\ Cgroups # {}
    /\ Aborts \in BOOLEAN
    /\ MaxPasses \in Nat
    /\ Tokens = Layers
    /\ Slabs = Layers \X (1 .. NSlices)

VARIABLES
    uring,           \* dense_use_slab and uring_slab_ != nullptr: the ring is used
    resident,        \* layers with layer_resident_
    inflight,        \* dense_inflight_, 0 for no entry
    submitted_upto,  \* submitted_upto_
    last_boundary,   \* last_boundary_layer_
    pc,              \* where the callback stands; "run" outside of it
    cur,             \* layer of the callback; cur + 1 is the one it reads
    todo,            \* completions io_uring_slab_read still waits for
    all_ok,          \* all_ok of ensure_layer and io_uring_slab_read
    busy,            \* the context inside the callback, if any
    pos,             \* per context, the layer it computes
    passes           \* forward passes started

window == <<uring, resident, inflight, submitted_upto, last_boundary>>
control == <<pc, cur, todo, all_ok>>
passing == <<busy, pos, passes>>
vars == <<faults, ring, memory, window, control, passing>>

NoneInflight == [l \in Layers |-> 0]

TypeOK ==
    /\ RingTypeOK
    /\ uring \in BOOLEAN
    /\ resident \subseteq Layers
    /\ inflight \in [Layers -> 0 .. NSlices]
    /\ submitted_upto \in -1 .. (NLayers - 1)
    /\ last_boundary \in -1 .. (NLayers - 1)
    /\ pc \in {"fill", "run", "drain", "submit", "ensure", "wait", "sync", "read",
               "pread", "evict"}
    /\ cur \in -1 .. (NLayers - 1)
    /\ todo \in 0 .. NSlices
    /\ all_ok \in BOOLEAN
    /\ busy \subseteq Contexts
    /\ pos \in [Contexts -> Layers]
    /\ passes \in 0 .. MaxPasses

Init ==
    /\ RingInit
    /\ uring \in BOOLEAN
    /\ resident = {}
    /\ inflight = NoneInflight
    /\ submitted_upto = -1
    /\ last_boundary = -1
    /\ pc = "fill"
    /\ cur = -1
    /\ todo = 0
    /\ all_ok = TRUE
    /\ busy = {}
    /\ pos = [c \in Contexts |-> 0]
    /\ passes = 0

Goto(label) == pc' = label

-----------------------------------------------------------------------------
(* fill_resident_layers reads [0, W) layer by layer, before any callback.  *)

FillResidentLayers ==
    /\ pc = "fill"
    /\ Goto(IF cur + 1 < W THEN "sync" ELSE "run")
    /\ UNCHANGED <<ring, memory, window, cur, todo, all_ok, passing>>

\* Where prefetch_layer returns to once layer cur + 1 is resident.
MarkResident ==
    /\ resident' = resident \cup {cur + 1}
    /\ IF busy = {} THEN cur' = cur + 1 /\ Goto("fill")
                    ELSE UNCHANGED cur /\ Goto("evict")
    /\ UNCHANGED <<uring, inflight, submitted_upto, last_boundary>>

-----------------------------------------------------------------------------
(* prefetch_layer(cur + 1): io_uring_slab_read with token 0, else pread.   *)

SyncSubmit ==
    /\ pc = "sync"
    /\ IF uring
       THEN \/ /\ SubmitOk(0, SlicesOf(cur + 1))
               /\ Goto("read")
               /\ todo' = NSlices
               /\ all_ok' = TRUE
            \/ /\ SubmitFail(0, SlicesOf(cur + 1))
               /\ Goto("pread")
               /\ UNCHANGED <<todo, all_ok>>
       ELSE Goto("pread") /\ UNCHANGED <<ring, memory, todo, all_ok>>
    /\ UNCHANGED <<window, cur, passing>>

\* One completion per slice, of whatever batch.
SyncReap ==
    /\ pc = "read"
    /\ todo > 0
    /\ \/ /\ Reap
          /\ todo' = todo - 1
          /\ all_ok' = (all_ok /\ Head(cq).res # "error")
          /\ UNCHANGED pc
       \/ /\ ReapFails
          /\ todo' = 0
          /\ all_ok' = FALSE
          /\ UNCHANGED pc
    /\ UNCHANGED <<window, cur, passing>>

\* Fault: a failed batch is tried again on the ring, not with pread.
SyncDoneRetry ==
    /\ pc = "read"
    /\ todo = 0
    /\ IF all_ok THEN MarkResident
                 ELSE Goto("sync") /\ UNCHANGED <<window, cur>>
    /\ UNCHANGED <<ring, memory, todo, all_ok, passing>>

SyncDone ==
    /\ pc = "read"
    /\ todo = 0
    /\ IF all_ok THEN MarkResident
                 ELSE Goto("pread") /\ UNCHANGED <<window, cur>>
    /\ UNCHANGED <<ring, memory, todo, all_ok, passing>>

\* The fallback, which marks the layer resident whatever it read.
Pread ==
    /\ pc = "pread"
    /\ \/ Fill(SlabsOf(cur + 1))
       \/ "pread" \in faults /\ UNCHANGED memory
    /\ MarkResident
    /\ UNCHANGED <<ring, todo, all_ok, passing>>

-----------------------------------------------------------------------------
(* on_layer_boundary.                                                      *)

OnLayerBoundary(c) ==
    /\ pc = "run"
    /\ passes < MaxPasses
    /\ busy' = {c}
    /\ cur' = pos[c]
    /\ last_boundary' = pos[c]
    /\ Goto(IF pos[c] <= last_boundary THEN "drain" ELSE "submit")
    /\ UNCHANGED <<faults, ring, memory, uring, resident, inflight, submitted_upto, todo,
                   all_ok, pos, passes>>

\* One completion is taken off the count of its layer, if that has an entry.
CountDown(counts, token) ==
    [counts EXCEPT ![token] = IF @ > 0 THEN @ - 1 ELSE 0]

\* drain_inflight at the start of a pass; a failed reap gives up the rest.
Drained ==
    /\ inflight' = NoneInflight
    /\ submitted_upto' = W - 1
    /\ Goto("submit")

\* Fault: the counts are cleared, but nothing is reaped.
DrainClearsOnly ==
    /\ pc = "drain"
    /\ Drained
    /\ UNCHANGED <<ring, memory, uring, resident, last_boundary, cur, todo, all_ok, passing>>

DrainInflight ==
    /\ pc = "drain"
    /\ \/ /\ uring
          /\ inflight # NoneInflight
          /\ \/ /\ Reap
                /\ inflight' = CountDown(inflight, Head(cq).token)
                /\ UNCHANGED <<submitted_upto, pc>>
             \/ ReapFails /\ Drained
       \/ /\ ~uring \/ inflight = NoneInflight
          /\ Drained
          /\ UNCHANGED <<ring, memory>>
    /\ UNCHANGED <<uring, resident, last_boundary, cur, todo, all_ok, passing>>

\* The submit loop, one layer per step; a layer that cannot be queued is
\* skipped all the same.
\* Fault: one layer too far.
TargetPast == cur + Ahead + 1

Target == cur + Ahead

Declined(k) == k < W \/ ~uring \/ k \in resident \/ inflight[k] > 0

\* Fault: the frontier stays at a layer that needs no read.
SubmitStuck(k) ==
    IF Declined(k)
    THEN UNCHANGED <<ring, memory, inflight, submitted_upto>>
    ELSE /\ SubmitOk(k, SlicesOf(k))
         /\ inflight' = [inflight EXCEPT ![k] = NSlices]
         /\ submitted_upto' = k

Submit(k) ==
    /\ submitted_upto' = k
    /\ \/ Declined(k) /\ UNCHANGED <<ring, memory, inflight>>
       \/ /\ ~Declined(k)
          /\ SubmitOk(k, SlicesOf(k))
          /\ inflight' = [inflight EXCEPT ![k] = NSlices]
       \/ /\ ~Declined(k)
          /\ SubmitFail(k, SlicesOf(k))
          /\ UNCHANGED inflight

SubmitLayerAsync ==
    /\ pc = "submit"
    /\ LET k == submitted_upto + 1
       IN  IF k <= Target /\ k < NLayers
           THEN Submit(k) /\ UNCHANGED pc
           ELSE Goto("ensure") /\ UNCHANGED <<ring, memory, inflight, submitted_upto>>
    /\ UNCHANGED <<uring, resident, last_boundary, cur, todo, all_ok, passing>>

\* ensure_layer(cur + 1), for a streamed layer that is not resident.
\* Fault: the layer past the last one is read too.
EnsureLayerPastEnd ==
    /\ pc = "ensure"
    /\ LET next == cur + 1
       IN  IF next >= W /\ next \notin resident
           THEN Goto(IF uring /\ next < NLayers /\ inflight[next] > 0
                     THEN "wait" ELSE "sync")
           ELSE Goto("evict")
    /\ all_ok' = TRUE
    /\ UNCHANGED <<ring, memory, window, cur, todo, passing>>

EnsureLayer ==
    /\ pc = "ensure"
    /\ LET next == cur + 1
       IN  IF next >= W /\ next < NLayers /\ next \notin resident
           THEN Goto(IF uring /\ inflight[next] > 0 THEN "wait" ELSE "sync")
           ELSE Goto("evict")
    /\ all_ok' = TRUE
    /\ UNCHANGED <<ring, memory, window, cur, todo, passing>>

\* Fault: the first failed read ends the wait for the others of its layer.
CountCompletionBreak ==
    /\ Reap
    /\ inflight' = IF Head(cq).res = "error" THEN [inflight EXCEPT ![cur + 1] = 0]
                                            ELSE CountDown(inflight, Head(cq).token)
    /\ all_ok' = (all_ok /\ Head(cq).res # "error")

CountCompletion ==
    /\ Reap
    /\ inflight' = CountDown(inflight, Head(cq).token)
    /\ all_ok' = (all_ok /\ Head(cq).res # "error")

GiveUp ==
    /\ ReapFails
    /\ inflight' = [inflight EXCEPT ![cur + 1] = 0]
    /\ all_ok' = FALSE

EnsureReap ==
    /\ pc = "wait"
    /\ inflight[cur + 1] > 0
    /\ CountCompletion \/ GiveUp
    /\ UNCHANGED <<uring, resident, submitted_upto, last_boundary, pc, cur, todo, passing>>

\* Fault: one completion is taken for the layer's last.
EnsureDoneEarly ==
    /\ pc = "wait"
    /\ inflight[cur + 1] < NSlices
    /\ IF all_ok THEN MarkResident
                 ELSE Goto("sync") /\ UNCHANGED <<window, cur>>
    /\ UNCHANGED <<ring, memory, todo, all_ok, passing>>

EnsureDone ==
    /\ pc = "wait"
    /\ inflight[cur + 1] = 0
    /\ IF all_ok THEN MarkResident
                 ELSE Goto("sync") /\ UNCHANGED <<window, cur>>
    /\ UNCHANGED <<ring, memory, todo, all_ok, passing>>

\* memory.current and memory.max of the process, read at each eviction; max is 0
\* where there is no limit.
CgroupNearLimit(reading) ==
    /\ reading.valid
    /\ reading.max # 0
    /\ reading.current * 10 >= reading.max * 9

DenseEvictAdvice(reading) ==
    CASE EvictMode = "free" -> "free"
      [] EvictMode = "dontneed" -> "dontneed"
      [] OTHER -> IF CgroupNearLimit(reading) THEN "dontneed" ELSE "free"

\* evict_layer(l), if it is streamed and resident.  Without a ring the layer may be
\* on the file mapping, which is always dropped.
\* Fault: the next layer is released instead.
ReleaseNext(l) ==
    IF l + 1 >= W /\ l + 1 \in resident
    THEN resident' = resident \ {l + 1} /\ Advise(SlabsOf(l + 1), "dontneed")
    ELSE UNCHANGED <<resident, memory>>

Release(l) ==
    IF l >= W /\ l \in resident
    THEN /\ resident' = resident \ {l}
         /\ \/ \E reading \in Cgroups : Advise(SlabsOf(l), DenseEvictAdvice(reading))
            \/ ~uring /\ Advise(SlabsOf(l), "dontneed")
    ELSE UNCHANGED <<resident, memory>>

\* The end of the callback: the context computes the next layer, or the first
\* one of its next pass.
EvictLayer ==
    /\ pc = "evict"
    /\ Release(cur)
    /\ pos' = [c \in Contexts |-> IF c \in busy THEN (cur + 1) % NLayers ELSE pos[c]]
    /\ passes' = IF cur + 1 = NLayers THEN passes + 1 ELSE passes
    /\ busy' = {}
    /\ Goto("run")
    /\ UNCHANGED <<ring, uring, inflight, submitted_upto, last_boundary, cur, todo,
                   all_ok>>

\* A stopped graph: the next decode of the context starts at layer 0.
Abort(c) ==
    /\ Aborts
    /\ pc = "run"
    /\ passes < MaxPasses
    /\ pos[c] > 0
    /\ pos' = [pos EXCEPT ![c] = 0]
    /\ passes' = passes + 1
    /\ UNCHANGED <<faults, ring, memory, window, control, busy>>

KernelStep == Complete /\ UNCHANGED <<faults, window, control, passing>>

\* Nothing obliges the kernel to take pages back.
ReclaimStep == Reclaim /\ UNCHANGED <<faults, window, control, passing>>

LoaderStep ==
    /\ \/ FillResidentLayers
       \/ SyncSubmit
       \/ SyncReap
       \/ SyncDone
       \/ Pread
       \/ DrainInflight
       \/ SubmitLayerAsync
       \/ EnsureLayer
       \/ EnsureReap
       \/ EnsureDone
       \/ EvictLayer
    /\ UNCHANGED faults

\* The bound MaxPasses is reached: generation ends.
Finished ==
    /\ pc = "run"
    /\ passes = MaxPasses
    /\ UNCHANGED vars

Next ==
    \/ KernelStep
    \/ ReclaimStep
    \/ LoaderStep
    \/ \E c \in Contexts : OnLayerBoundary(c) \/ Abort(c)
    \/ Finished

\* The kernel finishes what it was given, and the thread inside a callback runs
\* on whenever it is not blocked.  Nothing obliges anyone to decode again.
Fairness == WF_vars(KernelStep) /\ WF_vars(LoaderStep)

Spec == Init /\ [][Next]_vars /\ Fairness

-----------------------------------------------------------------------------
(* Properties.                                                             *)

\* The slabs whose bytes the kernel cannot take back.
Held == filled \ lazy

\* A layer marked resident has all its bytes in its slabs, where the kernel cannot
\* take them back: layer_resident_ never runs ahead of the reads, although
\* completions of several layers share a ring, nor behind the advice.
ResidentFilled == faults = {} => \A l \in resident : SlabsOf(l) \subseteq Held

\* The layer a context computes has all its bytes in its slabs.
ComputedFilled ==
    faults = {} /\ (pc = "run" \/ busy # {}) =>
        \A c \in Contexts \ busy : SlabsOf(pos[c]) \subseteq Held

\* dense_inflight_ counts exactly the requests of a layer that the kernel holds
\* or whose completion was not reaped yet, so no reap waits in vain.
Outstanding(l) ==
    Cardinality({i \in DOMAIN kernel : kernel[i].token = l})
        + Cardinality({i \in DOMAIN cq : cq[i].token = l})

InflightExact == faults = {} => \A l \in W .. (NLayers - 1) : inflight[l] = Outstanding(l)

\* No slab is the target of two reads at once: a new pass never queues a slab
\* whose read of the previous pass is still in flight.
OneReadPerSlab ==
    faults = {} => \A i, j \in DOMAIN kernel : kernel[i].slab = kernel[j].slab => i = j

\* While graphs run to their end, the streamed layers that occupy memory the kernel
\* cannot take back (some slab filled and not given up, or being filled) are at
\* most the current one and Ahead more.
Occupied ==
    {l \in W .. (NLayers - 1) :
        SlabsOf(l) \cap (Held \cup {kernel[i].slab : i \in DOMAIN kernel}) # {}}

FootprintNearAhead == Cardinality(Occupied) <= Ahead + 1

\* Every callback returns: no reap waits for a completion that never comes.
CallbackReturns == (pc # "run") ~> (pc = "run")

\* The slab path implements LayerService: with its reads split into slabs, sent
\* ahead in batches and completing in any order, no pass enters a layer before
\* its last slab is filled, and no slab is released but behind the pass.
Service == INSTANCE LayerService WITH
    ready <- {l \in Layers : SlabsOf(l) \subseteq Held},
    open <- pc = "run" \/ busy # {}

ServiceProvided == Service!Spec

=============================================================================
