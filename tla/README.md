# A TLA+ verification of Guanaco's storage layer

Guanaco lets llama.cpp run models that do not fit in RAM. It decides which weights are
in memory at which moment: slices of fused expert tensors on one side, whole transformer
layers on the other. This directory models that machinery in TLA+, model-checks it with
TLC and proves its safety properties with TLAPS. Paths below are relative to the repository
(`src/guanaco_steppeloader.cpp` is "the loader").

## 1. Inventory

| Part | State it keeps | Operations | What makes it correct |
|---|---|---|---|
| Expert cache (loader, expert half) | per slice: `loaded`, `pinned`, `total_hits`, `window_hits`, `last_used`; per tensor: `budget`, `trans`; `expert_resident_bytes_`, `eclock_` | `register_expert_tensor`, `record_routing`, `prefetch_experts`, `pilot_prefetch_next_layer`, `maybe_pin_hot_experts`, `evict_to_budget`, `enforce_expert_byte_ceiling`, `load_imatrix_prior` | the byte count is exact; a callback never evicts what its node reads; pins stay; budgets and the ceiling are met; Pilot learns inside one token only |
| Dense pager (loader, dense half) | `layer_resident_`, `dense_inflight_`, `submitted_upto_`, `last_boundary_layer_`, W | `fill_resident_layers`, `on_layer_boundary`, `submit_layer_async`, `ensure_layer`, `prefetch_layer`, `drain_inflight`, `evict_layer` | a layer is computed only with its bytes; counts match the ring; a slab is read once at a time; the footprint is bounded; callbacks return |
| io_uring slab reader (`guanaco_io_uring.cpp`) | submission and completion queue, telemetry | `submit`, `reap`, `slab_read` | a completion is credited to the read it belongs to |
| Model hook, eval callback (`guanaco_model_hook.cpp`, `patches/llama-context.cpp.patch`, `patches/llama-model.cpp.patch`) | the loader | `initialize`, the registrations, `on_tensors_loaded`, `on_router_computed`, `on_layer_boundary` | order of the calls while loading and inside one forward pass |
| Resident window and budget (loader) | W, `expert_budget_bytes_`, `dense_use_slab`, slabs | `resolve_dense_budget_auto`, `allocate_stream_slabs`, the prefix walk of `fill_resident_layers` | the longest prefix that fits; shares within the budget; slabs that fit memory |
| GGUF metadata, manifest | model config, manifest | `parse_gguf_metadata`, `parse_gguf_manifest`, `build_shard_paths` | each tensor belongs to exactly one path |
| imatrix loader | seeded totals | `common_imatrix_load`, `load_imatrix_prior` | only whole files of this model seed pins |
| HerdCache class | recency list, active slots | `allocate_slot`, `get_buffer`, `pin_expert`, `unpin_expert`, `evict_if_needed`, `set_max_active` | capacity; list and map agree |
| Router, executor, asynchronous reads | futures, detached threads, one shared file offset | `evaluate_token`, `intercept_router`, `prefetch_experts`, `read_expert_async` | waits end; a ready buffer holds its own expert |
| Backend wrapper, other llama.cpp/ggml/Vulkan patches, examples, benchmarks | - | - | not part of the storage logic |

How they interact: llama.cpp initialises the hook, which parses the GGUF shards; it then walks
its tensors twice, once to register experts and once to register streamed tensors, and calls
`on_tensors_loaded` (budget, slabs, resident prefix, pins seeded from an imatrix). After
that, for every graph node, one thread runs the eval callback. After a router node
`ffn_moe_topk-<l>` it calls `record_routing`, `prefetch_experts` and
`pilot_prefetch_next_layer`; `mul_mat_id` then reads the selected slices. After `l_out-<l>`
it calls `on_layer_boundary`. The only concurrency of the main path is with the kernel, which
completes reads in any order and takes pages back, and with other contexts of the same model.
The stand-alone executor (router, HerdCache, reader threads) is a second client of the loader
and runs its own threads.

What is hard: completions that arrive out of order and carry only the token of their
layer; a reap that blocks; reads that fail one by one; submissions that fail and leave
requests queued; timeouts; pages given up lazily; graphs stopped in the middle of a pass;
several contexts on one window; counters updated in many places; pins that only grow; load
steps that need a result of a later one; threads on one file offset. `PROJECT.json` lists
these hazards at their lines, with the properties that cover them.

## 2. Modules

| Module | Models |
|---|---|
| `ModelLoad` | metadata, manifest, registration, budget, window, slabs and seeds, in the order of the hook calls |
| `ExpertCache` | the expert cache and the forward pass that drives it |
| `UringSlab` | ring, kernel and slab memory: requests, completions, failed and timed-out calls, `madvise` |
| `DensePager` | the pager; extends `UringSlab`, implements `LayerService` |
| `LayerService` | what the pager promises to forward passes, without slabs, rings or counts |
| `HerdCache` | the LRU cache class |
| `ExpertReads` | executor, router and reader threads; extends `HerdCache` |
| `ExpertCacheProofs`, `DensePagerProofs`, `SerialPagerProofs`, `LayerServiceProofs`, `ModelLoadProofs`, `ExpertReadsProofs` | theorems |
| `UringSlabProofs`, `NaturalExtrema` | lemmas they share |
| `MCExpertCache`, `MCDensePager`, `MCExpertReads`, `MCModelLoad` | small instances, one `.cfg` per run |

Operators commented as "Fault" are wrong variants of the definition after them. `PROJECT.json`
("mutants") pairs each with a property that it breaks; nothing else uses them.

### ModelLoad

The state is the loader's between the calls of llama.cpp: `phase` is the place in the load,
`next` the tensor a registration loop is at. The files on disk, the memory of the machine, the
user's budget and the auto switch are chosen in the initial state. The outcome fixes what
the other modules take as constants: `LayerOf`, the ceiling and the prior of `ExpertCache`,
`NLayers` and `W` of `DensePager`.

| Action | Code |
|---|---|
| `Initialize` | `SteppeLoader::initialize`, `parse_gguf_metadata`, `build_shard_paths`, `read_gguf_metadata_ctx`, `parse_gguf_manifest` |
| `RegisterExpertTensor`, `RegisterStreamTensor` | one iteration of the two loops of the llama.cpp patch, with the checks of `register_expert_tensor` and `register_stream_tensor` and the redirection of `t->data` |
| `FillResidentLayers` | `resolve_dense_budget_auto`, the slab decision, `allocate_stream_slabs`, the split of the budget, the prefix walk |
| `LoadImatrixPrior` | search of the directory, both imatrix formats, seeding of `total_hits` |
| `Shutdown` | end of the loader |

A tensor is a class of its name, a layer, its highest dimension, a size and a shard; sizes and
memory are small numbers. The metadata buffer doubles from 1 to 64 instead of from 1 MiB to 64 MiB.

### ExpertCache

Sets of slices stand for the bit vectors `loaded` and `pinned`. `paged` is not a variable
of the program: it is the set of slices whose pages the process brought in (`MADV_WILLNEED`
or a fault of `mul_mat_id`) and has not dropped (`MADV_DONTNEED`) since, an upper bound of
what RAM holds. `phase` walks through the callback order of one layer.

| Action | Code |
|---|---|
| `LoadImatrixPrior` | `load_imatrix_prior` with `pin_from_seeded_totals` |
| `RecordRouting` | `record_routing`, the pin pass (`recompute_budgets`, ranking, `evict_to_budget`, `enforce_expert_byte_ceiling`) included when it is due |
| `PrefetchExperts`, `PilotPrefetchNextLayer` | the other two calls of `on_router_computed` |
| `Compute` | `mul_mat_id` (ggml) |
| `OnLayerBoundary` | new-pass detection and ceiling of `on_layer_boundary` |
| `Abort` | a user callback that stops the graph |

Abstractions: `window_hits` is an EWMA that only a hit changes (`0.95 w + 1`), so it is an
increasing function of the number of hits until single precision saturates after a few
hundred; the model keeps the number (`w > 0` is one hit, `w > kHotProtect_` two). Sorts
with equal keys, iteration of an unordered set and the Pilot's id order are free choices.
The clamp of the subtractions from `expert_resident_bytes_` is left out; `BytesExact` shows
that it never bites. Printed counters and the eviction log are left out. The byte ceiling is
set only in hybrid mode, where `on_layer_boundary` does not return early. `madvise` acts on whole
slices: that its ranges are rounded outwards to pages costs a neighbour a page fault and nothing else.

### UringSlab and DensePager

A request is a token and a slab; a completion is a token and a result. The callback blocks
in reaps, so its calls are separate steps under `pc`, and `KernelStep` may happen between
any two. `filled` is the set of slabs that hold the bytes of their tensor; `lazy` are those
of them that `MADV_FREE` gave up: they still hold their bytes until `ReclaimStep`, the kernel
under memory pressure, takes them, and a new read ends that.

| Action | Code |
|---|---|
| `FillResidentLayers`, `SyncSubmit`, `SyncReap`, `SyncDone`, `Pread` | `fill_resident_layers`, `prefetch_layer`, `io_uring_slab_read` |
| `OnLayerBoundary(c)`, `DrainInflight`, `SubmitLayerAsync` | start of `on_layer_boundary`, `drain_inflight`, the submit loop with `submit_layer_async` |
| `EnsureLayer`, `EnsureReap`, `EnsureDone` | `ensure_layer` |
| `EvictLayer` | `evict_layer` with `dense_evict_advice`, and the return of the callback |
| `Abort(c)` | a stopped graph |
| `KernelStep`, `ReclaimStep` | the kernel completes one read, takes back one page |

Whether the ring exists is the variable `uring`, chosen in the initial state, because
`io_uring_slab_create` may fail and the pager then reads with `pread`; without slabs it uses
`WILLNEED` and `DONTNEED` on the file mapping, in the same order of calls. The faults of
a behaviour are the variable `faults`, a member of `FaultSets` (timed-out reaps, failing
submissions, failing `pread`s); `Outcomes`, `InOrder`, `Aborts` and `Contexts` say what
else the environment of a run may do.

`LayerService` is the promise: bytes of layers appear, a pass enters a layer only when its bytes
are there, and a layer loses them only when a pass leaves it and no other pass is in it. The
mapping reads `ready` as the layers whose slabs are all held (filled and not lazy) and `open` as "the
prefix has been read" (`pc = "run" \/ busy # {}`); `pos` is the same in both.

Two remarks on what the slab path means. Slabs and a streamed tail go together only beside
paged experts (`SlabTailBesideExperts` in `ModelLoad`), when the streamed tensors exceed their
share of the budget but not all of it; a model beyond the whole budget goes to the in-place mmap
path, whose hints cannot make data wrong. And at this commit `t->data` stays on the mmap
(`redirect`, below): the slab properties state what the loader promises about its slabs, and
would become the model's data the day the redirection works.

### HerdCache and ExpertReads

`HerdCache` keeps the map (`active`) and the list (`lru`) as two containers; each public
operation is an operator that updates both. `ExpertReads` composes it with the router and the
threads. Each thread is `Seek` then `Read`s, on one offset `fpos`; a read returns part of what
was asked, fails, or meets the end of the file. A buffer lives as long as its slot or its thread
(`shared_ptr`).

| Action | Code |
|---|---|
| `Initialize`, `EvaluateToken`, `InterceptRouter` | `GuanacoExecutor::initialize`, `evaluate_token`, `GuanacoRouter::intercept_router` |
| `PrefetchExpert`, `AwaitReads`, `RouterReturns` | the loop and the wait of `GuanacoRouter::prefetch_experts` |
| `Seek`, `Read`, `ReadFails` | the thread of `read_expert_async` |
| `PrefetchExperts`, `ResolveBatch` | `SteppeLoader::prefetch_experts` and its waiting thread, for a client beside the router |
| `UseCache` | the public operations of `HerdCache`, used by its owner |

## 3. Runs

Bounds: `MaxRecords` (routing records), `MaxPasses` (forward passes), `MaxCalls`, `MaxUses` and
`MaxBatches` (router calls, uses of the cache, client prefetches) end a behaviour; every other
constant is a parameter of the program or of its environment.

| Run | Instance | States | Shows |
|---|---|---|---|
| `cache` | 2 tensors of 3 experts in layers 0 and 2 of 3, cap 2, no ceiling or one of 4 of 9 bytes, pin passes after records 1, 2, 4 | 1.1 million | accounting, pins, budgets, ceiling and Pilot agree; what the next node reads is loaded, pins under a ceiling excepted |
| `in_order` | 4 layers, W = 1, 2 tensors per layer, 2 ahead, aborts, 2 passes, ring or no ring, batches in order; no faults, or timeouts and failing `pread`s, or failing submissions and `pread`s | 1.6 million | without faults the pager is right; with any of them every callback returns |
| `serial_errors` | 5 layers, W = 2, 3 tensors per layer, 1 ahead, failing reads in any order, 3 passes, eviction advice "auto" | 345 thousand | failed reads are read again correctly; footprint; callbacks return; implements `LayerService` |
| `reorder` | 5 layers, 2 tensors per layer, 3 ahead (the default), aborts, 3 passes, any order, advice "auto" | 329 thousand | no wrong data and `LayerService` implemented, though a callback may block |
| `reads` | 2 layers of 3 experts, 2 selected, limits 0 to 2, 2 router calls, batches of one and two tokens, 1 client buffer, a file that ends early | 382 thousand | cache consistent, capacity, waits end, a read alone is right |
| `load` | 12 models, 7 budgets, 4 machines, slabs that may fail | 22 thousand | ownership, window, shares, slabs, prior and seeds fit each other |
| `pins` | as `cache`, cap 1 | violation | pins exceed `GUANACO_MAX_EXPERTS` |
| `hang` | 5 layers, 2 ahead, any order, no failure | violation | a callback that never returns |
| `errors` | 4 layers, 2 ahead, failing reads | violation | a layer computed before its bytes are there |
| `contexts` | 4 layers, two contexts | violation | one context releases what the other computes |
| `redirect`, `hybrid` | as `load` | violation | slabs nobody reads; weights nobody pages |

The bounds are enough for the interesting cases: two pin passes after a seeded one, budgets
below the number of used experts, a MoE layer followed by a dense one, ties in every
ranking; an abort in each layer and a pass after it; three layers in flight at once, which is
what it takes for one to steal the completion of another; a selection larger than the limit of
the cache, a slot evicted under its reader and allocated again, two threads on the offset; a
layer above the share, an odd budget, a first layer that does not fit, a shard that is too short or has another
name, experts that cannot be paged, torn, foreign and legacy imatrix files.
`in_order` states its byte properties for behaviours without faults (`faults = {}`), because the
code gives them up at the first fault (below). Deadlock checking is off only in `reorder` and in
violation runs, where the callback of the program really blocks.

Fairness. `DensePager`: the kernel finishes the reads it was given, and the thread inside
the callback continues when it is not blocked in a reap. Nothing makes anyone decode again
(`OnLayerBoundary` and `Abort` are not fair), nor the kernel take pages back. `ExpertReads`: every
thread that is not blocked runs on; nobody has to call the router. The other modules state no liveness.

### What the runs found

- `hang` needs no fault: as soon as two layers are read ahead (the default is three),
  `ensure_layer(2)` may reap the completions of layer 3 as well. It erases the entry of layer 3
  but marks only layer 2 resident, so layer 3 is read a second time, synchronously, by
  `io_uring_slab_read`. That takes any completion, for instance the one of layer 4, without
  counting it down; layer 4 is then waited for with no read left to complete.
- `errors`: with a failing read in addition the same confusion lets a layer be computed before its
  bytes are there.
- `contexts`: contexts of one model share the window without a lock or an owner.
- `redirect`: the address of a slab is asked for while tensors are registered, and slabs are
  allocated afterwards, so a model that fits is copied into slabs that ggml never reads.
- `hybrid`: with a budget on a mixture of experts, the manifest drops every tensor whose highest
  dimension is not the expert count, the attention weights that the pager was to own included.
- `pins`: pins accumulate beyond the documented limit.

Disagreements between the code and what the repository says of it that no run is kept for:

- The byte ceiling drops pins (`src/guanaco_steppeloader.cpp:1796`), as the comment at that loop says. The comment in
  `prefetch_experts` (:2215) calls a pin "always resident, zero page fault", the repository's README (:144)
  says that pins "stay resident forever", and `guanaco.h:368` declares the function as one that evicts "non-pinned expert
  slices". The consequence is more than wording. The ceiling is enforced at the end of a pin pass, inside `record_routing`, so it can
  drop a pinned slice that the same callback has selected; `prefetch_experts` takes it for a hit (:2223) and neither
  loads nor counts it, and `mul_mat_id` faults it in. `SelectedResident` therefore promises less for pins under a
  ceiling, `OnlyPinsEscape` says that only pins get into memory uncounted, and with them pages can exceed the ceiling.
- `fill_resident_layers` splits one budget between pager and experts (:1362, and the comment above it). The
  report at its end says the two budgets "are independent, so total RAM is budget + expert residency" (:1412)
  and prints that experts are paged "on top of the budget"; `.agents/skills/guanaco-development/SKILL.md:192` says that
  they are independent by design. `SharesWithinBudget` states what the code plans: the resident prefix and
  the experts' ceiling share the number. It is no bound on what RAM holds, which the kernel's cache,
  the streamed tail and uncounted pins add to.
- The repository's README (:234) says that the imatrix lookup tolerates the shard suffix. It cuts the name at "-of-" and
  keeps the shard number, so a sharded model finds its own file only as the fallback; `OwnPriorPreferred` is about models of one file.

Behaviours known from the models that have no run of their own: a drain that times out lets the next pass read a slab twice at once; short reads, failing
`pread`s and failing submissions break `ResidentFilled` at once; after an aborted graph drained
layers keep their slabs; a slot the router finds active can be evicted by the same call; a ready
buffer whose read overlapped another may hold the wrong chunks (`SoloReadsRight` is about the others).

Positive results worth knowing: the byte accounting is exact; the hot-first protection of
`evict_to_budget` never decides anything after a pin pass (`WarmSurvivorsUnused`); with one layer
ahead the pager survives any order of completion and failing reads; lazily freed pages
are never taken for present.

## 4. Proofs

Every invariant and every action property of a passing run is stated by a theorem too, for every value
of the constants that the named assumptions of the modules allow (`CacheAssumption`,
`PagerAssumption` with `RingAssumption`, `HerdAssumption` and `ReadsAssumption`,
`LoadAssumption`). The theorems about the cache, the load and the reads have no other hypothesis;
those about bytes in the pager say under which environment they hold, because outside of it they are false.

| Module | Theorems (property) |
|---|---|
| `ExpertCacheProofs` | `TypeCorrect`, `BytesAlwaysExact`, `SelectedAlwaysResident`, `PinsAlwaysLoaded`, `OnlyPinsUnaccounted`, `WrapAroundNeverLearned`, `CeilingAlwaysMet`, `BudgetAlwaysMet`, `WarmSurvivorsNever` |
| `DensePagerProofs` | `PagerTypeCorrect`; with `Outcomes = {"ok"}`: `ResidentAlwaysFilled`; with one context as well: `ComputedAlwaysFilled`; without faults as well: `ServiceImplemented` |
| `SerialPagerProofs` | with one layer ahead, one context, reads that succeed or fail: `SerialResidentFilled`, `SerialComputedFilled`, `SerialInflightExact`, `SerialOneReadPerSlab`; without faults as well: `SerialServiceImplemented`; without aborts as well: `SerialFootprint` |
| `LayerServiceProofs` | `AlwaysServed` |
| `ModelLoadProofs` | `AlwaysOneOwner`, `CeilingNeverInvented`, `SlabsNeverRead`, `LoadTypeCorrect`, `PagedExpertsAreRouted`, `WindowAlwaysLongest`, `BudgetShared`, `SlabsAlwaysFit`, `TailMeansNoSlabs`, `OwnPriorTaken`, `SeedsAlwaysSound` |
| `ExpertReadsProofs` | `ReadsTypeCorrect`, `ListAlwaysMatches`, `SoloReadsAlwaysRight`, `FreshSlotsAlwaysHeld`, `AllocationAlwaysFits` |
| `UringSlabProofs`, `NaturalExtrema` | lemmas: number of requests and completions of a token, types of the ring; least and greatest naturals |

The provers have no induction over data. Where an argument needs one it is an argument about a least
counterexample: `NaturalExtrema` derives from the well-foundedness of the naturals that `Min` and `Max`
of a set of naturals exist, and the proofs look at the least layer, position or rank at which a claim fails.

### Expert cache

The inductive invariant is `CacheInv`: the checked invariants `TypeOK`, `BytesExact`,
`PinsStayLoaded`, `OnlyPinsEscape` and `NoWrapAroundLearned` with two strengthenings. `SelectedResident`
speaks only of the moment of the computation, so `SelectedKept` says that the selected slices are loaded or pinned in
all phases from the prefetch on, and `PinsStayLoaded` turns this into "loaded" where there is no ceiling; `NoWrapAroundLearned` needs `RouterInMoe`, that a router node fires only
in a layer with expert tensors, so that a smaller layer in the same token exists or does not. The byte
count is proved through `SizeOf` as a cardinality (`SizeUnion`, `SizeDifference`): fresh slices are
disjoint from the loaded ones, victims and cuts are subsets of them. One lemma per action
shows that it preserves `CacheInv`; `PinPassStep` treats the pin pass once for both of its
cadences. `CeilingMet` follows from the same invariant, because a cut that takes everything leaves zero bytes.

The two budget properties count. A set that comes first in a ranking (`Foremost`) and stops too early
has a next candidate, which gives `EvictionMeets`: after the eviction a tensor is within its budget or
no candidate is left, and then all that remains is pinned. For `WarmSurvivorsUnused`, `PinsFillBudget`
says that a used slice which the pass leaves unpinned ranks behind a whole budget of used slices of its tensor, which are
pinned; so the pins alone fill the budget, and eviction takes every other slice, warm ones included (`FullPinsEvictAll`).

### Dense pager

`TypeInv` is `TypeOK` with `PhaseOK`, which fixes for each step of the callback which layer it works on; it
needs no hypothesis on faults, order, aborts or contexts.

`OkInv` carries the byte theorems where no read fails. `InflightExact` is false there (this is what `hang`
shows), so the invariant says less about counts and enough about bytes: a count may be too high and is never
too low, and every slab of a layer that is counted is held or still the target of a request of its
token (`Covered`). When the count is down to zero, no request of the token is left, so all slabs are held and
`ensure_layer` may mark the layer. `PlaceOK` adds that a pass is only in marked layers, which two contexts break
(`contexts`).

`SerialInv` is for one layer ahead, where reads may fail. There is one batch at a time (`BatchOK`): the ring is
idle, or its requests belong to the layer that is waited for (`Awaited`), or to the one `io_uring_slab_read` is
reading (`Reading`); a slab that is not covered has a failed completion to account for it, or the failure was seen
already. `FrontierOK` keeps the frontier ahead of the pass, so that no layer is submitted twice. `TailOK`,
for the footprint, locates what is occupied: the current layer and the next.

The refinement of `LayerService` is proved step by step under both invariants: reads that complete the last slab of a layer
are the service's arrival of that layer, the end of a callback its move, the rest stutters. `AlwaysServed` then
says what such a service gives a pass. `Served` alone is not inductive, since a restart goes to layer 0:
`ServiceInv` adds that the prefix stays ready once open and that no pass has moved before.

The hypotheses are those the code needs. `Outcomes = {"ok"}`: with two or more layers ahead a failing read breaks
`ComputedFilled` (`errors`). One context: two break it without any failure (`contexts`). One layer ahead: two make counts wrong
(`hang`). `faults = {}` is a condition inside the byte properties; the refinement has no such condition, so its theorems ask for it of the
constants (`FaultSets = {{}}`). No aborts for the footprint: after an aborted graph drained layers keep their slabs.
Each is satisfied by one of the runs `serial_errors` and `reorder`, or by `in_order` on its behaviours without faults.

### Load

`LoadInv` needs nothing about numbers: nothing is streamed while experts are registered, experts are registered
only with expert paging on, and there are no slabs and no shares before the registrations have ended.
`SlabsNeverRead` makes the finding of `redirect` general: no call of `get_stream_tensor_data` ever finds a slab.

`PlanInv` follows the numbers through the phases: what the header may be, which tensors the owners come from, what the
plan looks like between the registrations and the end, and what was seeded. Bytes are cardinalities of `Cells`, so
that sums need no recursion. The window is the first place where the walk stops (`Stops`), hence the longest prefix that
fits, because bytes of prefixes grow; the shares are the two parts of the budget, rounding included.

### Reads

`ReadsInv` has a part for each of the three things that interact. `HerdInv`: list and map name the same slots, each once.
`ReadInv`: two threads at once are in `overlap`, and a thread that sought and is not in it has the offset where
its buffer ends (`Placed`), so that its next chunk is the right one. `QuietInv`: no thread is started for a
buffer that already has one. `FreshInv`: the slots of this router call are the end of the recency list in the order of
their allocation, as far as both go; eviction takes the front, so it reaches them only when the list consists of them.
`ReadsInv` was checked by TLC with two client buffers (12 million states) before it was proved.

### What the proofs corrected

Three places of the models did not say what the code does, on inputs no run had: `madvise` with `MADV_FREE`
on a slab that holds nothing leaves it with nothing to give up; a derived budget that rounds to zero is taken for no budget,
so the second half of `SlabsFitMemory` is about positive ones; and the imatrix loader
keeps its entries in a map, so a file has one entry per tensor and a total comes from one entry.

### Only model-checked

Liveness (`CallbackReturns`, `WaitsEnd`) is beyond the prover. For batches that complete in order with more
than one layer ahead, `InflightExact` and `OneReadPerSlab` are checked by `in_order` and proved only for one layer ahead;
`FootprintNearAhead` likewise has no theorem beyond one layer, and no run.

## 5. Not modelled

- `parse_tensor_dims_from_file` and `parse_gguf_expert_manifest`: called by nothing.
- The backend wrapper: called by none of the patches.
- Splitting a batch at a full submission queue (256) or at 128 slices: a layer has about a dozen
  tensors. Ring telemetry and printed counters.
- A `madvise` that fails: its result is not looked at, and the pages stay, which no property forbids.
- Byte formats of GGUF and imatrix files (gguf's and I/O); several files behind `fd_` (every read
  of a later shard goes to the first file, listed as a hazard).
- The remaining llama.cpp, ggml and Vulkan patches: changes to a program that is not in the
  repository. Examples, probes and the benchmark driver: sequential programs that print
  measurements and keep no state the loader depends on; they are most of the lines the map does
  not name.

## 6. Plan

1. Done: all modules, their runs, and the proofs of section 4.
2. Left: `InflightExact` and `OneReadPerSlab` for batches completed in order with any number of layers ahead. The ring
   is then a queue of batches in the order of their layers, so the invariant of `SerialPagerProofs` has to
   speak of a sequence of batches instead of one.
