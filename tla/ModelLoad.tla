----------------------------- MODULE ModelLoad -----------------------------
(***************************************************************************)
(* How a model is loaded: what SteppeLoader reads out of the GGUF shards,  *)
(* which tensors llama.cpp registers with the expert cache and which with  *)
(* the layer pager, and how fill_resident_layers turns the budget, the     *)
(* memory of the machine and the sizes of the layers into a resident       *)
(* window, private slabs and a byte ceiling for the experts.  Its results  *)
(* are the constants of ExpertCache (LayerOf, the ceiling, the prior) and  *)
(* of DensePager (NLayers, W).                                             *)
(*                                                                         *)
(* A tensor is what its name and its dimensions say: kind "exps" for a     *)
(* fused expert name, "weight" for another block weight, "norm" for a      *)
(* block norm, "global" for a tensor outside the blocks; trail is the      *)
(* highest dimension above 1.  Sizes are small numbers instead of bytes.   *)
(* The header of the first shard is readable: llama.cpp has read it too.   *)
(***************************************************************************)
EXTENDS Integers, SequencesExt

CONSTANTS
    Models,         \* the files a model may consist of
    Budgets,        \* values of dense_budget_bytes, 0 for none
    Machines,       \* memory and cgroup files of the machine
    RamPercent,     \* dense_budget_ram_fraction
    SlabsMayFail    \* mmap of a slab may fail

Tensors == [kind : {"exps", "weight", "norm", "global"}, layer : Nat, trail : Nat \ {0},
            shard : Nat, bytes : Nat \ {0}, host : BOOLEAN, mxfp4 : BOOLEAN]

\* An entry of an imatrix file: the tensor it is about (0 for one the model has not),
\* whether its sums are there, and the counts, one per expert (none if they are
\* missing, and one in all in a file of the legacy format).  The loader keeps the
\* entries in a map, so a tensor has one.
Entries == [tensor : Nat, sums : BOOLEAN, counts : Seq(Nat)]

ASSUME LoadAssumption ==
    /\ \A m \in Models :
        /\ m.kv \in Seq({"expert_count", "expert_used_count", "block_count",
                         "leading_dense_block_count"} \X Nat)
        /\ m.tensors \in Seq(Tensors) \ {<< >>}
        /\ m.priors \in Seq([match : {"exact", "shard", "stem", "other"}, gguf : BOOLEAN,
                             entries : Seq(Entries)])
        /\ \A f \in DOMAIN m.priors : \A e, d \in ToSet(m.priors[f].entries) :
            e.tensor = d.tensor /\ e.tensor # 0 => e = d
        /\ m.shards \in Seq([sibling : BOOLEAN, meta : Nat, size : Nat])
        /\ \A i \in DOMAIN m.tensors : m.tensors[i].shard \in DOMAIN m.shards
    /\ Machines \subseteq [available : Nat, v2 : Nat \cup {-1}, v1 : Nat]
    /\ Budgets \subseteq Nat
    /\ RamPercent \in 0 .. 100
    /\ SlabsMayFail \in BOOLEAN

VARIABLES
    model,          \* the files on disk
    machine,        \* what /proc and /sys say
    user_budget,    \* the budget the user gave
    auto,           \* config_.dense_budget_auto
    phase,          \* where the load stands
    fd,             \* fd_ >= 0
    moe,            \* model_config_: num_experts, num_experts_per_tok, num_hidden_layers
    enabled,        \* enabled_: expert paging
    dense_enabled,  \* dense_enabled_: the layer pager
    manifest,       \* tensors in manifest_, by index
    next,           \* index of the tensor a registration loop is at
    expert_tensors, \* tensors in expert_tensors_
    stream,         \* tensors in stream_layers_
    data,           \* where t->data of a tensor points to: "mmap" or "slab"
    slabs,          \* stream tensors that have a slab
    use_slab,       \* config_.dense_use_slab
    budget,         \* dense_budget_bytes_ and config_.dense_budget_bytes
    expert_budget,  \* expert_budget_bytes_
    window,         \* stream_resident_layers_
    prior,          \* the imatrix file that seeds the pins, or NoPrior
    seeded          \* tensors and experts whose total_hits the file seeds

inputs == <<model, machine, user_budget, auto>>
parsed == <<fd, moe, enabled, dense_enabled, manifest>>
owners == <<expert_tensors, stream, data>>
plan == <<slabs, use_slab, budget, expert_budget, window>>
seeds == <<prior, seeded>>
vars == <<inputs, phase, parsed, next, owners, plan, seeds>>

NoPrior == 0
T(i) == model.tensors[i]
Indices == DOMAIN model.tensors

\* The bytes of a set of tensors, as positions within its tensors, and their number.
Cells(S) == UNION {{i} \X (1 .. T(i).bytes) : i \in S}
Bytes(S) == Cardinality(Cells(S))

TypeOK ==
    /\ phase \in {"start", "experts", "stream", "fill", "prior", "ready", "down"}
    /\ fd \in BOOLEAN
    /\ moe \in [experts : Nat, used : Nat, layers : Nat]
    /\ enabled \in BOOLEAN
    /\ dense_enabled \in BOOLEAN
    /\ manifest \subseteq Indices
    /\ next \in Indices
    /\ expert_tensors \subseteq manifest
    /\ stream \subseteq manifest
    /\ data \in [Indices -> {"mmap", "slab"}]
    /\ slabs \subseteq stream
    /\ use_slab \in BOOLEAN
    /\ budget \in Nat
    /\ expert_budget \in 0 .. budget
    /\ window \in Nat
    /\ prior = NoPrior \/ prior \in DOMAIN model.priors
    /\ seeded \subseteq (Indices \X Nat)

Init ==
    /\ model \in Models
    /\ machine \in Machines
    /\ user_budget \in Budgets
    /\ auto \in BOOLEAN
    /\ phase = "start"
    /\ fd = FALSE
    /\ moe = [experts |-> 0, used |-> 0, layers |-> 0]
    /\ enabled = TRUE
    /\ dense_enabled = FALSE
    /\ manifest = {}
    /\ next = 1
    /\ expert_tensors = {}
    /\ stream = {}
    /\ data = [i \in Indices |-> "mmap"]
    /\ slabs = {}
    /\ use_slab = TRUE
    /\ budget = user_budget
    /\ expert_budget = 0
    /\ window = 0
    /\ prior = NoPrior
    /\ seeded = {}

-----------------------------------------------------------------------------
(* parse_gguf_metadata.                                                    *)

\* The last key of a kind decides; without one the field keeps its 0.
LastKey(names) ==
    LET at == {i \in DOMAIN model.kv : model.kv[i][1] \in names}
    IN  IF at = {} THEN 0 ELSE model.kv[Max(at)][2]

\* The default for a missing used count.  The fallbacks that look into the manifest
\* find it empty: it is parsed later.
DefaultUsed(experts) ==
    CASE experts = 8 -> 2
      [] experts >= 16 -> 4
      [] experts >= 4 /\ experts # 8 /\ experts < 16 -> 2
      [] OTHER -> 0

ParseGgufMetadata ==
    LET experts == LastKey({"expert_count"})
        used == LastKey({"expert_used_count"})
    IN  [experts |-> experts,
         used |-> IF used = 0 THEN DefaultUsed(experts) ELSE used,
         layers |-> LastKey({"block_count", "leading_dense_block_count"})]

\* The pager is on for a budget, and for a dense model when one may be derived.
WantsPager(cfg) == user_budget > 0 \/ (auto /\ user_budget = 0 /\ cfg.experts <= 1)

-----------------------------------------------------------------------------
(* parse_gguf_manifest, over the shards.                                   *)

\* The file that was named, and the files of its directory with its prefix and its
\* "-of-" suffix.  llama.cpp can be given splits with other names.
BuildShardPaths == {s \in DOMAIN model.shards : s = 1 \/ model.shards[s].sibling}

\* read_gguf_metadata_ctx: the buffer doubles from 1 until it covers the metadata,
\* at most to 64, and the file has to fill it.
BufferSizes == {1, 2, 4, 8, 16, 32, 64}

ShardReadable(s) ==
    \E cap \in BufferSizes :
        /\ s.meta <= cap
        /\ \A c \in BufferSizes : c < cap => c < s.meta
        /\ cap <= s.size

\* Fault: the expert dimension is not compared with the expert count.
InManifestAnyTrail(i, cfg, pager) ==
    /\ T(i).shard \in BuildShardPaths
    /\ ShardReadable(model.shards[T(i).shard])
    /\ \/ T(i).kind = "exps"
       \/ pager /\ T(i).kind = "weight"
       \/ T(i).trail > 1

InManifest(i, cfg, pager) ==
    /\ T(i).shard \in BuildShardPaths
    /\ ShardReadable(model.shards[T(i).shard])
    /\ T(i).trail > 1 /\ cfg.experts > 1 => T(i).trail = cfg.experts
    /\ \/ T(i).kind = "exps"
       \/ pager /\ T(i).kind = "weight"
       \/ T(i).trail > 1

\* The hook ignores the result: with no file the load goes on without Guanaco.
Initialize ==
    /\ phase = "start"
    /\ phase' = "experts"
    /\ \/ /\ fd' = TRUE
          /\ moe' = ParseGgufMetadata
          /\ dense_enabled' = WantsPager(moe')
          /\ enabled' = (moe'.experts > 1)
          /\ manifest' = IF enabled' \/ dense_enabled'
                         THEN {i \in Indices : InManifest(i, moe', dense_enabled')}
                         ELSE {}
       \/ UNCHANGED parsed
    /\ UNCHANGED <<inputs, next, owners, plan, seeds>>

-----------------------------------------------------------------------------
(* load_tensors of llama.cpp: one pass for the experts, one for the rest.  *)

Loop(last) ==
    IF next = Len(model.tensors)
    THEN next' = 1 /\ phase' = last
    ELSE next' = next + 1 /\ UNCHANGED phase

LookupExpert(i) == i \in manifest

\* What llama.cpp asks of an expert tensor, and register_expert_tensor again.
\* Fault: a tensor that the manifest does not name is registered.
RegistersUnlisted(i) ==
    /\ T(i).kind = "exps"
    /\ T(i).trail > 1
    /\ T(i).bytes % T(i).trail = 0
    /\ T(i).host
    /\ enabled

Registers(i) ==
    /\ T(i).kind = "exps"
    /\ LookupExpert(i)
    /\ T(i).trail > 1
    /\ T(i).bytes % T(i).trail = 0
    /\ ~T(i).mxfp4
    /\ T(i).host
    /\ enabled
    /\ fd

RegisterExpertTensor ==
    /\ phase = "experts"
    /\ expert_tensors' = IF Registers(next) THEN expert_tensors \cup {next} ELSE expert_tensors
    /\ Loop(IF dense_enabled THEN "stream" ELSE "fill")
    /\ UNCHANGED <<inputs, parsed, stream, data, plan, seeds>>

\* Fault: an expert tensor is streamed as well.
StreamsAll(i) ==
    /\ T(i).kind \in {"exps", "weight"}
    /\ LookupExpert(i)
    /\ T(i).host
    /\ dense_enabled
    /\ fd

Streams(i) ==
    /\ T(i).kind \in {"exps", "weight"}
    /\ LookupExpert(i)
    /\ T(i).host
    /\ dense_enabled
    /\ fd
    /\ ~(enabled /\ i \in expert_tensors)

GetStreamTensorData(i) == IF i \in slabs THEN "slab" ELSE "mmap"

\* The redirection of t->data follows at once, in the same iteration.
RegisterStreamTensor ==
    /\ phase = "stream"
    /\ stream' = IF Streams(next) THEN stream \cup {next} ELSE stream
    /\ data' = [data EXCEPT ![next] = GetStreamTensorData(next)]
    /\ Loop("fill")
    /\ UNCHANGED <<inputs, parsed, expert_tensors, plan, seeds>>

-----------------------------------------------------------------------------
(* fill_resident_layers, called from on_tensors_loaded.                    *)

\* memory.max of the cgroup (v2 is -1 for "max" or no such file, so that v1 is
\* asked), clamping MemAvailable.
CgroupMemoryLimit == IF machine.v2 >= 0 THEN machine.v2 ELSE machine.v1

AvailableRam ==
    IF CgroupMemoryLimit # 0 /\ CgroupMemoryLimit < machine.available
    THEN CgroupMemoryLimit
    ELSE machine.available

DerivedBudget == (AvailableRam * RamPercent) \div 100

\* Fault: a model with experts gets a derived budget too.
ResolveForAll ==
    IF auto /\ budget = 0 /\ AvailableRam # 0 /\ Bytes(Indices) > DerivedBudget
    THEN DerivedBudget ELSE budget

ResolveDenseBudgetAuto ==
    IF /\ auto
       /\ budget = 0
       /\ expert_tensors = {}
       /\ AvailableRam # 0
       /\ Bytes(stream) > DerivedBudget
    THEN DerivedBudget
    ELSE budget

\* Fault: the model has to exceed the budget and have experts to leave the slabs.
KeepsSlabsMoeOnly(limit) == ~(limit > 0 /\ Bytes(stream) > limit /\ moe.experts > 1)

KeepsSlabs(limit) == ~(limit > 0 /\ Bytes(stream) > limit)

\* The tensors alloc_slab finds no memory for, at most one here.
AllocSlabFails == {{}} \cup (IF SlabsMayFail THEN {{i} : i \in stream} ELSE {})

AllocateStreamSlabs ==
    IF use_slab'
    THEN \E failed \in AllocSlabFails : slabs' = stream \ failed
    ELSE UNCHANGED slabs

\* Fault: the experts get the whole budget, which leaves the pager without a limit.
ExpertShareOnTop(limit) == IF enabled /\ expert_tensors # {} THEN limit ELSE 0

ExpertShare(limit) == IF enabled /\ expert_tensors # {} THEN limit \div 2 ELSE 0

StreamLayers == Max({T(i).layer : i \in stream}) + 1
LayerBytes(l) == Bytes({i \in stream : T(i).layer = l})

\* Fault: the budget divided by the average layer.
AverageWindow(share) ==
    IF share = 0 THEN StreamLayers
    ELSE Min({StreamLayers, Max({1, (share * StreamLayers) \div Bytes(stream)})})

PrefixBytes(n) == Bytes({i \in stream : T(i).layer < n})

\* The layers the walk does not get past: the ones before them, which it has used up,
\* and the layer itself exceed the share.  Layer 0 is always taken.
Stops(share) ==
    {l \in 1 .. (StreamLayers - 1) : share > 0 /\ PrefixBytes(l) + LayerBytes(l) > share}

ResidentWindow(share) == Min(Stops(share) \cup {StreamLayers})

FillResidentLayers ==
    /\ phase = "fill"
    /\ phase' = "prior"
    /\ budget' = ResolveDenseBudgetAuto
    /\ IF dense_enabled /\ stream # {}
       THEN /\ use_slab' = KeepsSlabs(budget')
            /\ AllocateStreamSlabs
            /\ expert_budget' = ExpertShare(budget')
            /\ window' = ResidentWindow(budget' - expert_budget')
       ELSE UNCHANGED <<slabs, use_slab, expert_budget, window>>
    /\ UNCHANGED <<inputs, parsed, next, owners, seeds>>

-----------------------------------------------------------------------------
(* load_imatrix_prior: <model>.imatrix.gguf, else a file whose name holds  *)
(* the base name of the model file, else any imatrix of the directory.     *)

\* The base name keeps the shard number, so only an unsharded model finds a file
\* that is named after the model ("stem").
NamesModel(f) ==
    LET match == model.priors[f].match
    IN  match = "shard" \/ (match = "stem" /\ Len(model.shards) = 1)

\* Fault: the directory is read in its own order, whatever the names.
AnyCandidate == DOMAIN model.priors

Candidates ==
    LET exact == {f \in DOMAIN model.priors : model.priors[f].match = "exact"}
        named == {f \in DOMAIN model.priors : NamesModel(f)}
    IN  IF exact # {} THEN exact
        ELSE IF named # {} THEN named
        ELSE DOMAIN model.priors

\* A torn file fails as a whole, whatever entries were read before the tear.
common_imatrix_load_legacy(file) ==
    /\ file.entries # << >>
    /\ \A e \in ToSet(file.entries) : e.sums

common_imatrix_load(file) ==
    IF file.gguf
    THEN /\ file.entries # << >>
         /\ \A e \in ToSet(file.entries) : e.sums /\ e.counts # << >>
    ELSE common_imatrix_load_legacy(file)

EntrySlots(e, n) == {<<e.tensor, x>> : x \in {y \in 0 .. (n - 1) : e.counts[y + 1] > 0}}

ExpertEntries(file) == {e \in ToSet(file.entries) : e.tensor \in expert_tensors}

\* Fault: every count of the file is an expert of the tensor.
SeedSlotsUnclamped(file) == UNION {EntrySlots(e, Len(e.counts)) : e \in ExpertEntries(file)}

SeedSlots(file) ==
    UNION {EntrySlots(e, Min({Len(e.counts), T(e.tensor).trail})) : e \in ExpertEntries(file)}

\* The search ends at the first file, even one that cannot be parsed.
LoadImatrixPrior ==
    /\ phase = "prior"
    /\ phase' = "ready"
    /\ IF expert_tensors = {} \/ Candidates = {}
       THEN UNCHANGED seeds
       ELSE \E f \in Candidates :
                IF common_imatrix_load(model.priors[f])
                THEN prior' = f /\ seeded' = SeedSlots(model.priors[f])
                ELSE UNCHANGED seeds
    /\ UNCHANGED <<inputs, parsed, next, owners, plan>>

Shutdown ==
    /\ phase = "ready"
    /\ phase' = "down"
    /\ expert_tensors' = {}
    /\ stream' = {}
    /\ slabs' = {}
    /\ fd' = FALSE
    /\ UNCHANGED <<inputs, moe, enabled, dense_enabled, manifest, next, data, use_slab,
                   budget, expert_budget, window, seeds>>

Down == phase = "down" /\ UNCHANGED vars

Next ==
    \/ Initialize
    \/ RegisterExpertTensor
    \/ RegisterStreamTensor
    \/ FillResidentLayers
    \/ LoadImatrixPrior
    \/ Shutdown
    \/ Down

Spec == Init /\ [][Next]_vars

-----------------------------------------------------------------------------
(* Properties.                                                             *)

\* No tensor is paged by the expert cache and by the layer pager, which would
\* press the same memory with contradicting advice.
OneOwner == expert_tensors \cap stream = {}

\* Only tensors that the router really selects from are paged by expert: their
\* expert dimension is the expert count of the header, whatever else the header and
\* the names contain.
ExpertsAreRouted ==
    \A i \in expert_tensors :
        /\ <<"expert_count", T(i).trail>> \in ToSet(model.kv)
        /\ T(i).bytes % T(i).trail = 0

\* The resident window is the longest prefix of layers whose bytes fit the pager's
\* share, and never less than layer 0.
WindowIsLongestPrefix ==
    phase \in {"prior", "ready"} /\ dense_enabled /\ stream # {} =>
        window = IF budget = 0 THEN StreamLayers
                 ELSE Max({1} \cup {n \in 1 .. StreamLayers :
                                        PrefixBytes(n) <= budget - expert_budget})

\* The split of fill_resident_layers: the bytes of the resident window and the experts'
\* ceiling add up to no more than the one budget, unless layer 0 alone is larger than
\* the pager's share.  The report at the end of the same function says the contrary,
\* that the two budgets are independent and experts come on top; so does the skill
\* file of the repository.  The plan follows the comment at the split.
SharesWithinBudget ==
    budget > 0 /\ window > 1 => PrefixBytes(window) + expert_budget <= budget

\* Anonymous slabs, which the kernel cannot drop, never hold more than the budget,
\* or than the share of the machine's memory a budget would be derived from (a share
\* that rounds to 0 is taken for no budget at all).
SlabsFitMemory ==
    /\ budget > 0 => Bytes(slabs) <= budget
    /\ auto /\ budget = 0 /\ DerivedBudget > 0 => Bytes(slabs) <= DerivedBudget

\* Slabs and a streamed tail go together only beside paged experts: the slabs are
\* chosen against the whole budget, the window against the pager's share of it.
SlabTailBesideExperts ==
    phase = "ready" /\ slabs # {} /\ window < StreamLayers => expert_tensors # {}

\* Without a budget from the user no ceiling is put on the experts.
NoCeilingInvented == user_budget = 0 /\ expert_tensors # {} => budget = 0 /\ expert_budget = 0

\* An imatrix of another model seeds the pins only if the directory has none that
\* is named after this model (of a single file).
OwnPriorPreferred ==
    prior # NoPrior /\ Len(model.shards) = 1 /\ model.priors[prior].match = "other"
        => \A f \in DOMAIN model.priors : model.priors[f].match = "other"

\* The totals that order the first pins hold only what one whole file says of this
\* model: the slots are experts the tensor has, each with a count of that file, and
\* every expert of a tensor that the file counts in full has its count.
SeedsSound ==
    phase = "ready" =>
        /\ prior = NoPrior => seeded = {}
        /\ \A s \in seeded : s[1] \in expert_tensors /\ s[2] < T(s[1]).trail
        /\ prior # NoPrior =>
            \A i \in expert_tensors, e \in ToSet(model.priors[prior].entries) :
                e.tensor = i /\ Len(e.counts) = T(i).trail =>
                    \A n \in DOMAIN e.counts : <<i, n - 1>> \in seeded <=> e.counts[n] > 0

\* Once everything is loaded, ggml reads every tensor that has a slab from its slab.
SlabsAreRead == phase = "ready" => \A i \in slabs : data[i] = "slab"

\* With a budget, every block weight in host memory is owned by one of the two
\* pagers, so that the budget binds.
RemainderOwned ==
    phase = "ready" /\ dense_enabled /\ fd =>
        \A i \in Indices : T(i).kind = "weight" /\ T(i).host => i \in stream

=============================================================================
