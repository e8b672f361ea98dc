--------------------------- MODULE ModelLoadProofs ---------------------------
(* Who owns a tensor, where ggml reads it, when there is a ceiling, and    *)
(* what the load plans, for any model, machine and budget.                 *)
EXTENDS ModelLoad, NaturalExtrema

\* Where t->data points to after any sequence of hook calls: the slabs come too
\* late for every redirection.
NeverRedirected == \A i \in Indices : data[i] = "mmap"

BeforeFill == phase \in {"start", "experts", "stream", "fill"}

\* The owners are decided in the order of the phases: nothing is streamed while
\* experts are registered, and no slab or share exists before the registrations
\* have ended.
LoadInv ==
    /\ OneOwner
    /\ NoCeilingInvented
    /\ NeverRedirected
    /\ data \in [Indices -> {"mmap", "slab"}]
    /\ phase \in {"start", "experts"} => stream = {}
    /\ phase = "start" => expert_tensors = {}
    /\ expert_tensors # {} => enabled
    /\ BeforeFill => slabs = {} /\ budget = user_budget /\ expert_budget = 0

\* Nothing is owned before the load.
LEMMA LoadInit == Init => LoadInv
BY DEF Init, LoadInv, OneOwner, NoCeilingInvented, NeverRedirected, BeforeFill, Indices

\* Parsing the header decides nothing about owners.
LEMMA InitializeStep ==
    ASSUME LoadInv, Initialize
    PROVE  LoadInv'
BY DEF Initialize, LoadInv, OneOwner, NoCeilingInvented, NeverRedirected, BeforeFill,
       inputs, owners, plan, seeds, parsed, Indices

\* An expert tensor is registered while nothing is streamed yet.
LEMMA RegisterExpertStep ==
    ASSUME LoadInv, RegisterExpertTensor
    PROVE  LoadInv'
<1>1. /\ phase = "experts"
      /\ phase' \in {"experts", "stream", "fill"}
      /\ UNCHANGED <<model, user_budget, stream, data, enabled, slabs, budget, expert_budget>>
    BY DEF RegisterExpertTensor, Loop, inputs, parsed, plan
<1>2. expert_tensors' # {} => enabled
    <2>1. CASE Registers(next)
        BY <2>1 DEF Registers
    <2>2. CASE ~Registers(next)
        BY <2>2 DEF RegisterExpertTensor, LoadInv
    <2> QED BY <2>1, <2>2
<1>3. OneOwner' /\ NoCeilingInvented'
    BY <1>1 DEF LoadInv, OneOwner, NoCeilingInvented, BeforeFill
<1> QED BY <1>1, <1>2, <1>3 DEF LoadInv, NeverRedirected, BeforeFill, Indices

\* A streamed tensor is not an expert's, and there is no slab to redirect it to.
LEMMA RegisterStreamStep ==
    ASSUME LoadInv, RegisterStreamTensor
    PROVE  LoadInv'
<1>1. /\ phase = "stream"
      /\ phase' \in {"stream", "fill"}
      /\ UNCHANGED <<model, user_budget, expert_tensors, enabled, slabs, budget, expert_budget>>
    BY DEF RegisterStreamTensor, Loop, inputs, parsed, plan
<1>2. OneOwner'
    <2>1. CASE Streams(next)
        BY <1>1, <2>1 DEF Streams, RegisterStreamTensor, LoadInv, OneOwner
    <2>2. CASE ~Streams(next)
        BY <1>1, <2>2 DEF RegisterStreamTensor, LoadInv, OneOwner
    <2> QED BY <2>1, <2>2
<1>3. data' = [data EXCEPT ![next] = "mmap"]
    BY <1>1 DEF RegisterStreamTensor, GetStreamTensorData, LoadInv, BeforeFill
<1>4. NeverRedirected' /\ data' \in [Indices' -> {"mmap", "slab"}]
    BY <1>1, <1>3 DEF LoadInv, NeverRedirected, Indices
<1> QED BY <1>1, <1>2, <1>4 DEF LoadInv, NoCeilingInvented, BeforeFill

\* The budget is derived for a model without experts only.
LEMMA FillStep ==
    ASSUME LoadInv, FillResidentLayers
    PROVE  LoadInv'
<1>1. /\ phase = "fill"
      /\ phase' = "prior"
      /\ budget' = ResolveDenseBudgetAuto
      /\ expert_budget' = expert_budget \/ expert_budget' = ExpertShare(budget')
      /\ UNCHANGED <<model, user_budget, expert_tensors, stream, data, enabled>>
    BY DEF FillResidentLayers, inputs, parsed, owners
<1>2. NoCeilingInvented'
    <2>1. SUFFICES ASSUME user_budget = 0, expert_tensors # {}
                   PROVE  budget' = 0 /\ expert_budget' = 0
        BY <1>1 DEF NoCeilingInvented
    <2>2. budget = 0 /\ expert_budget = 0
        BY <1>1, <2>1 DEF LoadInv, BeforeFill
    <2>3. budget' = 0
        BY <1>1, <2>1, <2>2 DEF ResolveDenseBudgetAuto
    <2>4. ExpertShare(budget') = 0
        BY <2>3 DEF ExpertShare
    <2> QED BY <1>1, <2>2, <2>3, <2>4
<1> QED BY <1>1, <1>2 DEF LoadInv, OneOwner, NeverRedirected, BeforeFill, Indices

\* Every step keeps owners and phases in order.
LEMMA LoadStep ==
    ASSUME LoadInv, [Next]_vars
    PROVE  LoadInv'
<1>1. CASE Initialize
    BY <1>1, InitializeStep
<1>2. CASE RegisterExpertTensor
    BY <1>2, RegisterExpertStep
<1>3. CASE RegisterStreamTensor
    BY <1>3, RegisterStreamStep
<1>4. CASE FillResidentLayers
    BY <1>4, FillStep
<1>5. CASE LoadImatrixPrior
    BY <1>5 DEF LoadImatrixPrior, LoadInv, OneOwner, NoCeilingInvented, NeverRedirected,
                BeforeFill, inputs, parsed, owners, plan, Indices
<1>6. CASE Shutdown
    BY <1>6 DEF Shutdown, LoadInv, OneOwner, NoCeilingInvented, NeverRedirected,
                BeforeFill, inputs, Indices
<1>7. CASE UNCHANGED vars
    BY <1>7 DEF vars, LoadInv, OneOwner, NoCeilingInvented, NeverRedirected, BeforeFill,
                inputs, parsed, owners, plan, Indices
<1> QED BY <1>1, <1>2, <1>3, <1>4, <1>5, <1>6, <1>7 DEF Next, Down

\* The ordering of the load steps holds in every reachable state.
THEOREM LoadInvariance == Spec => []LoadInv
<1>1. LoadInv /\ [Next]_vars => LoadInv'
    BY LoadStep
<1> QED BY <1>1, LoadInit, PTL DEF Spec

\* No tensor is ever registered with the expert cache and with the layer pager,
\* for any model, budget and machine.
THEOREM AlwaysOneOwner == Spec => []OneOwner
<1>1. LoadInv => OneOwner
    BY DEF LoadInv
<1> QED BY <1>1, LoadInvariance, PTL

\* A derived budget never puts a ceiling on experts: without a budget of the user
\* there is none, for any model and machine.
THEOREM CeilingNeverInvented == Spec => []NoCeilingInvented
<1>1. LoadInv => NoCeilingInvented
    BY DEF LoadInv
<1> QED BY <1>1, LoadInvariance, PTL

\* get_stream_tensor_data never finds a slab, for any model: every tensor that has
\* a slab is still read from the file mapping.
THEOREM SlabsNeverRead == Spec => []NeverRedirected
<1>1. LoadInv => NeverRedirected
    BY DEF LoadInv
<1> QED BY <1>1, LoadInvariance, PTL

-----------------------------------------------------------------------------
(* The bytes of a set of tensors and the resident window.                  *)

\* Tensors have natural sizes and layers.
LEMMA TensorFacts ==
    ASSUME model \in Models
    PROVE  /\ Indices = 1 .. Len(model.tensors)
           /\ Len(model.tensors) \in Nat \ {0}
           /\ IsFiniteSet(Indices)
           /\ \A i \in Indices :
                /\ T(i) \in Tensors
                /\ T(i).bytes \in Nat \ {0}
                /\ T(i).trail \in Nat \ {0}
                /\ T(i).layer \in Nat
<1>1. model.tensors \in Seq(Tensors) \ {<< >>}
    BY LoadAssumption
<1>2. /\ Indices = 1 .. Len(model.tensors)
      /\ Len(model.tensors) \in Nat \ {0}
    BY <1>1 DEF Indices
<1>3. \A i \in Indices : T(i) \in Tensors
    BY <1>1 DEF Indices, T
<1>4. IsFiniteSet(Indices)
    BY <1>2, FS_Interval
<1> QED BY <1>2, <1>3, <1>4 DEF Tensors

\* A set of tensors has finitely many bytes.
LEMMA BytesType ==
    ASSUME model \in Models, NEW S \in SUBSET Indices
    PROVE  IsFiniteSet(Cells(S)) /\ Bytes(S) \in Nat
<1> DEFINE f == [i \in S |-> T(i).bytes]
<1>1. IsFiniteSet(S) /\ \A i \in S : T(i).bytes \in Nat
    BY TensorFacts, FS_Subset
<1>2. PICK n \in Nat : \A i \in S : f[i] <= n
    BY <1>1, FiniteBounded
<1>3. IsFiniteSet(1 .. n)
    BY FS_Interval
<1>4. IsFiniteSet(S \X (1 .. n))
    BY <1>1, <1>3, FS_Product
<1>5. Cells(S) \subseteq S \X (1 .. n)
    BY <1>1, <1>2 DEF Cells
<1>6. IsFiniteSet(Cells(S))
    BY <1>4, <1>5, FS_Subset
<1> QED BY <1>6, FS_CardinalityType DEF Bytes

\* More tensors, more bytes.
LEMMA BytesMonotonic ==
    ASSUME model \in Models, NEW S \in SUBSET Indices, NEW R \in SUBSET S
    PROVE  Bytes(R) <= Bytes(S)
<1>1. Cells(R) \subseteq Cells(S)
    BY DEF Cells
<1> QED BY <1>1, BytesType, FS_Subset DEF Bytes

\* Bytes of separate sets of tensors add up.
LEMMA BytesAdd ==
    ASSUME model \in Models, NEW R \in SUBSET Indices, NEW S \in SUBSET Indices,
           R \cap S = {}
    PROVE  Bytes(R \cup S) = Bytes(R) + Bytes(S)
<1>1. Cells(R \cup S) = Cells(R) \cup Cells(S)
    BY Zenon DEF Cells
<1>2. Cells(R) \cap Cells(S) = {}
    BY DEF Cells
<1>3. Cardinality(Cells(R) \cup Cells(S)) =
          Cardinality(Cells(R)) + Cardinality(Cells(S)) - Cardinality(Cells(R) \cap Cells(S))
    BY BytesType, FS_Union
<1>4. Cardinality({}) = 0
    BY FS_EmptySet
<1>5. Bytes(R) \in Nat /\ Bytes(S) \in Nat
    BY BytesType
<1>6. Cardinality(Cells(R \cup S)) = Cardinality(Cells(R)) + Cardinality(Cells(S)) - 0
    BY <1>1, <1>2, <1>3, <1>4
<1>7. Bytes(R \cup S) = Bytes(R) + Bytes(S) - 0
    BY <1>6 DEF Bytes
<1> QED BY <1>5, <1>7

\* The number of streamed layers is a natural number above every layer.
LEMMA StreamLayersBound ==
    ASSUME model \in Models, stream \in SUBSET Indices, stream # {}
    PROVE  /\ StreamLayers \in Nat \ {0}
           /\ \A i \in stream : T(i).layer < StreamLayers
<1> DEFINE f == [i \in stream |-> T(i).layer]
           L == {T(i).layer : i \in stream}
<1>1. IsFiniteSet(stream) /\ \A i \in stream : T(i).layer \in Nat
    BY TensorFacts, FS_Subset
<1>2. PICK n \in Nat : \A i \in stream : f[i] <= n
    BY <1>1, FiniteBounded
<1>3. L \in SUBSET Nat /\ L # {} /\ \A y \in L : y <= n
    BY <1>1, <1>2
<1>4. Max(L) \in L /\ \A y \in L : Max(L) >= y
    BY <1>3, GreatestNatural
<1>5. Max(L) \in Nat /\ \A i \in stream : T(i).layer <= Max(L)
    BY <1>1, <1>3, <1>4
<1>6. StreamLayers = Max(L) + 1
    BY DEF StreamLayers
<1> HIDE DEF L
<1> QED BY <1>1, <1>5, <1>6

\* The walk's counter: what is used after a layer is what the prefix up to it holds.
LEMMA PrefixGrows ==
    ASSUME model \in Models, stream \in SUBSET Indices, NEW n \in Nat
    PROVE  /\ PrefixBytes(n) \in Nat
           /\ LayerBytes(n) \in Nat
           /\ PrefixBytes(n + 1) = PrefixBytes(n) + LayerBytes(n)
<1> DEFINE P == {i \in stream : T(i).layer < n}
           L == {i \in stream : T(i).layer = n}
           Q == {i \in stream : T(i).layer < n + 1}
<1>1. P \in SUBSET Indices /\ L \in SUBSET Indices
    OBVIOUS
<1>2. Q = P \cup L /\ P \cap L = {}
    BY TensorFacts
<1>3. PrefixBytes(n) = Bytes(P) /\ LayerBytes(n) = Bytes(L) /\ PrefixBytes(n + 1) = Bytes(Q)
    BY DEF PrefixBytes, LayerBytes
<1> HIDE DEF P, L, Q
<1> QED BY <1>1, <1>2, <1>3, BytesType, BytesAdd

\* A longer prefix has no fewer bytes.
LEMMA PrefixMonotonic ==
    ASSUME model \in Models, stream \in SUBSET Indices, NEW m \in Nat, NEW n \in Nat, m <= n
    PROVE  PrefixBytes(m) <= PrefixBytes(n) /\ PrefixBytes(n) <= Bytes(stream)
<1> DEFINE P(k) == {i \in stream : T(i).layer < k}
<1>1. P(m) \in SUBSET P(n) /\ P(n) \in SUBSET stream /\ P(n) \in SUBSET Indices
    BY TensorFacts
<1>2. PrefixBytes(m) = Bytes(P(m)) /\ PrefixBytes(n) = Bytes(P(n))
    BY DEF PrefixBytes
<1> HIDE DEF P
<1> QED BY <1>1, <1>2, BytesMonotonic

\* Where the walk ends: the layers before it fit, unless it is layer 0 alone, and
\* with one more they do not.
LEMMA WindowFacts ==
    ASSUME model \in Models, stream \in SUBSET Indices, stream # {}, NEW share \in Nat
    PROVE  LET w == ResidentWindow(share)
           IN  /\ w \in 1 .. StreamLayers
               /\ share = 0 => w = StreamLayers
               /\ share > 0 /\ w > 1 => PrefixBytes(w) <= share
               /\ share > 0 /\ w < StreamLayers => PrefixBytes(w + 1) > share
<1> DEFINE w == ResidentWindow(share)
           S == Stops(share) \cup {StreamLayers}
<1>1. StreamLayers \in Nat \ {0}
    BY StreamLayersBound
<1>2. Stops(share) \subseteq 1 .. (StreamLayers - 1)
    BY DEF Stops
<1>3. S \in SUBSET Nat /\ S # {}
    BY <1>1, <1>2
<1>4. w \in S /\ \A y \in S : w <= y
    BY <1>3, LeastNatural DEF ResidentWindow
<1>5. w \in 1 .. StreamLayers
    BY <1>1, <1>2, <1>4
<1>6. share = 0 => w = StreamLayers
    BY <1>4 DEF Stops
<1>7. ASSUME share > 0, w > 1
      PROVE  PrefixBytes(w) <= share
    <2>1. w - 1 \in 1 .. (StreamLayers - 1) /\ w - 1 \notin Stops(share)
        BY <1>1, <1>4, <1>5, <1>7
    <2>2. w - 1 \in Nat /\ (w - 1) + 1 = w
        BY <1>5, <1>1
    <2>3. ~(PrefixBytes(w - 1) + LayerBytes(w - 1) > share)
        BY <1>7, <2>1 DEF Stops
    <2>4. PrefixBytes((w - 1) + 1) = PrefixBytes(w - 1) + LayerBytes(w - 1)
        BY <2>2, PrefixGrows
    <2>5. PrefixBytes(w - 1) \in Nat /\ LayerBytes(w - 1) \in Nat
        BY <2>2, PrefixGrows
    <2>6. PrefixBytes(w) = PrefixBytes(w - 1) + LayerBytes(w - 1)
        BY <2>2, <2>4
    <2> QED BY <2>3, <2>5, <2>6
<1>8. ASSUME share > 0, w < StreamLayers
      PROVE  PrefixBytes(w + 1) > share
    <2>1. w \in Stops(share)
        BY <1>1, <1>4, <1>8
    <2>2. w \in Nat /\ PrefixBytes(w) + LayerBytes(w) > share
        BY <1>1, <1>5, <2>1 DEF Stops
    <2>3. PrefixBytes(w + 1) = PrefixBytes(w) + LayerBytes(w)
        BY <2>2, PrefixGrows
    <2> QED BY <2>2, <2>3
<1> QED BY <1>5, <1>6, <1>7, <1>8

\* The walk finds the longest prefix that fits.
LEMMA WindowIsMaximum ==
    ASSUME model \in Models, stream \in SUBSET Indices, stream # {}, NEW share \in Nat,
           share > 0
    PROVE  ResidentWindow(share) =
               Max({1} \cup {n \in 1 .. StreamLayers : PrefixBytes(n) <= share})
<1> DEFINE w == ResidentWindow(share)
           F == {1} \cup {n \in 1 .. StreamLayers : PrefixBytes(n) <= share}
<1>1. StreamLayers \in Nat \ {0}
    BY StreamLayersBound
<1>2. /\ w \in 1 .. StreamLayers
      /\ w > 1 => PrefixBytes(w) <= share
      /\ w < StreamLayers => PrefixBytes(w + 1) > share
    BY WindowFacts
<1>3. w \in F
    BY <1>1, <1>2
<1>4. ASSUME NEW n \in F
      PROVE  n <= w
    <2>1. SUFFICES ASSUME n > w PROVE FALSE
        BY <1>1, <1>2
    <2>2. n \in 1 .. StreamLayers /\ PrefixBytes(n) <= share
        BY <1>1, <1>2, <2>1
    <2>3. w \in Nat /\ n \in Nat /\ w + 1 \in Nat /\ w + 1 <= n /\ w < StreamLayers
        BY <1>1, <1>2, <2>1, <2>2
    <2>4. PrefixBytes(w + 1) <= PrefixBytes(n) /\ PrefixBytes(w + 1) > share
        BY <1>2, <2>3, PrefixMonotonic
    <2>5. PrefixBytes(w + 1) \in Nat /\ PrefixBytes(n) \in Nat
        BY <2>3, PrefixGrows
    <2> QED BY <2>2, <2>4, <2>5
<1>5. F \in SUBSET Nat /\ F # {} /\ w \in Nat
    BY <1>1, <1>2
<1>6. Max(F) \in F /\ \A y \in F : Max(F) >= y
    <2>1. \A y \in F : y <= w
        BY <1>4
    <2> HIDE DEF F, w
    <2> QED BY <1>5, <2>1, GreatestNatural
<1>7. Max(F) \in Nat /\ Max(F) <= w /\ Max(F) >= w
    BY <1>3, <1>4, <1>5, <1>6
<1>8. w = Max(F)
    <2> HIDE DEF F, w
    <2> QED BY <1>5, <1>7
<1> QED BY <1>8

-----------------------------------------------------------------------------
(* What the load plans.                                                    *)

\* Definitions that depend on the model only.
LEMMA SameModel ==
    ASSUME model' = model
    PROVE  /\ Indices' = Indices
           /\ \A i : T(i)' = T(i)
           /\ \A S : Bytes(S)' = Bytes(S)
BY DEF Indices, T, Bytes, Cells

\* Definitions that depend on the streamed tensors only.
LEMMA SameStream ==
    ASSUME model' = model, stream' = stream
    PROVE  /\ StreamLayers' = StreamLayers
           /\ \A n : PrefixBytes(n)' = PrefixBytes(n)
BY DEF StreamLayers, PrefixBytes, Bytes, Cells, T

InputsOK ==
    /\ model \in Models
    /\ machine \in Machines
    /\ user_budget \in Budgets
    /\ auto \in BOOLEAN

AfterFill == phase \in {"prior", "ready"}

\* The manifest names what the header and the pager ask for, and an expert count above
\* 1 comes from a key of the header.
ParsedOK ==
    /\ phase = "start" => manifest = {} /\ ~dense_enabled /\ moe.experts = 0
    /\ moe.experts > 1 => <<"expert_count", moe.experts>> \in ToSet(model.kv)
    /\ \A i \in manifest : InManifest(i, moe, dense_enabled)
    /\ manifest # {} /\ enabled => moe.experts > 1
    /\ dense_enabled => WantsPager(moe)

\* Every owner has asked what llama.cpp and the loader ask.
OwnedOK ==
    /\ \A i \in expert_tensors : T(i).trail > 1 /\ T(i).bytes % T(i).trail = 0
    /\ stream # {} => dense_enabled

PlanOK ==
    /\ BeforeFill => window = 0
    /\ WindowIsLongestPrefix
    /\ SharesWithinBudget
    /\ SlabsFitMemory
    /\ AfterFill /\ slabs # {} /\ window < StreamLayers => expert_tensors # {}

SeedsOK ==
    /\ phase \in {"ready", "down"} \/ (prior = NoPrior /\ seeded = {})
    /\ prior # NoPrior => prior \in Candidates
    /\ SeedsSound

PlanInv == InputsOK /\ TypeOK /\ ParsedOK /\ OwnedOK /\ PlanOK /\ SeedsOK

\* No tensors, no bytes.
LEMMA NoBytes ==
    /\ Bytes({}) = 0
    /\ \A n : stream = {} => PrefixBytes(n) = 0
<1>1. Cells({}) = {}
    BY DEF Cells
<1>2. Bytes({}) = 0
    BY <1>1, FS_EmptySet DEF Bytes
<1> QED BY <1>2 DEF PrefixBytes

\* Memory and budgets are natural numbers.
LEMMA MachineFacts ==
    ASSUME InputsOK
    PROVE  /\ user_budget \in Nat
           /\ AvailableRam \in Nat
           /\ DerivedBudget \in Nat
<1>1. machine \in [available : Nat, v2 : Nat \cup {-1}, v1 : Nat] /\ user_budget \in Nat
    BY LoadAssumption DEF InputsOK
<1>2. AvailableRam \in Nat
    BY <1>1 DEF AvailableRam, CgroupMemoryLimit
<1>3. RamPercent \in Nat
    BY LoadAssumption
<1>4. AvailableRam * RamPercent \in Nat
    BY <1>2, <1>3
<1>5. DerivedBudget \in Nat
    BY <1>4 DEF DerivedBudget
<1> QED BY <1>1, <1>2, <1>5

\* Nothing is planned before the load.
LEMMA PlanInit == Init => PlanInv
<1> SUFFICES ASSUME Init PROVE PlanInv
    OBVIOUS
<1>1. InputsOK
    BY DEF Init, InputsOK
<1>2. user_budget \in Nat /\ DerivedBudget \in Nat
    BY <1>1, MachineFacts
<1>3. 1 \in Indices
    BY <1>1, TensorFacts DEF InputsOK
<1>4. TypeOK
    <2>1. /\ phase \in {"start", "experts", "stream", "fill", "prior", "ready", "down"}
          /\ fd \in BOOLEAN /\ enabled \in BOOLEAN /\ dense_enabled \in BOOLEAN
          /\ use_slab \in BOOLEAN
        BY DEF Init
    <2>2. /\ budget \in Nat /\ expert_budget \in 0 .. budget /\ window \in Nat
          /\ moe \in [experts : Nat, used : Nat, layers : Nat]
        BY <1>2 DEF Init
    <2>3. data \in [Indices -> {"mmap", "slab"}]
        BY DEF Init
    <2> QED BY <1>3, <2>1, <2>2, <2>3 DEF Init, TypeOK
<1>5. ParsedOK /\ OwnedOK
    BY DEF Init, ParsedOK, OwnedOK
<1>6. PlanOK
    BY <1>2, NoBytes DEF Init, PlanOK, BeforeFill, AfterFill, WindowIsLongestPrefix,
                         SharesWithinBudget, SlabsFitMemory
<1>7. SeedsOK
    BY DEF Init, SeedsOK, SeedsSound
<1> QED BY <1>1, <1>4, <1>5, <1>6, <1>7 DEF PlanInv

\* The value a kind of key leaves is a number, and one the header has if it is not 0.
LEMMA LastKeyFacts ==
    ASSUME model \in Models, NEW names
    PROVE  /\ LastKey(names) \in Nat
           /\ LastKey(names) # 0 =>
                \E n \in names : <<n, LastKey(names)>> \in ToSet(model.kv)
<1> DEFINE at == {i \in DOMAIN model.kv : model.kv[i][1] \in names}
           Pairs == {"expert_count", "expert_used_count", "block_count",
                     "leading_dense_block_count"} \X Nat
<1>1. CASE at = {}
    BY <1>1 DEF LastKey
<1>2. CASE at # {}
    <2>1. model.kv \in Seq(Pairs)
        BY LoadAssumption
    <2>2. Len(model.kv) \in Nat /\ DOMAIN model.kv = 1 .. Len(model.kv)
        BY <2>1
    <2>3. at \in SUBSET Nat /\ \A y \in at : y <= Len(model.kv)
        BY <2>2
    <2>4. Max(at) \in at
        <3> HIDE DEF at
        <3> QED BY <1>2, <2>2, <2>3, GreatestNatural
    <2>5. PICK k \in DOMAIN model.kv : k = Max(at) /\ model.kv[k][1] \in names
        BY <2>4
    <2>6. LastKey(names) = model.kv[k][2]
        BY <1>2, <2>5 DEF LastKey
    <2>7. model.kv[k] \in Pairs
        <3> HIDE DEF Pairs
        <3>1. \A s \in Seq(Pairs) : \A j \in 1 .. Len(s) : s[j] \in Pairs
            OBVIOUS
        <3> QED BY <2>1, <2>2, <2>5, <3>1
    <2>8. model.kv[k] = <<model.kv[k][1], model.kv[k][2]>> /\ model.kv[k][2] \in Nat
        BY <2>7
    <2>9. model.kv[k] \in ToSet(model.kv)
        BY <2>5 DEF ToSet
    <2> QED BY <2>5, <2>6, <2>8, <2>9
<1> QED BY <1>1, <1>2

\* The parsers fill config and manifest and plan nothing.
LEMMA InitializePlan ==
    ASSUME PlanInv, LoadInv, Initialize
    PROVE  PlanInv'
<1>1. /\ phase = "start"
      /\ phase' = "experts"
      /\ UNCHANGED <<model, machine, user_budget, auto, next, expert_tensors, stream, data,
                     slabs, use_slab, budget, expert_budget, window, prior, seeded>>
    BY DEF Initialize, inputs, owners, plan, seeds
<1>2. expert_tensors = {} /\ stream = {} /\ slabs = {} /\ prior = NoPrior /\ seeded = {}
    BY <1>1 DEF LoadInv, BeforeFill, PlanInv, SeedsOK
<1>3. InputsOK'
    BY <1>1 DEF PlanInv, InputsOK
<1>4. /\ moe' \in [experts : Nat, used : Nat, layers : Nat]
      /\ fd' \in BOOLEAN /\ enabled' \in BOOLEAN /\ dense_enabled' \in BOOLEAN
      /\ manifest' \subseteq Indices
      /\ moe'.experts > 1 => <<"expert_count", moe'.experts>> \in ToSet(model.kv)
      /\ dense_enabled' => WantsPager(moe')
      /\ manifest' # {} /\ enabled' => moe'.experts > 1
      /\ \A i \in manifest' : InManifest(i, moe', dense_enabled')
    <2>1. CASE UNCHANGED parsed
        BY <1>1, <2>1 DEF parsed, PlanInv, TypeOK, ParsedOK
    <2>2. CASE /\ fd' = TRUE
               /\ moe' = ParseGgufMetadata
               /\ dense_enabled' = WantsPager(moe')
               /\ enabled' = (moe'.experts > 1)
               /\ manifest' = IF enabled' \/ dense_enabled'
                              THEN {i \in Indices : InManifest(i, moe', dense_enabled')}
                              ELSE {}
        <3>1. \A names : LastKey(names) \in Nat
            BY LastKeyFacts DEF PlanInv, InputsOK
        <3>2. moe' \in [experts : Nat, used : Nat, layers : Nat]
            BY <2>2, <3>1 DEF ParseGgufMetadata, DefaultUsed
        <3>3. moe'.experts = LastKey({"expert_count"})
            BY <2>2 DEF ParseGgufMetadata
        <3>4. moe'.experts > 1 => <<"expert_count", moe'.experts>> \in ToSet(model.kv)
            <4>1. SUFFICES ASSUME moe'.experts > 1
                           PROVE  <<"expert_count", moe'.experts>> \in ToSet(model.kv)
                OBVIOUS
            <4>2. LastKey({"expert_count"}) # 0
                BY <3>1, <3>3, <4>1
            <4>3. PICK n \in {"expert_count"} :
                      <<n, LastKey({"expert_count"})>> \in ToSet(model.kv)
                BY <4>2, LastKeyFacts DEF PlanInv, InputsOK
            <4> QED BY <3>3, <4>3
        <3>5. /\ fd' \in BOOLEAN /\ enabled' \in BOOLEAN /\ dense_enabled' \in BOOLEAN
              /\ manifest' \subseteq Indices
            BY <2>2 DEF WantsPager
        <3>6. /\ dense_enabled' => WantsPager(moe')
              /\ enabled' => moe'.experts > 1
              /\ \A i \in manifest' : InManifest(i, moe', dense_enabled')
            BY <2>2
        <3> QED BY <3>2, <3>4, <3>5, <3>6
    <2> QED BY <2>1, <2>2 DEF Initialize
<1>5. TypeOK'
    BY <1>1, <1>2, <1>4, SameModel DEF PlanInv, TypeOK
<1>6. ParsedOK'
    BY <1>1, <1>4 DEF ParsedOK, InManifest, BuildShardPaths, ShardReadable, WantsPager, T
<1>7. OwnedOK'
    BY <1>1, <1>2 DEF OwnedOK
<1>8. PlanOK'
    BY <1>1, <1>2, SameModel, SameStream
       DEF PlanInv, PlanOK, BeforeFill, AfterFill, WindowIsLongestPrefix,
           SharesWithinBudget, SlabsFitMemory, DerivedBudget, AvailableRam,
           CgroupMemoryLimit
<1>9. SeedsOK'
    BY <1>1, <1>2 DEF SeedsOK, SeedsSound, NoPrior
<1> QED BY <1>3, <1>5, <1>6, <1>7, <1>8, <1>9 DEF PlanInv

\* Before fill_resident_layers there is nothing to plan for.
LEMMA NothingPlanned ==
    ASSUME BeforeFill', InputsOK', slabs' = {}, window' = 0, budget' \in Nat
    PROVE  PlanOK'
<1>1. Bytes({})' = 0
    BY FS_EmptySet DEF Bytes, Cells
<1>2. DerivedBudget' \in Nat
    <2>1. /\ machine' \in [available : Nat, v2 : Nat \cup {-1}, v1 : Nat]
          /\ RamPercent \in Nat
        BY LoadAssumption DEF InputsOK
    <2>2. AvailableRam' \in Nat
        BY <2>1 DEF AvailableRam, CgroupMemoryLimit
    <2>3. \A a, b \in Nat : (a * b) \div 100 \in Nat
        OBVIOUS
    <2> QED BY <2>1, <2>2, <2>3 DEF DerivedBudget
<1>3. SlabsFitMemory'
    BY <1>1, <1>2 DEF SlabsFitMemory
<1> QED BY <1>3 DEF PlanOK, BeforeFill, AfterFill, WindowIsLongestPrefix, SharesWithinBudget

\* A registration loop is at a tensor of the model.
LEMMA LoopFacts ==
    ASSUME PlanInv, NEW last, Loop(last), model' = model
    PROVE  /\ next' \in Indices
           /\ phase' = phase \/ phase' = last
<1>1. next \in Indices /\ Indices = 1 .. Len(model.tensors) /\ Len(model.tensors) \in Nat \ {0}
    BY TensorFacts DEF PlanInv, InputsOK, TypeOK
<1> QED BY <1>1 DEF Loop

\* Registering an expert tensor plans nothing.
LEMMA RegisterExpertPlan ==
    ASSUME PlanInv, LoadInv, RegisterExpertTensor
    PROVE  PlanInv'
<1>1. /\ phase = "experts"
      /\ Loop(IF dense_enabled THEN "stream" ELSE "fill")
      /\ UNCHANGED <<model, machine, user_budget, auto, fd, moe, enabled, dense_enabled,
                     manifest, stream, data, slabs, use_slab, budget, expert_budget, window,
                     prior, seeded>>
    BY DEF RegisterExpertTensor, inputs, parsed, plan, seeds
<1>2. next' \in Indices /\ phase' \in {"experts", "stream", "fill"}
    BY <1>1, LoopFacts
<1>3. \A i \in expert_tensors' :
          i \in expert_tensors \/ (i \in manifest /\ T(i).trail > 1 /\ T(i).bytes % T(i).trail = 0)
    BY DEF RegisterExpertTensor, Registers, LookupExpert
<1>4. InputsOK'
    BY <1>1 DEF PlanInv, InputsOK
<1>5. TypeOK'
    BY <1>1, <1>2, <1>3, SameModel DEF PlanInv, TypeOK
<1>6. ParsedOK'
    BY <1>1, <1>2 DEF PlanInv, ParsedOK, InManifest, BuildShardPaths, ShardReadable,
                      WantsPager, T
<1>7. OwnedOK'
    BY <1>1, <1>3, SameModel DEF PlanInv, OwnedOK
<1>8. PlanOK'
    BY <1>1, <1>2, <1>4, NothingPlanned DEF PlanInv, PlanOK, TypeOK, LoadInv, BeforeFill
<1>9. SeedsOK'
    BY <1>1, <1>2 DEF PlanInv, SeedsOK, SeedsSound, NoPrior
<1> QED BY <1>4, <1>5, <1>6, <1>7, <1>8, <1>9 DEF PlanInv

\* Registering a streamed tensor plans nothing.
LEMMA RegisterStreamPlan ==
    ASSUME PlanInv, LoadInv, RegisterStreamTensor
    PROVE  PlanInv'
<1>1. /\ phase = "stream"
      /\ Loop("fill")
      /\ data' = [data EXCEPT ![next] = GetStreamTensorData(next)]
      /\ UNCHANGED <<model, machine, user_budget, auto, fd, moe, enabled, dense_enabled,
                     manifest, expert_tensors, slabs, use_slab, budget, expert_budget, window,
                     prior, seeded>>
    BY DEF RegisterStreamTensor, inputs, parsed, plan, seeds
<1>2. next' \in Indices /\ phase' \in {"stream", "fill"}
    BY <1>1, LoopFacts
<1>3. /\ stream' \subseteq manifest
      /\ stream \subseteq stream'
      /\ stream' # {} => dense_enabled
    BY DEF RegisterStreamTensor, Streams, LookupExpert, PlanInv, TypeOK, OwnedOK
<1>4. InputsOK'
    BY <1>1 DEF PlanInv, InputsOK
<1>5. TypeOK'
    BY <1>1, <1>2, <1>3, SameModel DEF PlanInv, TypeOK, GetStreamTensorData
<1>6. ParsedOK'
    BY <1>1, <1>2 DEF PlanInv, ParsedOK, InManifest, BuildShardPaths, ShardReadable,
                      WantsPager, T
<1>7. OwnedOK'
    BY <1>1, <1>3, SameModel DEF PlanInv, OwnedOK
<1>8. PlanOK'
    BY <1>1, <1>2, <1>4, NothingPlanned DEF PlanInv, PlanOK, TypeOK, LoadInv, BeforeFill
<1>9. SeedsOK'
    BY <1>1, <1>2 DEF PlanInv, SeedsOK, SeedsSound, NoPrior
<1> QED BY <1>4, <1>5, <1>6, <1>7, <1>8, <1>9 DEF PlanInv

\* What fill_resident_layers decides when there is something to stream.
LEMMA FillDecides ==
    ASSUME PlanInv, LoadInv, FillResidentLayers, dense_enabled, stream # {}
    PROVE  /\ budget' \in Nat /\ expert_budget' \in 0 .. budget'
           /\ budget' > 0 => expert_budget' < budget'
           /\ expert_tensors = {} => expert_budget' = 0
           /\ use_slab' = KeepsSlabs(budget')
           /\ slabs' \subseteq stream
           /\ slabs' # {} => KeepsSlabs(budget')
           /\ window' = ResidentWindow(budget' - expert_budget')
           /\ budget' - expert_budget' \in Nat
           /\ budget' = 0 => budget' - expert_budget' = 0
           /\ budget' > 0 => budget' - expert_budget' > 0
<1>1. /\ phase = "fill"
      /\ budget' = ResolveDenseBudgetAuto
      /\ use_slab' = KeepsSlabs(budget')
      /\ AllocateStreamSlabs
      /\ expert_budget' = ExpertShare(budget')
      /\ window' = ResidentWindow(budget' - expert_budget')
    BY DEF FillResidentLayers
<1>2. budget' \in Nat
    BY <1>1, MachineFacts DEF ResolveDenseBudgetAuto, PlanInv, TypeOK
<1>3. expert_budget' \in 0 .. budget' /\ (budget' > 0 => expert_budget' < budget')
    BY <1>1, <1>2 DEF ExpertShare
<1>4. expert_tensors = {} => expert_budget' = 0
    BY <1>1 DEF ExpertShare
<1>5. slabs = {}
    BY <1>1 DEF LoadInv, BeforeFill
<1>6. slabs' \subseteq stream /\ (slabs' # {} => KeepsSlabs(budget'))
    BY <1>1, <1>5 DEF AllocateStreamSlabs
<1>7. /\ budget' - expert_budget' \in Nat
      /\ budget' = 0 => budget' - expert_budget' = 0
      /\ budget' > 0 => budget' - expert_budget' > 0
    <2>1. \A b \in Nat : \A e \in 0 .. b :
              b - e \in Nat /\ (b = 0 => b - e = 0) /\ (b > e => b - e > 0)
        OBVIOUS
    <2> QED BY <1>2, <1>3, <2>1
<1> QED BY <1>1, <1>2, <1>3, <1>4, <1>6, <1>7

\* The walk of fill_resident_layers ends at the longest prefix.
LEMMA FillWindow ==
    ASSUME PlanInv, LoadInv, FillResidentLayers, dense_enabled, stream # {}
    PROVE  WindowIsLongestPrefix' /\ SharesWithinBudget'
<1> DEFINE share == budget' - expert_budget'
<1>1. model \in Models /\ stream \in SUBSET Indices
    BY DEF PlanInv, InputsOK, TypeOK
<1>2. UNCHANGED <<model, stream, dense_enabled>>
    BY DEF FillResidentLayers, inputs, owners, parsed
<1>3. /\ budget' \in Nat /\ expert_budget' \in 0 .. budget'
      /\ budget' > 0 => expert_budget' < budget'
      /\ window' = ResidentWindow(share)
      /\ share \in Nat
      /\ budget' = 0 => share = 0
    BY FillDecides
<1>4. budget' > 0 => share > 0
    BY FillDecides
<1> HIDE DEF share
<1>5. budget' = 0 => window' = StreamLayers
    BY <1>1, <1>3, WindowFacts
<1>6. budget' > 0 =>
          window' = Max({1} \cup {n \in 1 .. StreamLayers : PrefixBytes(n) <= share})
    BY <1>1, <1>3, <1>4, WindowIsMaximum
<1>7. WindowIsLongestPrefix'
    <2>1. StreamLayers' = StreamLayers /\ \A n : PrefixBytes(n)' = PrefixBytes(n)
        BY <1>2, SameStream
    <2>2. {n \in 1 .. StreamLayers : PrefixBytes(n) <= share}
              = {n \in 1 .. StreamLayers' : PrefixBytes(n)' <= budget' - expert_budget'}
        BY <2>1 DEF share
    <2> QED BY <1>3, <1>5, <1>6, <2>1, <2>2 DEF WindowIsLongestPrefix
<1>8. SharesWithinBudget'
    <2>1. SUFFICES ASSUME budget' > 0, window' > 1
                   PROVE  PrefixBytes(window') + expert_budget' <= budget'
        BY <1>2, SameStream DEF SharesWithinBudget
    <2>2. PrefixBytes(window') <= share
        BY <1>1, <1>3, <1>4, <2>1, WindowFacts
    <2>3. window' \in Nat
        BY <1>1, <1>3, WindowFacts, StreamLayersBound
    <2>4. PrefixBytes(window') \in Nat
        BY <1>1, <2>3, PrefixGrows
    <2> QED BY <1>3, <2>2, <2>4 DEF share
<1> QED BY <1>7, <1>8

\* Slabs are kept for a model that fits the budget, or whose budget was not derived
\* because it fits the share of the memory.
LEMMA FillSlabs ==
    ASSUME PlanInv, LoadInv, FillResidentLayers, dense_enabled, stream # {}
    PROVE  /\ SlabsFitMemory'
           /\ slabs' # {} /\ window' < StreamLayers => expert_tensors # {}
<1>1. model \in Models /\ stream \in SUBSET Indices
    BY DEF PlanInv, InputsOK, TypeOK
<1>2. /\ UNCHANGED <<model, machine, user_budget, auto, stream>>
      /\ budget' = ResolveDenseBudgetAuto
      /\ phase = "fill"
    BY DEF FillResidentLayers, inputs, owners
<1>3. /\ budget' \in Nat
      /\ expert_tensors = {} => expert_budget' = 0
      /\ slabs' \subseteq stream
      /\ slabs' # {} => KeepsSlabs(budget')
      /\ window' = ResidentWindow(budget' - expert_budget')
      /\ budget' - expert_budget' \in Nat
    BY FillDecides
<1>4. DerivedBudget \in Nat /\ AvailableRam \in Nat /\ user_budget \in Nat
    BY MachineFacts DEF PlanInv
<1>5. DerivedBudget' = DerivedBudget
    BY <1>2 DEF DerivedBudget, AvailableRam, CgroupMemoryLimit
<1>6. Bytes(slabs') <= Bytes(stream) /\ Bytes(slabs') \in Nat /\ Bytes(stream) \in Nat
    BY <1>1, <1>3, BytesMonotonic, BytesType
<1>7. Bytes({}) = 0
    BY NoBytes
<1>8. slabs' # {} => budget' = 0 \/ Bytes(stream) <= budget'
    BY <1>3, <1>6 DEF KeepsSlabs
<1>9. budget' > 0 => Bytes(slabs') <= budget'
    BY <1>3, <1>6, <1>7, <1>8
<1>10. auto /\ budget' = 0 /\ DerivedBudget > 0 => Bytes(slabs') <= DerivedBudget
    <2>1. SUFFICES ASSUME auto, budget' = 0, DerivedBudget > 0
                   PROVE  Bytes(stream) <= DerivedBudget
        BY <1>4, <1>6
    <2>2. AvailableRam # 0
        BY <1>4, <2>1, LoadAssumption DEF DerivedBudget
    <2>3. budget = user_budget
        BY <1>2 DEF LoadInv, BeforeFill
    <2>4. budget = 0
        BY <1>2, <2>1 DEF ResolveDenseBudgetAuto
    <2>5. ~(moe.experts > 1)
        BY <2>3, <2>4 DEF PlanInv, ParsedOK, WantsPager, TypeOK
    <2>6. expert_tensors = {}
        BY <2>5 DEF PlanInv, ParsedOK, TypeOK, LoadInv
    <2>7. ~(Bytes(stream) > DerivedBudget)
        BY <1>2, <2>1, <2>2, <2>4, <2>6 DEF ResolveDenseBudgetAuto
    <2> QED BY <1>4, <1>6, <2>7
<1>11. SlabsFitMemory'
    BY <1>2, <1>5, <1>9, <1>10, SameModel DEF SlabsFitMemory
<1>12. ASSUME slabs' # {}, window' < StreamLayers, expert_tensors = {}
       PROVE  FALSE
    <2>1. budget' - expert_budget' = budget'
        <3>1. budget' \in Nat /\ expert_budget' = 0
            BY <1>3, <1>12
        <3>2. \A b \in Nat : b - 0 = b
            OBVIOUS
        <3> QED BY <3>1, <3>2
    <2>2. /\ StreamLayers \in Nat
          /\ window' \in 1 .. StreamLayers
          /\ budget' = 0 => window' = StreamLayers
          /\ budget' > 0 => PrefixBytes(window' + 1) > budget'
        BY <1>1, <1>3, <1>12, <2>1, WindowFacts, StreamLayersBound
    <2>3. window' \in Nat /\ window' + 1 \in Nat /\ window' <= window' + 1
        <3>1. window' \in 1 .. StreamLayers /\ StreamLayers \in Nat
            BY <2>2
        <3>2. \A n \in Nat : \A w \in 1 .. n : w \in Nat /\ w + 1 \in Nat /\ w <= w + 1
            OBVIOUS
        <3> QED BY <3>1, <3>2
    <2>4. PrefixBytes(window' + 1) <= Bytes(stream) /\ PrefixBytes(window' + 1) \in Nat
        <3>1. PrefixBytes(window' + 1) <= Bytes(stream)
            BY <1>1, <2>3, PrefixMonotonic
        <3>2. PrefixBytes(window' + 1) \in Nat
            BY <1>1, <2>3, PrefixGrows
        <3> QED BY <3>1, <3>2
    <2>5. budget' > 0
        BY <1>3, <1>12, <2>2
    <2> QED BY <1>3, <1>6, <1>8, <1>12, <2>2, <2>4, <2>5
<1> QED BY <1>11, <1>12

\* fill_resident_layers leaves a plan that fits.
LEMMA FillPlan ==
    ASSUME PlanInv, LoadInv, FillResidentLayers
    PROVE  PlanInv'
<1>1. /\ phase = "fill"
      /\ phase' = "prior"
      /\ budget' = ResolveDenseBudgetAuto
      /\ UNCHANGED <<model, machine, user_budget, auto, fd, moe, enabled, dense_enabled,
                     manifest, next, expert_tensors, stream, data, prior, seeded>>
    BY DEF FillResidentLayers, inputs, parsed, owners, seeds
<1>2. budget' \in Nat
    BY <1>1, MachineFacts DEF ResolveDenseBudgetAuto, PlanInv, TypeOK
<1>3. slabs = {} /\ expert_budget = 0 /\ window = 0
    BY <1>1 DEF LoadInv, PlanInv, PlanOK, BeforeFill
<1>4. /\ slabs' \subseteq stream /\ use_slab' \in BOOLEAN
      /\ expert_budget' \in 0 .. budget' /\ window' \in Nat
      /\ PlanOK'
    <2>1. CASE dense_enabled /\ stream # {}
        <3>1. model \in Models /\ stream \in SUBSET Indices
            BY DEF PlanInv, InputsOK, TypeOK
        <3>2. window' \in Nat
            BY <2>1, <3>1, FillDecides, WindowFacts, StreamLayersBound
        <3>3. use_slab' \in BOOLEAN
            BY <2>1, FillDecides DEF KeepsSlabs
        <3>4. StreamLayers' = StreamLayers
            BY <1>1, SameStream
        <3>5. PlanOK'
            BY <1>1, <2>1, <3>4, FillWindow, FillSlabs DEF PlanOK, BeforeFill
        <3> QED BY <2>1, <3>2, <3>3, <3>5, FillDecides
    <2>2. CASE ~(dense_enabled /\ stream # {})
        <3>1. UNCHANGED <<slabs, use_slab, expert_budget, window>>
            BY <2>2 DEF FillResidentLayers
        <3>2. Bytes({})' = 0
            BY FS_EmptySet DEF Bytes, Cells
        <3>3. DerivedBudget' = DerivedBudget /\ DerivedBudget \in Nat
            BY <1>1, MachineFacts DEF DerivedBudget, AvailableRam, CgroupMemoryLimit, PlanInv
        <3>4. SlabsFitMemory'
            BY <1>2, <1>3, <3>1, <3>2, <3>3 DEF SlabsFitMemory
        <3>5. PlanOK'
            BY <1>1, <1>3, <2>2, <3>1, <3>4
               DEF PlanOK, BeforeFill, WindowIsLongestPrefix, SharesWithinBudget
        <3> QED BY <1>2, <1>3, <3>1, <3>5 DEF PlanInv, TypeOK
    <2> QED BY <2>1, <2>2
<1>5. InputsOK'
    BY <1>1 DEF PlanInv, InputsOK
<1>6. TypeOK'
    BY <1>1, <1>2, <1>4, SameModel DEF PlanInv, TypeOK
<1>7. ParsedOK'
    BY <1>1 DEF PlanInv, ParsedOK, InManifest, BuildShardPaths, ShardReadable, WantsPager, T
<1>8. OwnedOK'
    BY <1>1, SameModel DEF PlanInv, OwnedOK
<1>9. SeedsOK'
    BY <1>1 DEF PlanInv, SeedsOK, SeedsSound, NoPrior
<1> QED BY <1>4, <1>5, <1>6, <1>7, <1>8, <1>9 DEF PlanInv

\* A file of the directory, its entries, and their counts.
LEMMA PriorFacts ==
    ASSUME model \in Models, NEW f \in DOMAIN model.priors
    PROVE  /\ f # NoPrior
           /\ model.priors[f].match \in {"exact", "shard", "stem", "other"}
           /\ \A e \in ToSet(model.priors[f].entries) :
                e.tensor \in Nat /\ e.counts \in Seq(Nat)
           /\ \A e, d \in ToSet(model.priors[f].entries) :
                e.tensor = d.tensor /\ e.tensor # 0 => e = d
<1> DEFINE Files == [match : {"exact", "shard", "stem", "other"}, gguf : BOOLEAN,
                     entries : Seq(Entries)]
<1>1. /\ model.priors \in Seq(Files)
      /\ \A e, d \in ToSet(model.priors[f].entries) :
            e.tensor = d.tensor /\ e.tensor # 0 => e = d
    BY LoadAssumption
<1>2. model.priors[f] \in Files /\ f # 0
    <2> HIDE DEF Files
    <2>1. \A s \in Seq(Files) : \A j \in DOMAIN s : s[j] \in Files /\ j # 0
        OBVIOUS
    <2> QED BY <1>1, <2>1
<1>3. \A s \in Seq(Entries) : \A e \in ToSet(s) : e \in Entries
    BY DEF ToSet
<1>4. \A e \in ToSet(model.priors[f].entries) : e \in Entries
    BY <1>2, <1>3
<1>5. \A e \in Entries : e.tensor \in Nat /\ e.counts \in Seq(Nat)
    BY DEF Entries
<1> QED BY <1>1, <1>2, <1>4, <1>5 DEF NoPrior

\* The prior is chosen among the files of the directory.
LEMMA CandidatesAreFiles == Candidates \subseteq DOMAIN model.priors
BY DEF Candidates

\* What is seeded of an entry: the experts that the tensor has and the file counts.
LEMMA EntryFacts ==
    ASSUME NEW e, e.counts \in Seq(Nat), NEW t \in Nat
    PROVE  LET n == Min({Len(e.counts), t})
           IN  /\ \A s \in EntrySlots(e, n) :
                    s[1] = e.tensor /\ s[2] \in Nat /\ s[2] < t /\ s = <<s[1], s[2]>>
               /\ Len(e.counts) = t =>
                    \A k \in DOMAIN e.counts :
                        <<e.tensor, k - 1>> \in EntrySlots(e, n) <=> e.counts[k] > 0
<1> DEFINE S == {Len(e.counts), t}
           n == Min(S)
<1>1. Len(e.counts) \in Nat /\ DOMAIN e.counts = 1 .. Len(e.counts)
    OBVIOUS
<1>2. n \in S /\ \A y \in S : n <= y
    BY <1>1, LeastNatural
<1>3. n \in Nat /\ n <= t /\ (Len(e.counts) = t => n = t)
    BY <1>1, <1>2
<1> HIDE DEF n
<1>4. \A s \in EntrySlots(e, n) :
          s[1] = e.tensor /\ s[2] \in Nat /\ s[2] < t /\ s = <<s[1], s[2]>>
    BY <1>3 DEF EntrySlots
<1>5. ASSUME Len(e.counts) = t, NEW k \in DOMAIN e.counts
      PROVE  <<e.tensor, k - 1>> \in EntrySlots(e, n) <=> e.counts[k] > 0
    <2>1. k - 1 \in 0 .. (n - 1) /\ (k - 1) + 1 = k
        BY <1>1, <1>3, <1>5
    <2>2. <<e.tensor, k - 1>> \in EntrySlots(e, n) <=>
              (k - 1 \in 0 .. (n - 1) /\ e.counts[(k - 1) + 1] > 0)
        BY DEF EntrySlots
    <2> QED BY <2>1, <2>2
<1> QED BY <1>4, <1>5 DEF n

\* What is seeded comes from the chosen file and names experts of this model.
LEMMA SeedFacts ==
    ASSUME PlanInv, NEW f \in DOMAIN model.priors
    PROVE  /\ SeedSlots(model.priors[f]) \subseteq Indices \X Nat
           /\ \A s \in SeedSlots(model.priors[f]) :
                s[1] \in expert_tensors /\ s[2] < T(s[1]).trail
           /\ \A i \in expert_tensors, e \in ToSet(model.priors[f].entries) :
                e.tensor = i /\ Len(e.counts) = T(i).trail =>
                    \A k \in DOMAIN e.counts :
                        <<i, k - 1>> \in SeedSlots(model.priors[f]) <=> e.counts[k] > 0
<1> DEFINE file == model.priors[f]
           slots(e) == EntrySlots(e, Min({Len(e.counts), T(e.tensor).trail}))
<1>1. model \in Models /\ expert_tensors \subseteq Indices
    BY DEF PlanInv, InputsOK, TypeOK
<1>2. \A i \in expert_tensors : T(i).trail \in Nat /\ i # 0
    BY <1>1, TensorFacts
<1>3. \A e \in ToSet(file.entries) : e.tensor \in Nat /\ e.counts \in Seq(Nat)
    BY <1>1, PriorFacts
<1>4. \A e \in ExpertEntries(file) : e \in ToSet(file.entries) /\ e.tensor \in expert_tensors
    BY DEF ExpertEntries
<1>5. \A e \in ExpertEntries(file) : \A s \in slots(e) :
          s[1] = e.tensor /\ s[2] \in Nat /\ s[2] < T(e.tensor).trail /\ s = <<s[1], s[2]>>
    BY <1>2, <1>3, <1>4, EntryFacts
<1>6. SeedSlots(file) = UNION {slots(e) : e \in ExpertEntries(file)}
    BY DEF SeedSlots
<1>7. ASSUME NEW i \in expert_tensors, NEW e \in ToSet(file.entries),
             e.tensor = i, Len(e.counts) = T(i).trail, NEW k \in DOMAIN e.counts
      PROVE  <<i, k - 1>> \in SeedSlots(file) <=> e.counts[k] > 0
    <2>1. e \in ExpertEntries(file)
        BY <1>7 DEF ExpertEntries
    <2>2. <<i, k - 1>> \in slots(e) <=> e.counts[k] > 0
        BY <1>2, <1>3, <1>7, EntryFacts
    <2>3. ASSUME NEW d \in ExpertEntries(file), <<i, k - 1>> \in slots(d)
          PROVE  d = e
        <3>1. d.tensor = i
            BY <1>5, <2>3
        <3> QED BY <1>1, <1>2, <1>4, <1>7, <3>1, PriorFacts
    <2> HIDE DEF slots
    <2> QED BY <1>6, <2>1, <2>2, <2>3
<1> HIDE DEF slots
<1> QED BY <1>1, <1>4, <1>5, <1>6, <1>7

\* load_imatrix_prior leaves the plan alone and seeds soundly.
LEMMA PriorPlan ==
    ASSUME PlanInv, LoadInv, LoadImatrixPrior
    PROVE  PlanInv'
<1>1. /\ phase = "prior"
      /\ phase' = "ready"
      /\ UNCHANGED <<model, machine, user_budget, auto, fd, moe, enabled, dense_enabled,
                     manifest, next, expert_tensors, stream, data, slabs, use_slab, budget,
                     expert_budget, window>>
    BY DEF LoadImatrixPrior, inputs, parsed, owners, plan
<1>2. prior = NoPrior /\ seeded = {}
    BY <1>1 DEF PlanInv, SeedsOK
<1>3. \/ prior' = NoPrior /\ seeded' = {}
      \/ prior' \in Candidates /\ seeded' = SeedSlots(model.priors[prior'])
    BY <1>2 DEF LoadImatrixPrior, seeds
<1>4. (prior' = NoPrior \/ prior' \in DOMAIN model.priors) /\ seeded' \subseteq Indices \X Nat
    BY <1>3, CandidatesAreFiles, SeedFacts
<1>5. InputsOK'
    BY <1>1 DEF PlanInv, InputsOK
<1>6. TypeOK'
    BY <1>1, <1>4, SameModel DEF PlanInv, TypeOK, NoPrior
<1>7. ParsedOK'
    BY <1>1 DEF PlanInv, ParsedOK, InManifest, BuildShardPaths, ShardReadable, WantsPager, T
<1>8. OwnedOK'
    BY <1>1, SameModel DEF PlanInv, OwnedOK
<1>9. PlanOK'
    BY <1>1, SameModel, SameStream
       DEF PlanInv, PlanOK, BeforeFill, AfterFill, WindowIsLongestPrefix,
           SharesWithinBudget, SlabsFitMemory, DerivedBudget, AvailableRam,
           CgroupMemoryLimit
<1>10. SeedsOK'
    <2>1. Candidates' = Candidates
        BY <1>1 DEF Candidates, NamesModel
    <2>2. CASE prior' = NoPrior /\ seeded' = {}
        BY <1>1, <2>2 DEF SeedsOK, SeedsSound, NoPrior
    <2>3. CASE prior' \in Candidates /\ seeded' = SeedSlots(model.priors[prior'])
        <3>1. prior' \in DOMAIN model.priors
            BY <2>3, CandidatesAreFiles
        <3>2. prior' # NoPrior
            BY <3>1, PriorFacts DEF PlanInv, InputsOK
        <3>3. /\ \A s \in seeded' : s[1] \in expert_tensors /\ s[2] < T(s[1]).trail
              /\ \A i \in expert_tensors, e \in ToSet(model.priors[prior'].entries) :
                    e.tensor = i /\ Len(e.counts) = T(i).trail =>
                        \A k \in DOMAIN e.counts : <<i, k - 1>> \in seeded' <=> e.counts[k] > 0
            BY <2>3, <3>1, SeedFacts
        <3>4. SeedsSound'
            BY <1>1, <3>2, <3>3, SameModel DEF SeedsSound, NoPrior
        <3> QED BY <1>1, <2>1, <2>3, <3>4 DEF SeedsOK
    <2> QED BY <1>3, <2>2, <2>3
<1> QED BY <1>5, <1>6, <1>7, <1>8, <1>9, <1>10 DEF PlanInv

\* Shutdown changes the phase.
LEMMA ShutdownPlan ==
    ASSUME PlanInv, LoadInv, Shutdown
    PROVE  PlanInv'
<1>1. /\ phase' = "down" /\ fd' = FALSE
      /\ expert_tensors' = {} /\ stream' = {} /\ slabs' = {}
      /\ UNCHANGED <<model, machine, user_budget, auto, moe, enabled, dense_enabled, manifest,
                     next, data, use_slab, budget, expert_budget, window, prior, seeded>>
    BY DEF Shutdown, inputs, seeds
<1>2. InputsOK'
    BY <1>1 DEF PlanInv, InputsOK
<1>3. TypeOK'
    BY <1>1, SameModel DEF PlanInv, TypeOK, NoPrior
<1>4. ParsedOK'
    BY <1>1 DEF PlanInv, ParsedOK, InManifest, BuildShardPaths, ShardReadable, WantsPager, T
<1>5. OwnedOK'
    BY <1>1 DEF OwnedOK
<1>6. PlanOK'
    <2>1. Bytes({})' = 0 /\ \A n : PrefixBytes(n)' = 0
        <3>1. Bytes({})' = 0
            BY FS_EmptySet DEF Bytes, Cells
        <3> QED BY <1>1, <3>1 DEF PrefixBytes
    <2>2. DerivedBudget' = DerivedBudget /\ DerivedBudget \in Nat
        BY <1>1, MachineFacts DEF DerivedBudget, AvailableRam, CgroupMemoryLimit, PlanInv
    <2>3. budget' \in Nat /\ expert_budget' \in 0 .. budget'
        BY <1>3 DEF TypeOK
    <2>4. SharesWithinBudget' /\ SlabsFitMemory'
        BY <1>1, <2>1, <2>2, <2>3 DEF SharesWithinBudget, SlabsFitMemory
    <2> QED BY <1>1, <2>4 DEF PlanOK, BeforeFill, AfterFill, WindowIsLongestPrefix
<1>7. SeedsOK'
    <2>1. Candidates' = Candidates
        BY <1>1 DEF Candidates, NamesModel
    <2> QED BY <1>1, <2>1 DEF PlanInv, SeedsOK, SeedsSound, NoPrior
<1> QED BY <1>2, <1>3, <1>4, <1>5, <1>6, <1>7 DEF PlanInv

\* Steps that change nothing.
LEMMA StutterPlan ==
    ASSUME PlanInv, UNCHANGED vars
    PROVE  PlanInv'
<1>1. UNCHANGED <<model, machine, user_budget, auto, phase, fd, moe, enabled, dense_enabled,
                  manifest, next, expert_tensors, stream, data, slabs, use_slab, budget,
                  expert_budget, window, prior, seeded>>
    BY DEF vars, inputs, parsed, owners, plan, seeds
<1>2. InputsOK' /\ TypeOK' /\ OwnedOK'
    BY <1>1, SameModel DEF PlanInv, InputsOK, TypeOK, OwnedOK, NoPrior
<1>3. ParsedOK'
    BY <1>1 DEF PlanInv, ParsedOK, InManifest, BuildShardPaths, ShardReadable, WantsPager, T
<1>4. PlanOK'
    <2>1. WindowIsLongestPrefix'
        BY <1>1, SameStream DEF PlanInv, PlanOK, WindowIsLongestPrefix
    <2>2. SharesWithinBudget'
        BY <1>1, SameStream DEF PlanInv, PlanOK, SharesWithinBudget
    <2>3. SlabsFitMemory'
        BY <1>1, SameModel DEF PlanInv, PlanOK, SlabsFitMemory, DerivedBudget, AvailableRam,
                               CgroupMemoryLimit
    <2> QED BY <1>1, <2>1, <2>2, <2>3, SameStream DEF PlanInv, PlanOK, BeforeFill, AfterFill
<1>5. SeedsOK'
    <2>1. Candidates' = Candidates
        BY <1>1 DEF Candidates, NamesModel
    <2> QED BY <1>1, <2>1, SameModel DEF PlanInv, SeedsOK, SeedsSound, NoPrior
<1> QED BY <1>2, <1>3, <1>4, <1>5 DEF PlanInv

\* Every step keeps the plan.
LEMMA PlanStep ==
    ASSUME PlanInv, LoadInv, [Next]_vars
    PROVE  PlanInv'
<1>1. CASE Initialize
    BY <1>1, InitializePlan
<1>2. CASE RegisterExpertTensor
    BY <1>2, RegisterExpertPlan
<1>3. CASE RegisterStreamTensor
    BY <1>3, RegisterStreamPlan
<1>4. CASE FillResidentLayers
    BY <1>4, FillPlan
<1>5. CASE LoadImatrixPrior
    BY <1>5, PriorPlan
<1>6. CASE Shutdown
    BY <1>6, ShutdownPlan
<1>7. CASE UNCHANGED vars
    BY <1>7, StutterPlan
<1> QED BY <1>1, <1>2, <1>3, <1>4, <1>5, <1>6, <1>7 DEF Next, Down

\* The plan holds in every reachable state, for any models, machines and budgets.
THEOREM PlanInvariance == Spec => []PlanInv
<1>1. PlanInv /\ LoadInv /\ [Next]_vars => PlanInv'
    BY PlanStep
<1> QED BY <1>1, PlanInit, LoadInvariance, PTL DEF Spec

\* Every variable of the load keeps its type: the owners are tensors of the manifest,
\* the slabs are the pager's, the experts' ceiling stays within the budget.
THEOREM LoadTypeCorrect == Spec => []TypeOK
<1>1. PlanInv => TypeOK
    BY DEF PlanInv
<1> QED BY <1>1, PlanInvariance, PTL

\* Only routed tensors are paged by expert, whatever the header, the names and the
\* shards contain.
THEOREM PagedExpertsAreRouted == Spec => []ExpertsAreRouted
<1>1. PlanInv /\ LoadInv => ExpertsAreRouted
    <2>1. SUFFICES ASSUME PlanInv, LoadInv, NEW i \in expert_tensors
                   PROVE  /\ <<"expert_count", T(i).trail>> \in ToSet(model.kv)
                          /\ T(i).bytes % T(i).trail = 0
        BY DEF ExpertsAreRouted
    <2>2. i \in manifest /\ T(i).trail > 1 /\ T(i).bytes % T(i).trail = 0
        BY <2>1 DEF PlanInv, TypeOK, OwnedOK
    <2>3. enabled
        BY <2>1 DEF LoadInv
    <2>4. moe.experts > 1 /\ InManifest(i, moe, dense_enabled)
        BY <2>1, <2>2, <2>3 DEF PlanInv, ParsedOK
    <2>5. T(i).trail = moe.experts
        BY <2>2, <2>4 DEF InManifest
    <2> QED BY <2>1, <2>2, <2>4, <2>5 DEF PlanInv, ParsedOK
<1> QED BY <1>1, LoadInvariance, PlanInvariance, PTL

\* The walk over the layers finds the longest prefix that fits the pager's share, for
\* any sizes of the layers.
THEOREM WindowAlwaysLongest == Spec => []WindowIsLongestPrefix
<1>1. PlanInv => WindowIsLongestPrefix
    BY DEF PlanInv, PlanOK
<1> QED BY <1>1, PlanInvariance, PTL

\* The resident window and the experts' ceiling share one budget, for any sizes.
THEOREM BudgetShared == Spec => []SharesWithinBudget
<1>1. PlanInv => SharesWithinBudget
    BY DEF PlanInv, PlanOK
<1> QED BY <1>1, PlanInvariance, PTL

\* Memory that the kernel cannot drop is never planned beyond the budget, or beyond
\* the share of the memory that would have become the budget, for any machine.
THEOREM SlabsAlwaysFit == Spec => []SlabsFitMemory
<1>1. PlanInv => SlabsFitMemory
    BY DEF PlanInv, PlanOK
<1> QED BY <1>1, PlanInvariance, PTL

\* Without paged experts, slabs and a streamed tail exclude each other.
THEOREM TailMeansNoSlabs == Spec => []SlabTailBesideExperts
<1>1. PlanInv => SlabTailBesideExperts
    BY DEF PlanInv, PlanOK, AfterFill, SlabTailBesideExperts
<1> QED BY <1>1, PlanInvariance, PTL

\* The imatrix of another model is taken only where there is none of this one, for
\* any directory.
THEOREM OwnPriorTaken == Spec => []OwnPriorPreferred
<1>1. PlanInv => OwnPriorPreferred
    <2>1. SUFFICES ASSUME PlanInv, prior # NoPrior, Len(model.shards) = 1,
                          model.priors[prior].match = "other",
                          NEW f \in DOMAIN model.priors
                   PROVE  model.priors[f].match = "other"
        BY DEF OwnPriorPreferred
    <2>2. prior \in Candidates
        BY <2>1 DEF PlanInv, SeedsOK
    <2>3. model.priors[f].match \in {"exact", "shard", "stem", "other"}
        BY <2>1, PriorFacts DEF PlanInv, InputsOK
    <2>4. model.priors[f].match # "exact"
        BY <2>1, <2>2 DEF Candidates
    <2>5. ~NamesModel(f)
        BY <2>1, <2>2, <2>4 DEF Candidates, NamesModel
    <2> QED BY <2>1, <2>3, <2>4, <2>5 DEF NamesModel
<1> QED BY <1>1, PlanInvariance, PTL

\* The totals are seeded from one whole file and for experts that exist, for any files.
THEOREM SeedsAlwaysSound == Spec => []SeedsSound
<1>1. PlanInv => SeedsSound
    BY DEF PlanInv, SeedsOK
<1> QED BY <1>1, PlanInvariance, PTL

=============================================================================
