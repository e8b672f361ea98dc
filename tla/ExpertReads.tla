---------------------------- MODULE ExpertReads ----------------------------
(***************************************************************************)
(* The stand-alone engine: GuanacoExecutor drives GuanacoRouter, which     *)
(* allocates slots of HerdCache and has SteppeLoader read the experts in   *)
(* detached threads.  All threads share fd_ and its file offset; lseek and *)
(* read are atomic system calls, and two of them in a row are not.         *)
(*                                                                         *)
(* The router waits for its reads before it returns.  A client of          *)
(* SteppeLoader::prefetch_experts only holds a future, so its reads run    *)
(* beside those of the router.  Positions of the file are chunks: a read   *)
(* returns one chunk or more of what was asked for.                        *)
(*                                                                         *)
(* Router scores are floats; only their order is used, so they are small   *)
(* numbers.  partial_sort leaves equal scores in any order.                *)
(***************************************************************************)
EXTENDS HerdCache

CONSTANTS
    ModelLayers, ModelExperts, ModelTopK,     \* MoEModelConfig, 0 for unknown
    ConfigLayers, ConfigExperts, ConfigTopK,  \* GuanacoExecutorConfig
    Entries,     \* keys that have an entry in the manifest
    Batches,     \* the router outputs, each the scores of the tokens of a batch
    SliceLen,    \* chunks of an expert slice
    FileEnd,     \* chunks of the file, which may end before its last tensor
    ClientBufs,  \* buffers a client of SteppeLoader reads into
    MaxCalls,    \* bound on the calls of the router
    MaxUses,     \* bound on the owner's uses of the cache
    MaxBatches   \* bound on the client's prefetch_experts calls

Effective(model, config) == IF model > 0 THEN model ELSE config

NumLayers == Effective(ModelLayers, ConfigLayers)
NumExperts == Effective(ModelExperts, ConfigExperts)
TopK == Effective(ModelTopK, ConfigTopK)

Layers == 0 .. (NumLayers - 1)
Experts == 0 .. (NumExperts - 1)
Targets == Keys \cup ClientBufs

ASSUME ReadsAssumption ==
    /\ NumLayers \in Nat \ {0}
    /\ NumExperts \in Nat \ {0}
    /\ Keys = Layers \X Experts
    /\ Entries \subseteq Keys
    /\ Batches \subseteq SUBSET [Experts -> Nat]
    /\ SliceLen \in Nat \ {0}
    /\ FileEnd \in Nat
    /\ TopK \in 1 .. NumExperts
    /\ ClientBufs \cap Keys = {} /\ IsFiniteSet(ClientBufs)
    /\ MaxCalls \in Nat /\ MaxUses \in Nat /\ MaxBatches \in Nat

VARIABLES
    buf,      \* ExpertTensorBuffer: is_ready and the file chunks of data
    reader,   \* per buffer the key its thread reads, or NoKey
    sought,   \* buffers whose thread has done its lseek
    fpos,     \* the offset of fd_
    overlap,  \* buffers that were read while another thread ran (history)
    pc,       \* where the executor stands
    layer,    \* layer of the router call
    token,    \* evaluate_token runs, as opposed to one call of the router
    todo,     \* selected experts prefetch_experts has not looked at
    fresh,    \* slots this call has allocated, in order (history)
    calls,    \* calls of the router so far
    uses,     \* uses of the cache by its owner so far
    batch     \* future of the client: [open, left]

readers == <<buf, reader, sought, fpos, overlap>>
router == <<pc, layer, token, todo, fresh, calls, uses>>
vars == <<herd, readers, router, batch>>

NoKey == <<>>
NoBuffer == [ready |-> FALSE, data |-> << >>]
SliceAt(key) == (key[1] * NumExperts + key[2]) * SliceLen
Slice(key) == [i \in 1 .. SliceLen |-> SliceAt(key) + i]
Running == {t \in Targets : reader[t] # NoKey}

TypeOK ==
    /\ HerdTypeOK
    /\ \A t \in Targets : /\ buf[t].ready \in BOOLEAN
                          /\ buf[t].data \in BoundedSeq(1 .. FileEnd, SliceLen)
    /\ reader \in [Targets -> Entries \cup {NoKey}]
    /\ sought \subseteq Running
    /\ fpos \in Nat
    /\ overlap \subseteq Targets
    /\ pc \in {"new", "idle", "prefetch", "wait"}
    /\ layer \in Layers
    /\ token \in BOOLEAN
    /\ todo \in BoundedSeq(Experts, NumExperts)
    /\ calls \in 0 .. MaxCalls
    /\ uses \in 0 .. MaxUses
    /\ batch \in [open : BOOLEAN, left : 0 .. MaxBatches]

Init ==
    /\ HerdInit
    /\ buf = [t \in Targets |-> NoBuffer]
    /\ reader = [t \in Targets |-> NoKey]
    /\ sought = {}
    /\ fpos = 0
    /\ overlap = {}
    /\ pc = "new"
    /\ layer = 0
    /\ token = FALSE
    /\ todo = << >>
    /\ fresh = << >>
    /\ calls = 0
    /\ uses = 0
    /\ batch = [open |-> FALSE, left |-> MaxBatches]

-----------------------------------------------------------------------------
(* read_expert_async: one detached thread per buffer.                      *)

\* prefetch_expert: which of the buffers asked for get a thread.  An expert without
\* an entry is a future that has failed already.
Found(asked) == [t \in {b \in DOMAIN asked : asked[b] \in Entries} |-> asked[t]]

\* Starting a set of threads.  A buffer outlives its slot while a thread holds
\* it, and is freed with the slot otherwise.
Start(jobs) ==
    LET running == Running \cup DOMAIN jobs
    IN  /\ reader' = [t \in Targets |-> IF t \in DOMAIN jobs THEN jobs[t] ELSE reader[t]]
        /\ overlap' = IF Cardinality(running) > 1 THEN overlap \cup running
                                                  ELSE overlap \ DOMAIN jobs
        /\ UNCHANGED <<sought, fpos>>

Kept(t) == t \in ClientBufs \/ t \in active' \/ reader'[t] # NoKey

Freed(new) == [t \in Targets |-> IF Kept(t) THEN new[t] ELSE NoBuffer]

\* Fault: the thread relies on the offset the previous read left behind.
SeekSkipped(t) ==
    /\ reader[t] # NoKey
    /\ t \notin sought
    /\ sought' = sought \cup {t}
    /\ UNCHANGED <<herd, buf, reader, fpos, overlap, router, batch>>

Seek(t) ==
    /\ reader[t] # NoKey
    /\ t \notin sought
    /\ sought' = sought \cup {t}
    /\ fpos' = SliceAt(reader[t])
    /\ UNCHANGED <<herd, buf, reader, overlap, router, batch>>

\* What the next read() asks for.  Fault: always the whole slice.
AskedWhole(t) == SliceLen

Asked(t) == SliceLen - Len(buf[t].data)

\* read() returned n chunks: the slice is complete, or the loop goes on.
Read(t) ==
    /\ t \in sought
    /\ \E n \in 1 .. Asked(t) :
        LET data == buf[t].data \o [i \in 1 .. n |-> fpos + i]
            full == Len(data) >= SliceLen
        IN  /\ fpos + n <= FileEnd
            /\ fpos' = fpos + n
            /\ reader' = IF full THEN [reader EXCEPT ![t] = NoKey] ELSE reader
            /\ sought' = IF full THEN sought \ {t} ELSE sought
            /\ UNCHANGED herd
            /\ buf' = Freed([buf EXCEPT ![t] = [ready |-> full, data |-> data]])
    /\ UNCHANGED <<overlap, router, batch>>

\* lseek or read failed, or read met the end of the file: the exception goes into
\* the promise and the buffer stays as it is.
Fail(t) ==
    /\ reader[t] # NoKey
    /\ reader' = [reader EXCEPT ![t] = NoKey]
    /\ sought' = sought \ {t}
    /\ UNCHANGED herd
    /\ buf' = Freed(buf)
    /\ UNCHANGED <<fpos, overlap, router, batch>>

\* Fault: only n < 0 ends the loop, so the end of the file does not.
ReadFailsNotAtEnd(t) == fpos < FileEnd /\ Fail(t)

ReadFails(t) == Fail(t)

-----------------------------------------------------------------------------
(* GuanacoExecutor and GuanacoRouter, one thread.                          *)

Initialize ==
    /\ pc = "new"
    /\ pc' = "idle"
    /\ UNCHANGED <<herd, readers, layer, token, todo, fresh, calls, uses, batch>>

\* The experts process_router_output may select for one token.
TopSets(scores) ==
    {S \in kSubset(TopK, Experts) : \A a \in S, b \in Experts \ S : scores[a] >= scores[b]}

\* The list of a set of experts after sort and unique.
Sorted(S) ==
    {q \in [1 .. Cardinality(S) -> S] : \A i, j \in DOMAIN q : i < j => q[i] < q[j]}

\* intercept_router: select for every token, sort, drop duplicates, notify; then
\* prefetch_experts walks the list.
Intercept(l, tokens) ==
    /\ \E pick \in [tokens -> SUBSET Experts] :
        /\ \A scores \in tokens : pick[scores] \in TopSets(scores)
        /\ todo' \in Sorted(UNION {pick[scores] : scores \in tokens})
    /\ layer' = l
    /\ fresh' = << >>
    /\ pc' = "prefetch"
    /\ calls' = calls + 1

\* A client with its own router scores.
InterceptRouter(l, tokens) ==
    /\ pc = "idle"
    /\ calls < MaxCalls
    /\ Intercept(l, tokens)
    /\ UNCHANGED <<herd, readers, token, uses, batch>>

\* evaluate_token calls the router layer by layer, with the scores of
\* evaluate_moe_layer, which grow with the expert index.
Ramp == [e \in Experts |-> e]

EvaluateToken ==
    /\ pc = "idle"
    /\ calls + NumLayers <= MaxCalls
    /\ token' = TRUE
    /\ Intercept(0, {Ramp})
    /\ UNCHANGED <<herd, readers, uses, batch>>

\* One expert of the list.  An active one counts as present, whatever is in its
\* buffer, and keeps its place in the recency list.
PrefetchExpert ==
    /\ pc = "prefetch"
    /\ todo # << >>
    /\ LET key == <<layer, Head(todo)>>
       IN  IF key \in active
           THEN UNCHANGED <<herd, readers, fresh>>
           ELSE /\ AllocateSlot(key)
                /\ fresh' = Append(fresh, key)
                /\ Start(Found([k \in {key} |-> k]))
                /\ buf' = Freed([buf EXCEPT ![key] = NoBuffer])
    /\ todo' = Tail(todo)
    /\ UNCHANGED <<pc, layer, token, calls, uses, batch>>

AwaitReads ==
    /\ pc = "prefetch"
    /\ todo = << >>
    /\ pc' = "wait"
    /\ UNCHANGED <<herd, readers, layer, token, todo, fresh, calls, uses, batch>>

\* Every future of the call is resolved, with a value or with an exception.
RouterReturns ==
    /\ pc = "wait"
    /\ Running \cap Keys = {}
    /\ IF token /\ layer + 1 < NumLayers
       THEN Intercept(layer + 1, {Ramp}) /\ UNCHANGED token
       ELSE /\ pc' = "idle"
            /\ token' = FALSE
            /\ layer' = 0
            /\ fresh' = << >>
            /\ UNCHANGED <<todo, calls>>
    /\ UNCHANGED <<herd, readers, uses, batch>>

\* The cache is public too: its owner uses it between calls of the router.
UseCache ==
    /\ pc \in {"new", "idle"}
    /\ uses < MaxUses
    /\ uses' = uses + 1
    /\ \/ \E key \in Keys : GetBuffer(key) \/ PinExpert(key) \/ UnpinExpert(key)
       \/ EvictIfNeeded
       \/ \E m \in MaxCaps : SetMaxActive(m)
    /\ reader' = reader
    /\ buf' = Freed(buf)
    /\ UNCHANGED <<sought, fpos, overlap, pc, layer, token, todo, fresh, calls, batch>>

-----------------------------------------------------------------------------
(* A client of SteppeLoader::prefetch_experts: one buffer per index, all   *)
(* indices of one layer.                                                   *)

PrefetchExperts(l, ids) ==
    /\ ~batch.open
    /\ batch.left > 0
    /\ batch' = [open |-> TRUE, left |-> batch.left - 1]
    /\ Start(Found([b \in ClientBufs |-> <<l, ids[b]>>]))
    /\ UNCHANGED herd
    /\ buf' = [t \in Targets |-> IF t \in ClientBufs THEN NoBuffer ELSE buf[t]]
    /\ UNCHANGED router

\* The waiting thread resolves the client's future.  wait() throws nothing, so it
\* is resolved with a value even if a read failed.
ResolveBatch ==
    /\ batch.open
    /\ Running \cap ClientBufs = {}
    /\ batch' = [batch EXCEPT !.open = FALSE]
    /\ UNCHANGED <<herd, readers, router>>

\* The bounds are reached.
Finished ==
    /\ pc = "idle" /\ calls = MaxCalls
    /\ Running = {}
    /\ UNCHANGED vars

ThreadStep(t) == Seek(t) \/ Read(t) \/ ReadFails(t)

RouterStep == PrefetchExpert \/ AwaitReads \/ RouterReturns

Next ==
    \/ Initialize
    \/ EvaluateToken
    \/ \E l \in Layers, tokens \in Batches : InterceptRouter(l, tokens)
    \/ RouterStep
    \/ UseCache
    \/ \E l \in Layers, ids \in [ClientBufs -> Experts] : PrefetchExperts(l, ids)
    \/ ResolveBatch
    \/ \E t \in Targets : ThreadStep(t)
    \/ Finished

\* Threads run on, and so does a thread that waits for nothing.
Fairness ==
    /\ \A t \in Targets : WF_vars(ThreadStep(t))
    /\ WF_vars(RouterStep)
    /\ WF_vars(ResolveBatch)

Spec == Init /\ [][Next]_vars /\ Fairness

-----------------------------------------------------------------------------
(* Properties.                                                             *)

\* A buffer that is ready and whose read had the file offset to itself holds the
\* slice of its own expert, whatever reads ran before.  For reads that overlap the
\* code gives no such guarantee: another thread may move the offset in between.
SoloReadsRight ==
    \A k \in active : buf[k].ready /\ k \notin overlap => buf[k].data = Slice(k)

\* A slot allocated by a call of the router is evicted in that call only if the
\* call allocates more slots than the cache may hold.
FreshSlotsHeld ==
    pc = "wait" =>
        \A i \in DOMAIN fresh :
            i > Len(fresh) - Max({1, max_active}) => fresh[i] \in active

\* Every call of the router returns and every future of a client is resolved, with
\* reads that fail, a file that ends early and slots evicted under their reader.
WaitsEnd == (pc \in {"prefetch", "wait"} ~> pc = "idle") /\ (batch.open ~> ~batch.open)

=============================================================================
