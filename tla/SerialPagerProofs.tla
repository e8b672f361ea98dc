------------------------- MODULE SerialPagerProofs -------------------------
(* The pager that reads one layer ahead (Ahead = 1) for one context, where  *)
(* reads may fail: there is one batch at a time, so no completion is taken  *)
(* for another layer's, in any order of completion.                         *)
EXTENDS DensePagerProofs

Serial ==
    /\ Ahead = 1
    /\ OneContext
    /\ Outcomes \subseteq {"ok", "error"}

-----------------------------------------------------------------------------
(* The invariant.                                                          *)

Failed(completions) == \E i \in DOMAIN completions : completions[i].res = "error"

\* Requests of one batch: one token, the slabs of one layer, none twice.
OneBatch(requests, completions, t, l) ==
    /\ \A i \in DOMAIN requests : requests[i].token = t /\ requests[i].slab \in SlabsOf(l)
    /\ \A i, j \in DOMAIN requests : requests[i].slab = requests[j].slab => i = j
    /\ \A i \in DOMAIN completions : completions[i].token = t

Idle == kernel = << >> /\ cq = << >> /\ inflight = NoneInflight

\* Layer cur + 1 was submitted and is waited for.
Awaited ==
    /\ uring
    /\ cur + 1 \in W .. (NLayers - 1)
    /\ cur + 1 = submitted_upto
    /\ cur + 1 \notin resident
    /\ inflight = [NoneInflight EXCEPT ![cur + 1] = Len(kernel) + Len(cq)]
    /\ OneBatch(kernel, cq, cur + 1, cur + 1)
    /\ pc # "wait" => Len(kernel) + Len(cq) = NSlices
    /\ Covered(kernel, Held, cur + 1, cur + 1) \/ Failed(cq) \/ (pc = "wait" /\ ~all_ok)

\* Layer cur + 1 is read by io_uring_slab_read.
Reading ==
    /\ uring
    /\ inflight = NoneInflight
    /\ Len(kernel) + Len(cq) = todo
    /\ OneBatch(kernel, cq, 0, cur + 1)
    /\ Covered(kernel, Held, 0, cur + 1) \/ Failed(cq) \/ ~all_ok

BatchOK ==
    /\ sq = << >>
    /\ pc \in {"fill", "run", "drain", "sync", "pread", "evict"} => Idle
    /\ pc \in {"submit", "ensure"} => Idle \/ Awaited
    /\ pc = "wait" => Awaited
    /\ pc = "read" => Reading

\* The frontier is never behind the pass, once it has passed the resident prefix.
FrontierOK ==
    /\ pc = "run" => \A c \in Contexts :
        pos[c] = 0 \/ (pos[c] = last_boundary + 1 /\ pos[c] <= submitted_upto)
    /\ pc = "drain" => cur = 0
    /\ pc = "submit" => cur = 0 \/ cur <= submitted_upto
    /\ pc \in {"ensure", "wait", "sync", "read", "pread", "evict"} /\ busy # {}
        /\ cur + 1 < NLayers => cur + 1 <= submitted_upto

SerialOk == BatchOK /\ FrontierOK /\ ResidentOK /\ PlaceOK

SerialInv == TypeInv /\ (faults = {} => SerialOk)

-----------------------------------------------------------------------------
(* The ring with one batch.                                                *)

\* A batch submitted to an idle ring is the only one.
LEMMA SubmitAlone ==
    ASSUME RingTypeOK, sq = << >>, kernel = << >>, cq = << >>,
           NEW t \in Layers, NEW l \in Layers, SubmitOk(t, SlicesOf(l))
    PROVE  /\ sq' = << >> /\ Held' = Held
           /\ Len(kernel') + Len(cq') = NSlices
           /\ OneBatch(kernel', cq', t, l)
           /\ Covered(kernel', Held', t, l)
<1> DEFINE b == Batch(t, SlicesOf(l))
<1>1. /\ sq' = << >> /\ cq' = << >> /\ Held' = Held
      /\ Len(kernel') = Len(kernel) + NSlices
      /\ \A held : Covered(kernel', held, t, l)
    BY SubmitOkQueues
<1>2. Len(kernel') + Len(cq') = NSlices
    BY <1>1, EmptySeq, Bounds
<1>3. b \in Seq(Requests) /\ Len(b) = NSlices
      /\ \A i \in 1 .. NSlices : b[i] = [token |-> t, slab |-> <<l, i>>]
    BY BatchProperties
<1>4. DOMAIN b = 1 .. NSlices
    BY <1>3, LenProperties
<1>5. kernel' = b
    <2>1. kernel' = (<< >> \o << >>) \o b
        BY DEF SubmitOk
    <2>2. << >> \o << >> = << >> /\ << >> \o b = b
        BY <1>3, EmptySeq, ConcatEmptySeq
    <2> QED BY <2>1, <2>2
<1> HIDE DEF b
<1>6. \A i \in DOMAIN b : b[i].token = t /\ b[i].slab = <<l, i>>
    BY <1>3, <1>4
<1>7. \A i \in DOMAIN b : <<l, i>> \in SlabsOf(l)
    BY <1>4 DEF SlabsOf
<1>8. \A i, j \in DOMAIN b : b[i].slab = b[j].slab => i = j
    BY <1>6
<1>9. DOMAIN << >> = {}
    OBVIOUS
<1> QED BY <1>1, <1>2, <1>5, <1>6, <1>7, <1>8, <1>9 DEF OneBatch

\* A completion stays in its batch, and either fills its slab or leaves an error to be
\* reaped.
LEMMA CompleteBatch ==
    ASSUME RingTypeOK, Outcomes \subseteq {"ok", "error"}, Complete, NEW t, NEW l
    PROVE  /\ sq' = sq /\ Held \subseteq Held' /\ kernel # << >>
           /\ Len(kernel') + Len(cq') = Len(kernel) + Len(cq)
           /\ OneBatch(kernel, cq, t, l) =>
                OneBatch(kernel', cq', t, l) /\ Held' \subseteq Held \cup SlabsOf(l)
           /\ Covered(kernel, Held, t, l) \/ Failed(cq) =>
                Covered(kernel', Held', t, l) \/ Failed(cq')
<1> USE DEF RingTypeOK
<1>1. PICK i \in DOMAIN kernel, res \in Outcomes :
        /\ kernel' = RemoveAt(kernel, i)
        /\ cq' = Append(cq, [token |-> kernel[i].token, res |-> res])
        /\ IF res = "ok" THEN Fill({kernel[i].slab}) ELSE UNCHANGED memory
        /\ UNCHANGED sq
    BY DEF Complete
<1> DEFINE x == [token |-> kernel[i].token, res |-> res]
<1>2. x \in [token : Tokens, res : Outcomes] /\ x.token = kernel[i].token /\ x.res = res
    <2>1. kernel[i] \in Requests
        BY ElementOfSeq, LenProperties
    <2> QED BY <2>1 DEF Requests
<1>3. cq' = Append(cq, x)
    BY <1>1
<1> HIDE DEF x
<1>4. /\ Len(cq') = Len(cq) + 1 /\ Len(cq) \in Nat
      /\ DOMAIN cq' = 1 .. (Len(cq) + 1) /\ DOMAIN cq = 1 .. Len(cq)
      /\ \A j \in 1 .. Len(cq) : cq'[j] = cq[j]
      /\ cq'[Len(cq) + 1] = x
    BY <1>2, <1>3, AppendProperties, LenProperties
<1>5. /\ Len(kernel') = Len(kernel) - 1 /\ Len(kernel) \in Nat /\ i \in 1 .. Len(kernel)
      /\ DOMAIN kernel' = 1 .. (Len(kernel) - 1) /\ DOMAIN kernel = 1 .. Len(kernel)
      /\ \A j \in 1 .. (Len(kernel) - 1) : kernel'[j] = IF j < i THEN kernel[j] ELSE kernel[j + 1]
    <2> DEFINE rest == RemoveAt(kernel, i)
    <2>1. /\ rest \in Seq(Requests) /\ Len(rest) = Len(kernel) - 1
          /\ \A j \in 1 .. (Len(kernel) - 1) : rest[j] = IF j < i THEN kernel[j] ELSE kernel[j + 1]
        BY RemoveAtProperties
    <2>2. kernel' = rest
        BY <1>1
    <2> HIDE DEF rest
    <2>3. DOMAIN rest = 1 .. Len(rest) /\ DOMAIN kernel = 1 .. Len(kernel) /\ Len(kernel) \in Nat
        BY <2>1, LenProperties
    <2> QED BY <2>1, <2>2, <2>3
<1>6. Held' = Held \/ Held' = Held \cup {kernel[i].slab}
    BY <1>1, FillHeld DEF memory, Held
<1>7. ASSUME OneBatch(kernel, cq, t, l)
      PROVE  OneBatch(kernel', cq', t, l) /\ Held' \subseteq Held \cup SlabsOf(l)
    <2> DEFINE m(j) == IF j < i THEN j ELSE j + 1
    <2>0. /\ \A j \in DOMAIN kernel' : m(j) \in DOMAIN kernel /\ kernel'[j] = kernel[m(j)]
          /\ \A j, k \in DOMAIN kernel' : m(j) = m(k) => j = k
        BY <1>5
    <2> HIDE DEF m
    <2>1. \A j \in DOMAIN kernel' : kernel'[j].token = t /\ kernel'[j].slab \in SlabsOf(l)
        BY <1>7, <2>0 DEF OneBatch
    <2>2. \A j, k \in DOMAIN kernel' : kernel'[j].slab = kernel'[k].slab => j = k
        BY <1>7, <2>0 DEF OneBatch
    <2>3. \A j \in DOMAIN cq' : cq'[j].token = t
        <3> TAKE j \in DOMAIN cq'
        <3>1. CASE j \in 1 .. Len(cq)
            BY <1>4, <1>7, <3>1 DEF OneBatch
        <3>2. CASE j = Len(cq) + 1
            BY <1>2, <1>4, <1>7, <3>2 DEF OneBatch
        <3> QED BY <1>4, <3>1, <3>2
    <2>4. kernel[i].slab \in SlabsOf(l)
        BY <1>7 DEF OneBatch
    <2> QED BY <1>6, <2>1, <2>2, <2>3, <2>4 DEF OneBatch
<1>8. ASSUME Failed(cq)
      PROVE  Failed(cq')
    <2>1. PICK j \in DOMAIN cq : cq[j].res = "error"
        BY <1>8 DEF Failed
    <2>2. j \in DOMAIN cq' /\ cq'[j] = cq[j]
        BY <1>4
    <2> QED BY <2>1, <2>2 DEF Failed
<1>9. ASSUME Covered(kernel, Held, t, l)
      PROVE  Covered(kernel', Held', t, l) \/ Failed(cq')
    <2>1. CASE res = "ok"
        <3>1. Held' = Held \cup {kernel[i].slab}
            BY <1>1, <2>1, FillHeld
        <3> QED BY <1>1, <1>9, <3>1, CoveredComplete
    <2>2. CASE res = "error"
        <3>1. Len(cq) + 1 \in DOMAIN cq' /\ cq'[Len(cq) + 1].res = "error"
            BY <1>2, <1>4, <2>2
        <3> QED BY <3>1 DEF Failed
    <2> QED BY <2>1, <2>2
<1>10. sq' = sq /\ kernel # << >> /\ Len(kernel') + Len(cq') = Len(kernel) + Len(cq)
    BY <1>1, <1>4, <1>5, EmptySeq
<1> QED BY <1>6, <1>7, <1>8, <1>9, <1>10

\* A reap takes a completion of the batch, the error with it if it is one.
LEMMA ReapBatch ==
    ASSUME RingTypeOK, Reap, NEW t, NEW l
    PROVE  /\ sq' = sq /\ kernel' = kernel /\ Held' = Held
           /\ Len(cq) \in Nat \ {0} /\ Len(cq') = Len(cq) - 1 /\ Len(kernel) \in Nat
           /\ OneBatch(kernel, cq, t, l) => OneBatch(kernel', cq', t, l) /\ Head(cq).token = t
           /\ Failed(cq) => Failed(cq') \/ Head(cq).res = "error"
<1>1. cq \in Seq([token : Tokens, res : Outcomes]) /\ cq # << >> /\ cq' = Tail(cq)
    BY DEF RingTypeOK, Reap
<1>2. /\ kernel' = kernel /\ sq' = sq /\ Held' = Held
      /\ Len(cq) \in Nat \ {0} /\ Len(cq') = Len(cq) - 1 /\ Len(kernel) \in Nat
    BY ReapQueues, CountsNat
<1>3. /\ DOMAIN cq = 1 .. Len(cq) /\ DOMAIN cq' = 1 .. (Len(cq) - 1)
      /\ Head(cq) = cq[1] /\ \A j \in 1 .. (Len(cq) - 1) : cq'[j] = cq[j + 1]
    BY <1>1, HeadTailProperties, LenProperties
<1>4. ASSUME OneBatch(kernel, cq, t, l)
      PROVE  OneBatch(kernel', cq', t, l) /\ Head(cq).token = t
    <2>1. 1 \in DOMAIN cq /\ \A j \in DOMAIN cq' : j + 1 \in DOMAIN cq /\ cq'[j] = cq[j + 1]
        BY <1>2, <1>3
    <2>2. \A j \in DOMAIN cq : cq[j].token = t
        BY <1>4 DEF OneBatch
    <2>3. Head(cq).token = t /\ \A j \in DOMAIN cq' : cq'[j].token = t
        BY <1>3, <2>1, <2>2
    <2> QED BY <1>2, <1>4, <2>3 DEF OneBatch
<1>5. ASSUME Failed(cq)
      PROVE  Failed(cq') \/ Head(cq).res = "error"
    <2>1. PICK j \in DOMAIN cq : cq[j].res = "error"
        BY <1>5 DEF Failed
    <2>2. CASE j = 1
        BY <1>3, <2>1, <2>2
    <2>3. CASE j # 1
        <3>1. j - 1 \in DOMAIN cq' /\ cq'[j - 1] = cq[(j - 1) + 1] /\ (j - 1) + 1 = j
            BY <1>2, <1>3, <2>3
        <3> QED BY <2>1, <3>1 DEF Failed
    <2> QED BY <2>2, <2>3
<1> QED BY <1>2, <1>4, <1>5

-----------------------------------------------------------------------------
(* Residency, whatever way the layer that is marked was read.              *)

\* Only an eviction takes bytes away.
LEMMA HeldGrows ==
    ASSUME TypeInv, [Next]_vars
    PROVE  EvictLayer \/ Held \subseteq Held'
<1>1. CASE UNCHANGED memory
    BY <1>1 DEF memory, Held
<1>2. CASE KernelStep
    BY <1>2, FillHeld DEF KernelStep, Complete, memory, Held
<1>3. CASE ReclaimStep
    BY <1>3, ReclaimHeld DEF ReclaimStep
<1>4. CASE Pread
    BY <1>4, FillHeld DEF Pread, memory, Held
<1>5. CASE LoaderStep
    BY <1>1, <1>4, <1>5
    DEF LoaderStep, FillResidentLayers, SyncSubmit, SubmitOk, SubmitFail, SyncReap, Reap, ReapFails,
        SyncDone, DrainInflight, SubmitLayerAsync, Submit, EnsureLayer, EnsureReap,
        CountCompletion, GiveUp, EnsureDone
<1>6. CASE \E c \in Contexts : OnLayerBoundary(c) \/ Abort(c)
    BY <1>1, <1>6 DEF OnLayerBoundary, Abort
<1> QED BY <1>1, <1>2, <1>3, <1>5, <1>6 DEF Next, Finished, vars

\* Marking a layer that is held.
LEMMA ResidentMark ==
    ASSUME TypeInv, ResidentOK, MarkResident, busy' = busy, Held \subseteq Held',
           pc \in {"read", "pread", "wait"}, SlabsOf(cur + 1) \subseteq Held'
    PROVE  ResidentOK'
<1>1. /\ resident' = resident \cup {cur + 1} /\ cur \in -1 .. (NLayers - 1)
      /\ IF busy = {} THEN cur' = cur + 1 /\ pc' = "fill" ELSE cur' = cur /\ pc' = "evict"
    BY DEF MarkResident, TypeInv, TypeOK, Goto
<1> QED BY <1>1, Bounds DEF ResidentOK, Opened

\* Releasing a layer takes its mark away with its bytes.
LEMMA ResidentEvict ==
    ASSUME TypeInv, ResidentOK, EvictLayer
    PROVE  ResidentOK'
<1>1. /\ pc = "evict" /\ busy # {} /\ cur \in Layers /\ pc' = "run" /\ busy' = {} /\ cur' = cur
    BY Bounds DEF EvictLayer, TypeInv, TypeOK, PhaseOK, Goto
<1>2. CASE cur >= W /\ cur \in resident
    <2>1. resident' = resident \ {cur} /\ Held' = Held \ SlabsOf(cur)
        BY <1>2, AdviseHeld DEF EvictLayer, Release
    <2>2. \A l \in resident' : SlabsOf(l) \subseteq Held'
        BY <2>1, SlabsApart DEF ResidentOK
    <2>3. 0 .. (W - 1) \subseteq resident'
        BY <1>1, <1>2, <2>1, Bounds DEF ResidentOK, Opened
    <2> QED BY <1>1, <2>2, <2>3 DEF ResidentOK, Opened
<1>3. CASE ~(cur >= W /\ cur \in resident)
    <2>1. resident' = resident /\ Held' = Held
        BY <1>3 DEF EvictLayer, Release, memory, Held
    <2> QED BY <1>1, <2>1 DEF ResidentOK, Opened
<1> QED BY <1>2, <1>3

\* ResidentOK follows every step that marks a layer only once it is there.
LEMMA ResidentStep ==
    ASSUME TypeInv, ResidentOK, [Next]_vars,
           pc \in {"read", "pread", "wait"} /\ MarkResident => SlabsOf(cur + 1) \subseteq Held'
    PROVE  ResidentOK'
<1>1. CASE EvictLayer
    BY <1>1, ResidentEvict
<1>2. CASE Held \subseteq Held' /\ busy' = busy /\ pc \in {"read", "pread", "wait"} /\ MarkResident
    BY <1>2, ResidentMark
<1>3. CASE Held \subseteq Held' /\ FillResidentLayers
    <2>1. /\ pc = "fill" /\ busy = {} /\ ~Opened /\ cur \in -1 .. (NLayers - 1)
          /\ pc' = IF cur + 1 < W THEN "sync" ELSE "run"
          /\ UNCHANGED <<resident, cur, busy>>
        BY <1>3 DEF FillResidentLayers, TypeInv, TypeOK, PhaseOK, Opened, Goto, window, passing
    <2> QED BY <1>3, <2>1, Bounds DEF ResidentOK, Opened
<1>4. CASE Held \subseteq Held' /\ EnsureLayer
    <2>1. /\ pc = "ensure" /\ busy # {} /\ cur \in -1 .. (NLayers - 1)
          /\ pc' \in {"wait", "sync", "evict"}
          /\ pc' = "evict" => ~(cur + 1 >= W /\ cur + 1 < NLayers /\ cur + 1 \notin resident)
          /\ UNCHANGED <<resident, cur, busy>>
        BY <1>4 DEF EnsureLayer, TypeInv, TypeOK, PhaseOK, Goto, window, passing
    <2> QED BY <1>4, <2>1, Bounds DEF ResidentOK, Opened
<1>5. CASE /\ Held \subseteq Held' /\ UNCHANGED <<resident, cur, busy>>
           /\ pc' = pc \/ (pc # "run" /\ pc' \notin {"run", "evict"})
    BY <1>5 DEF ResidentOK, Opened
<1>6. ASSUME Held \subseteq Held', NEW c \in Contexts, OnLayerBoundary(c)
      PROVE  ResidentOK'
    BY <1>6 DEF OnLayerBoundary, Goto, ResidentOK, Opened
<1>7. CASE Held \subseteq Held' /\ LoaderStep
    BY <1>1, <1>2, <1>3, <1>4, <1>5, <1>7
    DEF LoaderStep, SyncSubmit, SyncReap, SyncDone, Pread, DrainInflight, Drained,
        SubmitLayerAsync, EnsureReap, EnsureDone, Goto, window, passing
<1>8. CASE Held \subseteq Held' /\ (KernelStep \/ ReclaimStep \/ (\E c \in Contexts : Abort(c)) \/ UNCHANGED vars)
    BY <1>5, <1>8 DEF KernelStep, ReclaimStep, Abort, vars, window, control, passing
<1> QED BY <1>1, <1>6, <1>7, <1>8, HeldGrows DEF Next, Finished

-----------------------------------------------------------------------------
(* One batch at a time.                                                    *)

\* No layer in flight: every count is zero.
LEMMA NoneInflightType == NoneInflight \in [Layers -> 0 .. NSlices] /\ \A l \in Layers : NoneInflight[l] = 0
BY Bounds DEF NoneInflight

\* A layer is marked only once its bytes are there.
LEMMA MarkSound ==
    ASSUME TypeInv, BatchOK, faults = {}, [Next]_vars,
           pc \in {"read", "pread", "wait"}, MarkResident
    PROVE  SlabsOf(cur + 1) \subseteq Held'
<1>1. CASE Pread
    BY <1>1, FillHeld DEF Pread
<1>2. cur + 1 \in Layers /\ RingTypeOK
    BY Bounds DEF TypeInv, TypeOK, PhaseOK
<1>3. pc' \in {"fill", "evict"} /\ pc # pc'
    BY DEF MarkResident, Goto
<1>4. CASE SyncDone
    <2>1. all_ok /\ pc = "read" /\ todo = 0 /\ Held' = Held
        BY <1>3, <1>4 DEF SyncDone, Goto, memory, Held
    <2>2. Len(kernel) + Len(cq) = 0 /\ (Covered(kernel, Held, 0, cur + 1) \/ Failed(cq))
        BY <2>1 DEF BatchOK, Reading
    <2>3. kernel = << >> /\ cq = << >>
        BY <1>2, <2>2, CountsNat
    <2>4. ~Failed(cq) /\ Count(kernel, 0) = 0
        BY <2>3, CountEmpty DEF Failed
    <2> QED BY <1>2, <2>1, <2>2, <2>4, CoveredNone DEF RingTypeOK
<1>5. CASE EnsureDone
    <2>1. all_ok /\ pc = "wait" /\ inflight[cur + 1] = 0 /\ Held' = Held
        BY <1>3, <1>5 DEF EnsureDone, Goto, memory, Held
    <2>2. /\ inflight = [NoneInflight EXCEPT ![cur + 1] = Len(kernel) + Len(cq)]
          /\ Covered(kernel, Held, cur + 1, cur + 1) \/ Failed(cq)
        BY <2>1 DEF BatchOK, Awaited
    <2>3. Len(kernel) + Len(cq) = 0
        BY <1>2, <2>1, <2>2, NoneInflightType
    <2>4. kernel = << >> /\ cq = << >>
        BY <1>2, <2>3, CountsNat
    <2>5. ~Failed(cq) /\ Count(kernel, cur + 1) = 0
        BY <2>4, CountEmpty DEF Failed
    <2> QED BY <1>2, <2>1, <2>2, <2>5, CoveredNone DEF RingTypeOK
<1> QED BY <1>1, <1>3, <1>4, <1>5
    DEF Next, KernelStep, ReclaimStep, LoaderStep, FillResidentLayers, SyncSubmit, SyncReap,
        DrainInflight, SubmitLayerAsync, EnsureLayer, EnsureReap, EvictLayer, OnLayerBoundary, Abort,
        Finished, vars, control

\* Steps that move the callback between points where the ring is idle.
LEMMA IdleStep ==
    ASSUME BatchOK, Idle, UNCHANGED <<ring, inflight>>, pc' \notin {"wait", "read"}
    PROVE  BatchOK'
BY DEF BatchOK, Idle, ring

\* io_uring_slab_read starts on an idle ring.
LEMMA SyncSubmitBatch ==
    ASSUME TypeInv, BatchOK, faults = {}, SyncSubmit
    PROVE  BatchOK'
<1>1. pc = "sync" /\ Idle /\ sq = << >> /\ RingTypeOK /\ cur + 1 \in Layers /\ 0 \in Layers
      /\ UNCHANGED <<uring, inflight, cur>>
    BY Bounds DEF SyncSubmit, BatchOK, TypeInv, TypeOK, PhaseOK, window
<1>2. CASE ~uring
    BY <1>1, <1>2, IdleStep DEF SyncSubmit, Goto
<1>3. CASE uring
    <2>1. SubmitOk(0, SlicesOf(cur + 1)) /\ pc' = "read" /\ todo' = NSlices
        BY <1>3 DEF SyncSubmit, SubmitFail, Goto
    <2>2. /\ sq' = << >> /\ Held' = Held
          /\ Len(kernel') + Len(cq') = NSlices
          /\ OneBatch(kernel', cq', 0, cur + 1)
          /\ Covered(kernel', Held', 0, cur + 1)
        BY <1>1, <2>1, SubmitAlone DEF Idle
    <2>3. Reading'
        BY <1>1, <1>3, <2>1, <2>2 DEF Reading, Idle
    <2> QED BY <2>1, <2>2, <2>3 DEF BatchOK
<1> QED BY <1>2, <1>3

\* io_uring_slab_read takes completions of its own batch only.
LEMMA SyncReapBatch ==
    ASSUME TypeInv, BatchOK, faults = {}, SyncReap
    PROVE  BatchOK'
<1>1. /\ pc = "read" /\ pc' = "read" /\ Reading /\ sq = << >> /\ RingTypeOK /\ Reap /\ todo' = todo - 1
      /\ todo \in 0 .. NSlices /\ UNCHANGED <<uring, inflight, cur>>
    BY DEF SyncReap, ReapFails, BatchOK, TypeInv, TypeOK, window
<1>2. /\ sq' = sq /\ kernel' = kernel /\ Held' = Held
      /\ Len(cq) \in Nat \ {0} /\ Len(cq') = Len(cq) - 1 /\ Len(kernel) \in Nat
      /\ OneBatch(kernel', cq', 0, cur + 1)
      /\ Failed(cq) => Failed(cq') \/ Head(cq).res = "error"
    BY <1>1, ReapBatch DEF Reading
<1>3. all_ok' => all_ok /\ Head(cq).res # "error"
    BY <1>1 DEF SyncReap, ReapFails
<1>4. Len(kernel') + Len(cq') = todo'
    BY <1>1, <1>2, Bounds DEF Reading
<1>5. Covered(kernel', Held', 0, cur' + 1) \/ Failed(cq') \/ ~all_ok'
    BY <1>1, <1>2, <1>3 DEF Reading
<1>6. Reading'
    BY <1>1, <1>2, <1>4, <1>5 DEF Reading
<1> QED BY <1>1, <1>2, <1>6 DEF BatchOK

\* io_uring_slab_read leaves an idle ring.
LEMMA SyncDoneBatch ==
    ASSUME TypeInv, BatchOK, SyncDone
    PROVE  BatchOK'
<1>1. pc = "read" /\ todo = 0 /\ Reading /\ RingTypeOK
    BY DEF SyncDone, BatchOK, TypeInv, TypeOK
<1>2. Idle
    BY <1>1, CountsNat DEF Reading, Idle
<1>3. UNCHANGED <<ring, inflight>> /\ pc' \in {"fill", "evict", "pread"}
    BY DEF SyncDone, MarkResident, Goto, window
<1> QED BY <1>2, <1>3, IdleStep

\* ensure_layer stops waiting when its batch is through.
LEMMA EnsureDoneBatch ==
    ASSUME TypeInv, BatchOK, EnsureDone
    PROVE  BatchOK'
<1>1. pc = "wait" /\ Awaited /\ RingTypeOK /\ cur + 1 \in Layers /\ inflight[cur + 1] = 0
    BY Bounds DEF EnsureDone, BatchOK, TypeInv, TypeOK, PhaseOK
<1>2. Len(kernel) + Len(cq) = 0
    BY <1>1, NoneInflightType DEF Awaited
<1>3. inflight = NoneInflight
    <2>1. inflight = [NoneInflight EXCEPT ![cur + 1] = 0] /\ NoneInflight[cur + 1] = 0
        BY <1>1, <1>2, NoneInflightType DEF Awaited
    <2> QED BY <2>1 DEF NoneInflight
<1>4. Idle
    BY <1>1, <1>2, <1>3, CountsNat DEF Idle
<1>5. UNCHANGED <<ring, inflight>> /\ pc' \in {"fill", "evict", "sync"}
    BY DEF EnsureDone, MarkResident, Goto, window
<1> QED BY <1>4, <1>5, IdleStep

\* ensure_layer takes completions of the layer it waits for.
LEMMA EnsureReapBatch ==
    ASSUME TypeInv, BatchOK, faults = {}, EnsureReap
    PROVE  BatchOK'
<1> DEFINE n == cur + 1
<1>1. /\ pc = "wait" /\ pc' = "wait" /\ Awaited /\ sq = << >> /\ RingTypeOK /\ Reap
      /\ n \in Layers /\ inflight' = CountDown(inflight, Head(cq).token)
      /\ UNCHANGED <<uring, resident, submitted_upto, cur>>
    BY Bounds DEF EnsureReap, CountCompletion, GiveUp, ReapFails, BatchOK, TypeInv, TypeOK, PhaseOK
<1>2. /\ sq' = sq /\ kernel' = kernel /\ Held' = Held
      /\ Len(cq) \in Nat \ {0} /\ Len(cq') = Len(cq) - 1 /\ Len(kernel) \in Nat
      /\ OneBatch(kernel', cq', n, n) /\ Head(cq).token = n
      /\ Failed(cq) => Failed(cq') \/ Head(cq).res = "error"
    BY <1>1, ReapBatch DEF Awaited
<1>3. all_ok' => all_ok /\ Head(cq).res # "error"
    BY <1>1 DEF EnsureReap, CountCompletion, GiveUp
<1>4. inflight' = [NoneInflight EXCEPT ![n] = Len(kernel') + Len(cq')]
    <2>1. inflight = [NoneInflight EXCEPT ![n] = Len(kernel) + Len(cq)]
        BY <1>1 DEF Awaited
    <2>2. inflight[n] = Len(kernel) + Len(cq) /\ inflight[n] > 0
        BY <1>1, <1>2, <2>1, NoneInflightType
    <2>3. inflight' = [inflight EXCEPT ![n] = inflight[n] - 1]
        BY <1>1, <1>2, <2>2 DEF CountDown
    <2>4. inflight[n] - 1 = Len(kernel') + Len(cq')
        BY <1>2, <2>2
    <2>5. inflight' = [inflight EXCEPT ![n] = Len(kernel') + Len(cq')]
        BY <2>3, <2>4
    <2> HIDE DEF n
    <2> QED BY <2>1, <2>5, NoneInflightType
<1>5. Covered(kernel', Held', n, n) \/ Failed(cq') \/ ~all_ok'
    BY <1>1, <1>2, <1>3 DEF Awaited
<1>6. Awaited'
    BY <1>1, <1>2, <1>4, <1>5 DEF Awaited
<1> QED BY <1>1, <1>2, <1>6 DEF BatchOK

\* drain_inflight leaves an idle ring.
LEMMA DrainInflightBatch ==
    ASSUME TypeInv, BatchOK, faults = {}, DrainInflight
    PROVE  BatchOK'
<1>1. pc = "drain" /\ Idle
    BY DEF DrainInflight, BatchOK
<1>2. inflight' = NoneInflight /\ pc' = "submit" /\ UNCHANGED ring
    BY <1>1 DEF DrainInflight, Drained, Idle, Goto
<1> QED BY <1>1, <1>2, IdleStep DEF Idle

\* The frontier is where the pass is, so the loop submits layer cur + 1 or nothing.
LEMMA SubmitLayerAsyncBatch ==
    ASSUME Ahead = 1, TypeInv, BatchOK, FrontierOK, faults = {}, SubmitLayerAsync
    PROVE  BatchOK'
<1> DEFINE k == submitted_upto + 1
<1>1. /\ pc = "submit" /\ sq = << >> /\ RingTypeOK /\ (Idle \/ Awaited)
      /\ cur = 0 \/ cur <= submitted_upto
      /\ cur \in -1 .. (NLayers - 1) /\ submitted_upto \in -1 .. (NLayers - 1)
      /\ inflight \in [Layers -> 0 .. NSlices]
      /\ UNCHANGED <<uring, resident, cur, all_ok>>
    BY DEF SubmitLayerAsync, BatchOK, FrontierOK, TypeInv, TypeOK
<1>2. CASE k <= Target /\ k < NLayers
    <2>1. Idle
        BY <1>1, <1>2 DEF Awaited, Target
    <2>2. Submit(k) /\ pc' = "submit" /\ k \in Layers /\ submitted_upto' = k
        BY <1>1, <1>2, Bounds DEF SubmitLayerAsync, Submit
    <2>3. CASE Declined(k)
        BY <2>1, <2>2, <2>3, IdleStep DEF Submit
    <2>4. CASE ~Declined(k)
        <3>1. SubmitOk(k, SlicesOf(k)) /\ inflight' = [inflight EXCEPT ![k] = NSlices]
            BY <2>2, <2>4 DEF Submit, SubmitFail
        <3>2. uring /\ k \notin resident /\ k \in W .. (NLayers - 1) /\ k = cur + 1
            BY <1>1, <1>2, <2>2, <2>4, Bounds DEF Declined, Target
        <3> HIDE DEF k
        <3>3. /\ sq' = << >> /\ Held' = Held
              /\ Len(kernel') + Len(cq') = NSlices
              /\ OneBatch(kernel', cq', k, k)
              /\ Covered(kernel', Held', k, k)
            BY <1>1, <2>1, <2>2, <3>1, SubmitAlone DEF Idle
        <3>4. inflight' = [NoneInflight EXCEPT ![k] = Len(kernel') + Len(cq')]
            BY <2>1, <3>1, <3>3 DEF Idle
        <3>5. Awaited'
            BY <1>1, <2>2, <3>2, <3>3, <3>4 DEF Awaited
        <3> QED BY <2>2, <3>3, <3>5 DEF BatchOK
    <2> QED BY <2>3, <2>4
<1>3. CASE ~(k <= Target /\ k < NLayers)
    <2>1. UNCHANGED <<sq, kernel, cq, inflight, submitted_upto>> /\ pc' = "ensure"
        BY <1>3 DEF SubmitLayerAsync, Goto, ring
    <2>2. Held' = Held
        BY <1>3 DEF SubmitLayerAsync, memory, Held
    <2>3. Idle' \/ Awaited'
        BY <1>1, <2>1, <2>2 DEF Idle, Awaited
    <2> QED BY <1>1, <2>1, <2>3 DEF BatchOK
<1> QED BY <1>2, <1>3

\* ensure_layer waits for the one batch there is.
LEMMA EnsureLayerBatch ==
    ASSUME TypeInv, BatchOK, EnsureLayer
    PROVE  BatchOK'
<1> DEFINE n == cur + 1
<1>1. /\ pc = "ensure" /\ sq = << >> /\ (Idle \/ Awaited) /\ cur \in -1 .. (NLayers - 1)
      /\ pc' = IF n >= W /\ n < NLayers /\ n \notin resident
               THEN IF uring /\ inflight[n] > 0 THEN "wait" ELSE "sync"
               ELSE "evict"
      /\ UNCHANGED <<sq, kernel, cq, uring, resident, inflight, submitted_upto, cur>>
    BY DEF EnsureLayer, BatchOK, TypeInv, TypeOK, Goto, ring, window
<1>2. Held' = Held
    BY DEF EnsureLayer, memory, Held
<1>3. CASE Idle
    <2>1. n \in Layers => inflight[n] = 0
        BY <1>3, NoneInflightType DEF Idle
    <2>2. pc' \notin {"wait", "read"}
        BY <1>1, <2>1, Bounds
    <2> QED BY <1>1, <1>3, <2>2, IdleStep DEF ring
<1>4. CASE Awaited
    <2>1. n \in Layers /\ n >= W /\ n < NLayers /\ n \notin resident /\ uring
        BY <1>1, <1>4, Bounds DEF Awaited
    <2>2. inflight[n] = NSlices
        BY <1>1, <1>4, <2>1, NoneInflightType DEF Awaited
    <2>3. pc' = "wait"
        BY <1>1, <2>1, <2>2, Bounds
    <2>4. Awaited'
        BY <1>1, <1>2, <1>4, <2>3 DEF Awaited
    <2> QED BY <1>1, <2>3, <2>4 DEF BatchOK
<1> QED BY <1>1, <1>3, <1>4

\* The kernel completes reads of the one batch, in any order.
LEMMA KernelBatch ==
    ASSUME Serial, TypeInv, BatchOK, KernelStep
    PROVE  BatchOK'
<1>1. /\ RingTypeOK /\ Complete /\ Outcomes \subseteq {"ok", "error"}
      /\ UNCHANGED <<uring, resident, inflight, submitted_upto, pc, cur, todo, all_ok>>
    BY DEF KernelStep, TypeInv, TypeOK, window, control, Serial
<1>2. sq' = sq /\ kernel # << >> /\ Len(kernel') + Len(cq') = Len(kernel) + Len(cq)
    BY <1>1, CompleteBatch
<1>3. ~Idle
    BY <1>2 DEF Idle
<1>4. ASSUME Awaited PROVE Awaited'
    <2>1. /\ OneBatch(kernel', cq', cur + 1, cur + 1)
          /\ Covered(kernel, Held, cur + 1, cur + 1) \/ Failed(cq) =>
                Covered(kernel', Held', cur + 1, cur + 1) \/ Failed(cq')
        BY <1>1, <1>4, CompleteBatch DEF Awaited
    <2> QED BY <1>1, <1>2, <1>4, <2>1 DEF Awaited
<1>5. ASSUME Reading PROVE Reading'
    <2>1. /\ OneBatch(kernel', cq', 0, cur + 1)
          /\ Covered(kernel, Held, 0, cur + 1) \/ Failed(cq) =>
                Covered(kernel', Held', 0, cur + 1) \/ Failed(cq')
        BY <1>1, <1>5, CompleteBatch DEF Reading
    <2> QED BY <1>1, <1>2, <1>5, <2>1 DEF Reading
<1> QED BY <1>1, <1>2, <1>3, <1>4, <1>5 DEF BatchOK

\* Steps that touch neither the ring nor what BatchOK says of the callback.
LEMMA StutterBatch ==
    ASSUME BatchOK, Held' = Held, UNCHANGED <<ring, uring, resident, inflight, submitted_upto>>,
           UNCHANGED control
    PROVE  BatchOK'
BY DEF BatchOK, Idle, Awaited, Reading, ring, control

\* Every step keeps one batch at a time.
LEMMA BatchStep ==
    ASSUME Serial, TypeInv, BatchOK, FrontierOK, faults = {}, [Next]_vars
    PROVE  BatchOK'
<1>1. CASE FillResidentLayers \/ EvictLayer \/ Pread
    <2>1. Idle /\ UNCHANGED <<ring, inflight>> /\ pc' \in {"sync", "run", "evict", "fill"}
        BY <1>1 DEF FillResidentLayers, EvictLayer, Pread, MarkResident, Goto, BatchOK, window
    <2> QED BY <2>1, IdleStep
<1>2. CASE LoaderStep
    BY <1>1, <1>2, SyncSubmitBatch, SyncReapBatch, SyncDoneBatch, DrainInflightBatch,
       SubmitLayerAsyncBatch, EnsureLayerBatch, EnsureReapBatch, EnsureDoneBatch DEF LoaderStep, Serial
<1>3. ASSUME NEW c \in Contexts, OnLayerBoundary(c) PROVE BatchOK'
    <2>1. Idle /\ UNCHANGED <<ring, inflight>> /\ pc' \in {"drain", "submit"}
        BY <1>3 DEF OnLayerBoundary, Goto, BatchOK
    <2> QED BY <2>1, IdleStep
<1>4. CASE KernelStep
    BY <1>4, KernelBatch
<1>5. CASE ReclaimStep
    BY <1>5, StutterBatch, ReclaimHeld DEF ReclaimStep, Reclaim, window
<1>6. CASE (\E c \in Contexts : Abort(c)) \/ UNCHANGED vars
    BY <1>6, StutterBatch DEF Abort, vars, window, memory, Held
<1> QED BY <1>2, <1>3, <1>4, <1>5, <1>6 DEF Next, Finished

-----------------------------------------------------------------------------
(* The frontier.                                                           *)

\* Every step keeps the frontier ahead of the pass.
LEMMA FrontierStep ==
    ASSUME Serial, TypeInv, PlaceOK, FrontierOK, faults = {}, [Next]_vars
    PROVE  FrontierOK'
<1>1. CASE EvictLayer
    <2>1. /\ pc = "evict" /\ pc' = "run" /\ busy # {} /\ cur \in Layers /\ cur = last_boundary
          /\ pos' = [c \in Contexts |-> IF c \in busy THEN (cur + 1) % NLayers ELSE pos[c]]
          /\ UNCHANGED <<submitted_upto, last_boundary, cur>>
        BY <1>1, Bounds DEF EvictLayer, Goto, TypeInv, TypeOK, PhaseOK
    <2>2. \A c \in Contexts : pos'[c] = (cur + 1) % NLayers
        BY <2>1 DEF Serial, OneContext, TypeInv, PhaseOK
    <2>3. CASE cur + 1 = NLayers
        <3>1. (cur + 1) % NLayers = 0
            BY <2>3, Bounds
        <3> QED BY <2>1, <2>2, <3>1 DEF FrontierOK
    <2>4. CASE cur + 1 # NLayers
        <3>1. (cur + 1) % NLayers = cur + 1 /\ cur + 1 < NLayers
            BY <2>1, <2>4, Bounds
        <3> QED BY <2>1, <2>2, <3>1 DEF FrontierOK
    <2> QED BY <2>3, <2>4
<1>2. CASE FillResidentLayers
    <2>1. /\ pc = "fill" /\ pc' \in {"sync", "run"} /\ busy = {} /\ ~Opened
          /\ UNCHANGED <<submitted_upto, last_boundary, cur, busy, pos>>
        BY <1>2 DEF FillResidentLayers, Goto, TypeInv, TypeOK, PhaseOK, Opened, window, passing
    <2> QED BY <2>1 DEF FrontierOK, PlaceOK
<1>3. ASSUME NEW c \in Contexts, OnLayerBoundary(c) PROVE FrontierOK'
    <2>1. /\ pc = "run" /\ cur' = pos[c] /\ pc' = IF pos[c] <= last_boundary THEN "drain" ELSE "submit"
          /\ submitted_upto' = submitted_upto /\ last_boundary \in -1 .. (NLayers - 1)
        BY <1>3 DEF OnLayerBoundary, Goto, TypeInv, TypeOK
    <2>2. pos[c] = 0 \/ (pos[c] = last_boundary + 1 /\ pos[c] <= submitted_upto)
        BY <2>1 DEF FrontierOK
    <2> QED BY <2>1, <2>2 DEF FrontierOK
<1>4. ASSUME NEW c \in Contexts, Abort(c) PROVE FrontierOK'
    <2>1. /\ pc = "run" /\ \A d \in Contexts : pos'[d] \in {0, pos[d]}
          /\ UNCHANGED <<pc, cur, submitted_upto, last_boundary>>
        BY <1>4 DEF Abort, TypeInv, TypeOK, window, control
    <2> QED BY <2>1 DEF FrontierOK
<1>5. CASE DrainInflight
    <2>1. pc = "drain" /\ pc' \in {"drain", "submit"} /\ cur' = cur
        BY <1>5 DEF DrainInflight, Drained, Goto
    <2> QED BY <2>1 DEF FrontierOK
<1>6. CASE SubmitLayerAsync
    <2>1. /\ pc = "submit" /\ cur' = cur
          /\ cur \in -1 .. (NLayers - 1) /\ submitted_upto \in -1 .. (NLayers - 1)
          /\ \/ pc' = "submit" /\ submitted_upto' = submitted_upto + 1
             \/ /\ ~(submitted_upto + 1 <= cur + 1 /\ submitted_upto + 1 < NLayers)
                /\ pc' = "ensure" /\ submitted_upto' = submitted_upto
        BY <1>6, Bounds DEF SubmitLayerAsync, Submit, Target, Goto, TypeInv, TypeOK, Serial
    <2> QED BY <2>1, Bounds DEF FrontierOK
<1>7. CASE /\ pc \in {"ensure", "wait", "sync", "read", "pread"}
           /\ pc' \in {"wait", "sync", "read", "pread", "evict", "fill"}
           /\ UNCHANGED <<submitted_upto, last_boundary, busy>>
           /\ busy # {} => cur' = cur
    BY <1>7 DEF FrontierOK
<1>8. CASE LoaderStep
    BY <1>1, <1>2, <1>5, <1>6, <1>7, <1>8
    DEF LoaderStep, SyncSubmit, SyncReap, SyncDone, Pread, MarkResident, EnsureLayer, EnsureReap,
        EnsureDone, Goto, window, passing
<1>9. CASE KernelStep \/ ReclaimStep \/ UNCHANGED vars
    <2>1. UNCHANGED <<pc, cur, pos, busy, submitted_upto, last_boundary>>
        BY <1>9 DEF KernelStep, ReclaimStep, vars, window, control, passing
    <2> QED BY <2>1 DEF FrontierOK
<1> QED BY <1>3, <1>4, <1>8, <1>9 DEF Next, Finished

\* The ring is idle at first.
LEMMA SerialInit == Init => SerialInv
<1> SUFFICES ASSUME Init PROVE SerialInv
    OBVIOUS
<1>1. TypeInv /\ ResidentOK
    BY TypeInit, OkInit DEF OkInv
<1>2. BatchOK /\ FrontierOK /\ PlaceOK
    BY DEF Init, RingInit, BatchOK, FrontierOK, PlaceOK, Idle, Opened
<1> QED BY <1>1, <1>2 DEF SerialInv, SerialOk

\* The serial invariant is inductive.
LEMMA SerialStep ==
    ASSUME Serial
    PROVE  SerialInv /\ [Next]_vars => SerialInv'
<1> SUFFICES ASSUME SerialInv, [Next]_vars PROVE SerialInv'
    OBVIOUS
<1>1. TypeInv' /\ faults' = faults
    BY TypeStep, FaultsStep DEF SerialInv
<1>2. ASSUME faults = {} PROVE SerialOk'
    <2>1. TypeInv /\ BatchOK /\ FrontierOK /\ ResidentOK /\ PlaceOK
        BY <1>2 DEF SerialInv, SerialOk
    <2>2. BatchOK' /\ FrontierOK'
        BY <1>2, <2>1, BatchStep, FrontierStep
    <2>3. ResidentOK'
        BY <1>2, <2>1, MarkSound, ResidentStep
    <2>4. PlaceOK'
        BY <2>1, PlaceStep DEF Serial
    <2> QED BY <2>2, <2>3, <2>4 DEF SerialOk
<1> QED BY <1>1, <1>2 DEF SerialInv

-----------------------------------------------------------------------------
(* What follows.                                                           *)

\* Where reads fail but one layer is read ahead, a layer marked resident is there: the
\* fallback to a synchronous read and then to pread starts on an idle ring.
THEOREM SerialResidentFilled ==
    ASSUME Serial
    PROVE  Spec => []ResidentFilled
<1>1. SerialInv => ResidentFilled
    BY DEF SerialInv, SerialOk, ResidentOK, ResidentFilled
<1> QED BY <1>1, SerialInit, SerialStep, PTL DEF Spec

\* Nor does a pass compute a layer that is not there.
THEOREM SerialComputedFilled ==
    ASSUME Serial
    PROVE  Spec => []ComputedFilled
<1>1. SerialInv => ComputedFilled
    <2> SUFFICES ASSUME SerialInv, faults = {}, pc = "run" \/ busy # {},
                        NEW c \in Contexts, c \notin busy
                 PROVE  SlabsOf(pos[c]) \subseteq Held
        BY DEF ComputedFilled
    <2>1. pc = "run"
        BY DEF SerialInv, TypeInv, PhaseOK, Serial, OneContext
    <2> QED BY <2>1 DEF SerialInv, SerialOk, PlaceOK, ResidentOK
<1> QED BY <1>1, SerialInit, SerialStep, PTL DEF Spec

\* A batch counts in full for its token.
LEMMA OneBatchCounts ==
    ASSUME RingTypeOK, NEW t, NEW l, OneBatch(kernel, cq, t, l), NEW m
    PROVE  Outstanding(m) = IF m = t THEN Len(kernel) + Len(cq) ELSE 0
<1>1. /\ kernel \in Seq(Requests) /\ \A i \in DOMAIN kernel : kernel[i].token = t
      /\ cq \in Seq([token : Tokens, res : Outcomes]) /\ \A i \in DOMAIN cq : cq[i].token = t
    BY DEF RingTypeOK, OneBatch
<1>2. Outstanding(m) = Count(kernel, m) + Count(cq, m)
    BY DEF Outstanding, Count, Places
<1>3. CASE m = t
    <2>1. Count(kernel, m) = Len(kernel) /\ Count(cq, m) = Len(cq)
        BY <1>1, <1>3, CountFull
    <2> QED BY <1>2, <1>3, <2>1
<1>4. CASE m # t
    <2>1. Count(kernel, m) = 0 /\ Count(cq, m) = 0
        BY <1>1, <1>4, CountType
    <2> QED BY <1>2, <1>4, <2>1
<1> QED BY <1>3, <1>4

\* An idle ring has no request of anyone.
LEMMA IdleBatch == Idle => \A t, l : OneBatch(kernel, cq, t, l) /\ Len(kernel) + Len(cq) = 0
BY EmptySeq DEF Idle, OneBatch

\* The counts of dense_inflight_ are exact where one layer is read ahead, in spite of
\* failing reads, retries and any order of completion.
THEOREM SerialInflightExact ==
    ASSUME Serial
    PROVE  Spec => []InflightExact
<1>1. SerialInv => InflightExact
    <2> SUFFICES ASSUME SerialInv, faults = {}, NEW l \in W .. (NLayers - 1)
                 PROVE  inflight[l] = Outstanding(l)
        BY DEF InflightExact
    <2>1. RingTypeOK /\ BatchOK /\ l \in Layers /\ l # 0 /\ NoneInflight[l] = 0
        BY Bounds, NoneInflightType DEF SerialInv, SerialOk, TypeInv, TypeOK
    <2>2. CASE Idle
        <3>1. Outstanding(l) = IF l = 0 THEN Len(kernel) + Len(cq) ELSE 0
            BY <2>1, <2>2, IdleBatch, OneBatchCounts
        <3> QED BY <2>1, <2>2, <3>1 DEF Idle
    <2>3. CASE Awaited
        <3>1. /\ Outstanding(l) = IF l = cur + 1 THEN Len(kernel) + Len(cq) ELSE 0
              /\ inflight = [NoneInflight EXCEPT ![cur + 1] = Len(kernel) + Len(cq)]
            BY <2>1, <2>3, OneBatchCounts DEF Awaited
        <3> QED BY <2>1, <3>1, NoneInflightType
    <2>4. CASE Reading
        <3>1. Outstanding(l) = IF l = 0 THEN Len(kernel) + Len(cq) ELSE 0
            BY <2>1, <2>4, OneBatchCounts DEF Reading
        <3> QED BY <2>1, <2>4, <3>1 DEF Reading
    <2> QED BY <2>1, <2>2, <2>3, <2>4 DEF BatchOK, SerialInv, TypeInv, TypeOK
<1> QED BY <1>1, SerialInit, SerialStep, PTL DEF Spec

\* No slab is ever the target of two reads at once.
THEOREM SerialOneReadPerSlab ==
    ASSUME Serial
    PROVE  Spec => []OneReadPerSlab
<1>1. SerialInv => OneReadPerSlab
    <2> SUFFICES ASSUME SerialInv, faults = {}
                 PROVE  \A i, j \in DOMAIN kernel : kernel[i].slab = kernel[j].slab => i = j
        BY DEF OneReadPerSlab
    <2>1. Idle \/ Awaited \/ Reading
        BY DEF SerialInv, SerialOk, BatchOK, TypeInv, TypeOK
    <2> QED BY <2>1, IdleBatch DEF Awaited, Reading, OneBatch
<1> QED BY <1>1, SerialInit, SerialStep, PTL DEF Spec

\* The slab path implements LayerService with failing reads too, as long as it reads one
\* layer ahead.
THEOREM SerialServiceImplemented ==
    ASSUME Serial, FaultSets = {{}}
    PROVE  Spec => ServiceProvided
<1>1. SerialInv /\ [Next]_vars => [Service!Next]_(Service!vars)
    <2>1. SerialInv => TypeInv /\ ResidentOK /\ faults = {}
        BY DEF SerialInv, SerialOk, TypeInv, TypeOK, RingTypeOK
    <2> QED BY <2>1, ServiceNext DEF Serial
<1> QED BY <1>1, SerialInit, SerialStep, ServiceInit, PTL DEF Spec, ServiceProvided, Service!Spec

-----------------------------------------------------------------------------
(* The memory of the streamed tail, while graphs run to their end.         *)

\* Behind the pass nothing is left.
Bare(l) == SlabsOf(l) \cap Held = {}

TailOK ==
    /\ ~Opened => \A l \in W .. (NLayers - 1) : Bare(l)
    /\ pc = "run" => \A l \in W .. (NLayers - 1) : Bare(l) \/ \E c \in Contexts : l = pos[c]
    /\ busy # {} => /\ cur \in resident
                    /\ \A l \in W .. (NLayers - 1) : l \notin {cur, cur + 1} => Bare(l)

\* Slabs of one layer leave the other layers bare.
LEMMA BareKept ==
    ASSUME NEW m, Held' \subseteq Held \cup SlabsOf(m), NEW l, l # m, Bare(l)
    PROVE  Bare(l)'
<1>1. SlabsOf(l) \cap SlabsOf(m) = {}
    BY SlabsApart
<1> QED BY <1>1 DEF Bare

\* Bytes arrive for layer cur + 1 only.
LEMMA HeldNext ==
    ASSUME Serial, TypeInv, BatchOK, [Next]_vars
    PROVE  /\ Held' \subseteq Held \cup SlabsOf(cur + 1)
           /\ pc = "run" => Held' \subseteq Held
<1>1. CASE UNCHANGED memory
    BY <1>1 DEF memory, Held
<1>2. CASE KernelStep
    <2>1. RingTypeOK /\ Complete /\ Outcomes \subseteq {"ok", "error"}
        BY <1>2 DEF KernelStep, TypeInv, TypeOK, Serial
    <2>2. kernel # << >>
        BY <2>1, CompleteBatch
    <2>3. \E t : OneBatch(kernel, cq, t, cur + 1)
        BY <2>2 DEF BatchOK, Idle, Awaited, Reading, TypeInv, TypeOK
    <2>4. Held' \subseteq Held \cup SlabsOf(cur + 1)
        BY <2>1, <2>3, CompleteBatch
    <2> QED BY <2>2, <2>4 DEF BatchOK, Idle
<1>3. CASE ReclaimStep
    BY <1>3, ReclaimHeld DEF ReclaimStep
<1>4. CASE Pread
    BY <1>4, FillHeld DEF Pread, memory, Held
<1>5. CASE EvictLayer
    BY <1>5, AdviseHeld DEF EvictLayer, Release, memory, Held
<1>6. CASE LoaderStep
    BY <1>1, <1>4, <1>5, <1>6
    DEF LoaderStep, FillResidentLayers, SyncSubmit, SubmitOk, SubmitFail, SyncReap, Reap, ReapFails,
        SyncDone, DrainInflight, SubmitLayerAsync, Submit, EnsureLayer, EnsureReap,
        CountCompletion, GiveUp, EnsureDone
<1>7. CASE \E c \in Contexts : OnLayerBoundary(c) \/ Abort(c)
    BY <1>1, <1>7 DEF OnLayerBoundary, Abort
<1> QED BY <1>1, <1>2, <1>3, <1>6, <1>7 DEF Next, Finished, vars

\* Every step keeps the tail of the model bare.
LEMMA TailStep ==
    ASSUME Serial, ~Aborts, TypeInv, SerialOk, TailOK, [Next]_vars
    PROVE  TailOK'
<1> DEFINE Tails == W .. (NLayers - 1)
<1>1. /\ Held' \subseteq Held \cup SlabsOf(cur + 1) /\ (pc = "run" => Held' \subseteq Held)
      /\ cur \in -1 .. (NLayers - 1)
    BY HeldNext DEF SerialOk, TypeInv, TypeOK
<1>2. \A l \in Tails : Bare(l) /\ (pc = "run" \/ l # cur + 1) => Bare(l)'
    BY <1>1, BareKept DEF Bare
<1>3. CASE EvictLayer
    <2>1. /\ pc = "evict" /\ busy # {} /\ pc' = "run" /\ busy' = {} /\ cur \in Layers /\ cur \in resident
          /\ pos' = [c \in Contexts |-> IF c \in busy THEN (cur + 1) % NLayers ELSE pos[c]]
        BY <1>3, Bounds DEF EvictLayer, Goto, TypeInv, TypeOK, PhaseOK, TailOK
    <2>2. \A c \in Contexts : pos'[c] = (cur + 1) % NLayers
        BY <2>1 DEF Serial, OneContext, TypeInv, PhaseOK
    <2>3. \A l \in Tails : l = cur + 1 => \E c \in Contexts : l = pos'[c]
        <3> SUFFICES ASSUME cur + 1 < NLayers PROVE \E c \in Contexts : cur + 1 = pos'[c]
            BY <2>1, Bounds
        <3>1. (cur + 1) % NLayers = cur + 1
            BY <2>1, Bounds
        <3> QED BY <2>1, <2>2, <3>1 DEF TypeInv, PhaseOK
    <2>4. \A l \in Tails : l = cur => Bare(l)'
        <3>1. cur >= W => Held' = Held \ SlabsOf(cur)
            BY <1>3, <2>1, AdviseHeld DEF EvictLayer, Release
        <3> QED BY <3>1, Bounds DEF Bare
    <2>5. \A l \in Tails : Bare(l)' \/ \E c \in Contexts : l = pos'[c]
        <3> TAKE l \in Tails
        <3>1. CASE l = cur
            BY <2>4, <3>1
        <3>2. CASE l = cur + 1
            BY <2>3, <3>2
        <3>3. CASE l # cur /\ l # cur + 1
            BY <1>2, <2>1, <3>3 DEF TailOK
        <3> QED BY <3>1, <3>2, <3>3
    <2> QED BY <2>1, <2>5 DEF TailOK, Opened
<1>4. CASE FillResidentLayers
    <2>1. /\ pc = "fill" /\ busy = {} /\ UNCHANGED busy /\ pc' \in {"sync", "run"} /\ ~Opened
        BY <1>4 DEF FillResidentLayers, Goto, TypeInv, PhaseOK, Opened, passing
    <2>2. Held' = Held
        BY <1>4 DEF FillResidentLayers, memory, Held
    <2> QED BY <2>1, <2>2 DEF TailOK, Opened, Bare
<1>5. ASSUME NEW c \in Contexts, OnLayerBoundary(c) PROVE TailOK'
    <2>1. /\ pc = "run" /\ busy' = {c} /\ cur' = pos[c] /\ resident' = resident
          /\ pc' \in {"drain", "submit"} /\ pos[c] \in resident
        BY <1>5 DEF OnLayerBoundary, Goto, SerialOk, PlaceOK
    <2>2. Held' = Held
        BY <1>5 DEF OnLayerBoundary, memory, Held
    <2>3. \A d \in Contexts : pos[d] = pos[c]
        BY DEF Serial, OneContext
    <2> QED BY <2>1, <2>2, <2>3 DEF TailOK, Opened, Bare
<1>6. CASE /\ UNCHANGED <<busy, pos>> /\ pc # "run" /\ pc' # "run" /\ resident \subseteq resident'
           /\ cur' = cur \/ busy = {}
    <2>1. CASE busy # {}
        BY <1>2, <1>6, <2>1 DEF TailOK, Opened
    <2>2. CASE busy = {}
        <3>1. pc # "fill" => cur + 1 < W
            BY <1>6, <2>2 DEF TypeInv, PhaseOK, Opened
        <3>2. pc = "fill" => KernelStep \/ ReclaimStep \/ FillResidentLayers \/ UNCHANGED vars
            BY <1>6 DEF Next, LoaderStep, SyncSubmit, SyncReap, SyncDone, Pread, DrainInflight,
                SubmitLayerAsync, EnsureLayer, EnsureReap, EnsureDone, EvictLayer, OnLayerBoundary,
                Abort, Finished
        <3>3. CASE pc # "fill"
            <4>1. \A l \in Tails : l # cur + 1
                BY <1>1, <3>1, <3>3, Bounds
            <4> QED BY <1>2, <1>6, <2>2, <4>1 DEF TailOK, Opened
        <3>4. CASE pc = "fill"
            <4>1. Held' = Held
                <5>1. CASE KernelStep
                    <6>1. kernel # << >>
                        BY <5>1, CompleteBatch DEF KernelStep, Serial, TypeInv, TypeOK
                    <6> QED BY <3>4, <6>1 DEF SerialOk, BatchOK, Idle
                <5> QED BY <3>2, <3>4, <5>1, ReclaimHeld
                        DEF ReclaimStep, FillResidentLayers, vars, memory, Held
            <4> QED BY <1>6, <2>2, <4>1 DEF TailOK, Opened, Bare
        <3> QED BY <3>3, <3>4
    <2> QED BY <2>1, <2>2
<1>7. CASE UNCHANGED <<busy, pos, pc, resident, cur>> /\ pc = "run"
    <2>1. busy = {}
        BY <1>7 DEF TypeInv, PhaseOK
    <2> QED BY <1>2, <1>7, <2>1 DEF TailOK, Opened
<1>8. CASE LoaderStep
    BY <1>3, <1>4, <1>6, <1>8
    DEF LoaderStep, SyncSubmit, SyncReap, SyncDone, Pread, MarkResident, DrainInflight, Drained,
        SubmitLayerAsync, EnsureLayer, EnsureReap, EnsureDone, Goto, window, passing
<1>9. CASE KernelStep \/ ReclaimStep \/ UNCHANGED vars
    BY <1>6, <1>7, <1>9 DEF KernelStep, ReclaimStep, vars, window, control, passing
<1> QED BY <1>5, <1>8, <1>9 DEF Next, Finished, Abort

\* Where one layer is read ahead and graphs run to their end, at most two streamed layers
\* occupy memory that the kernel cannot take back.
THEOREM SerialFootprint ==
    ASSUME Serial, ~Aborts, FaultSets = {{}}
    PROVE  Spec => []FootprintNearAhead
<1> DEFINE TailInv == SerialInv /\ TailOK
<1>1. Init => TailInv
    BY SerialInit DEF Init, RingInit, TailOK, Opened, Bare, Held
<1>2. SerialInv => TypeInv /\ SerialOk
    BY DEF SerialInv, TypeInv, TypeOK, RingTypeOK
<1>3. TailInv /\ [Next]_vars => TailInv'
    BY <1>2, SerialStep, TailStep
<1>4. TailInv => FootprintNearAhead
    <2> SUFFICES ASSUME TypeInv, SerialOk, TailOK PROVE Cardinality(Occupied) <= 2
        BY <1>2 DEF FootprintNearAhead, Serial
    <2>1. ASSUME NEW l \in Occupied PROVE l \in W .. (NLayers - 1)
                /\ (Bare(l) => \E i \in DOMAIN kernel : kernel[i].slab \in SlabsOf(l))
        BY DEF Occupied, Bare
    <2>2. \A i \in DOMAIN kernel : kernel[i].slab \in SlabsOf(cur + 1) /\ pc # "run"
        BY DEF SerialOk, BatchOK, Idle, Awaited, Reading, OneBatch, TypeInv, TypeOK
    <2>3. ASSUME NEW l \in Occupied, Bare(l) PROVE l = cur + 1 /\ pc # "run"
        BY <2>1, <2>2, <2>3, SlabsApart
    <2>4. \E a : \A l \in Occupied : l \in {a, cur + 1}
        <3>1. CASE busy # {}
            BY <2>1, <2>3, <3>1 DEF TailOK
        <3>2. CASE pc = "run"
            <4>1. \A l \in Occupied : ~Bare(l)
                BY <2>3, <3>2
            <4>2. \A l \in Occupied : \E c \in Contexts : l = pos[c]
                BY <2>1, <3>2, <4>1 DEF TailOK
            <4> QED BY <4>2 DEF Serial, OneContext
        <3>3. CASE ~Opened
            BY <2>1, <2>3, <3>3 DEF TailOK
        <3> QED BY <3>1, <3>2, <3>3 DEF Opened
    <2>5. PICK a : Occupied \subseteq {a, cur + 1}
        BY <2>4
    <2>6. IsFiniteSet({a, cur + 1}) /\ Cardinality({a, cur + 1}) <= 2
        <3>1. IsFiniteSet({cur + 1}) /\ Cardinality({cur + 1}) = 1
            BY FS_Singleton
        <3>2. {a, cur + 1} = {cur + 1} \cup {a}
            OBVIOUS
        <3> QED BY <3>1, <3>2, FS_AddElement
    <2> QED BY <2>5, <2>6, FS_Subset, FS_CardinalityType
<1> QED BY <1>1, <1>3, <1>4, PTL DEF Spec

=============================================================================
