----------------------------- MODULE UringSlab -----------------------------
(***************************************************************************)
(* The batched io_uring reader of guanaco_io_uring.cpp and the kernel      *)
(* behind it.  A request carries the token of its batch and fills one      *)
(* slab; a completion carries the token and a result, but not the slab.    *)
(* Reads finish in any order (unless InOrder), completions wait in the     *)
(* completion queue, and a reap takes the oldest one, whichever batch it   *)
(* belongs to.                                                             *)
(*                                                                         *)
(* A batch is smaller than the ring (io_queue_depth = 256, a layer has     *)
(* about a dozen tensors), so the queue-full flush and the 128-slice       *)
(* chunking of io_uring_slab_read never split a batch here.                *)
(***************************************************************************)
EXTENDS Integers, SequencesExt

CONSTANTS
    Tokens,        \* tokens of batches
    Slabs,         \* destinations: the private slab of one tensor each
    Outcomes,      \* what a read may end with: "ok", "error" (res < 0) or
                   \* "short" (res >= 0, fewer bytes than asked for)
    InOrder,       \* the device finishes a batch before it starts the next
    FaultSets      \* the sets of faults that one run of the program may meet:
                   \* "timeout", a reap gives up (GUANACO_REAP_MS is set, or
                   \* a signal interrupts the wait); "submit", io_uring_submit
                   \* fails; "pread", a pread of the fallback fails

ASSUME RingAssumption ==
    /\ Outcomes \subseteq {"ok", "error", "short"}
    /\ "ok" \in Outcomes
    /\ InOrder \in BOOLEAN
    /\ FaultSets \subseteq SUBSET {"timeout", "submit", "pread"}

VARIABLES
    faults,  \* the faults of this run, a member of FaultSets
    sq,      \* requests prepared but not taken by the kernel, in order
    kernel,  \* requests the kernel works on, in the order of submission
    cq,      \* completion queue
    filled,  \* slabs that hold the bytes of their tensor
    lazy     \* filled slabs the kernel may take back (MADV_FREE)

ring == <<sq, kernel, cq>>
memory == <<filled, lazy>>

Requests == [token : Tokens, slab : Slabs]

RingTypeOK ==
    /\ faults \in FaultSets
    /\ sq \in Seq(Requests)
    /\ kernel \in Seq(Requests)
    /\ cq \in Seq([token : Tokens, res : Outcomes])
    /\ filled \subseteq Slabs
    /\ lazy \subseteq filled

RingInit ==
    /\ faults \in FaultSets
    /\ sq = << >>
    /\ kernel = << >>
    /\ cq = << >>
    /\ filled = {}
    /\ lazy = {}

\* One request per slice, each tagged with the token of the batch.
Batch(token, slabs) == [i \in DOMAIN slabs |-> [token |-> token, slab |-> slabs[i]]]

\* io_uring_slab_submit returned the number of slices: the kernel has them,
\* and with them whatever an earlier failed submit left behind.
SubmitOk(token, slabs) ==
    /\ kernel' = kernel \o sq \o Batch(token, slabs)
    /\ sq' = << >>
    /\ UNCHANGED <<cq, memory>>

\* It returned -1: the requests stay prepared and go out with the next batch.
SubmitFail(token, slabs) ==
    /\ "submit" \in faults
    /\ sq' = sq \o Batch(token, slabs)
    /\ UNCHANGED <<kernel, cq, memory>>

\* Bytes are written into slabs, which takes back that they were given up.
Fill(slabs) ==
    /\ filled' = filled \cup slabs
    /\ lazy' = lazy \ slabs

\* madvise on a slab: MADV_DONTNEED drops its pages, MADV_FREE only lets go of them.
Advise(slabs, advice) ==
    IF advice = "dontneed"
    THEN filled' = filled \ slabs /\ lazy' = lazy \ slabs
    ELSE lazy' = lazy \cup (slabs \cap filled) /\ UNCHANGED filled

\* The kernel finishes one read: the bytes land and the completion is posted.
Complete ==
    \E i \in DOMAIN kernel, res \in Outcomes :
        /\ InOrder => \A j \in 1 .. i : kernel[j].token = kernel[i].token
        /\ kernel' = RemoveAt(kernel, i)
        /\ cq' = Append(cq, [token |-> kernel[i].token, res |-> res])
        /\ IF res = "ok" THEN Fill({kernel[i].slab}) ELSE UNCHANGED memory
        /\ UNCHANGED sq

\* Under memory pressure the kernel takes back a page that was given up and not
\* written since.
Reclaim ==
    \E s \in lazy :
        /\ filled' = filled \ {s}
        /\ lazy' = lazy \ {s}
        /\ UNCHANGED ring

\* io_uring_slab_reap returned true: the oldest completion.
Reap ==
    /\ cq # << >>
    /\ cq' = Tail(cq)
    /\ UNCHANGED <<sq, kernel, memory>>

\* It returned false: the wait ended before anything completed.
ReapFails ==
    /\ "timeout" \in faults
    /\ cq = << >>
    /\ UNCHANGED <<ring, memory>>

=============================================================================
