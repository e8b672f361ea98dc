---------------------------- MODULE LayerService ----------------------------
(***************************************************************************)
(* What the layer-window pager promises to forward passes, without slabs,  *)
(* rings, frontiers or counts: bytes of layers appear in any order, a pass *)
(* moves to a layer only once its bytes are there, and bytes go away only  *)
(* with a pass that leaves a streamed layer, and only if no other pass is  *)
(* in that layer.                                                          *)
(***************************************************************************)
EXTENDS Integers

CONSTANTS
    NLayers,   \* layers of the model
    W,         \* layers of the resident prefix
    Contexts   \* forward passes that share the weights

Layers == 0 .. (NLayers - 1)

\* What the loader guarantees of the window: at least one layer is resident.
WindowAssumption ==
    /\ NLayers \in Nat \ {0}
    /\ W \in 1 .. NLayers

VARIABLES
    ready,  \* layers whose bytes are all in memory
    open,   \* the resident prefix has been read; passes may run
    pos     \* per context, the layer it computes

vars == <<ready, open, pos>>

Init ==
    /\ ready = {}
    /\ open = FALSE
    /\ pos = [c \in Contexts |-> 0]

\* The bytes of a layer are complete.
Fetch(l) ==
    /\ ready' = ready \cup {l}
    /\ UNCHANGED <<open, pos>>

\* The resident prefix is complete.
Open ==
    /\ 0 .. (W - 1) \subseteq ready
    /\ open' = TRUE
    /\ UNCHANGED <<ready, pos>>

\* A pass moves on; the streamed layer it leaves may lose its bytes.
Advance(c) ==
    LET next == (pos[c] + 1) % NLayers
    IN  /\ open
        /\ next \in ready
        /\ pos' = [pos EXCEPT ![c] = next]
        /\ \/ UNCHANGED ready
           \/ /\ pos[c] >= W
              /\ \A d \in Contexts \ {c} : pos[d] # pos[c]
              /\ ready' = ready \ {pos[c]}
        /\ UNCHANGED open

\* A stopped pass begins again.
Restart(c) ==
    /\ open
    /\ pos' = [pos EXCEPT ![c] = 0]
    /\ UNCHANGED <<ready, open>>

Next ==
    \/ \E l \in Layers : Fetch(l)
    \/ Open
    \/ \E c \in Contexts : Advance(c) \/ Restart(c)

Spec == Init /\ [][Next]_vars

-----------------------------------------------------------------------------

\* The promise: every pass computes a layer whose bytes are in memory.
Served == open => \A c \in Contexts : pos[c] \in ready

=============================================================================
