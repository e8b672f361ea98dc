------------------------- MODULE LayerServiceProofs -------------------------
(* The promise of LayerService, for any number of layers and contexts.     *)
EXTENDS LayerService, TLAPS

\* Served alone is not inductive: a restart goes to layer 0, which is ready
\* only because the resident prefix never loses its bytes, and no pass has
\* moved before the prefix is complete.
ServiceInv ==
    /\ ready \subseteq Layers
    /\ open \in BOOLEAN
    /\ pos \in [Contexts -> Layers]
    /\ open => 0 .. (W - 1) \subseteq ready
    /\ ~open => \A c \in Contexts : pos[c] = 0
    /\ Served

\* No step of the service takes away a layer that a pass is in.
LEMMA ServiceStep ==
    ASSUME WindowAssumption, ServiceInv, [Next]_vars
    PROVE  ServiceInv'
<1> USE DEF WindowAssumption, Layers
<1>1. CASE \E l \in Layers : Fetch(l)
    BY <1>1 DEF Fetch, ServiceInv, Served
<1>2. CASE Open
    <2>1. 0 \in ready
        BY <1>2 DEF Open
    <2>2. CASE open
        BY <1>2, <2>2 DEF Open, ServiceInv, Served
    <2>3. CASE ~open
        BY <1>2, <2>1, <2>3 DEF Open, ServiceInv, Served
    <2> QED BY <2>2, <2>3
<1>3. ASSUME NEW c \in Contexts, Advance(c) PROVE ServiceInv'
    <2> DEFINE next == (pos[c] + 1) % NLayers
    <2>1. open /\ next \in ready /\ pos' = [pos EXCEPT ![c] = next] /\ open' = open
        BY <1>3 DEF Advance
    <2>2. pos[c] \in Layers /\ next \in Layers
        BY <2>1 DEF ServiceInv
    <2>3. CASE ready' = ready
        BY <2>1, <2>2, <2>3 DEF ServiceInv, Served
    <2>4. CASE /\ pos[c] >= W
               /\ \A d \in Contexts \ {c} : pos[d] # pos[c]
               /\ ready' = ready \ {pos[c]}
        <3>1. next # pos[c]
            <4>1. CASE pos[c] + 1 = NLayers
                BY <2>2, <2>4, <4>1
            <4>2. CASE pos[c] + 1 < NLayers
                BY <2>2, <4>2
            <4> QED BY <2>2, <4>1, <4>2
        <3>2. 0 .. (W - 1) \subseteq ready'
            BY <2>1, <2>2, <2>4 DEF ServiceInv
        <3> HIDE DEF next
        <3>3. \A d \in Contexts : pos'[d] \in ready'
            BY <2>1, <2>2, <2>4, <3>1 DEF ServiceInv, Served
        <3> QED BY <2>1, <2>2, <2>4, <3>2, <3>3 DEF ServiceInv, Served
    <2> QED BY <1>3, <2>3, <2>4 DEF Advance
<1>4. ASSUME NEW c \in Contexts, Restart(c) PROVE ServiceInv'
    <2>1. 0 \in ready /\ 0 \in Layers
        BY <1>4 DEF Restart, ServiceInv
    <2> QED BY <1>4, <2>1 DEF Restart, ServiceInv, Served
<1>5. CASE UNCHANGED vars
    BY <1>5 DEF vars, ServiceInv, Served
<1> QED BY <1>1, <1>2, <1>3, <1>4, <1>5 DEF Next

\* A pass never computes a layer whose bytes are not in memory, for any number
\* of layers, any resident prefix and any number of contexts: the promise that
\* the slab path of the pager is checked to implement.
THEOREM AlwaysServed ==
    ASSUME WindowAssumption
    PROVE  Spec => []Served
<1>1. Init => ServiceInv
    <2>1. 0 \in Layers
        BY DEF WindowAssumption, Layers
    <2> QED BY <2>1 DEF Init, ServiceInv, Served
<1>2. ServiceInv /\ [Next]_vars => ServiceInv'
    BY ServiceStep
<1>3. ServiceInv => Served
    BY DEF ServiceInv
<1> QED BY <1>1, <1>2, <1>3, PTL DEF Spec

=============================================================================
