--------------------------- MODULE MCExpertCache ---------------------------
(* Small instances of ExpertCache: two fused tensors of three experts, in   *)
(* layers 0 and 2 of a model whose layer 1 is dense.                        *)
EXTENDS ExpertCache, TLC

TwoTensors == 2
SparseLayers == 1 :> 0 @@ 2 :> 2
UnevenBytes == 1 :> 1 @@ 2 :> 2

NoCeiling == {0}

\* No ceiling, and one that binds: all slices together have nine bytes.
SomeCeilings == {0, 4}

\* One id, several, a repeated one, and both orders.
SomeRoutings == {<<0>>, <<1>>, <<0, 2>>, <<2, 1>>, <<1, 1>>}
FewRoutings == {<<0>>, <<1, 1>>, <<2, 1>>}

NoPrior == {[s \in Slices |-> 0]}
SomePriors == NoPrior \cup {[s \in Slices |-> IF s[2] = 0 THEN 2 ELSE s[1] - 1]}

=============================================================================
