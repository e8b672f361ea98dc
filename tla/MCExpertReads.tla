--------------------------- MODULE MCExpertReads ---------------------------
(* A small instance of ExpertReads: two layers of three experts, one fused  *)
(* tensor per layer, so the manifest names expert 0 of each.                *)
EXTENDS ExpertReads

AllKeys == {0, 1} \X {0, 1, 2}
FusedEntries == {<<0, 0>>, <<1, 0>>}

Row(a, b, c) == [e \in 0 .. 2 |-> <<a, b, c>>[e + 1]]

\* A token that selects 0 and 1, one that selects 1 and, with a tie, 0 or 2, and a
\* batch of two tokens.
SomeBatches == {{Row(2, 1, 0)}, {Row(0, 1, 0)}, {Row(2, 0, 1), Row(0, 1, 0)}}

=============================================================================
