---------------------------- MODULE MCModelLoad ----------------------------
(* Small models: dense ones with layers of uneven size, mixtures of experts *)
(* with a router weight, an expert tensor of another width, experts that    *)
(* cannot be paged, and models in two shards.                               *)
EXTENDS ModelLoad

Tensor(kind, layer, trail, bytes) ==
    [kind |-> kind, layer |-> layer, trail |-> trail, bytes |-> bytes, shard |-> 1,
     host |-> TRUE, mxfp4 |-> FALSE]

Shard(meta, size) == [sibling |-> TRUE, meta |-> meta, size |-> size]
OneShard == <<Shard(3, 9)>>
TwoShards == Append(OneShard, Shard(1, 4))
ShortShard == Append(OneShard, Shard(3, 3))
Renamed == Append(OneShard, [Shard(1, 4) EXCEPT !.sibling = FALSE])

NoPriors == << >>
Entry(i, counts) == [tensor |-> i, sums |-> TRUE, counts |-> counts]
File(match, entries) == [match |-> match, gguf |-> TRUE, entries |-> entries]

\* A whole file, one whose last entry has no counts, one of a model with more
\* experts, and a file of the legacy format.
Stem == File("stem", <<Entry(3, <<5, 0>>), Entry(7, <<1, 2>>), Entry(1, <<4>>)>>)
Torn == File("stem", <<Entry(3, <<5, 1>>), Entry(7, << >>)>>)
Other == File("other", <<Entry(0, <<7>>), Entry(3, <<1, 2, 3>>)>>)
Exact == [File("exact", <<Entry(3, <<6>>)>>) EXCEPT !.gguf = FALSE]

Dense(sizes) ==
    [kv |-> <<<<"block_count", 3>>>>,
     tensors |-> <<Tensor("global", 0, 7, 2)>>
                 \o [l \in 1 .. 3 |-> Tensor("weight", l - 1, 7, sizes[l])]
                 \o <<Tensor("norm", 0, 7, 1)>>,
     shards |-> OneShard,
     priors |-> NoPriors]

Keys1 == <<<<"block_count", 2>>, <<"expert_count", 2>>, <<"expert_used_count", 1>>>>
Keys2 == <<<<"expert_used_count", 1>>, <<"leading_dense_block_count", 1>>,
           <<"expert_count", 2>>, <<"block_count", 2>>>>

\* attn, ffn_gate_inp, ffn_up_exps and a tensor of the name, but not routed.
Block(l) ==
    <<Tensor("weight", l, 5, 2), Tensor("weight", l, 2, 1), Tensor("exps", l, 2, 4),
      Tensor("exps", l, 3, 3)>>

Moe(kv, shards, priors) ==
    [kv |-> kv,
     tensors |-> Block(0) \o [i \in 1 .. 4 |-> [Block(1)[i] EXCEPT !.shard = Len(shards)]],
     shards |-> shards,
     priors |-> priors]

With(m, i, t) == [m EXCEPT !.tensors = ReplaceAt(@, i, t)]

Plain == Moe(Keys1, OneShard, <<Other, Stem>>)

SomeModels ==
    {Dense(<<1, 2, 4>>), Dense(<<4, 1, 1>>), Dense(<<2, 2, 2>>)}
    \cup {Plain,
          Moe(Keys2, OneShard, <<Torn, Other>>),
          Moe(Keys1, TwoShards, <<Exact, Other>>),
          Moe(Keys1, ShortShard, NoPriors),
          Moe(Keys1, Renamed, <<Stem>>),
          Moe(Keys1, OneShard, <<Other>>),
          With(Plain, 3, [Tensor("exps", 0, 2, 4) EXCEPT !.mxfp4 = TRUE]),
          With(Plain, 3, [Tensor("exps", 0, 2, 4) EXCEPT !.host = FALSE]),
          With(Plain, 3, Tensor("exps", 0, 2, 3))}

\* Host memory, a limit of the cgroup below it, one of version 1, none known.
SomeMachines ==
    {[available |-> 20, v2 |-> -1, v1 |-> 0],
     [available |-> 20, v2 |-> 8, v1 |-> 0],
     [available |-> 20, v2 |-> -1, v1 |-> 6],
     [available |-> 0, v2 |-> -1, v1 |-> 0]}

=============================================================================
