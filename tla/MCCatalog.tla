----------------------------- MODULE MCCatalog -----------------------------
EXTENDS Catalog

\* Two models with up to two variants: of unknown size, small, close to what a host has, too large.
MCSizes == {0, 2, 8, 30}
MCVariants == {<<>>} \cup {<<s>> : s \in MCSizes} \cup {<<s, t>> : s, t \in MCSizes}
MCModel(id, x, y, n) == [id |-> id, mlx |-> y, sizes |-> x, score |-> n]
MCListings == {<<MCModel("a", x, mlx, 1), MCModel("b", y, FALSE, 2)>> : x, y \in MCVariants, mlx \in BOOLEAN}
MCHost(ram, nvidia, amd) == [ram |-> ram, nvidia |-> nvidia, amd |-> amd]
MCHosts == {MCHost(9, <<>>, <<>>), MCHost(6, <<4, 8>>, <<30>>), MCHost(6, <<8, -1>>, <<-2, 12>>), MCHost(0, <<>>, <<4, -1>>)}
\* The second version has other weights, another file and the same configuration; the third
\* has another configuration.
MCTrees == <<("config.json" :> 1) @@ ("w" :> 1), ("config.json" :> 1) @@ ("w" :> 2) @@ ("extra" :> 2),
             ("config.json" :> 3) @@ ("w" :> 2), ("config.json" :> 3) @@ ("w" :> 2) @@ ("../x" :> 3)>>
MCKVOf(c) == c
=============================================================================
