------------------------------ MODULE MCCacheSim ------------------------------
(* Instances of the cache simulator: every policy, over small geometries. *)
EXTENDS CacheSim

MCPolicies == [allocate : BOOLEAN, write : BOOLEAN, lru : BOOLEAN]
MCArgsOf(geometries) ==
  {[sets |-> g[1], n |-> g[2], bytes |-> g[3], allocate |-> p.allocate,
    write |-> p.write, lru |-> p.lru] : g \in geometries, p \in MCPolicies}

(* Direct, set-associative and fully associative caches, and sizes that are *)
(* refused.                                                                 *)
MCArgs == MCArgsOf({<<2, 1, 4>>, <<2, 2, 4>>, <<1, 2, 4>>, <<1, 4, 4>>, <<1, 1, 4>>,
                    <<0, 1, 4>>, <<3, 1, 4>>, <<1, 3, 4>>, <<1, 2, 2>>, <<1, 2, 12>>})
MCBackArgs == {a \in MCArgs : ~a.write /\ ~a.lru}
MCBlocks == 0 .. 4
=============================================================================
