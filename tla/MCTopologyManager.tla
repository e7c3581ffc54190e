------------------------- MODULE MCTopologyManager -------------------------
(* A ring of four nodes, each identifier one bit of its own, as            *)
(* deployment assigns them while there are bits left; one bit is unused.   *)
EXTENDS TopologyManager

MCNode == 1 .. 4
MCLink == {<<1, 2, 0>>, <<2, 1, 0>>, <<2, 3, 0>>, <<3, 2, 0>>,
           <<3, 4, 0>>, <<4, 3, 0>>, <<4, 1, 0>>, <<1, 4, 0>>}
MCBit == 0 .. 60
MCLID == [l \in MCLink |-> {10 * l[1] + l[2]}]
MCiLID == [n \in MCNode |-> {n}]
MCGroups == {{}, {3}, {2, 4}, {1, 3}}
============================================================================
