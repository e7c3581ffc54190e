------------------------ MODULE MCTrafficEngineering ------------------------
(* A triangle with a fourth node behind it: between 1 and 4, and between 1 *)
(* and 2, there are a short and a long path.  Links lead away from the     *)
(* publishers only; the ways back would carry no flow.                     *)
EXTENDS TrafficEngineering

MCNode == 1 .. 4
MCLink == {<<1, 2, 0>>, <<1, 3, 0>>, <<2, 3, 0>>, <<3, 2, 0>>, <<3, 4, 0>>}
MCBit == 0 .. 60
MCLID == [l \in MCLink |-> {10 * l[1] + l[2]}]
MCiLID == [n \in MCNode |-> {n}]
MCPairs == {<<1, 4>>, <<1, 2>>, <<3, 2>>}
MCRequests == {<<{1}, {4}>>, <<{1}, {2, 4}>>, <<{1, 3}, {2}>>}
=============================================================================
