------------------------------ MODULE MCTMQoS ------------------------------
(* A triangle whose third side is fast, and only fast: best effort goes    *)
(* round it over two links.                                                *)
EXTENDS TMQoS

MCNode == 1 .. 3
MCLink == {<<1, 2, 0>>, <<2, 1, 0>>, <<2, 3, 0>>, <<3, 2, 0>>, <<1, 3, 90>>, <<3, 1, 90>>}
MCconfPrio == [l \in MCLink |-> l[3]]
MCBit == 0 .. 15
MCLID == [l \in MCLink |-> {4 * l[1] + l[2] - 1}]
MCiLID == [n \in MCNode |-> {n - 1}]
MCItemPrio == <<"info", 1>> :> 80
MCPublishers == {{3}}
MCSubscribers == {{1}}

(* All there is to check, for PURSUIT_ID_LEN is 1 in every instance. *)
ASSUME MetadataPackets == MetadataIsReadAsWritten
============================================================================
