---------------------------- MODULE MCDeployment ----------------------------
(* Small networks for the deployment tool, one for each of its modes. *)
EXTENDS Deployment

Conn(a, i, b, j, prio, mac) ==
  [to |-> b, src_if |-> i, dst_if |-> j, out_pt |-> None, in_pt |-> None,
   src_mac |-> mac, dst_mac |-> None, prio |-> prio]
NodeOf(label, rs, conns) == [label |-> label, type |-> "PN", roles |-> rs, conns |-> conns]
Both == {"RV", "TM"}

Config(mode, bits, ns) ==
  [mode |-> mode, complete |-> TRUE, ns3 |-> FALSE, auto |-> FALSE, no_remote |-> FALSE,
   bits |-> bits, nodes |-> ns, edges |-> {}]

(* A line 1 - 2 - 3 over IP, the rendezvous node at one end. *)
Line == <<NodeOf(1, {"RV"}, <<Conn(1, 1, 2, 2, 0, None)>>),
          NodeOf(2, {}, <<Conn(2, 2, 1, 1, 0, None), Conn(2, 2, 3, 3, 0, None)>>),
          NodeOf(3, {"TM"}, <<Conn(3, 3, 2, 2, 0, None)>>)>>
(* Three nodes on one Ethernet, with one address given in the file; two    *)
(* nodes with two cables, node 2 naming the second interface first.        *)
Shared == <<NodeOf(1, {"RV"}, <<Conn(1, 1, 2, 1, 0, None)>>),
            NodeOf(2, {}, <<Conn(2, 1, 1, 1, 0, None), Conn(2, 1, 3, 1, 0, 77)>>),
            NodeOf(3, {"TM"}, <<Conn(3, 1, 2, 1, 0, None)>>)>>
Crossed == <<NodeOf(1, Both, <<Conn(1, 1, 2, 1, 0, None), Conn(1, 2, 2, 2, 0, None)>>),
             NodeOf(2, {}, <<Conn(2, 2, 1, 2, 0, None), Conn(2, 1, 1, 1, 0, None),
                             Conn(2, 2, 1, 2, 0, None)>>)>>
(* Two classes on one interface and one on another. *)
Classes == <<NodeOf(1, Both, <<Conn(1, 1, 2, 1, 0, None), Conn(1, 1, 2, 1, 90, None),
                               Conn(1, 2, 2, 2, 5, None)>>),
             NodeOf(2, {}, <<Conn(2, 1, 1, 1, 0, None), Conn(2, 1, 1, 1, 90, None)>>)>>
(* Packet nodes 1 and 2 with a direct link, optical node 3. *)
Layers ==
  LET cl(a, b) == [Conn(a, 2, b, None, 0, None) EXCEPT !.in_pt = 1]
      lc(a, b) == [Conn(a, None, b, 2, 0, None) EXCEPT !.out_pt = 1]
  IN  <<NodeOf(1, Both, <<Conn(1, 1, 2, 1, 0, None), cl(1, 3)>>),
        NodeOf(2, {}, <<Conn(2, 1, 1, 1, 0, None), cl(2, 3)>>),
        [NodeOf(3, {}, <<lc(3, 1), lc(3, 2)>>) EXCEPT !.type = "ON"]>>

Tree(rs) ==
  [Config("ip", 3, [v \in 1 .. 3 |-> NodeOf(v, IF v \in rs THEN {"RV"} ELSE {}, <<>>)])
     EXCEPT !.auto = TRUE, !.edges = {<<1, 2>>, <<2, 3>>}]
Ns3(ns) == [Config("mac", 3, ns) EXCEPT !.ns3 = TRUE]
NoWayBack == <<NodeOf(1, Both, <<Conn(1, 1, 2, 1, 0, None)>>), NodeOf(2, {}, <<>>)>>
NoRole == <<NodeOf(1, {"RV"}, <<>>)>>
BadNode == <<NodeOf(1, Both, <<>>), NodeOf(BadLabel, {}, <<>>)>>
NoInterface == <<NodeOf(1, Both, <<Conn(1, None, 1, 1, 0, None)>>)>>

MCConfigs ==
  {Config("ip", 7, Line), Config("ip", 4, Line), Tree({}), Tree({1}), Tree({1, 3}),
   [Config("ip", 4, NoRole) EXCEPT !.complete = FALSE], Ns3(BadNode),
   Config("mac", 3, Shared), [Config("mac", 3, Shared) EXCEPT !.no_remote = TRUE],
   Config("mac", 3, Crossed), Config("mac_qos", 3, Classes), Config("mac_ml", 4, Layers),
   Ns3(Line), Ns3(Classes), Ns3(NoWayBack),
   Config("ip", 4, NoRole), Config("ip", 4, BadNode), Config("ip", 4, NoInterface)}
MCHwMac == [k \in (1 .. 3) \X (1 .. 2) |-> 10 * k[1] + k[2]]
=============================================================================
