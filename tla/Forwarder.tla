----------------------------- MODULE Forwarder -----------------------------
(***************************************************************************)
(* The Forwarder element of every node (src/forwarder.cc).  A link is a    *)
(* triple <<from, to, class>>: in mac_qos mode there is one link per       *)
(* priority class between the same two interfaces.  A link identifier      *)
(* (LID) and an internal link identifier (iLID) are sets of bits, and so   *)
(* is a forwarding identifier (FID): the union of the links a packet is to *)
(* travel and of the iLIDs of the nodes that are to deliver it.            *)
(***************************************************************************)
EXTENDS Naturals, FiniteSets

CONSTANTS
  Node,       \* labels of the nodes
  Link,       \* the connections of the topology file
  Bit,        \* positions of a FID, FID_LEN * 8 of them
  LID,        \* [Link -> SUBSET Bit]
  iLID        \* [Node -> SUBSET Bit]

ASSUME LinkAssumption ==
  /\ \A l \in Link : l[1] \in Node /\ l[2] \in Node /\ l[1] # l[2]
  /\ LID \in [Link -> (SUBSET Bit) \ {{}}]
  /\ iLID \in [Node -> (SUBSET Bit) \ {{}}]

AllOnes == Bit

(* The forwarding entries of node n, read by configure(). *)
fwTable(n) == {l \in Link : l[1] = n}

(* (FID & LID) == LID *)
Matches(lid, FID) == lid \subseteq FID

(* push() on port 0: a packet of this node's LocalProxy. *)
Sent(n, FID) == {l \in fwTable(n) : Matches(LID[l], FID)}

(* A link whose MAC addresses are those of the packet the other way round. *)
SameWires(l, in) == l[1] = in[2] /\ l[2] = in[1]

(* push() on another port: the packet came in over a link.  A broadcast is *)
(* not forwarded, nothing goes back where it came from.                    *)
Forwarded(in, FID) ==
  IF FID = AllOnes THEN {}
  ELSE {l \in fwTable(in[2]) : Matches(LID[l], FID) /\ ~SameWires(l, in)}

(* ... and the packet is delivered here, whatever was forwarded. *)
PushedLocally(n, FID) == Matches(iLID[n], FID)

(* The links a packet of node n travels when only the links in "up" work:  *)
(* push() at every node it comes through.                                  *)
Travelled(n, FID, up) ==
  LET open == {l \in up : Matches(LID[l], FID)}
      hops[k \in 0 .. Cardinality(open)] ==
        IF k = 0 THEN Sent(n, FID) \cap up
        ELSE LET before == hops[k - 1]
             IN  before \cup ((UNION {Forwarded(l, FID) : l \in before}) \cap up)
  IN  hops[Cardinality(open)]

(* The nodes that hand a packet of node n to their LocalProxy.  Node n     *)
(* itself is served by its LocalProxy before the packet is sent.           *)
Delivered(n, FID, up) ==
  {m \in Node : /\ PushedLocally(m, FID)
                /\ m = n \/ \E l \in Travelled(n, FID, up) : l[2] = m}
============================================================================
