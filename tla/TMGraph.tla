------------------------------ MODULE TMGraph ------------------------------
(***************************************************************************)
(* What the topology manager computes on its copy of the network, an       *)
(* igraph graph (TopologyManager/tm_igraph.cpp): forwarding identifiers    *)
(* for one destination and for a set of publishers and subscribers, over   *)
(* paths with the fewest hops or with the least weight.  A graph is a set  *)
(* of links; a path is a sequence of links.                                *)
(***************************************************************************)
EXTENDS Forwarder, SequencesExt, FiniteSetsExt, Functions

UINT_MAX == 1000000   \* more than any number of hops
NULL == {}          \* no forwarding identifier: the publisher is to stop

(* All loop-free paths of the network. *)
NodesOn(p) == {p[i][1] : i \in DOMAIN p} \cup {p[i][2] : i \in DOMAIN p}
SimplePaths ==
  {p \in BoundedSeq(Link, Cardinality(Node) - 1) :
     /\ \A i \in 1 .. Len(p) - 1 : p[i][2] = p[i + 1][1]
     /\ Cardinality(NodesOn(p)) = Len(p) + 1}
PathsFromTo(s, d) ==
  IF s = d THEN {<<>>} ELSE {p \in SimplePaths : p[1][1] = s /\ p[Len(p)][2] = d}
PathsBetween == [ends \in Node \X Node |-> PathsFromTo(ends[1], ends[2])]

Paths(g, s, d) == {p \in PathsBetween[<<s, d>>] : \A i \in DOMAIN p : p[i] \in g}
Weight(p, w) == FoldSeq(LAMBDA l, sum : sum + w[l], 0, p)

(* igraph_get_shortest_paths() and igraph_get_shortest_paths_dijkstra():   *)
(* one of the shortest or lightest paths, nothing without one.             *)
ShortestPath(g, s, d) ==
  LET all == Paths(g, s, d)
  IN  IF all = {} THEN {} ELSE {CHOOSE p \in all : \A q \in all : Len(p) <= Len(q)}
LightestPath(g, w, s, d) ==
  LET all == Paths(g, s, d)
  IN  IF all = {} THEN {}
      ELSE {CHOOSE p \in all : \A q \in all : Weight(p, w) <= Weight(q, w)}
Reachable(g, s, d) == Paths(g, s, d) # {}

(* A path as the topology manager writes it down: the nodes it visits. *)
Vertices(s, p) == <<s>> \o [i \in DOMAIN p |-> p[i][2]]

\* Mutant: all nodes of the path deliver.
FIDOfAll(p, d) == (UNION {LID[p[i]] \cup iLID[p[i][2]] : i \in DOMAIN p}) \cup iLID[d]
FIDOfPath(p, d) == (UNION {LID[p[i]] : i \in DOMAIN p}) \cup iLID[d]

(* Bitvector *calculateFID(source, destination): without a path only the   *)
(* internal link of the destination is left.                               *)
FIDTo(g, s, d) == iLID[d] \cup UNION {FIDOfPath(p, d) : p \in ShortestPath(g, s, d)}

NoRoute(s, d) ==
  [publisher |-> s, subscriber |-> d, hops |-> UINT_MAX, FID |-> {}, path |-> <<>>]

\* Mutant: the links of all shortest paths are taken.
RouteMultipath(g, s, d) ==
  LET all == Paths(g, s, d)
      best == {p \in all : \A q \in all : Len(p) <= Len(q)}
      p == CHOOSE q \in best : TRUE
  IN  IF all = {} THEN NoRoute(s, d)
      ELSE [publisher |-> s, subscriber |-> d, hops |-> Len(p) + 1,
            FID |-> UNION {FIDOfPath(q, d) : q \in best}, path |-> Vertices(s, p)]
(* calculateFID(source, destination, resultFID, numberOfHops, path) *)
Route(g, s, d) ==
  LET found == {[publisher |-> s, subscriber |-> d, hops |-> Len(p) + 1,
                 FID |-> FIDOfPath(p, d), path |-> Vertices(s, p)]
                  : p \in ShortestPath(g, s, d)}
  IN  IF found = {} THEN NoRoute(s, d) ELSE CHOOSE r \in found : TRUE

(* calculateFID_weighted(source, destination, ..., weights) counts links,  *)
(* not nodes, and a path within one node as one.                           *)
RouteWeighted(g, w, s, d) ==
  LET found == {[publisher |-> s, subscriber |-> d, hops |-> IF s = d THEN 1 ELSE Len(p),
                 FID |-> FIDOfPath(p, d), path |-> Vertices(s, p)]
                  : p \in LightestPath(g, w, s, d)}
  IN  IF found = {} THEN NoRoute(s, d) ELSE CHOOSE r \in found : TRUE

\* Mutant: the last publisher that reaches the subscriber.
LastRoute(routes, s, before) ==
  LET near == {r \in routes : r.subscriber = s /\ r.hops < UINT_MAX}
  IN  CHOOSE r \in near : \A q \in near : r.publisher >= q.publisher
(* The inner loop of calculateFID over the publishers, in their order: the *)
(* first of the nearest ones.  When there is none, what was found for the  *)
(* subscriber before this one is left in place.                            *)
BestRoute(routes, s, before) ==
  LET near == {r \in routes : r.subscriber = s /\ r.hops < UINT_MAX}
      best == {r \in near : \A q \in near : r.hops <= q.hops}
  IN  IF near = {} THEN [before EXCEPT !.hops = UINT_MAX]
      ELSE CHOOSE r \in best : \A q \in best : r.publisher <= q.publisher

(* The FID of the best publisher is extended, or replaced for a subscriber *)
(* that no publisher reaches.                                              *)
ExtendFID(old, best) ==
  IF old = NULL \/ best.hops = UINT_MAX THEN best.FID ELSE old \cup best.FID

(* One turn of the outer loop, over the subscribers in their order. *)
AddSubscriber(routes, s, acc) ==
  LET b == BestRoute(routes, s, acc.best)
  IN  [best |-> b,
       FID |-> [acc.FID EXCEPT ![b.publisher] = ExtendFID(@, b)],
       paths |-> [acc.paths EXCEPT ![b.publisher] = @ \cup {b.path}]]

(* calculateFID(publishers, subscribers, result, path_vectors): who is to  *)
(* publish, over which FID and along which paths.  The routes are those of *)
(* every publisher to every subscriber.                                    *)
Match(routes, pubs, subs) ==
  FoldLeft(LAMBDA acc, s : AddSubscriber(routes, s, acc),
           [best |-> NoRoute(0, 0), FID |-> [p \in pubs |-> NULL], paths |-> [p \in pubs |-> {}]],
           SetToSortSeq(subs, <))

calculateFID(g, pubs, subs) ==
  Match({Route(g, p, s) : p \in pubs, s \in subs}, pubs, subs)
calculateFID_weighted(g, w, pubs, subs) ==
  Match({RouteWeighted(g, w, p, s) : p \in pubs, s \in subs}, pubs, subs)

(* A subscriber that nobody reaches must not be the first one: result.find *)
(* would look up the empty name.                                           *)
Answerable(g, pubs, subs) ==
  pubs # {} /\ (subs # {} => \E p \in pubs : Reachable(g, p, Min(subs)))

(***************************************************************************)
(* updateGraph(): a link is reported lost or found, "e" for both of its    *)
(* directions, "o" for one.  removed is rmv_edge_lid.                      *)
(***************************************************************************)
Wire(a, b) == {l \in Link : l[1] = a /\ l[2] = b}
Wires(a, b, net) == Wire(a, b) \cup (IF net = "e" THEN Wire(b, a) ELSE {})

\* Mutant: the other direction stays removed.
AddOneWay(g, removed, a, b, net) ==
  LET back == Wire(a, b) \cap removed
  IN  [graph |-> g \cup back, removed |-> removed \ back]

AddLink(g, removed, a, b, net) ==
  LET back == IF Wire(a, b) \cap removed = {} THEN {}
              ELSE Wires(a, b, net) \cap removed
  IN  [graph |-> g \cup back, removed |-> removed \ back]

\* Mutant: only the reported direction is kept for later.
RemoveForgetting(g, removed, a, b, net) ==
  LET gone == IF Wires(a, b, net) \cap removed # {} THEN {} ELSE Wires(a, b, net)
  IN  [graph |-> g \ gone, removed |-> removed \cup (gone \cap Wire(a, b))]
RemoveLink(g, removed, a, b, net) ==
  LET gone == IF Wires(a, b, net) \cap removed # {} THEN {} ELSE Wires(a, b, net)
  IN  [graph |-> g \ gone, removed |-> removed \cup gone]

updateGraph(g, removed, source, destination, net, add) ==
  IF add THEN AddLink(g, removed, source, destination, net)
  ELSE RemoveLink(g, removed, source, destination, net)
============================================================================
