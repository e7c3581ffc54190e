-------------------------- MODULE TopologyManager --------------------------
(***************************************************************************)
(* The topology manager with resiliency support (TopologyManager/tm.cpp    *)
(* with option -r), the broker that watches the delivery paths             *)
(* (tm_rv_brk.cpp), the link state monitor of every node                   *)
(* (examples/traffic_engineering/broadcast_linkstate_monitor.cpp) and the  *)
(* part of the LocalProxy that keeps the FIDs they send.  Topology         *)
(* manager, broker and rendezvous run on one node.                         *)
(*                                                                         *)
(* A packet is delivered or lost in the step that publishes it: what a     *)
(* packet takes is short against the seconds between beacons.  Nothing is  *)
(* ever sent a second time.  A monitor does not see whether a link works:  *)
(* it takes 7 seconds without a beacon for a failure, which may be the     *)
(* loss of beacons only, or a failure that is already over.                *)
(***************************************************************************)
EXTENDS TMGraph

CONSTANTS
  TM,             \* the node of the topology manager, broker and rendezvous
  Info,           \* information items
  Groups,         \* sets of nodes that publish or subscribe to an item
  MaxRequests,    \* bound on the requests of the rendezvous element
  MaxFailures,    \* bound on the failures of links and losses of beacons
  MaxDown         \* bound on the number of wires that are down at a time

ASSUME TMAssumption ==
  /\ TM \in Node /\ Groups \subseteq SUBSET Node /\ Node \subseteq Nat /\ Info \subseteq Nat
  /\ {MaxRequests, MaxFailures, MaxDown} \subseteq Nat

VARIABLES
  netType,    \* option -n of the monitors: "e" one cable, "o" two fibres
  up,         \* the links that work
  failures, requests,  \* counters for the bounds
  connectivity,  \* [Node -> SUBSET Node], neighbours each monitor has heard
  silent,        \* <<n, m>>: n knows m and has missed beacons of it since the last
  graph, removed,     \* the topology manager's graph and rmv_edge_lid
  tmQueue, brkQueue,  \* events not yet read by the two processes
  path_info, ex_pubs, \* the broker's paths and standby publishers of an item
  FID_to_subscribers, \* [Node -> [Info -> FID]], kept by the LocalProxies
  defaultRV,          \* [Node -> FID], the LocalProxies' way to the RV node
  told,       \* nodes that were notified of the new scope
  tell,       \* nodes that are to be notified of it
  lost,       \* <<publisher, item>> whose last notification did not arrive
  last        \* [Info -> request], the last match answered for an item

monitors == <<connectivity, silent>>
network == <<netType, up, failures, monitors>>
tm == <<graph, removed, tmQueue>>
brk == <<path_info, ex_pubs, brkQueue>>
nodes == <<FID_to_subscribers, defaultRV, told>>
vars == <<network, requests, tm, brk, nodes, tell, lost, last>>

Neighbours(n) == {l[2] : l \in fwTable(n)}

(* The FID every monitor reads from /tmp/<node>_TMFID.txt when it starts;  *)
(* an update of it is never recognised.                                    *)
FID_to_TM == [n \in Node |-> FIDTo(Link, n, TM)]

Init ==
  /\ netType \in {"e", "o"}
  /\ up = Link /\ failures = 0 /\ requests = 0
  /\ connectivity = [n \in Node |-> Neighbours(n)] /\ silent = {}
  /\ graph = Link /\ removed = {} /\ tmQueue = <<>>
  /\ brkQueue = <<>>
  /\ path_info = [i \in Info |-> {}] /\ ex_pubs = [i \in Info |-> {}]
  /\ FID_to_subscribers = [n \in Node |-> [i \in Info |-> {}]]
  /\ defaultRV = [n \in Node |-> FIDTo(Link, n, TM)]
  /\ told = {} /\ tell = {} /\ lost = {}
  /\ last = [i \in Info |-> [pubs |-> {}, subs |-> {}, graph |-> {}]]

(***************************************************************************)
(* The network and its monitors.                                           *)
(***************************************************************************)
(* The beacons that the links of L should carry to monitors stay away.     *)
Silenced(L) == silent \cup {<<l[2], l[1]>> : l \in {k \in L : k[1] \in connectivity[k[2]]}}

LinkFails ==
  /\ failures < MaxFailures
  /\ \E l \in up :
       /\ Cardinality({{m[1], m[2]} : m \in Link \ up}) < MaxDown
       /\ up' = up \ Wires(l[1], l[2], netType)
  /\ silent' = Silenced(up \ up')
  /\ failures' = failures + 1
  /\ UNCHANGED <<netType, connectivity, requests, tm, brk, nodes, tell, lost, last>>

(* Seven beacons in a row are lost, or late, although the link works.      *)
BeaconsLost ==
  /\ failures < MaxFailures /\ failures' = failures + 1
  /\ \E l \in up : silent' = Silenced({l})
  /\ UNCHANGED <<netType, up, connectivity, requests, tm, brk, nodes, tell, lost, last>>

LinkRecovers ==
  /\ \E l \in Link \ up : up' = up \cup Wires(l[1], l[2], netType)
  /\ UNCHANGED <<netType, failures, monitors, requests, tm, brk, nodes, tell, lost, last>>

(* publish_data() of a link state notification: net type, operation and    *)
(* neighbour, to the topology manager if the way there still works.        *)
ReportLSN(n, m, add) ==
  tmQueue' = IF TM \in Delivered(n, FID_to_TM[n], up)
             THEN Append(tmQueue, [type |-> "LSN", publisher |-> n, neighbour |-> m,
                                   net |-> netType, add |-> add])
             ELSE tmQueue

(* Monitor of n, sending thread: m has been silent for more than 7 s,      *)
(* whether or not the link works by now.                                   *)
NeighbourLost(n, m) ==
  /\ m \in connectivity[n] /\ <<n, m>> \in silent
  /\ connectivity' = [connectivity EXCEPT ![n] = @ \ {m}]
  /\ silent' = silent \ {<<n, m>>}
  /\ ReportLSN(n, m, FALSE)
  /\ UNCHANGED <<netType, up, failures, requests, graph, removed, brk, nodes, tell, lost, last>>

(* Monitor of n, event_listener_loop(): a beacon of m.  That of a known    *)
(* neighbour only ends its silence.                                        *)
NeighbourHeard(n, m) ==
  /\ \E l \in Sent(m, AllOnes) \cap up : l[2] = n
  /\ PushedLocally(n, AllOnes)
  /\ silent' = silent \ {<<n, m>>}
  /\ IF m \in connectivity[n] THEN UNCHANGED <<connectivity, tmQueue>>
     ELSE /\ connectivity' = [connectivity EXCEPT ![n] = @ \cup {m}]
          /\ ReportLSN(n, m, TRUE)
  /\ UNCHANGED <<netType, up, failures, requests, graph, removed, brk, nodes, tell, lost, last>>

(***************************************************************************)
(* Requests of the rendezvous element, which is on the same node.          *)
(***************************************************************************)
RequestMatch(i, pubs, subs) ==
  /\ requests < MaxRequests /\ requests' = requests + 1
  /\ tmQueue' = Append(tmQueue, [type |-> "MATCH_PUB_SUBS", info |-> i,
                                 pubs |-> pubs, subs |-> subs])
  /\ UNCHANGED <<network, graph, removed, brk, nodes, tell, lost, last>>

RequestNotification(subs) ==
  /\ requests < MaxRequests /\ requests' = requests + 1
  /\ tmQueue' = Append(tmQueue, [type |-> "SCOPE_PUBLISHED", subs |-> subs])
  /\ tell' = tell \cup subs
  /\ UNCHANGED <<network, graph, removed, brk, nodes, lost, last>>

(***************************************************************************)
(* The topology manager, event_listener_loop().                            *)
(***************************************************************************)
Arrives(g, n) == n \in Delivered(TM, FIDTo(g, TM, n), up)

(* handleRequest(), MATCH_PUB_SUBS: START_PUBLISH or STOP_PUBLISH to every *)
(* publisher, then UPDATE_DELIVERY to the broker.                          *)
MatchPubSubs ==
  /\ tmQueue # <<>> /\ Head(tmQueue).type = "MATCH_PUB_SUBS"
  /\ LET r == Head(tmQueue)
         result == calculateFID(graph, r.pubs, r.subs)
         reached == {p \in r.pubs : Arrives(graph, p)}
         started == {p \in r.pubs : result.FID[p] # NULL}
     IN  /\ Answerable(graph, r.pubs, r.subs)
         /\ FID_to_subscribers' =
              [n \in Node |->
                 IF n \notin reached THEN FID_to_subscribers[n]
                 ELSE [FID_to_subscribers[n] EXCEPT
                         ![r.info] = IF n \in started THEN result.FID[n] ELSE {}]]
         /\ lost' = (lost \ {<<p, r.info>> : p \in reached})
                      \cup {<<p, r.info>> : p \in r.pubs \ reached}
         /\ last' = [last EXCEPT ![r.info] =
                       [pubs |-> r.pubs, subs |-> r.subs, graph |-> graph]]
         /\ brkQueue' = Append(brkQueue,
              [type |-> "UPDATE_DELIVERY", info |-> r.info,
               paths |-> UNION {result.paths[p] : p \in started},
               alternatives |-> r.pubs \ started])
  /\ tmQueue' = Tail(tmQueue)
  /\ UNCHANGED <<network, requests, graph, removed, path_info, ex_pubs, defaultRV, told, tell>>

(* handleRequest(), SCOPE_PUBLISHED and SCOPE_UNPUBLISHED *)
NotifySubscribers ==
  /\ tmQueue # <<>> /\ Head(tmQueue).type = "SCOPE_PUBLISHED"
  /\ told' = told \cup
       UNION {Delivered(TM, FIDTo(graph, TM, n), up) : n \in Head(tmQueue).subs}
  /\ tmQueue' = Tail(tmQueue)
  /\ UNCHANGED <<network, requests, graph, removed, brk, FID_to_subscribers,
                 defaultRV, tell, lost, last>>

\* Mutant: the message to the broker is sent before the graph changes, which
\* leaves the neighbour with its old way to the rendezvous node.
LSNBeforeUpdate(r, g) == defaultRV
(* UPDATE_BA: the neighbour's LocalProxy gets its new way to the RV node. *)
UpdateBA(r, g) ==
  IF Arrives(g, r.neighbour)
  THEN [defaultRV EXCEPT ![r.neighbour] = FIDTo(g, r.neighbour, TM)]
  ELSE defaultRV

(* handle_lsn_request() *)
HandleLSN ==
  /\ tmQueue # <<>> /\ Head(tmQueue).type = "LSN"
  /\ LET r == Head(tmQueue)
         new == updateGraph(graph, removed, r.neighbour, r.publisher, r.net, r.add)
     IN  /\ graph' = new.graph /\ removed' = new.removed
         /\ IF r.add THEN UNCHANGED <<defaultRV, brkQueue>>
            ELSE /\ defaultRV' = UpdateBA(r, new.graph)
                 /\ brkQueue' = Append(brkQueue, [type |-> "LSN", publisher |-> r.publisher,
                                                  neighbour |-> r.neighbour])
  /\ tmQueue' = Tail(tmQueue)
  /\ UNCHANGED <<network, requests, path_info, ex_pubs, FID_to_subscribers, told, tell,
                 lost, last>>

(***************************************************************************)
(* The broker, event_listener_loop().                                      *)
(***************************************************************************)
\* Mutant: the paths of the item are added to the ones already there.
KeepPaths(r) == [path_info EXCEPT ![r.info] = @ \cup r.paths]
ReplacePaths(r) == [path_info EXCEPT ![r.info] = r.paths]

(* update_info_delivery() *)
UpdateInfoDelivery ==
  /\ brkQueue # <<>> /\ Head(brkQueue).type = "UPDATE_DELIVERY"
  /\ LET r == Head(brkQueue)
     IN  /\ path_info' = ReplacePaths(r)
         /\ ex_pubs' = [ex_pubs EXCEPT ![r.info] = r.alternatives]
  /\ brkQueue' = Tail(brkQueue)
  /\ UNCHANGED <<network, requests, tm, nodes, tell, lost, last>>

Cut(path, a, b) == \E k \in 1 .. Len(path) - 1 : {path[k], path[k + 1]} = {a, b}

(* The broken paths' publishers and the standby ones are matched again     *)
(* with the subscribers at their ends.                                     *)
Rematch(i, a, b) ==
  LET broken == {path \in path_info[i] : Cut(path, a, b)}
  IN  IF broken = {} THEN <<>>
      ELSE <<[type |-> "MATCH_PUB_SUBS", info |-> i,
              pubs |-> {path[1] : path \in broken} \cup ex_pubs[i],
              subs |-> {path[Len(path)] : path \in broken}]>>

(* handle_lsn_request() of the broker: all items, in order *)
CheckDelivery ==
  /\ brkQueue # <<>> /\ Head(brkQueue).type = "LSN"
  /\ LET r == Head(brkQueue)
     IN  tmQueue' = FoldLeft(LAMBDA q, i : q \o Rematch(i, r.publisher, r.neighbour),
                             tmQueue, SetToSortSeq(Info, <))
  /\ brkQueue' = Tail(brkQueue)
  /\ UNCHANGED <<network, requests, graph, removed, path_info, ex_pubs, nodes, tell,
                 lost, last>>

Monitors == \E n \in Node : \E m \in Neighbours(n) : NeighbourLost(n, m) \/ NeighbourHeard(n, m)
Manager == MatchPubSubs \/ NotifySubscribers \/ HandleLSN
Broker == UpdateInfoDelivery \/ CheckDelivery
Rendezvous ==
  \/ \E i \in Info, pubs, subs \in Groups : pubs # {} /\ RequestMatch(i, pubs, subs)
  \/ \E subs \in Groups \ {{}} : RequestNotification(subs)

Next == LinkFails \/ BeaconsLost \/ LinkRecovers \/ Monitors \/ Manager \/ Broker \/ Rendezvous

(* The three kinds of process run on; links fail and recover and beacons   *)
(* are lost as they like.  Fairness says that the next event is taken out  *)
(* of each queue, that a monitor hears a link that works and notices one   *)
(* that does not: the steps of Next that do so are those of Manager,       *)
(* Broker and Monitors.  Nothing makes it give up a link that works.       *)
Takes(queue) == queue # <<>> /\ queue' = Tail(queue)
Notices ==
  \E l \in Link :
    /\ connectivity' = [connectivity EXCEPT
         ![l[2]] = IF l \in up THEN @ \cup {l[1]} ELSE @ \ {l[1]}]
    /\ silent' = silent \ {<<l[2], l[1]>>}

Spec == Init /\ [][Next]_vars
             /\ WF_monitors(Notices)
             /\ WF_tmQueue(Takes(tmQueue)) /\ WF_brkQueue(Takes(brkQueue))
----------------------------------------------------------------------------

(* Nothing is left to do and the topology manager knows the network. *)
Quiet == tmQueue = <<>> /\ brkQueue = <<>> /\ graph = up

(* Hop distance in the network, computed without paths. *)
Distance(s, d) ==
  LET within[k \in 0 .. Cardinality(Node)] ==
        IF k = 0 THEN {s}
        ELSE LET near == within[k - 1] IN near \cup {l[2] : l \in {m \in up : m[1] \in near}}
  IN  CHOOSE k \in 0 .. Cardinality(Node) :
        d \in within[k] /\ (k > 0 => d \notin within[k - 1])

(* Types; and the graph and rmv_edge_lid share the links of the network    *)
(* between them, whichever reports arrive (updateGraph): a link in neither *)
(* could never come back, one in both would be added twice.                *)
TypeOK ==
  /\ up \subseteq Link /\ removed \subseteq Link /\ graph = Link \ removed
  /\ connectivity \in [Node -> SUBSET Node]
  /\ \A p \in silent : p[2] \in connectivity[p[1]]
  /\ FID_to_subscribers \in [Node -> [Info -> SUBSET Bit]]
  /\ defaultRV \in [Node -> SUBSET Bit]
  /\ told \subseteq Node /\ tell \subseteq Node /\ lost \subseteq Node \X Info

(* Every subscriber of the last match gets what the nearest publisher      *)
(* sends, over FIDs computed by the topology manager and links chosen by   *)
(* the forwarders; publishers that serve nobody have stopped.              *)
NearestServes ==
  \A i \in Info :
    LET r == last[i]
        serves(p, s) == s \in Delivered(p, FID_to_subscribers[p][i], up)
    IN  r.graph = up /\ (\A p \in r.pubs : <<p, i>> \notin lost) =>
          /\ \A s \in r.subs : \E p \in r.pubs :
               /\ serves(p, s)
               /\ \A q \in r.pubs : Distance(p, s) <= Distance(q, s)
          /\ \A p \in r.pubs :
               FID_to_subscribers[p][i] # {} => \E s \in r.subs : serves(p, s)

(* No FID that a publisher holds takes a packet to a node twice or back to *)
(* the publisher: duplicates would be delivered, and a circle would never  *)
(* end, for Forwarder::push sets the time to live anew at every hop.       *)
OneCopyEach ==
  \A n \in Node, i \in Info :
    LET links == Travelled(n, FID_to_subscribers[n][i], Link)
    IN  \A l \in links : l[2] # n /\ \A m \in links : m[2] = l[2] => m = l

(* What the broker takes for a path in use really delivers: its publisher  *)
(* has a FID that takes its data to the path's end over working links.     *)
BrokerPathsDeliver ==
  Quiet =>
    \A i \in Info : \A path \in path_info[i] :
      LET p == path[1] IN
      <<p, i>> \notin lost =>
        path[Len(path)] \in Delivered(p, FID_to_subscribers[p][i], up)

(* The two ends of a broken link have a way to the rendezvous node again   *)
(* as soon as the failure has been handled.                                *)
EndsReachRV ==
  Quiet /\ (\A n, m \in Node : <<m, n, 0>> \in Link => (m \in connectivity[n] <=> <<m, n, 0>> \in up))
    => \A l \in Link \ up : TM \in Delivered(l[1], defaultRV[l[1]], up)

(* A notification about a scope is delivered by the nodes it is meant for  *)
(* and by no node on the way.                                              *)
OnlySubscribersAreTold == told \subseteq tell

(* What a match or a notification asks for is what the FIDs do: the        *)
(* nearest publisher serves each subscriber, once, and nobody else is told.*)
MatchesAreServed == TypeOK /\ NearestServes /\ OneCopyEach /\ OnlySubscribersAreTold

(* However the reports of both ends cross failures and recoveries, in the  *)
(* end the topology manager's graph is the network.                        *)
GraphConverges == <>[](graph = up)
============================================================================
