# Blackadder: TLA+ models, checks and proofs

Blackadder is a Click-based prototype of the PURSUIT publish/subscribe
architecture. Applications publish and subscribe to *scopes* and *information
items*, which form a directed acyclic graph; an object has one identifier for
every path that leads to it. A rendezvous node matches publishers with
subscribers, a topology manager computes Bloom-filter forwarding identifiers
(FIDs), and forwarders carry packets along them.

This directory models the node (rendezvous element, local proxy, forwarder, the
elements that talk to applications), both user libraries, the topology manager
with its resiliency, QoS and traffic engineering extensions, the tool that
deploys a network, and libpla, the packet level authentication add-on, down to
its field arithmetic.

Paths are relative to the directory that holds `src/`: `src/src` holds the
Click elements, `src/lib` the user libraries, `src/TopologyManager` the
topology manager.

## 1. Inventory

| Component | State | Operations | Hard part |
|---|---|---|---|
| LocalRV (`src/src/localrv.cc`, `scope.cc`, `informationitem.cc`, `remotehost.cc`) | `scopeIndex`, `pubIndex`, `pub_sub_Index`; per object: fathers, children, a table from each of its identifiers to publishers and subscribers | the eight pub/sub requests | redundant state kept in step over long request sequences; objects with several fathers; erasing under an iterator; when a match is announced |
| NB_Blackadder (`src/lib/nb_blackadder.cpp`) | `output_queue`, `event_queue`, the pipe, `write_set`, two mutexes and two conditions | requests, selector loop, worker loop, `disconnect`, destructor | interleavings, lost signals, full socket, full queue |
| LocalProxy (`src/src/localproxy.cc`, `activepub.cc`, `localhost.cc`) | active publications and subscriptions of local applications, which publisher was started | dispatch of requests, RV notifications, data, `disconnect` of an application | one START_PUBLISH for several local publishers; clean-up order |
| Forwarder (`src/src/forwarder.cc`) | table of links, their identifiers and addresses | forward to every link whose LID is in the FID | false positives, loops, several links on one wire |
| FromNetlink, ToNetlink, Netlink (`src/src/*netlink*`), blocking library (`src/lib/blackadder.cpp`) | packet queues, scheduling bits, sockets | requests, callback, tasks, `select()` | lost wake-ups; full sockets; what one side writes and the other reads |
| Topology manager (`src/TopologyManager/tm.cpp`, `tm_igraph.cpp`) | the network graph | answer MATCH_PUB_SUBS, SCOPE_PUBLISHED, SCOPE_UNPUBLISHED, link-state reports | choice of the publisher for each subscriber; exact FIDs; a graph that lags behind the network |
| Resiliency (`tm_rv_brk.cpp`, `broadcast_linkstate_monitor.cpp`) | delivery paths in use, neighbours heard | path updates, link-state reports, re-matches | reports lost on the failure they report; two managers of one state |
| QoS (`tm_qos.cpp`, `src/src/tm_ext`, `src/lib/qos`) | one weight plane per priority, a cache of item priorities | reports of link monitors, metadata queries, expiry | order of reports; packets built and read by two copies of a class |
| Traffic engineering (`te_graph_mf.cpp`, `tm_max_flow.cpp`) | measured and applied demand maps | recalculation thread, matches | two threads; termination of the flow algorithm |
| Deployment tool (`src/deployment`) | the network as parsed, identifiers, addresses | parse, generate, assign, discover, write | many functions must agree on ports, addresses, bits |
| libpla and the PLA element (`src/addons/libpla`, `src/src/pla`) | certificates, sequence number windows | certify, sign, verify, forward | a circular window under loss and reordering; hashes over the right fields |
| Elliptic curve arithmetic (`gnb.c`, `ec.c`) | none | field and curve operations, signatures | carries between machine words, points at infinity, three multiplications |
| GlobalConf, bit vectors, bindings, ns-3 model, access control, examples | – | – | constants, thin wrappers, simulator glue, applications |

How they interact. An application calls the library; the library sends the
request over a netlink (kernel) or Unix (user space) socket to FromNetlink,
which hands it to LocalProxy annotated with the application's identifier.
LocalProxy records it and, if it is the first of its kind on this node, sends
it on as one publication of the *node*: directly to the LocalRV of the same
node (node-local strategy) or over the Forwarder to the rendezvous node
(domain-local strategy). LocalRV updates its graph and announces a match: for
a node-local item by START_PUBLISH or STOP_PUBLISH to the local proxy, for a
domain-local one by MATCH_PUB_SUBS to the topology manager, which answers the
publishers with FIDs. Scopes that appear or disappear below a subscribed scope
are announced to the subscribers in the same two ways. Notifications come back
through LocalProxy and ToNetlink to the library's selector, which queues them
as events for the worker thread, which calls the application.

What makes each part correct:

* LocalRV: the two indexes, the father/child links, the identifiers and the
  RemoteHost records describe one graph; a request affects only the host that
  issued it; the latest match serves everybody who is subscribed; subscribers
  of a scope know its subscopes.
* The library: requests and events are delivered in order and once; no queue is
  read when empty; the pipe cannot block; what is queued is eventually sent,
  handled, and callers that wait go on.
* LocalProxy: it forwards exactly the first and the last request per node and
  identifier, and while a match exists exactly one local publisher is started.
* Netlink elements and blocking library: requests arrive as asked, in order;
  events are kept; nothing waits in a queue that nobody will look at.
* Topology manager and Forwarder: every subscriber of a match gets one copy from
  the nearest publisher, and the graph follows the network.
* QoS: the planes agree with the links' priorities however reports arrive, and
  items stay off links above their class.
* Traffic engineering: demands are counted once, answers always lead somewhere,
  recalculations end with flows that are fair and fit.
* Deployment: the network that the written files configure delivers.
* libpla: what was signed verifies, once; the arithmetic is that of the curve.

`PROJECT.json` lists every component with its sources, the hazards at their
lines and which property would catch each.

## 2. Modules

| Module | Content |
|---|---|
| `LocalRV`, `MCLocalRV` | the rendezvous element: state, one action per request, properties; instances, symmetry and views |
| `LocalRVProofs` | type correctness of the rendezvous element; the soundness of the information graph; that publishers and subscribers know what they have to: all of `LocalRV`'s properties proved |
| `LocalProxy`, `MCLocalProxy`, `LocalProxyProofs` | the dispatcher of a node: one action per request, notification and disconnection; type correctness and six properties proved |
| `NB_Blackadder`, `MCNB_Blackadder`, `NBProofs` | the non-blocking library: one action per critical section, fairness; type correctness, three safety properties and the refinement proved |
| `Channel` | the abstract specification of the non-blocking library: two queues that neither lose, duplicate nor reorder |
| `Netlink`, `MCNetlink`, `NetlinkProofs` | the blocking library, FromNetlink and ToNetlink, in kernel and in user space; all four invariants proved |
| `Forwarder` | forwarding by FID as operators over a topology; used by the next five |
| `TMGraph` | shortest paths, FIDs, matching and the graph update of the topology manager, as operators |
| `TopologyManager`, `MCTopologyManager` | topology manager, broker, neighbour monitors and the network, composed with `TMGraph` and `Forwarder` |
| `QoSPackets` | byte arrays, link state reports and metadata packets, as operators |
| `TMQoS`, `MCTMQoS`, `TMQoSProofs` | link monitors, QoS planes and metadata cache, composed with `TMGraph`, `Forwarder` and `QoSPackets`; reports, planes, queries and the priorities of matched items proved |
| `TrafficEngineering`, `MCTrafficEngineering`, `TrafficEngineeringProofs` | the recalculation thread with its flow algorithm against matches; three of its four invariants proved |
| `Deployment`, `MCDeployment` | the deployment tool; the network it writes is checked with `Forwarder` |
| `PLA`, `MCPLA`, `PLAProofs` | libpla and the PLA element; all three invariants proved |
| `Gnb`, `EllipticCurve`, `MCEllipticCurve` | field and curve arithmetic as operators, and the reference definitions they are compared with |
| `MCLibPLA` | both halves of libpla in one run |
| `SequenceFacts` | lemmas about numbers, sequences, iteration, folds and sums that several proofs cite |

Each module also contains *mutants*: operators placed before the definition
they are a wrong version of (a dropped guard, a swapped order). Replacing the
definition by the mutant must make TLC find the property violated, which shows
that the property depends on that piece of the code.

### LocalRV

| Model | Code |
|---|---|
| `scopeIndex`, `pubIndex` | the hash tables of the same names |
| `strategy`, `Live` | `Scope::strategy`, `InformationItem::strategy`; the domain is the set of allocated objects |
| `fatherScopes`, `contents` | `fatherScopes`; `childrenScopes` and `informationitems` in one set |
| `ids`, `pubs`, `subs` | the `ids` table: its keys, and the publisher and subscriber sets each key maps to, as pairs `<<id, host>>` |
| `published`, `subscribed` | the four sets of a RemoteHost, as pairs; scopes and items are told apart by the indexes |
| `matched`, `told` | histories: the last match announced for an item; which scope identifiers a subscriber has been told and not untold |
| `publish_root_scope` … `unsubscribe_info` | the methods of the same names, one action each |
| `Cut` | the two ways of removing: an object with all its identifiers, or one branch of it |
| `Publish`, `Subscribe`, `Unpublish`, `Unsubscribe`, `Next` | the dispatch in `push()`, `publish_scope()` … |

Click runs a request to completion, so a request is one step. A rejected
request (wrong strategy, missing prefix, wrong type, already there) leaves the
state as it is and is a stuttering step. Identifiers are sequences of
fragments. `told` drops what a host knew of the scopes below one it no longer
subscribes to, since it then no longer gets, nor needs, notifications.

Two loops of the code erase the element their iterator stands on
(`unpublish_scope`: the items of the scope, and the identifiers of the
notification). Whether the walk goes on correctly is up to the allocator: with
Click's hash table the freed node's successor pointer is normally still
intact. `IteratorsSurviveErase = FALSE` makes both outcomes possible (the graph
run); the runs about announcements take the ordinary outcome.

`NotBelow` excludes republishing a scope below itself: `recursivelyUpdateIDs`
then never returns, so there is no later state to speak about (listed as a
hazard). `MayIssue` says that node-local requests come from the node itself,
which is how LocalProxy routes them. Identifiers of several fragments are used
only to republish, which is what the library lets through
(`src/lib/nb_blackadder.cpp`, lines 337-451).

### LocalProxy

| Model | Code |
|---|---|
| `activePublicationIndex`, `activeSubscriptionIndex` | the tables of the same names; an entry is a record of `strategy`, `isScope`, `FID_to_subscribers`, `allKnownIDs` |
| `publishers`, `started` | the `publishers` table of all entries, as pairs `<<id, application>>`, and those of them whose value is START_PUBLISH |
| `subscribers` | the `subscribers` sets of all entries |
| `activePublications`, `activeSubscriptions`, `local_pub_sub_Index` | the two sets of each LocalHost, as pairs, and the LocalHost objects that exist |
| `requested` | history: the publications and subscriptions the rendezvous node was asked for and not asked to take back |
| `match` | history: the FID of the last notification for an item, zero for STOP_PUBLISH |
| `storeActivePublication` ... `removeActiveSubscription` | the methods of the same names, reached through `handleLocalRequest`; each also creates the LocalHost and forwards the request if the method returns true |
| `defaultRV_dl`, `TMFID` | the two values of GlobalConf that change at run time: the paths to the rendezvous node and to the topology manager |
| `handleRVNotification` | any of the notifications. It reads bytes as identifiers before it looks at the type, for UPDATE_BA bytes of the two paths, and then ignores them: not modelled |
| `UpdateBA` | UPDATE_BA replaces both paths |
| `PublishNotification`, `startPublish`, `stopPublish` | START_PUBLISH and STOP_PUBLISH; the two loops over the identifiers, whose order is the sender's, and the choice of the first publisher of a hash table are existential choices |
| `disconnect`, `LastOf`, `Withdrawn`, `HandOver` | `disconnect()` with its four passes: what goes, what is withdrawn at the rendezvous node and who takes over |
| `OnlyLocalHost` | packets that change nothing but create the LocalHost: data, and requests that are refused |
| `handleUserPublication`, `handleImplicitPublication`, `findLocalSubscribers` | where published data goes, without and with a FID of the application's, as operators |
| `RVFID`, `publishReqToRV` | where a request goes: to this node's LocalRV, or over the network along `defaultRV_dl`. `requested` is the same for both |

The four passes of `disconnect()` are one step, as in Click. They commute as far
as the tables are concerned: items and scopes are disjoint sets of entries, and
publications and subscriptions are different tables. Their order matters to the
rendezvous node (items before scopes, deep scopes before shallow ones), which
the composition with `LocalRV` will look at.

The environment: notifications may come at any time for any item that has an
entry, with any FID, and list all identifiers of the item in any order, which is
how LocalRV and the topology manager build them. Applications agree on what is a
scope and what is an item (`KindAssumption`): a removal is forwarded with the
kind the last application gives. LINK_LOCAL and BROADCAST_IF are treated by
these methods exactly like IMPLICIT_RENDEZVOUS, which stands for the three.

### NB_Blackadder

| Model | Code |
|---|---|
| `output_queue`, `event_queue` | the queues of the same names |
| `pipe` | bytes in the pipe between `push()` and the selector |
| `write_set`, `ready` | is the socket in `write_set`; what `select()` left in `read_set` |
| `selector` | the statement the selector is at: `select()`, then the tests for the pipe, for reading and for writing |
| `worker` | before the lock, in `pthread_cond_wait`, holding the mutex at the loop test, in the callback |
| `waiting` | threads in `pthread_cond_wait(&queue_overflow_cond)` |
| `conn` | `disconnect()` sends DISCONNECT and then closes the socket |
| `writable`, `inbox`, `arrived`, `sent`, `handled` | the environment and two histories |

A critical section is one step: nothing in it waits for another thread except
`pthread_cond_wait`, which is a step of its own. A condition wait may end
without a signal; the code has no loop around either wait, so the thread then
goes on. The callback runs in the worker thread and may issue requests, so the
worker can be one of the requesting threads. After a thread has called
`disconnect()` the application issues no further requests; what `select()`
does with a closed descriptor is not modelled.

The refinement. `Ch == INSTANCE Channel WITH ...` maps `requests` to
`output_queue`, `received` to `sent`, `events` to the event queue followed by
what is still in the socket, and `delivered` to `handled`. `IsChannel == Ch!ChSpec` says that with all its
threads, its pipe and its repeated sends the library is a pair of queues; moving
an event from the socket to `event_queue`, arming `write_set`, waking up and
waiting are steps that do not show. `DISCONNECT` is the one message that does
not pass through the queue.

### Netlink

One variable per queue, scheduling bit and program counter of the two tasks.
In kernel mode `nl_callback` runs on the application's thread and
`FromRun` ... `FromEnd`, `ToRun` ... `ToTest` are the statements of `run_task()`
between which the other side may run; in user mode one thread does
`FromSelected`, `ToSelected` and waits in `Sent` for the socket. Messages are
encoded field by field by the library (`Encode`, `Accepted` for the length
checks) and decoded by LocalProxy (`Decode`). What LocalProxy answers is left
open: any event to any application it knows (`Answers`).

### Forwarder, TMGraph, TopologyManager

An identifier is a set of bits, a FID the union of link identifiers and of the
destination's own, `Matches` the test of `Forwarder::push`. `Travelled` and
`Delivered` follow a packet through all forwarders to where it ends.
`ShortestPath` is igraph's, any of the shortest ones. `TopologyManager` has the network (`up`, what
each monitor has heard of), the topology manager's queue and graph, the
broker's queue and paths, and what each node was told (FIDs of publishers, the
path to the rendezvous node). Reports, UPDATE_BA and START_PUBLISH are
delivered over the links that work at that moment: one that crosses a failed
link is lost, as in the code, and `lost` records which publishers missed an
answer. `silent` has the neighbours a monitor knows but has not heard for seven
seconds: because the link failed (`LinkFails`) or because beacons were lost on a
link that works (`BeaconsLost`). The monitor reports such a neighbour as lost
whether or not the link works by then (`NeighbourLost`), unless a beacon comes
first (`NeighbourHeard`). The steps of one monitor are atomic, although its two
threads share the map of neighbours without a lock.

### QoSPackets, TMQoS

Reports are byte sequences: the operators are the methods of `ByteArray`,
`LSMPacket` and `MetaDataPacket`, `appendLinkStatus` from the copy of the class
that LinkMon uses, the getters from the copy in the library. `qlwm` is the map
of weight planes, `ii_meta` the metadata cache; `late` and the field `old` of
an entry stand for the three timeouts.

### TrafficEngineering

The thread `te_loop` between its critical sections (`Measure`, the flow
algorithm step by step, `Install`, `SetValid`) and the main thread between
picking paths and counting demands. A push sends what is left of a demand or what
fits the links of the path, whichever is less, and makes these links longer in
proportion (`Push`, `Grown`), with epsilon a half. Lengths are whole numbers in a
unit in which a link of length delta has `Start`; they are rounded, as doubles are.
Before it solves the code scales all demands alike, by a factor that
`sp_concurrent_flow` and `max_concurrent_flow_prescaled` find; the model takes any
factor of `Scales`, so that demands are below, at and above the capacity. The
code solves twice and discards the first solution, and scales the flows
afterwards, which changes no path's share; both are left out. A pair without a path in
the map gets a FID of zeros, as in the code (`get_fid`); `MapIsComplete` says
that this does not happen.

### Deployment

`pc` goes through `main()`: parsing node by node with every reason to refuse,
option -a, identifiers drawn one by one (any draw the random generator can
make), FIDs, MAC addresses connection by connection with failing ssh commands,
ns-3 devices, files. Properties read the files, not the tables they were
written from.

### PLA, Gnb, EllipticCurve

A private key is a number and a hash is what it is taken over; which fields go
into which hash, in which order they are filled in, and what the text form of a
certificate keeps is modelled. `conn` is the list of windows, ring buffers as in
the code; `seen` is the history of numbers that passed. `Gnb` and
`EllipticCurve` are the algorithms themselves on a field of degree 7 instead of
163, with words of 4 bits: all elements, all points and all scalars can be
tried. The multiplication table that `gnb_init` computes is the constant `Rule`,
and `RuleAssumption` has TLC compute it and compare. The base point, a table in
`ec_init`, is the constant `G`; `CurveLaws` says that `ec_random_point_largeorder`
could have drawn it, and that the points used as reference are the whole curve.

## 3. Runs

| Run | What it checks | Result |
|---|---|---|
| `rv_graph` | `GraphAgrees` (with the types), `OthersKeepTheirs`: two hosts, three scopes, one item, loops may skip | holds |
| `rv_match` | `MatchIsCurrent`, `SubscopesAreTold`: same objects, three interests in force at once, two hosts, both strategies, under `LocalSpec` (below) | holds |
| `lp_safety` | `LocalHostsAgree`, `RequestsAgree`, `OnePublisher`, `NotifiedDataIsDelivered`, `DisconnectHandsOver`: three applications, a scope, an item with two identifiers | holds |
| `nb_safety` | `FrontIsThere`, `OneWakeUp`, and the refinement `IsChannel`: two requesting threads, one of them the callback, a socket that fills up | holds |
| `nb_live` | `RequestsAreSent`, `WaitersGoOn` under `FairSpec`, the socket stays writable | holds |
| `nb_lost_wakeup` | `EventsAreHandled` under `FairSpec` | violated: see the finding |
| `ipc` | `TypeOK`, `RequestsArriveAsAsked`, `EventsAreKept`, `NoLostWakeup`, `RequestsAreRead`: two applications, four scripts, kernel and user space | holds |
| `tm` | `MatchesAreServed`, `BrokerPathsDeliver`, `EndsReachRV`, `GraphConverges`: a ring of four nodes, a failure or a loss of beacons, a recovery | holds |
| `qos` | `ReportsAreReadAsWritten`, `PlanesAgree`, `QueriesAreTidy`, `PathsFitPriorities`, `PrioritiesBecomeKnown`: a triangle with a fast side | holds |
| `te` | `AnswersAreExact`, `SubscribersAreServed`, `MeasuredOnce`, `FlowsAreFair`, `RecalculationsEnd`: a triangle with a fourth node behind it, three demands | holds |
| `deploy` | `WrittenNetworkWorks`, `TablesAgree`, `Ends`: 18 configurations in all modes | holds |
| `libpla` | `WindowIsExact`, `PacketsVerify`, `CertificatesVerify`, and `CurveLaws` for the arithmetic | holds |

### What the properties say

A property that has several named parts is checked as their conjunction, and
has a mutant for each part.

* `GraphAgrees` is the types and six parts, the next four items.
* Its parts `IndexesAgree`, `LinksAgree`, `IDsArePaths`: no index entry or pointer names
  a deleted object, and the identifiers of an object are exactly the paths that
  lead to it. The code depends on the last one in `checkForOtherPubSub`, which
  dereferences the entry for each identifier of a father plus the suffix
  without a test, and wherever it deletes "all identifiers" of an object with
  one father left.
* `NamesAreUnique`: no identifier names a scope and an item, although a
  republication gives every object below the scope identifiers that no check
  has looked at. It holds because an identifier can exist only below an
  existing scope identifier, and the republished prefix is new.
* `PrefixesExist`: `unpublish_info` and `unsubscribe_info` dereference the scope
  that the prefix names.
* `RemoteHostsAgree`, and the action property `OthersKeepTheirs`: removing a branch drops publisher and
  subscriber sets wholesale; they never contain what somebody still relies on.
* `MatchIsCurrent` (`MatchServesSubscribers`, `MatchNamesSubscriptions`): no order of requests
  leaves a subscriber out of the latest match, nor an identifier it uses out of
  the list the publishers got, although republishing a scope changes the
  identifiers of the items below it without a rendezvous.
* `SubscopesAreTold`: the three places that announce scopes (creation,
  republication, subscription) together leave no gap.
* `LocalHostsAgree`: what each application has and what each entry lists are kept
  in different objects; `disconnect()` walks one and dereferences the other, and
  an entry with a pointer to a deleted LocalHost would be used by the next
  notification.
* `RequestsAgree`: the rendezvous node sees one publisher and one subscriber per
  node. Whatever the order in which applications come, leave and disconnect, it
  has been asked for exactly what at least one of them wants.
* `OnePublisher` (`OneStarted`, `StartedUsesLatestFID`): "Only one publisher can be notified at a
  specific time" (`src/src/activepub.hh:54`), also when an item has several
  identifiers with different publishers, when its publisher is replaced, and
  although the loop over the identifiers ends early and leaves old FIDs behind.
* `DisconnectHandsOver`, `NotifiedDataIsDelivered`: the publisher that goes is
  replaced; data reaches the subscribers on the same node under every
  identifier of the item once a notification has told the proxy what they are, and
  fragments of it, sent with a FID, those that subscribe to the item.
* `FrontIsThere`, `OneWakeUp`: `write_set` survives from one turn of the
  selector's loop to the next, outside the mutex; it nevertheless never leads to
  `front()` of an empty queue, and the pipe never holds a second byte, so the
  `write()` under `selector_mutex` cannot block.
* `IsChannel`: the library implements the specification `Channel`: requests and
  events pass exactly once and in order, also when `sendmsg()` fails and is
  repeated.
* `RequestsAreSent`, `WaitersGoOn`: the selector makes progress, and when it has
  emptied the queue one waiting caller goes on.

* `RequestsArriveAsAsked`, `EventsAreKept`: requests survive encoding, socket,
  queue and decoding, once and in order, and so do events unless the kernel
  finds an application's socket full. `NoLostWakeup`: two tasks, two scheduling
  bits and a mutex never leave a packet behind. `RequestsAreRead`: with one
  exception, which the property names: in user space Click waits in `sendmsg()`
  for an application that waits in `sendmsg()` for Click.
* `MatchesAreServed` (`NearestServes`, `OneCopyEach`, `OnlySubscribersAreTold` and
  the types): end to end, with FIDs
  from the topology manager and links chosen by the forwarders. `TypeOK` also
  says that every link is either in the graph or in `rmv_edge_lid`.
  `BrokerPathsDeliver`: what the broker watches is what is in use. `EndsReachRV`:
  both ends of a failed link get a path to the rendezvous node that works.
  `GraphConverges`: reports from both ends may cross failures and recoveries, and
  a working link that was reported as failed comes back.
* `ReportsAreReadAsWritten`: the packets, byte by byte, through two copies of the
  class. `PlanesAgree`: the weight of a link is computed in two places, depending
  on what is known first. `PathsFitPriorities` (`SlowItemsStayOff`,
  `NeverAboveItsPriority` and the types): what an item gets is what its priority
  allows. `QueriesAreTidy`: queries for metadata are matched like any other item
  and must not wait for themselves, and are given up when answered.
  `PrioritiesBecomeKnown`: every monitor is started and reports.
* `MeasuredOnce`, `SubscribersAreServed`, `AnswersAreExact` (`MapIsComplete`,
  `SinglePathsHaveNoLoop` and the types): two threads, with a flag outside of the
  lock. `FlowsAreFair` (`PhasesAreFair`, `FlowsFit`), `RecalculationsEnd`: the flow
  algorithm.
* `WrittenNetworkWorks` (`WrittenNetworkDelivers`, `FIDsAreExact`): forwarders
  configured by the written files deliver. `TablesAgree` (`OneOfEachRole`,
  `MacsAgree`, `PrioritiesAgree`, `DevicesArePaired` and the types): tables filled
  in different orders agree. `Ends`: no draw of identifiers runs for ever.
* `WindowIsExact`: the ring accepts a number if and only if it is new and not
  left behind. `PacketsVerify` (`SignedPacketsVerify`, `RidIsBound` and the types),
  `CertificatesVerify`: signer and verifier hash the same fields. `CurveLaws`
  (`FieldLaws`, `RotationsCompose`, `AdditionIsTheGroups`, `ProjectiveAgrees`,
  `MultiplicationsAgree`, `CompressionRoundTrips`, `RandomPointsAreGood`,
  `SignaturesVerify`): the arithmetic against reference definitions.

### The finding

The worker of the non-blocking library waits without testing `event_queue`: a
signal sent before it waits is lost and the event stays until the next one
arrives (`src/lib/nb_blackadder.cpp:66`; run `nb_lost_wakeup`).

### Limits the models show

What the properties leave room for; the most important are among the hazards:

* `unsubscribe_info` announces the match before it cuts the item's branch, so
  the subscribers of a scope cut off stay in it until the next rendezvous
  (`src/src/localrv.cc:1112`). `MatchServesSubscribers` therefore says that no
  subscriber is left out, and not that nobody else is listed.
* An application that unpublishes the item it was told to publish is not
  replaced, unlike one that disconnects (`src/src/localproxy.cc:321`).
* If an event arrives while the socket is full, `select()` clears `write_set`
  and nothing sets it again until a request comes to an empty queue
  (`src/lib/nb_blackadder.cpp:95`); of several callers that wait for room one goes
  on (line 181); the selector can send queued requests after DISCONNECT
  (line 587).
* A link-state report is sent once, over a path fixed at start-up: with two
  failures at a time the graph can stay wrong
  (`broadcast_linkstate_monitor.cpp:90`). With `MaxFailures = 2`,
  `GraphConverges` does not hold.
* Best effort avoids fast links only while the detour has at most two hops:
  100 + 100 < 255 < 300 (`tm_igraph.cpp:164`).
* Certificates whose validity starts or ends during daylight saving time come
  back from their file an hour off (`libpla_io.c:118`); `CertificatesVerify` does
  not hold with `Summer = {2}`, a time at which the instance's certificates
  end; the run and the proofs take validity times outside of `Summer`.
* In user space Click and an application can wait for each other (`Stuck` in
  `Netlink`).
* Of the identifiers that disappear with a branch one is reported to subscribers
  (`localrv.cc:565`); it takes four scopes and seven interests, beyond the bounds.
* `window_high` of libpla is an `int` (`libpla.c:948`), `IDs_total_bytes` of LocalRV
  an `unsigned char` (`localrv.cc:1177`): neither model reaches these limits. The
  comparison of validity times (`libpla.c:127`) is on unsigned differences and
  always true, and is modelled as that.
* An expired metadata query gives up a subscription nobody made and keeps the
  one to the metadata (`tm_qos.cpp:59`); `QueriesAreTidy` speaks of answered ones.
* `alt_publishers_size` is multiplied twice (`tm.cpp:237`), a list of PlanetLab
  nodes that could not be read goes unnoticed (`deploy.cpp:98`), and a demand is
  looked up without a test (`te_graph_mf.cpp:547`); the models keep to inputs
  where none of them matters.

### Bounds, symmetry, views

| Bound | Values | Why enough |
|---|---|---|
| `ScopeObj` | 3 | three scopes give a scope with two fathers and an item with two scopes above it |
| `ItemObj` | 1 | items interact only through the name check and the scope above |
| `Frag` | 2 | siblings, and the same name under different fathers |
| `MaxDepth` | 3 | a scope between a root and an item, so that a republication updates identifiers recursively |
| `MaxInterest` (LocalRV) | 4 (3 in `rv_match`) | publications and subscriptions in force at once. Scopes outlive their publishers while they have contents, so with three an item can have a publisher and two subscribers on different branches; with four two hosts may each hold interests in two branches |
| `App`, `ID`, `Item` | 3; 3; one item with two of the identifiers, the third is the scope above one of them | a started publisher, another one under the same and one under the other identifier; a subscriber of an identifier and of the scope |
| `Strategy` (LocalProxy) | `domain_local`, `implicit_rendezvous` | one that is forwarded and one that is not; the code tells no others apart, and with two there are mismatches |
| `FID` | the internal link and a remote one | the two that `handleUserPublication` tells apart, besides zero; UPDATE_BA brings either |
| `MaxInterest` (LocalProxy) | 4 | publications and subscriptions in force at once: two publishers under one identifier, one under the other, and a subscriber |
| `QueueLimit` | 2, 3 (1000 in the code) | the code compares the size with this number and with 0 and 1 only |
| `MaxCalls`, `MaxEvents` | 1 to 3 | enough to pass the limit, drain the queue and fill it again |
| `MaxSocket` | 1 | the socket of every process can be full; scripts of up to five calls fill it several times |
| `MaxFailures`, `MaxDown`, `MaxRequests` (TopologyManager) | 1, 1, 1 | one link fails and recovers, or loses its beacons, while a match and its re-matches are under way; a ring leaves a second way everywhere |
| `MaxMatches` (TMQoS) | 2 | a match before and one after the priority is known |
| `FID_LEN`, `PURSUIT_ID_LEN` | 2 bytes, 1 byte | identifiers that cross a byte; reports of two links with three items each |
| `MaxMatches`, `MaxRounds` (TrafficEngineering) | 1, 2 | a match falls anywhere into a first and a second recalculation |
| `Capacity`, `Scales` | 2; 1 and 3 | demands of 1, 2, 3 and 6: below the capacity, equal to it, and more, in one, two and three pushes |
| `Start` | 2^20 | the smallest push makes a link longer, and rounding matters little |
| `Configs` (Deployment) | 18 files | one for every mode, command line option and reason for refusal; fewer bits than identifiers in some |
| `Bounds` (PLA) | three sets of bounds | many certificates; two packets on the way at once; numbers further apart than the window, of size 2 |
| `DEGREE`, `T`, `W` | 7, 4, 4 | a field with a normal basis of the type the code uses, elements of two words of which one is partial; all its points and scalars can be tried |

`MaxDepth`, `MaxInterest`, `MaxCalls` and `MaxEvents` are guards of the
actions; the proofs hold for every value of them.

Symmetry: applications, object addresses and fragments are only compared for equality. Hosts are
interchangeable only where no request is node-local, because `LocalHost` is
then not read. Views drop a history no property of the run mentions; no action
reads one history to write anything else.

`LocalSpec` of `LocalRV`, which `rv_match` checks, leaves out the requests after
which a host other than the local one publishes a node-local object or
subscribes to it or to a scope above it (`LocalStaysLocal`). Only republications
do that: `republish_inner_scope` (`localrv.cc:305`) and its counterpart for items
compare the request's strategy with that of the new father and announce under
that of the object. What the other host is to see of an object that only exists
on this node is nowhere said. Everything else, both strategies with any number
of hosts included, is in `LocalSpec`; `rv_graph` and the theorems about the graph
are about `Spec`.

Deadlock: the LocalRV and LocalProxy runs check it. The library may stop: an idle selector
sits in `select()`, an idle worker in `pthread_cond_wait`, and the bounded
application has no more requests, so its runs say `CHECK_DEADLOCK FALSE`. So do those of the other components,
which wait for messages, timers or failures that have come to an end, or are programs that
terminate.

Fairness (`FairSpec`): weak fairness of the selector, of the worker and of
`blackadderReads`. The threads run whenever they can; the application's
callback returns; and Blackadder reads its socket, being an element that is
scheduled by Click for as long as the socket is readable. Nothing is assumed of
application threads, of spurious wake-ups or of the arrival of events.

The other specifications with liveness properties: `TopologyManager` assumes that
the manager and the broker take the next event out of their queues and that a
monitor notices a neighbour whose link works or no longer works, since all three
are loops that block on nothing else; nothing is assumed of failures, recoveries
and lost beacons, and nothing makes a monitor report a link that works as failed.
`TMQoS`: the manager reads its events and the timer of a monitor that has not
reported fires. `TrafficEngineering`: the thread `te_loop` runs on.
`Deployment`: the program runs on, and a draw that succeeds with positive
probability is made in the end, because every draw of `CalculateLID` that does
not count is no step. `Netlink`: Click runs scheduled tasks and selected
descriptors, `sendmsg()` that can return does, and applications read their
events.

## 4. Proofs

`NBProofs` proves for any set of threads, any queue limit, any bounds and
either behaviour of the socket, from `NBAssumption`:

* `TypeCorrect`: `Spec => []TypeOK`;
* `FrontSafe`: `Spec => []FrontIsThere`;
* `OneByteSuffices`: `Spec => []OneWakeUp`;
* `EventsKeepTheirOrder`: `Spec => []EventsInOrder`.

`FrontIsThere` and `OneWakeUp` are not inductive. Both are facts about who is
responsible for a non-empty queue: a byte in the pipe, the socket in
`write_set`, or neither while the selector is stalled. The inductive invariant
adds `Watched` (a byte or an armed `write_set` implies a request in the queue,
and never both before the byte is read) and `StillReady` (what `select()`
reported, the pipe's byte and the socket's event, is still there when the
selector reads it, because nobody else reads either). With it, every action is
one step of the proof.

* `ImplementsChannel`: `Spec => IsChannel`. The initial states agree, and
  `NextChannel` maps each action to a step of `Channel` or to none. The step that
  takes an invariant is sending: the selector sends the front of a queue that is
  not empty (`FrontIsThere`), so it is a `Receive`. That the concatenation of
  `event_queue` and the socket's contents does not change when an event moves
  from one to the other is `HeadOfConcat` and its like.

`PLAProofs` proves `WindowDecides`: `Spec => []WindowIsExact` for every window
size and all bounds, from `PLAAssumption`. The property says what the ring
answers; it is not inductive, because it does not say what the ring holds. The
invariant `Windows` says that for each receiver and key there is a set of numbers
that passed such that the ring is a good window for it (`GoodWindow`): entry
`(index + (s - low)) % WindowSize` is marked exactly if `s` passed, for every
`s` in the window, and nothing beyond the window has passed. It is preserved
by marking (`MarkedIsGood`) and by advancing the window (`AdvancedIsGood`), which
rest on facts about remainders: numbers that are less than a window apart have
different slots (`WindowInjective`), and those the window leaves behind are
exactly the slots that are cleared. The rest of the invariant says that numbers
in headers, in certificates and in the network are natural numbers within the
bounds.

Its second part proves `SignedIsAccepted`, `Spec => []PacketsVerify`, and
`FilesVerify`, `Spec => []CertificatesVerify`, under the hypothesis
`ValidInWinter`: no certificate is asked for with a validity time in `Summer`.
The code needs it: a validity time under daylight saving comes back from a file
an hour off, and the identity hash over it no longer verifies (section 3). The
invariant `Genuine` says where everything that verifies comes from: a header's
implicit certificate holds the identity hash of the very fields its key was
issued with, under the rid asked for, in the files (`GenuineFiles`), in the list
of certificates (`GenuineCerts`) and in the packets on their way (`GenuineNet`),
which are no more than the bound (`NetFits`); receivers know issued keys only
and have seen no number that was not signed (`KnownKeys`, `SeenIsSigned`); and
without a default certificate the list is empty (`Unlisted`). That a certificate
written and read again is the same one takes `ValidInWinter`; no other step does.

`LocalRVProofs` proves `TypeCorrect`: `Spec => []TypeOK` for any hosts, objects,
fragments and bounds, from `LocalRVAssumption`. The work is in the lemmas about
identifiers (extending or splicing non-empty sequences gives non-empty
sequences of fragments) and in one lemma per request.

Its second part proves, from the same assumption and for both values of
`IteratorsSurviveErase`:

* `GraphIsSound`: `Spec => []GraphAgrees`. The inductive invariant `GraphInv` is
  `GraphAgrees` without the types, which `TypeCorrect` gives, and without `PrefixesExist`, which follows. Every request is one of
  four changes: a record under an existing name, a new object, one more father
  for an object (`GrowAgrees`), or a cut (`CutAgrees`). The last two change the
  names of everything below at once. That the names stay exactly the paths takes
  an argument over names of any length: each is split at the object that gained
  or lost a father and moved along one fragment at a time, and "by induction over
  the length" is the choice of a shortest counterexample (`LeastElement` of
  `SequenceFacts`);
* `OthersKeepTheirsAlways`: `Spec => OthersKeepTheirs`, an action property. A cut
  removes the records of a branch; `BranchIsClear` shows that there are none,
  because `checkForOtherPubSub` looked at exactly the names that go.

Its third part proves the two announcement properties, for the behaviours of
`LocalSpec`:

* `MatchesStayCurrent`: `LocalSpec => []MatchIsCurrent`. The inductive invariant
  `MatchInv` says the same of unused addresses, so that a new item starts with no
  match. Every request leaves an item's match, publishers and names in place and
  gives it no subscriber (`KeptItem`), or announces a match of at least what there
  is afterwards (`FreshItem`). "At least" is for `unsubscribe_info`, which announces
  before it cuts. That a publication or subscription is recorded under a name the
  match has takes the soundness of the graph: records are under names of the
  object, and names of a father extended by the object's fragment are names of the
  object. `LocalStaysLocal` is needed for node-local items, whose match names the
  local host whoever asks;
* `SubscopesStayTold`: `LocalSpec => []SubscopesAreTold`, if `IteratorsSurviveErase`.
  The property is inductive. `notifySubscribers` is called with all names of a
  scope but one after a republication; the one left out is the name the scope
  already had, which no name below the new father equals (`FreshNames`). What
  SCOPE_UNPUBLISHED takes back are all names of a scope that goes, or the one name
  that leads through the father it is cut from (`UntoldElsewhere`). In the model
  that name goes together with the link; if the walk over the hash table does not
  survive its erasures, others go with it and the property fails.

`NetlinkProofs` proves for any applications, scripts and limits, in kernel and in
user space, from `SetupsAssumption` (the scripts consist of requests the library
can express: data come with a FID exactly under the strategies that take one,
as the API comment asks):

* `TypesAreKept`: `Spec => []TypeOK`, and `WakeupsAreKept`: `Spec =>
  []NoLostWakeup`, from the inductive invariant `Shape`: types, `NoLostWakeup`
  itself, what the program counters of the two tasks say of each other and of
  the mode (`Tasks`), and that no socket is over its limit (`Sizes`);
* `RequestsArrive`: `Spec => []RequestsArriveAsAsked`, from `Carried`: what has
  been read, what waits in the queue and what is just being sent make up what was
  asked for. A message is read as it was written because
  decoding inverts encoding for every request (`DecodeEncode`), whatever the
  lengths of identifiers, prefix and data;
* `EventsArrive`: `Spec => []EventsAreKept`, from `Kept`: the events that an
  application got and those on their way are those pushed for it, in order, while
  none is counted as lost; none is in user space, because nothing is pushed for
  an application that has no socket yet.

`LocalProxyProofs` proves for any applications, identifiers, items, strategies
and FIDs, from `LocalProxyAssumption` and `KindAssumption`:

* `TypeCorrect`: `Spec => []TypeOK`, of which `started \subseteq publishers` is
  the part that matters below;
* `HostsAgree`: `Spec => []LocalHostsAgree`, inductive together with the types.
  The step that takes work is `disconnect()`: removing the pairs of one
  application removes exactly the identifiers that nobody else has
  (`RemainingIDs`);
* `RequestsAreForwarded`: `Spec => []RequestsAgree`. It is not inductive, because
  a removal takes its kind from the application and a withdrawal from the entry:
  `EntriesHaveTheirKind` says that both are the same. The set equation is first
  turned into a statement about single requests (`RequestsPointwise`);
* `AtMostOneStarted` and `StartedIsUpToDate`: `OneStarted` and
  `StartedUsesLatestFID` are inductive together, given that a marked identifier
  has an entry. A notification that finds a started publisher updates its entry
  because there is no other; one that finds none may mark one.
  `PublisherIsUnique`, `Spec => []OnePublisher`, is their conjunction;
* `HandOverOnDisconnect`: `Spec => DisconnectHandsOver`, an action property: only
  `disconnect()` removes a LocalHost (`OnlyDisconnectRemoves`), and an entry that
  survives it has another publisher, which is marked (`DisconnectMarksAnother`);
* `DataIsDelivered`: `Spec => []NotifiedDataIsDelivered`. The loop over the entries
  ends at the first with a started publisher, so what it finds must do for all:
  the invariant `KnownIDs` says that an entry knows no identifiers or exactly
  those of an item it belongs to. The identifiers of a fragment are made of these.

`TMQoSProofs` proves, from `QoSAssumption`, for any network, items and priorities:

* `QueriesStayTidy`: `Spec => []QueriesAreTidy`. The invariant `Tidy` adds that
  the entry of a metadata item has not outlived its time before the query it
  serves: without that a clean-up could remove the one and keep the other. Each
  operation of the cache has a lemma, and an expired item that is looked up, the
  case with two clean-ups in a row, is put together from them;
* `ReportsReadAsWritten`: `Spec => []ReportsAreReadAsWritten`, byte by byte. What
  `setBits` and `getBits` do with whole bytes and pairs of bytes is put in terms of
  single array positions (`BytesAreSet`, `TwoBytesAreSet`), then for lists of items
  (`ItemsAreSet`, `ItemsAreRead`) and for identifiers, whose bytes are sums of
  their bits (`ByteIsSum`, `BitsOfSum`). One `appendLinkStatus` adds a record and
  leaves the earlier ones alone (`LinkIsAppended`, `RecordKept`), and a reader that
  walks the records finds each where it was put (`LinkOffsetIs`). The folds
  are taken apart with `FoldSteps` of `SequenceFacts`. The invariant
  `GenuineEvents` says that whatever is in the queue was sent by a monitor or by a
  provider;
* `MetadataIsRead`: the same of a metadata packet, for every item and priority;
* `PlanesAlwaysAgree`: `Spec => []PlanesAgree`. The invariant `PlanesInv` says that
  a link's weight on every plane is the one of its configured priority, which a
  plane created late, from what is known of the links, and a link reported late,
  on the planes there are, both keep (`LinkStateIsRight`, `ReportIsRight`);
* `ItemsStayBelow`: `Spec => []NeverAboveItsPriority`. The cache holds for an answered
  item what its provider published (`Known`), because only the provider's packets
  are in the queue; a look-up yields that or the default; and the plane chosen is
  not above it (`PlaneIsBelow`).

Reports have one hypothesis, `FewLinks`: no node has more than 255 links, because
`appendLinkStatus` counts them in one byte. The planes have another,
`LinksAreTold`: no two links share an identifier, for the topology manager finds a
reported link by it. The network of the run `qos` has both.

`TrafficEngineeringProofs` proves three invariants for any network, requests,
demands and bounds, from `TEAssumption` (pairs are connected and requests made of
them), `NetworkAssumption` (nodes are numbers, the network is finite) and
`LengthsAssumption` (capacities, factors and the first length are positive, and
the first length is at least twice the capacity):

* `TEMeasuredOnce`: `Spec => []MeasuredOnce`. The sum is a fold that takes the
  elements of a set in an unspecified order; `AnyOrder` (`SequenceFacts`) shows, with the smallest
  set for which it is not so, that the order does not matter, and `TotalChanges`
  that the sum changes by as much as one of its terms. That a match counts for one of the
  pairs takes `BestIsPublisher`: among finitely many publishers one is nearest;
* `TEFlowsAreFair`: `Spec => []FlowsAreFair`. Its half `PhasesAreFair` is about
  the sum of a pair's flows, more by one push after each (`OneMorePush`).
  `FlowsFit` takes the bounds on lengths: a push is made only while D is below 1,
  it is no more than the capacity, a link grows by no more than its half
  (`GrowsByHalf`), and so does the sum of the lengths (`LengthsGrow`). The invariant
  `FlowInv` also says that every path with a flow, and every path of the map in
  use, leads from the source to the sink;
* `TESubscribersAreServed`: `Spec /\ []MapIsComplete => [](NoBroadcast =>
  SubscribersAreServed)`. Without a path for a pair there is only a FID of zeros to
  be had, so the theorem supposes what `MapIsComplete` says, which the run checks. The
  invariant `AnswerInv` says that the FID of the publisher of each subscriber
  already handled contains all links of some path between them, whatever map that
  came from; a FID only grows; and a FID with the links of a path delivers
  (`PathDelivers`, along the path one hop after another). `NoBroadcast` is
  needed: the Forwarder takes a FID of ones for a broadcast, which ends at the
  neighbours (`src/src/forwarder.cc`), so a FID that has filled up serves less.

Model-checked only, and why:

* `MatchesAreServed`, `BrokerPathsDeliver` and `EndsReachRV` of `TopologyManager`,
  `AnswersAreExact` and `PathsFitPriorities`: they say that a FID leads over its own
  links and no others. That is true of the identifiers of an instance and false
  of some others, for a FID is a Bloom filter. `MapIsComplete` besides depends on
  demands that are not too far apart, which the code sees to by scaling, and
  `SlowItemsStayOff` on detours that weigh less than a barred link;
* `WrittenNetworkWorks` and `TablesAgree` of `Deployment` for the same reason and
  because its tables are filled by nested folds; `CurveLaws`, because the
  algorithms are recursive;
* liveness under fairness, which is out of the prover's reach.

## 5. Not modelled

`LocalRV::cleanup`, `LocalProxy::cleanup` and the read handler
`listInfoStructs`; byte layouts of packets other than the QoS reports and
the library's messages; the non-blocking library's destructor and its SIGINT handler;
`assign_gflow`, and how `sp_concurrent_flow` and `min_congestion_flow` find the
factors demands and flows are scaled by, which is floating-point arithmetic; the ns-3 program that the deployment tool
prints, copying files and starting Click over ssh; the resiliency and QoS
options of the topology manager together; printing and command lines.

Components left out altogether: GlobalConf (its values are constants of the
models, except for the two paths that UPDATE_BA changes), bit vectors (sets of bits), language bindings and the ns-3 model (thin
wrappers around modelled code), access control, monitoring and examples
(applications of the library; the two that the topology manager's extensions
need are modelled).

## 6. Plan

1. `Node`, composing `LocalProxy` with `LocalRV` over the node-local strategy:
   requests that the rendezvous element rejects but the proxy keeps, the order of
   the withdrawals of `disconnect()`.
2. The non-blocking library's life cycle: destructor, its wait with an `if`, cancellation.
3. An abstract relation of interests, without graph and indexes, that `LocalRV`
   implements.
4. Proofs: that `graph` and `rmv_edge_lid` of `TopologyManager` always share the
   links of the network; `TablesAgree` of `Deployment`; the delivery properties for
   networks whose identifiers have no bit in common.
