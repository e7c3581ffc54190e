----------------------------- MODULE Deployment -----------------------------
(***************************************************************************)
(* The deployment tool (src/deployment): from a configuration file to the  *)
(* identifiers of all links, the paths to the rendezvous node and to the   *)
(* topology manager, the MAC addresses and the Click configuration of      *)
(* every node.                                                             *)
(*                                                                         *)
(* A node of a configuration is [label, type, roles, conns]; a connection  *)
(* [to, src_if, dst_if, out_pt, in_pt, src_mac, dst_mac, prio].  Names of  *)
(* interfaces, ports and addresses are numbers, in the order of the names, *)
(* and None for one that is not given (in mode "ip" src_if and dst_if are  *)
(* the addresses).  A label that is missing or has the wrong size is       *)
(* BadLabel, which stands for everything addNode() rejects a node for.     *)
(* The fields ns3, auto and no_remote are options of the command, complete *)
(* says whether the mandatory parameters are there, edges is the tree that *)
(* option -a draws.                                                        *)
(***************************************************************************)
EXTENDS Integers, Sequences, FiniteSets, SequencesExt, FiniteSetsExt, Functions

CONSTANTS
  Configs,      \* the configurations to deploy
  HwMac,        \* [<<label, interface>> -> address], what ifconfig prints
  MaxFailures   \* bound on ssh commands that fail

None == 0
Zero == -1      \* the address 00:00:00:00:00:00
BadLabel == 0

VARIABLES
  pc,           \* how far main() has come
  cfg,          \* the configuration in use
  nodes,        \* network_nodes, as far as parsed
  roles,        \* [RV, TM]: labels of RV_node and TM_node, or NULL
  LIDs,         \* the identifiers calculated so far, sets of bits
  connections,  \* [<<i, j>> -> connection j of node i]
  FIDs,         \* [label -> [RV, TM]]
  known,        \* mac_addresses, [<<label, interface>> -> address]
  at,           \* number of connections whose addresses are known
  deviceOffset, \* [label -> devices named so far], for ns-3
  failures,     \* ssh commands that printed nothing
  files         \* [label -> what was written to its Click file]

vars == <<pc, cfg, nodes, roles, LIDs, connections, FIDs, known, at, deviceOffset, failures, files>>
parsed == <<nodes, roles>>

NULL == 0
Labels == {nodes[i].label : i \in DOMAIN nodes}
Bits == 0 .. cfg.bits - 1
MacMode == cfg.mode \in {"mac", "mac_ml", "mac_qos"}

(* All connections, in the order of the code's two nested loops. *)
ConnsOf(ns) ==
  FlattenSeq([i \in DOMAIN ns |-> [j \in DOMAIN ns[i].conns |-> <<i, j>>]])
Src(c) == nodes[c[1]].label
Dst(c) == nodes[c[1]].conns[c[2]].to

Init ==
  /\ cfg \in Configs
  /\ pc = "start"
  /\ nodes = <<>> /\ roles = [RV |-> NULL, TM |-> NULL]
  /\ LIDs = <<>> /\ connections = <<>> /\ FIDs = <<>>
  /\ known = <<>> /\ at = 0 /\ deviceOffset = <<>> /\ failures = 0 /\ files = <<>>

(* getGlobalDomainParameters() and its ns-3 variant: a file without one of *)
(* the two lengths, or without its output directory, is not complete.      *)
GetGlobalDomainParameters ==
  /\ pc = "start"
  /\ pc' = CASE ~cfg.complete -> "failed" [] cfg.auto -> "generate" [] OTHER -> "parse"
  /\ UNCHANGED <<cfg, parsed, LIDs, connections, FIDs, known, at, deviceOffset, failures, files>>

-----------------------------------------------------------------------------
(* Option -a: a tree is drawn, numbered labels are given to its vertices,  *)
(* and the result is written as a configuration file, to be parsed again.  *)

Hops(edges, n, a, b) ==
  LET near[k \in 0 .. n] ==
        IF k = 0 THEN {a}
        ELSE near[k - 1] \cup {w \in 1 .. n : \E v \in near[k - 1] :
                                 <<v, w>> \in edges \/ <<w, v>> \in edges}
  IN  CHOOSE k \in 0 .. n : b \in near[k] /\ \A m \in 0 .. k - 1 : b \notin near[m]
TotalHops(edges, n, a) == MapThenSumSet(LAMBDA b : Hops(edges, n, a, b), 1 .. n)

(* ChooseTheBestTMRVNode(): the first of the nodes with the fewest hops *)
BestNode(edges, n) ==
  LET best == {a \in 1 .. n : \A b \in 1 .. n : TotalHops(edges, n, a) <= TotalHops(edges, n, b)}
  IN  Min(best)

(* Both directions of an edge; the addresses are those of the nodes. *)
GeneratedConns(edges, v) ==
  LET to == SetToSortSeq({w \in UNION {{e[1], e[2]} : e \in edges} :
                            <<v, w>> \in edges \/ <<w, v>> \in edges}, <)
  IN  [j \in DOMAIN to |->
         [to |-> to[j], src_if |-> v, dst_if |-> to[j], out_pt |-> None, in_pt |-> None,
          src_mac |-> None, dst_mac |-> None, prio |-> 0]]

Generated(edges, n, wanted) ==
  [v \in 1 .. n |->
     [label |-> v, type |-> "",
      roles |-> IF v = BestNode(edges, n) THEN {"RV", "TM"} ELSE wanted[v],
      conns |-> GeneratedConns(edges, v)]]

(* buildPlanetLabDomain() stops at a node without an address or with a     *)
(* role that is taken.                                                     *)
PlanetLabOK(ns) ==
  /\ \A v \in DOMAIN ns : ns[v].label # BadLabel
  /\ \A v, w \in DOMAIN ns : v # w => ns[v].roles \cap ns[w].roles = {}

(* BuildInputMap() and writeConfigFile().  main() does not look at what    *)
(* buildPlanetLabDomain() returned; BuildInputMap() then runs past the end *)
(* of the nodes that were read.                                            *)
Autogenerate ==
  /\ pc = "generate"
  /\ IF PlanetLabOK(cfg.nodes)
     THEN /\ cfg' = [cfg EXCEPT !.nodes = Generated(cfg.edges, Len(cfg.nodes),
                                            [v \in DOMAIN cfg.nodes |-> cfg.nodes[v].roles])]
          /\ pc' = "parse"
     ELSE pc' = "crashed" /\ UNCHANGED cfg
  /\ UNCHANGED <<parsed, LIDs, connections, FIDs, known, at, deviceOffset, failures, files>>

-----------------------------------------------------------------------------
(* The parser. *)

(* What addConnection() asks for, depending on the mode, and what          *)
(* addNS3Connection() does: a destination.                                 *)
Acceptable(c) ==
  /\ c.to # BadLabel
  /\ IF cfg.mode = "mac_ml" THEN c.out_pt # None \/ c.src_if # None
     ELSE c.src_if # None /\ c.dst_if # None
AcceptableNS3(c) == c.to # BadLabel

\* Mutant: a second node with the same role replaces the first.
AnyRole(n) == TRUE
(* addNode(), addNS3Node(): at most one node of each role *)
RolesFree(n) == \A r \in n.roles : roles[r] = NULL

(* A port stands before an interface in mode mac_ml; over IP no addresses  *)
(* are read.  In ns-3 all names and addresses are assigned later.          *)
AsRead(c) ==
  LET ml == cfg.mode = "mac_ml"
      mac(a) == IF MacMode THEN a ELSE None
  IN  [c EXCEPT !.src_if = IF ml /\ c.out_pt # None THEN None ELSE @,
                !.dst_if = IF ml /\ c.in_pt # None THEN None ELSE @,
                !.src_mac = mac(@), !.dst_mac = mac(@)]
AsReadNS3(c) ==
  [c EXCEPT !.src_if = None, !.dst_if = None, !.src_mac = None, !.dst_mac = None]

(* The type of a link of a multilayer network is decided before hardcoded  *)
(* addresses are read.                                                     *)
LinkType(c) ==
  CASE c.src_if # None /\ c.dst_if # None -> "pp"
    [] c.out_pt # None /\ c.in_pt # None -> "oo"
    [] OTHER -> "cl"

NextNode == cfg.nodes[Len(nodes) + 1]
ParseNode(acceptable, conns) ==
  /\ pc = "parse" /\ Len(nodes) < Len(cfg.nodes)
  /\ IF NextNode.label # BadLabel /\ RolesFree(NextNode) /\ acceptable
     THEN /\ nodes' = Append(nodes, [NextNode EXCEPT !.conns = conns])
          /\ roles' = [r \in DOMAIN roles |->
                         IF r \in NextNode.roles THEN NextNode.label ELSE roles[r]]
          /\ UNCHANGED pc
     ELSE pc' = "failed" /\ UNCHANGED parsed
  /\ UNCHANGED <<cfg, LIDs, connections, FIDs, known, at, deviceOffset, failures, files>>

addNode ==
  ~cfg.ns3 /\ ParseNode(\A j \in DOMAIN NextNode.conns : Acceptable(NextNode.conns[j]),
                       [j \in DOMAIN NextNode.conns |-> AsRead(NextNode.conns[j])])
addNS3Node ==
  cfg.ns3 /\ ParseNode(\A j \in DOMAIN NextNode.conns : AcceptableNS3(NextNode.conns[j]),
                      [j \in DOMAIN NextNode.conns |-> AsReadNS3(NextNode.conns[j])])

(* Without a rendezvous node or a topology manager main() goes on and      *)
(* stops at the null pointer.                                              *)
ParseDone ==
  /\ pc = "parse" /\ Len(nodes) = Len(cfg.nodes)
  /\ pc' = IF roles.RV = NULL \/ roles.TM = NULL THEN "crashed" ELSE "lids"
  /\ UNCHANGED <<cfg, parsed, LIDs, connections, FIDs, known, at, deviceOffset, failures, files>>

-----------------------------------------------------------------------------
(* Identifiers.  One per node and one per connection; in a multilayer      *)
(* network only packet nodes and packet links have one.                    *)

Needs(c) == cfg.mode # "mac_ml" \/ LinkType(nodes[c[1]].conns[c[2]]) = "pp"
NeedsOwn(i) == cfg.mode # "mac_ml" \/ nodes[i].type = "PN"

(* The users of the identifiers in their order: a node, its connections. *)
Users ==
  LET all == FlattenSeq([i \in DOMAIN nodes |->
                           <<<<i, 0>>>> \o [j \in DOMAIN nodes[i].conns |-> <<i, j>>]])
  IN  SelectSeq(all, LAMBDA u : IF u[2] = 0 THEN NeedsOwn(u[1]) ELSE Needs(u))

\* Mutant: always a single bit.
OneBit(index) == 1
NumberOfBits(index) == index \div cfg.bits + 1

Fresh(lid, used) == lid \notin Range(used)

(* calculateLID(): rand() may draw the same bit twice *)
CalculateLID ==
  /\ pc = "lids" /\ Len(LIDs) < Len(Users)
  /\ \E lid \in UNION {kSubset(k, Bits) : k \in 1 .. NumberOfBits(Len(LIDs))} :
       Fresh(lid, LIDs) /\ LIDs' = Append(LIDs, lid)
  /\ UNCHANGED <<pc, cfg, parsed, connections, FIDs, known, at, deviceOffset, failures, files>>

LIDOf(u) == IF \E k \in DOMAIN Users : Users[k] = u
            THEN LIDs[CHOOSE k \in DOMAIN Users : Users[k] = u] ELSE {}
iLidOf(label) == LIDOf(<<CHOOSE i \in DOMAIN nodes : nodes[i].label = label, 0>>)

(* assignLIDs(), the second part *)
AssignLIDs ==
  /\ pc = "lids" /\ Len(LIDs) = Len(Users)
  /\ connections' = [c \in Range(ConnsOf(nodes)) |->
                       [src_if |-> nodes[c[1]].conns[c[2]].src_if,
                        dst_if |-> nodes[c[1]].conns[c[2]].dst_if,
                        src_mac |-> nodes[c[1]].conns[c[2]].src_mac,
                        dst_mac |-> nodes[c[1]].conns[c[2]].dst_mac, LID |-> LIDOf(c)]]
  /\ pc' = "fids"
  /\ UNCHANGED <<cfg, parsed, LIDs, FIDs, known, at, deviceOffset, failures, files>>

-----------------------------------------------------------------------------
(* buildIGraphTopology() and calculateFID(): the union of the identifiers  *)
(* on a shortest path and of the destination's own.                        *)

Edge == {<<Src(c), Dst(c), c>> : c \in DOMAIN connections}
Within(a, k) ==
  LET near[m \in 0 .. k] ==
        IF m = 0 THEN {a}
        ELSE near[m - 1] \cup {e[2] : e \in {f \in Edge : f[1] \in near[m - 1]}}
  IN  near[k]
Far == Cardinality(Labels)

(* A shortest path as the set of its edges, from the distances to a. *)
DistanceFrom(a, b) == CHOOSE k \in 0 .. Far : b \in Within(a, k) /\ (k = 0 \/ b \notin Within(a, k - 1))
ShortestTo(a, b) ==
  LET step[v \in Labels, k \in 0 .. Far] ==
        IF k = 0 THEN {}
        ELSE LET e == CHOOSE f \in Edge : f[2] = v /\ f[1] \in Within(a, k - 1)
             IN  {e} \cup step[e[1], k - 1]
  IN  IF b \notin Within(a, Far) THEN {} ELSE step[b, DistanceFrom(a, b)]

\* Mutant: every node on the path is to deliver the packet.
AllDeliver(a, b) ==
  iLidOf(b) \cup UNION {iLidOf(e[2]) \cup connections[e[3]].LID : e \in ShortestTo(a, b)}
calculateFID(a, b) == iLidOf(b) \cup UNION {connections[e[3]].LID : e \in ShortestTo(a, b)}

TypeOf(label) == nodes[CHOOSE i \in DOMAIN nodes : nodes[i].label = label].type
FIDFrom(a, b) == IF cfg.mode = "mac_ml" /\ TypeOf(a) # "PN" THEN {} ELSE calculateFID(a, b)

(* calculateRVFIDs() and calculateTMFIDs() *)
CalculateFIDs ==
  /\ pc = "fids"
  /\ FIDs' = [a \in Labels |-> [RV |-> FIDFrom(a, roles.RV), TM |-> FIDFrom(a, roles.TM)]]
  /\ deviceOffset' = [a \in Labels |-> 0]
  /\ pc' = IF cfg.ns3 THEN "devices" ELSE "macs"
  /\ UNCHANGED <<cfg, parsed, LIDs, connections, known, at, failures, files>>

-----------------------------------------------------------------------------
(* discoverMacAddresses(): each interface is asked once, over ssh.  What   *)
(* came out of it, nothing included, is used for all its connections, also *)
(* for those with an address in the configuration.                         *)

\* Mutant: what was learned is not looked up.
LearnEach(macs, key, given, ok) ==
  CASE given # None -> given
    [] cfg.no_remote -> Zero
    [] OTHER -> IF ok THEN HwMac[key] ELSE None
Learn(macs, key, given, ok) ==
  CASE key \in DOMAIN macs -> macs[key]
    [] given # None -> given
    [] cfg.no_remote -> Zero
    [] OTHER -> IF ok THEN HwMac[key] ELSE None

Keep(macs, key, mac) == [k \in DOMAIN macs \cup {key} |-> IF k = key THEN mac ELSE macs[k]]

Asked(macs, key, given) == key \notin DOMAIN macs /\ given = None /\ ~cfg.no_remote

(* In a multilayer network only interfaces of packet nodes are asked. *)
Skip(c, interface) == cfg.mode = "mac_ml" /\ (nodes[c[1]].type # "PN" \/ interface = None)

DiscoverMac ==
  /\ pc = "macs" /\ MacMode /\ at < Len(ConnsOf(nodes))
  /\ LET c == ConnsOf(nodes)[at + 1]
         nc == connections[c]
         src == <<Src(c), nc.src_if>>
         dst == <<Dst(c), nc.dst_if>>
     IN  \E srcOk, dstOk \in BOOLEAN :
           LET src_mac == IF Skip(c, nc.src_if) THEN nc.src_mac
                          ELSE Learn(known, src, nc.src_mac, srcOk)
               after == IF Skip(c, nc.src_if) THEN known ELSE Keep(known, src, src_mac)
               none == Skip(c, nc.src_if) \/ Skip(c, nc.dst_if)
               dst_mac == IF none THEN nc.dst_mac ELSE Learn(after, dst, nc.dst_mac, dstOk)
           IN  /\ ~srcOk => ~Skip(c, nc.src_if) /\ Asked(known, src, nc.src_mac)
               /\ ~dstOk => ~none /\ Asked(after, dst, nc.dst_mac)
               /\ connections' = [connections EXCEPT ![c].src_mac = src_mac, ![c].dst_mac = dst_mac]
               /\ known' = IF none THEN after ELSE Keep(after, dst, dst_mac)
               /\ failures' = failures + (IF srcOk THEN 0 ELSE 1) + (IF dstOk THEN 0 ELSE 1)
               /\ failures' <= MaxFailures
  /\ at' = at + 1
  /\ UNCHANGED <<pc, cfg, parsed, LIDs, FIDs, deviceOffset, files>>

MacsDone ==
  /\ pc = "macs" /\ (~MacMode \/ at = Len(ConnsOf(nodes)))
  /\ pc' = "write"
  /\ UNCHANGED <<cfg, parsed, LIDs, connections, FIDs, known, at, deviceOffset, failures, files>>

-----------------------------------------------------------------------------
(* ns-3: assignDeviceNamesAndMacAddresses() names the devices of both ends *)
(* of a connection and its counterpart at the neighbour, the first one     *)
(* that leads back.                                                        *)

Counterparts(c) == {d \in DOMAIN connections : Src(d) = Dst(c) /\ Dst(d) = Src(c)}
FirstOf(S) == CHOOSE d \in S : \A e \in S : d[2] <= e[2]

\* Mutant: the counterpart gets the same names, not exchanged.
CopyNames(nc) == nc
Exchanged(nc) == [nc EXCEPT !.src_if = nc.dst_if, !.dst_if = nc.src_if,
                            !.src_mac = nc.dst_mac, !.dst_mac = nc.src_mac]

AssignDevices(c) ==
  /\ pc = "devices" /\ connections[c].src_if = None
  /\ \A d \in DOMAIN connections : connections[d].src_if = None => c = d \/ c[1] < d[1]
                                     \/ (c[1] = d[1] /\ c[2] < d[2])
  /\ LET named == [connections[c] EXCEPT !.src_if = deviceOffset[Src(c)] + 1,
                                         !.dst_if = deviceOffset[Dst(c)] + 1,
                                         !.src_mac = at + 1, !.dst_mac = at + 2]
         back == FirstOf(Counterparts(c))
     IN  IF Counterparts(c) = {}
         THEN pc' = "crashed" /\ UNCHANGED <<connections, at, deviceOffset>>
         ELSE /\ connections' = [connections EXCEPT
                    ![c] = named,
                    ![back] = [Exchanged(named) EXCEPT !.LID = connections[back].LID]]
              /\ at' = at + 2
              /\ deviceOffset' = [deviceOffset EXCEPT ![Src(c)] = @ + 1, ![Dst(c)] = @ + 1]
              /\ UNCHANGED pc
  /\ UNCHANGED <<cfg, parsed, LIDs, FIDs, known, failures, files>>

DevicesDone ==
  /\ pc = "devices" /\ \A c \in DOMAIN connections : connections[c].src_if # None
  /\ pc' = "write"
  /\ UNCHANGED <<cfg, parsed, LIDs, connections, FIDs, known, at, deviceOffset, failures, files>>

-----------------------------------------------------------------------------
(* writeClickFiles() and writeNS3ClickFiles(). *)

OwnConns(i) == SelectSeq(ConnsOf(nodes), LAMBDA c : c[1] = i)

(* The file of an optical node has empty names and addresses. *)
Optical(i) == cfg.mode = "mac_ml" /\ nodes[i].type # "PN"
Ifaces(i) ==
  [j \in DOMAIN OwnConns(i) |-> IF Optical(i) THEN None ELSE connections[<<i, j>>].src_if]
UniqueIfaces(i) ==
  FoldLeft(LAMBDA seen, x : IF x \in Range(seen) THEN seen ELSE Append(seen, x), <<>>, Ifaces(i))

\* Mutant: the offset of a known interface is not corrected by one.
OffsetPort(i, j) ==
  LET k == CHOOSE m \in DOMAIN UniqueIfaces(i) : UniqueIfaces(i)[m] = Ifaces(i)[j]
  IN  IF \E m \in 1 .. j - 1 : Ifaces(i)[m] = Ifaces(i)[j] THEN k - 1 ELSE k
Port(i, j) ==
  IF cfg.mode = "mac_qos" THEN j
  ELSE CHOOSE m \in DOMAIN UniqueIfaces(i) : UniqueIfaces(i)[m] = Ifaces(i)[j]

(* The device that the file connects to a port of the Forwarder: over IP   *)
(* there is one socket, and ports beyond the first lead nowhere.           *)
DeviceOf(i, port) ==
  CASE cfg.mode = "mac_qos" -> Ifaces(i)[port]
    [] cfg.mode = "ip" /\ ~cfg.ns3 -> IF port = 1 THEN UniqueIfaces(i)[1] ELSE None
    [] OTHER -> UniqueIfaces(i)[port]

(* The addresses of an entry: IP addresses in mode "ip"; links that are    *)
(* not packet links get no destination address.                            *)
Address(i, j) ==
  LET nc == connections[<<i, j>>]
  IN  CASE Optical(i) -> [src |-> None, dst |-> None]
        [] cfg.mode = "ip" -> [src |-> nc.src_if, dst |-> nc.dst_if]
        [] cfg.mode = "mac_ml" /\ ~Needs(<<i, j>>) -> [src |-> nc.src_mac, dst |-> Zero]
        [] OTHER -> [src |-> nc.src_mac, dst |-> nc.dst_mac]

\* Mutant: the priorities in the order of the connections, interface by
\* interface from the last one on.
LastIfaceFirst(i) ==
  LET ifaces == Reverse(SetToSortSeq(Range(Ifaces(i)), <))
  IN  FlattenSeq([k \in DOMAIN ifaces |->
        LET own == SelectSeq(OwnConns(i), LAMBDA c : connections[c].src_if = ifaces[k])
        IN  [m \in DOMAIN own |-> nodes[i].conns[own[m][2]].prio]])
(* The priority list of LinkMon: interface by interface, in their order. *)
PrioList(i) ==
  LET ifaces == SetToSortSeq(Range(Ifaces(i)), <)
  IN  FlattenSeq([k \in DOMAIN ifaces |->
        LET own == SelectSeq(OwnConns(i), LAMBDA c : connections[c].src_if = ifaces[k])
        IN  [m \in DOMAIN own |-> nodes[i].conns[own[m][2]].prio]])

\* Mutant: the entry without a comma behind it is not written.
NoLastEntry(i) ==
  [fw |-> [j \in 1 .. Len(OwnConns(i)) - 1 |->
             [port |-> Port(i, j), address |-> Address(i, j), LID |-> connections[<<i, j>>].LID]],
   prios |-> IF cfg.mode = "mac_qos" THEN PrioList(i) ELSE <<>>]
File(i) ==
  [fw |-> [j \in DOMAIN OwnConns(i) |->
             [port |-> Port(i, j), address |-> Address(i, j), LID |-> connections[<<i, j>>].LID]],
   prios |-> IF cfg.mode = "mac_qos" THEN PrioList(i) ELSE <<>>]

Write ==
  /\ pc = "write"
  /\ files' = [i \in DOMAIN nodes |-> File(i)]
  /\ pc' = "done"
  /\ UNCHANGED <<cfg, parsed, LIDs, connections, FIDs, known, at, deviceOffset, failures>>

Next ==
  \/ GetGlobalDomainParameters \/ Autogenerate \/ addNode \/ addNS3Node \/ ParseDone
  \/ CalculateLID \/ AssignLIDs \/ CalculateFIDs
  \/ DiscoverMac \/ MacsDone
  \/ (pc = "devices" /\ \E c \in DOMAIN connections : AssignDevices(c)) \/ DevicesDone
  \/ Write

Spec == Init /\ [][Next]_vars /\ WF_vars(Next)

-----------------------------------------------------------------------------
(* Properties *)

Ended == pc \in {"done", "failed", "crashed"}
Written == pc = "done"

(* The tables main() builds hold what their types say: every connection    *)
(* has an identifier of bits, every node a file.                           *)
TypeOK ==
  /\ pc \in {"start", "generate", "parse", "lids", "fids", "macs", "devices", "write"} \/ Ended
  /\ cfg.auto \/ cfg \in Configs
  /\ LIDs \in Seq((SUBSET Bits) \ {{}})
  /\ \A c \in DOMAIN connections : connections[c].LID \subseteq Bits
  /\ DOMAIN FIDs \in {{}, Labels}
  /\ Written => /\ DOMAIN files = DOMAIN nodes
                /\ \A i \in DOMAIN nodes : Len(files[i].fw) = Len(nodes[i].conns)

(* There is one rendezvous node and one topology manager: addNode() takes  *)
(* no second one, whatever the generator wrote.                            *)
OneOfEachRole ==
  \A r \in {"RV", "TM"} : \A i \in DOMAIN nodes : r \in nodes[i].roles => roles[r] = nodes[i].label

(* The network as the written files make it: an entry works when its port  *)
(* leads to the connection's interface and the addresses are those the     *)
(* other end uses for the way back, or the ones the hardware has.          *)
Entry(e) == files[e[3][1]].fw[e[3][2]]
Works(e) ==
  LET nc == connections[e[3]]
  IN  /\ DeviceOf(e[3][1], Entry(e).port) = nc.src_if
      /\ \E f \in Edge : /\ f[1] = e[2] /\ f[2] = e[1]
                         /\ Entry(e).address.dst = Entry(f).address.src
                         /\ Entry(e).address.src = Entry(f).address.dst
                         /\ DeviceOf(f[3][1], Entry(f).port) = nc.dst_if

Fw == INSTANCE Forwarder WITH
  Node <- Labels, Link <- Edge, Bit <- Bits,
  LID <- [e \in Edge |-> Entry(e).LID], iLID <- [a \in Labels |-> iLidOf(a)]

(* A FID of all ones is taken for a broadcast and is never forwarded. *)
Usable(FID) == FID # Bits
SingleLayer == cfg.mode # "mac_ml"

(* End to end: with the files as they are written, what any node sends     *)
(* with its FID_to_RV or FID_to_TM is delivered there, over Forwarders     *)
(* whose ports, addresses and identifiers come from different functions    *)
(* and different files.                                                    *)
WrittenNetworkDelivers ==
  Written /\ SingleLayer /\ failures = 0 =>
    \A a \in Labels, r \in {"RV", "TM"} :
      roles[r] \in Within(a, Far) /\ Usable(FIDs[a][r]) =>
        roles[r] \in Fw!Delivered(a, FIDs[a][r], {e \in Edge : Works(e)})

(* While there are at least as many bits as identifiers a FID is exact:    *)
(* the packet travels one path and nobody else delivers it.                *)
FIDsAreExact ==
  Written /\ SingleLayer /\ Len(LIDs) <= cfg.bits =>
    \A a \in Labels, r \in {"RV", "TM"} :
      roles[r] \in Within(a, Far) /\ Usable(FIDs[a][r]) =>
        /\ Fw!Delivered(a, FIDs[a][r], Edge) = {roles[r]}
        /\ Cardinality(Fw!Travelled(a, FIDs[a][r], Edge)) = DistanceFrom(a, roles[r])

(* Together: the written network takes what is sent to the two roles to    *)
(* them, and to nobody else.                                               *)
WrittenNetworkWorks == WrittenNetworkDelivers /\ FIDsAreExact

(* An interface has one address in all files, in the entries of its node   *)
(* and in those of its neighbours, also when asking for it failed.         *)
MacsAgree ==
  Written /\ MacMode /\ SingleLayer /\ ~cfg.ns3 =>
    \A c, d \in DOMAIN connections :
      LET x == connections[c] y == connections[d]
      IN  /\ Src(c) = Dst(d) /\ x.src_if = y.dst_if => x.src_mac = y.dst_mac
          /\ Src(c) = Src(d) /\ x.src_if = y.src_if => x.src_mac = y.src_mac

(* LinkMon reports entry k of the forwarding table with the k-th priority  *)
(* of its list.  That is the connection's own when the connections of the  *)
(* node come in the order of their interfaces.                             *)
Sorted(i) == \A j, k \in DOMAIN Ifaces(i) : j < k => Ifaces(i)[j] <= Ifaces(i)[k]
PrioritiesAgree ==
  Written /\ cfg.mode = "mac_qos" =>
    \A i \in DOMAIN nodes : Sorted(i) =>
      files[i].prios = [j \in DOMAIN nodes[i].conns |-> nodes[i].conns[j].prio]

(* ns-3: both ends of a connection have the names and the addresses of the *)
(* same two devices, and a device belongs to one pair of connections.      *)
Parallel == \E c, d \in DOMAIN connections : c # d /\ Src(c) = Src(d) /\ Dst(c) = Dst(d)
DevicesArePaired ==
  Written /\ cfg.ns3 /\ ~Parallel =>
    \A c, d \in DOMAIN connections :
      LET x == connections[c] y == connections[d]
      IN  (x.src_mac = y.dst_mac \/ (Src(c) = Dst(d) /\ x.src_if = y.dst_if))
            <=> (Src(c) = Dst(d) /\ Dst(c) = Src(d))

(* What is written into several tables or files about one node, interface  *)
(* or device is the same in all of them.                                   *)
TablesAgree ==
  TypeOK /\ OneOfEachRole /\ MacsAgree /\ PrioritiesAgree /\ DevicesArePaired

(* The tool ends: among the random draws of calculateLID() there is always *)
(* an identifier that is still free.                                       *)
Ends == <>Ended
=============================================================================
