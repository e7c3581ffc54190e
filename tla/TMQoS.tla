------------------------------- MODULE TMQoS -------------------------------
(***************************************************************************)
(* The topology manager with QoS support (tm.cpp with option -q): the      *)
(* LinkMon element of every node reports the priority of its links, the    *)
(* graph keeps one plane of link weights per priority class, and the cache *)
(* of item metadata (tm_qos.cpp) asks for the priority of every item that  *)
(* is matched.  Reports and metadata travel as the packets of QoSPackets.  *)
(*                                                                         *)
(* An item is a pair: <<"info", n>>, <<"lsm", node>> for the reports of a  *)
(* node, and <<"meta", item>> for the metadata of an item, whose name is a *)
(* hash of the item's.  Time is the flag "old" of a cache entry: the entry *)
(* has outlived EXPIRATION_TIME, or QUERY_EXP_TIME while it is a query.    *)
(***************************************************************************)
EXTENDS TMGraph, QoSPackets

CONSTANTS
  TM,          \* the node of the topology manager and the rendezvous
  confPrio,    \* [Link -> priority], configuration of the LinkMon elements
  ItemPrio,    \* [item -> priority] its metadata provider publishes
  Publishers, Subscribers,   \* sets of nodes, for every item
  Provider,    \* the node of the metadata provider
  MaxMatches   \* bound on the matches of each item

MAX_PRIO == 100
UCHAR_MAX == 255
DEFAULT_QOS_PRIO == 0

ASSUME QoSAssumption ==
  /\ {TM, Provider} \subseteq Node /\ IsFiniteSet(Link)
  /\ Node \subseteq 0 .. 255 /\ PURSUIT_ID_LEN = 1 /\ FID_LEN \in Nat
  /\ Bit \subseteq 0 .. 8 * FID_LEN - 1
  /\ confPrio \in [Link -> 0 .. MAX_PRIO - 1]
  /\ DOMAIN ItemPrio \subseteq {"info"} \X (0 .. 255)
  /\ \A i \in DOMAIN ItemPrio : ItemPrio[i] \in 0 .. MAX_PRIO - 1

Info == DOMAIN ItemPrio
Meta(i) == <<"meta", i>>
Item == Info \cup {Meta(i) : i \in Info} \cup {<<"lsm", n>> : n \in Node}

VARIABLES
  active,      \* [Node -> BOOLEAN], LinkMon::active
  QoS_PRIO,    \* [SUBSET Link -> priority], the edge attribute of the graph
  qlwm,        \* [priorities -> [Link -> weight]], the planes
  tmQueue,     \* events not yet read by the topology manager
  ii_meta,     \* [items -> entry], IIMetaCache
  late,        \* NON_LAZY_INT has passed since the cache was made
  subscribed,  \* metadata items the topology manager subscribes to
  FID,         \* [Node -> [Item -> FID]], kept by the LocalProxies
  matches,     \* [Item -> Nat], for the bound
  served       \* [Item -> plane used for the last match, and what was known]

cache == <<ii_meta, late, subscribed>>
vars == <<active, QoS_PRIO, qlwm, tmQueue, cache, FID, matches, served>>

NotServed == [plane |-> 0, weighted |-> FALSE, known |-> {}]

Init ==
  /\ active = [n \in Node |-> FALSE]
  /\ QoS_PRIO = <<>> /\ qlwm = <<>> /\ tmQueue = <<>>
  /\ ii_meta = <<>> /\ late = FALSE /\ subscribed = {}
  /\ FID = [n \in Node |-> [i \in Item |-> {}]]
  /\ matches = [i \in Item |-> 0]
  /\ served = [i \in Item |-> NotServed]

(***************************************************************************)
(* LinkMon and the planes.                                                 *)
(***************************************************************************)
Pending(e) == \E k \in DOMAIN tmQueue : tmQueue[k] = e

(* The status of a link, and the packet of report() with all links. *)
Status(l) ==
  [key \in {QoS_CAPACITY_M, QoS_NETTYPE, PRIO} |->
     CASE key = QoS_CAPACITY_M -> 100 [] key = QoS_NETTYPE -> 1 [] key = PRIO -> confPrio[l]]
ReportOf(n) ==
  FoldLeft(LAMBDA d, l : appendLinkStatus(d, LID[l], Status(l)),
           setNodeId(LSMPacket, <<n>>), SetToSeq(fwTable(n)))
ReportTable == [n \in Node |-> ReportOf(n)]

(* report(): an inactive monitor publishes its item again, for which the   *)
(* rendezvous element asks for a match with the topology manager; an       *)
(* active one publishes the state of its links.                            *)
NextReport(n) ==
  IF active[n] THEN [type |-> "LSM", node |-> n, data |-> ReportTable[n]]
  ELSE [type |-> "MATCH", item |-> <<"lsm", n>>, pubs |-> {n}, subs |-> {TM}]
Unreported(n) == ~(active[n] /\ fwTable(n) \subseteq DOMAIN QoS_PRIO)
Report(n) ==
  /\ Unreported(n)                    \* later reports only repeat the first
  /\ ~Pending(NextReport(n)) /\ tmQueue' = Append(tmQueue, NextReport(n))
  /\ UNCHANGED <<active, QoS_PRIO, qlwm, cache, FID, matches, served>>

\* Mutant: the two notifications are taken for each other.
SwappedPush(n, fids) == fids[n][<<"lsm", n>>] = {}
(* LinkMon::push: START_PUBLISH or STOP_PUBLISH of its item. *)
LinkMonPush(n, fids) == fids[n][<<"lsm", n>>] # {}

\* Mutant: higher classes are not ruled out.
NoLimitOn(plane, prio) == MAX_PRIO - prio
WeightOn(plane, prio) == IF plane >= prio THEN MAX_PRIO - prio ELSE UCHAR_MAX

\* Mutant: edges without the attribute are left out of a new plane.
PartialPlane(plane, attr) == [l \in DOMAIN attr |-> WeightOn(plane, attr[l])]
(* createNewQoSLinkPrioMap(): an edge without the attribute has no number, *)
(* which converts to priority 0.                                           *)
NewPlane(plane, attr) ==
  [l \in Link |-> WeightOn(plane, IF l \in DOMAIN attr THEN attr[l] ELSE 0)]

\* Mutant: only the plane of the link's own priority is brought up to date.
SetOwnPlane(planes, l, lp) == [planes EXCEPT ![lp][l] = MAX_PRIO - lp]
(* updateLinkState(), the last loop: the link's weight on every plane *)
SetOnPlanes(planes, l, lp) ==
  [p \in DOMAIN planes |-> [planes[p] EXCEPT ![l] = WeightOn(p, lp)]]

(* reverse_edge_index: an unknown identifier is edge 0 *)
EdgeOf(lid) ==
  IF \E l \in Link : LID[l] = lid THEN CHOOSE l \in Link : LID[l] = lid
  ELSE SetToSeq(Link)[1]

(* updateLinkState() for one link: the attribute, a plane for a priority   *)
(* not seen before, and the link's weight on all planes.                   *)
updateLinkState(state, lid, status) ==
  LET lp == status[PRIO] % 256
      l == EdgeOf(lid)
      attr == [m \in DOMAIN state.attr \cup {l} |->
                 IF m = l THEN status[PRIO] ELSE state.attr[m]]
      planes == IF lp \in DOMAIN state.planes THEN state.planes
                ELSE [p \in DOMAIN state.planes \cup {lp} |->
                        IF p = lp THEN NewPlane(lp, attr) ELSE state.planes[p]]
  IN  [attr |-> attr, planes |-> SetOnPlanes(planes, l, lp)]

(* handleLSMUpdate(): the links of the packet, one after the other *)
UpdateLinks(state, d) ==
  FoldLeft(LAMBDA s, k : updateLinkState(s, getLidStr(d, k - 1), getLinkStatus(d, k - 1)),
           state, [k \in 1 .. getLinksLen(d) |-> k])
HandleLSMUpdate ==
  /\ tmQueue # <<>> /\ Head(tmQueue).type = "LSM"
  /\ LET new == UpdateLinks([attr |-> QoS_PRIO, planes |-> qlwm], Head(tmQueue).data)
     IN  QoS_PRIO' = new.attr /\ qlwm' = new.planes
  /\ tmQueue' = Tail(tmQueue)
  /\ UNCHANGED <<active, cache, FID, matches, served>>

isQoSMapOk == 0 \in DOMAIN qlwm

\* Mutant: the nearest plane, also one above the item's priority.
NearestPlane(prio) ==
  CHOOSE p \in DOMAIN qlwm : \A q \in DOMAIN qlwm :
    (IF p > prio THEN p - prio ELSE prio - p) <= (IF q > prio THEN q - prio ELSE prio - q)
(* The plane for an item: its own, or the nearest one below it. *)
getWeightKeyForIIPrio(prio) == Max({p \in DOMAIN qlwm : p <= prio} \cup {0})

(***************************************************************************)
(* IIMetaCache.  Its state is passed as c = [meta |-> ii_meta,             *)
(* subs |-> subscribed].                                                   *)
(***************************************************************************)
Without(f, S) == Restrict(f, DOMAIN f \ S)
With(f, i, entry) == [j \in DOMAIN f \cup {i} |-> IF j = i THEN entry ELSE f[j]]

(* cleanAllExpired() and checkClean() give up the subscription to the item *)
(* itself, which nobody made, and not the one to its metadata.             *)
cleanAllExpired(c) ==
  LET old == {i \in DOMAIN c.meta : c.meta[i].old}
  IN  [meta |-> Without(c.meta, old), subs |-> c.subs \ {i \in old : c.meta[i].querying}]
checkClean(c, i) ==
  IF i \in DOMAIN c.meta /\ c.meta[i].old
  THEN [meta |-> Without(c.meta, {i}), subs |-> c.subs \ {j \in {i} : c.meta[i].querying}]
  ELSE c

\* Mutant: the fast path is not prepared.
NoMetaItem(c, i) == c
(* The metadata item gets an entry of its own, with priority 99. *)
addMetaItem(c, i) ==
  [c EXCEPT !.meta = With(@, i, [querying |-> FALSE, old |-> FALSE, prio |-> 99])]

(* sendQueryIfNeeded(), when the item is not in the cache *)
SendQuery(c, i) ==
  [meta |-> With(addMetaItem(c, Meta(i)).meta, i,
                 [querying |-> TRUE, old |-> FALSE, prio |-> DEFAULT_QOS_PRIO]),
   subs |-> c.subs \cup {Meta(i)}]

(* sendQueryIfNeeded() and, unless it sent one, getIIQoSPrio(); both look  *)
(* for expired entries first: the cache and the item's priority.           *)
LookUp(c0, i) ==
  LET c1 == checkClean(c0, i)
      c2 == IF late THEN cleanAllExpired(c1) ELSE c1
  IN  IF i \notin DOMAIN c1.meta THEN [c |-> SendQuery(c1, i), prio |-> DEFAULT_QOS_PRIO]
      ELSE [c |-> c2, prio |-> IF c2.meta[i].querying THEN DEFAULT_QOS_PRIO
                               ELSE c2.meta[i].prio]

\* Mutant: the subscription to the metadata is kept.
UpdateKeeping(c, i, prio) ==
  IF i \notin DOMAIN c.meta THEN c
  ELSE [meta |-> Without(With(c.meta, i, [querying |-> FALSE, old |-> FALSE, prio |-> prio]),
                         {Meta(i)}),
        subs |-> c.subs]
(* update(): the metadata has come; the fast path and the subscription are *)
(* not needed any more.  Unknown items are ignored.                        *)
update(c, i, prio) ==
  IF i \notin DOMAIN c.meta THEN c
  ELSE [meta |-> Without(With(c.meta, i, [querying |-> FALSE, old |-> FALSE, prio |-> prio]),
                         {Meta(i)}),
        subs |-> c.subs \ {Meta(i)}]

C == [meta |-> ii_meta, subs |-> subscribed]
SetCache(c) == ii_meta' = c.meta /\ subscribed' = c.subs

(***************************************************************************)
(* The topology manager, handleRequest().                                  *)
(***************************************************************************)
Answer(i, result, pubs) ==
  /\ FID' = [n \in Node |-> IF n \in pubs THEN [FID[n] EXCEPT ![i] = result.FID[n]] ELSE FID[n]]
  /\ active' = [n \in Node |-> IF n \in pubs /\ i[1] = "lsm" THEN LinkMonPush(n, FID')
                               ELSE active[n]]

HandleMatch ==
  /\ tmQueue # <<>> /\ Head(tmQueue).type = "MATCH"
  /\ LET r == Head(tmQueue)
         found == LookUp(C, r.item)
         plane == getWeightKeyForIIPrio(found.prio)
     IN  IF isQoSMapOk
         THEN /\ SetCache(found.c)
              /\ Answer(r.item, calculateFID_weighted(Link, qlwm[plane], r.pubs, r.subs), r.pubs)
              /\ served' = [served EXCEPT ![r.item] =
                   [plane |-> plane, weighted |-> TRUE, known |-> DOMAIN QoS_PRIO]]
         ELSE /\ Answer(r.item, calculateFID(Link, r.pubs, r.subs), r.pubs)
              /\ served' = [served EXCEPT ![r.item] = NotServed]
              /\ UNCHANGED <<ii_meta, subscribed>>
  /\ tmQueue' = Tail(tmQueue)
  /\ UNCHANGED <<QoS_PRIO, qlwm, late, matches>>

(* handleIIMetaData() *)
HandleIIMetaData ==
  /\ tmQueue # <<>> /\ Head(tmQueue).type = "QoS_METADATA"
  /\ LET d == Head(tmQueue).data
     IN  SetCache(update(C, <<"info", getID_RAW(d)[2]>>, getIIStatus(d)[PRIO]))
  /\ tmQueue' = Tail(tmQueue)
  /\ UNCHANGED <<active, QoS_PRIO, qlwm, late, FID, matches, served>>

(***************************************************************************)
(* The rendezvous element, the metadata provider and time.                 *)
(***************************************************************************)
RequestMatch(i) ==
  /\ matches[i] < MaxMatches
  /\ matches' = [matches EXCEPT ![i] = @ + 1]
  /\ \E pubs \in Publishers, subs \in Subscribers :
       tmQueue' = Append(tmQueue, [type |-> "MATCH", item |-> i, pubs |-> pubs, subs |-> subs])
  /\ UNCHANGED <<active, QoS_PRIO, qlwm, cache, FID, served>>

RequestMetaMatch(i) ==
  /\ Meta(i) \in subscribed /\ FID[Provider][Meta(i)] = {}
  /\ LET e == [type |-> "MATCH", item |-> Meta(i), pubs |-> {Provider}, subs |-> {TM}]
     IN  ~Pending(e) /\ tmQueue' = Append(tmQueue, e)
  /\ UNCHANGED <<active, QoS_PRIO, qlwm, cache, FID, matches, served>>

(* sendMetaData(): the item's two identifiers and its priority *)
MetadataPacket(n, prio) == appendIIStatus(setID(MetaDataPacket(2), <<0, n>>), [key \in {PRIO} |-> prio])
MetadataOf(i) == MetadataPacket(i[2], ItemPrio[i])

(* The provider was told to start; its packet arrives while the            *)
(* subscription lasts.  Afterwards it is told to stop.                     *)
ProvideMetadata(i) ==
  /\ TM \in Delivered(Provider, FID[Provider][Meta(i)], Link)
  /\ LET e == [type |-> "QoS_METADATA", data |-> MetadataOf(i)]
     IN  ~Pending(e) /\ tmQueue' = IF Meta(i) \in subscribed THEN Append(tmQueue, e) ELSE tmQueue
  /\ FID' = [FID EXCEPT ![Provider][Meta(i)] = {}]
  /\ UNCHANGED <<active, QoS_PRIO, qlwm, cache, matches, served>>

(* An entry outlives its time.  The entry of a metadata item was made with *)
(* the query it serves and lives 600 times as long.                        *)
Expire(i) ==
  /\ i \in DOMAIN ii_meta /\ ~ii_meta[i].old
  /\ i[1] = "meta" /\ i[2] \in DOMAIN ii_meta =>
       ~ii_meta[i[2]].querying \/ ii_meta[i[2]].old
  /\ ii_meta' = [ii_meta EXCEPT ![i] = [@ EXCEPT !.old = TRUE]]
  /\ UNCHANGED <<active, QoS_PRIO, qlwm, tmQueue, late, subscribed, FID, matches, served>>

GetsLate ==
  /\ ~late /\ late' = TRUE
  /\ UNCHANGED <<active, QoS_PRIO, qlwm, tmQueue, ii_meta, subscribed, FID, matches, served>>

Manager == HandleLSMUpdate \/ HandleMatch \/ HandleIIMetaData
Next ==
  \/ Manager \/ GetsLate
  \/ \E n \in Node : Report(n)
  \/ \E i \in Info : RequestMatch(i) \/ RequestMetaMatch(i) \/ ProvideMetadata(i)
  \/ \E i \in Info \cup {Meta(j) : j \in Info} : Expire(i)

(* What fairness is about: the manager reads its events, and the timer of  *)
(* every monitor that still has something to report fires.                 *)
Takes == tmQueue # <<>> /\ tmQueue' = Tail(tmQueue)
Reports(n) == ~Pending(NextReport(n)) /\ tmQueue' = Append(tmQueue, NextReport(n))
Spec ==
  /\ Init /\ [][Next]_vars
  /\ WF_tmQueue(Takes) /\ \A n \in Node : WF_tmQueue(Unreported(n) /\ Reports(n))
----------------------------------------------------------------------------

(* A plane has a weight for every link as soon as it exists. *)
TypeOK ==
  /\ active \in [Node -> BOOLEAN] /\ late \in BOOLEAN
  /\ DOMAIN QoS_PRIO \subseteq Link /\ DOMAIN qlwm \subseteq 0 .. MAX_PRIO
  /\ \A p \in DOMAIN qlwm : qlwm[p] \in [Link -> 0 .. UCHAR_MAX]
  /\ FID \in [Node -> [Item -> SUBSET Bit]]

(* The topology manager finds in a report exactly the links of the node    *)
(* that sent it, each with its priority: the class that writes the packet  *)
(* (src/tm_ext) and the one that reads it (lib/qos) are separate copies,   *)
(* and a missing priority would be read through status.end().              *)
ReportsAreReadAsWritten ==
  tmQueue # <<>> /\ Head(tmQueue).type = "LSM" =>
    LET d == Head(tmQueue).data
        read == {<<getLidStr(d, k), getLinkStatus(d, k)>> : k \in 0 .. getLinksLen(d) - 1}
    IN  /\ getNodeId(d) = <<Head(tmQueue).node>>
        /\ getLinksLen(d) = Cardinality(fwTable(Head(tmQueue).node))
        /\ read = {<<LID[l], Status(l)>> : l \in fwTable(Head(tmQueue).node)}

(* The metadata of every item is read as it was written, whatever its      *)
(* priority (sendMetaData and handleIIMetaData, the offsets of both).      *)
MetadataIsReadAsWritten ==
  \A n \in 0 .. 255, prio \in 0 .. MAX_PRIO - 1 :
    LET d == MetadataPacket(n, prio) IN getID_RAW(d)[2] = n /\ getIIStatus(d)[PRIO] = prio

(* Whatever the order in which nodes report and planes appear, the weight  *)
(* of a link that was reported is right on every plane (updateLinkState    *)
(* and createNewQoSLinkPrioMap compute it in two places).                  *)
PlanesAgree ==
  \A p \in DOMAIN qlwm, l \in DOMAIN QoS_PRIO :
    qlwm[p][l] = IF confPrio[l] > p THEN UCHAR_MAX ELSE MAX_PRIO - confPrio[l]

(* An item does not travel over links of a higher class than the plane it  *)
(* was matched on, as long as other links lead to all its subscribers and  *)
(* weigh less than UCHAR_MAX together, which a barred link weighs.         *)
SlowItemsStayOff ==
  \A i \in Info, n \in Node :
    served[i].weighted /\ served[i].known = Link =>
      \A l \in Travelled(n, FID[n][i], Link) : confPrio[l] <= served[i].plane

(* While the topology manager waits for the metadata of an item, the       *)
(* metadata item has its own entry, so that its match does not lead to a   *)
(* query for the metadata of metadata; once the priority has been received *)
(* the subscription to its metadata is given up.                           *)
QueriesAreTidy ==
  \A i \in Info \cap DOMAIN ii_meta :
    /\ ii_meta[i].querying /\ ~ii_meta[i].old =>
         Meta(i) \in DOMAIN ii_meta /\ ii_meta[Meta(i)].prio = 99
    /\ ~ii_meta[i].querying => Meta(i) \notin subscribed

(* An item whose priority is known is matched on the plane of that         *)
(* priority or the nearest one below, never above (tm_graph.hpp promises   *)
(* "smaller than the II prio").                                            *)
NeverAboveItsPriority == \A i \in Info : served[i].plane <= ItemPrio[i]

(* Together: an item is never served above its own priority, whenever the  *)
(* priorities of links and items become known.                             *)
PathsFitPriorities == TypeOK /\ SlowItemsStayOff /\ NeverAboveItsPriority

(* Every monitor is started in the end and the priority of every link      *)
(* becomes known.                                                          *)
PrioritiesBecomeKnown == <>(DOMAIN QoS_PRIO = Link)
============================================================================
