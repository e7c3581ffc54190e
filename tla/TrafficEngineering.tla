------------------------- MODULE TrafficEngineering -------------------------
(***************************************************************************)
(* The topology manager with traffic engineering (option -t): the thread   *)
(* te_loop (te_graph_mf.cpp) measures the matches between pairs of nodes   *)
(* and solves a concurrent flow problem (tm_max_flow.cpp, the algorithm of *)
(* Garg and Koenemann as improved by Fleischer) while the main thread      *)
(* answers match requests from the flows computed before.                  *)
(*                                                                         *)
(* Demands and capacities are whole numbers; all capacities are the same   *)
(* (the code's defaultBW).  What sp_concurrent_flow() and                  *)
(* min_congestion_flow() do before max_concurrent_flow() is to scale all   *)
(* demands alike: by one of Scales.  The parameter e of the approximation  *)
(* is 1/2, so that the length of a link, times its capacity, is            *)
(* delta = (2m)^-2 for m links at the start.  Lengths are whole numbers    *)
(* too, in a unit that makes delta the number Start, and like the code's   *)
(* doubles they are rounded.                                               *)
(***************************************************************************)
EXTENDS TMGraph

CONSTANTS
  Pairs,       \* pairs <<source, sink>> with a demand (the code has all)
  Requests,    \* pairs <<publishers, subscribers>> to be matched
  Capacity,    \* of every link
  Scales,      \* factors that demands may be scaled by
  Start,       \* the length of every link at the start
  MaxMatches, MaxRounds    \* bounds on matches and on recalculations

EdgeCount == Cardinality(Link)
One == (2 * EdgeCount) * (2 * EdgeCount) * Start

(* A node that publishes to itself has no demand in demandMapMeasured; the *)
(* code then writes through end().  sp_concurrent_flow does not count the  *)
(* last hop, so that scaling ends only if some demand has another one.     *)
(* Without a path max_concurrent_flow() would follow the predecessors of   *)
(* the sink for ever: it needs a network that connects all pairs.          *)
ASSUME TEAssumption ==
  /\ Pairs \subseteq Node \X Node /\ Pairs # {}
  /\ \A r \in Requests :
       r[1] # {} /\ r[2] # {} /\ r[1] \X r[2] \subseteq Pairs /\ r[1] \cap r[2] = {}
  /\ \A p \in Pairs : p[1] # p[2] /\ Reachable(Link, p[1], p[2])
  /\ \E p \in Pairs : \A q \in Paths(Link, p[1], p[2]) : Len(q) > 1
  /\ {MaxMatches, MaxRounds} \subseteq Nat

(* The nodes are numbers, in the order of their labels. *)
ASSUME NetworkAssumption ==
  Node \subseteq Nat /\ IsFiniteSet(Node) /\ IsFiniteSet(Link)

(* Lengths are fine enough for the smallest push to make a link longer.    *)
ASSUME LengthsAssumption ==
  /\ Capacity \in Nat \ {0} /\ Scales \subseteq Nat \ {0} /\ Scales # {}
  /\ Start \in Nat /\ Start >= 2 * Capacity

VARIABLES
  demandMapMeasured,  \* [Pairs -> Nat], matches since the last measurement
  demandMapApplied,   \* [Pairs -> SUBSET paths], paths with a flow
  cacheValid,
  te,          \* the thread te_loop and the state of max_concurrent_flow()
  tm,          \* the main thread in calculateFID(publishers, subscribers)
  counted, taken, rounds   \* history: matches counted, measured, and bounds

vars == <<demandMapMeasured, demandMapApplied, cacheValid, te, tm, counted, taken, rounds>>

-----------------------------------------------------------------------------
(* The flow algorithm. *)

Total(f) == FoldFunction(+, 0, f)

(* D >= 1.0: the lengths have grown to 1 / delta in all. *)
calcD(lengths) == Total(lengths)
Done(lengths) == calcD(lengths) >= One

(* length * (1 + e * mincap / capacity) *)
Grown(length, mincap) == length + (length * mincap) \div (2 * Capacity)

(* dijkstra_shortest_paths() on gdual: any of the shortest paths. *)
PathLength(p, lengths) == FoldSeq(LAMBDA l, sum : sum + lengths[l], 0, p)
ShortestNow(pair, lengths) ==
  LET all == {<<PathLength(p, lengths), p>> : p \in PathsBetween[pair]}
      least == Min({x[1] : x \in all})
  IN  {x[2] : x \in {y \in all : y[1] = least}}

NoFlow == [p \in Pairs |-> <<>>]
FlowOf(flow, pair) == Total(flow[pair])

\* Mutant: the path's flow is set again, not added to.
OverwriteFlow(map, path, mincap) ==
  [p \in DOMAIN map \cup {path} |-> IF p = path THEN mincap ELSE map[p]]
(* path_flow_map[path] += mincap *)
AddFlow(map, path, mincap) ==
  [p \in DOMAIN map \cup {path} |->
     (IF p \in DOMAIN map THEN map[p] ELSE 0) + (IF p = path THEN mincap ELSE 0)]

-----------------------------------------------------------------------------
(* The thread te_loop: update_paths() and sleep(). *)

Idle == [pc |-> "sleep", demand |-> [p \in Pairs |-> 0], left |-> [p \in Pairs |-> 0],
         phases |-> 0, length |-> [l \in Link |-> Start], flow |-> NoFlow]

\* Mutant: the measurement goes on with the matches already taken.
KeepsMeasured(measured) == measured
ResetMeasured(measured) == [p \in Pairs |-> 0]

(* The demands are copied and set to 0 under te_mutex; a pair without a    *)
(* match counts as one, or no path would be made for it.  Then they are    *)
(* scaled, which only this thread sees.                                    *)
Measure ==
  /\ te.pc = "sleep" /\ rounds < MaxRounds
  /\ \E scale \in Scales :
       te' = [Idle EXCEPT !.pc = "flows",
                          !.demand = [p \in Pairs |->
                            scale * (IF demandMapMeasured[p] = 0 THEN 1
                                     ELSE demandMapMeasured[p])]]
  /\ taken' = taken + Total(demandMapMeasured)
  /\ demandMapMeasured' = ResetMeasured(demandMapMeasured)
  /\ rounds' = rounds + 1
  /\ UNCHANGED <<demandMapApplied, cacheValid, tm, counted>>

(* max_concurrent_flow(): a new phase, every demand in full *)
Phase ==
  /\ te.pc = "flows" /\ ~Done(te.length) /\ \A p \in Pairs : te.left[p] = 0
  /\ te' = [te EXCEPT !.left = te.demand, !.phases = @ + 1]
  /\ UNCHANGED <<demandMapMeasured, demandMapApplied, cacheValid, tm, counted, taken, rounds>>

\* Mutant: D is not looked at within a phase.
UntilPhaseEnds(lengths) == TRUE
MayPush(lengths) == ~Done(lengths)

(* One iteration: the demands of a phase come in random order, each until  *)
(* it is routed, as much at a time as fits the links.                      *)
Push(pair) ==
  /\ te.pc = "flows" /\ MayPush(te.length) /\ te.left[pair] > 0
  /\ \A q \in Pairs \ {pair} : te.left[q] \in {0, te.demand[q]}
  /\ \E path \in ShortestNow(pair, te.length) :
       LET mincap == IF te.left[pair] < Capacity THEN te.left[pair] ELSE Capacity
       IN  te' = [te EXCEPT
             !.left = [te.left EXCEPT ![pair] = te.left[pair] - mincap],
             !.length = [l \in Link |-> IF \E i \in DOMAIN path : path[i] = l
                                        THEN Grown(te.length[l], mincap) ELSE te.length[l]],
             !.flow = [te.flow EXCEPT ![pair] = AddFlow(te.flow[pair], path, mincap)]]
  /\ UNCHANGED <<demandMapMeasured, demandMapApplied, cacheValid, tm, counted, taken, rounds>>

\* Mutant: only a complete phase can be the last.
StopsAfterPhase(lengths, left) == Done(lengths) /\ \A p \in Pairs : left[p] = 0
Stops(lengths, left) == Done(lengths)

(* D has reached 1, perhaps within a phase. *)
FlowsDone ==
  /\ te.pc = "flows" /\ Stops(te.length, te.left)
  /\ te' = [te EXCEPT !.pc = "install"]
  /\ UNCHANGED <<demandMapMeasured, demandMapApplied, cacheValid, tm, counted, taken, rounds>>

\* Mutant: the pairs that had matches only.
InstallMeasured(demand, flow) ==
  [p \in Pairs |-> IF demand[p] > 1 THEN DOMAIN flow[p] ELSE {}]
\* Mutant: no entry at all for the others.
PartialMap(demand, flow) == [p \in {q \in Pairs : demand[q] > 1} |-> DOMAIN flow[p]]
(* insert_demand() for every path with a flow, and its FID *)
NewMap(demand, flow) == [p \in Pairs |-> DOMAIN flow[p]]

(* The new map replaces the old one under te_mutex ... *)
Install ==
  /\ te.pc = "install"
  /\ demandMapApplied' = NewMap(te.demand, te.flow)
  /\ te' = [Idle EXCEPT !.pc = "installed"]
  /\ UNCHANGED <<demandMapMeasured, cacheValid, tm, counted, taken, rounds>>

(* ... and is declared valid after the mutex was released. *)
SetValid ==
  /\ te.pc = "installed"
  /\ cacheValid' = TRUE
  /\ te' = Idle
  /\ UNCHANGED <<demandMapMeasured, demandMapApplied, tm, counted, taken, rounds>>

-----------------------------------------------------------------------------
(* The main thread. *)

NoMatch == [pc |-> "idle", pubs |-> {}, subs |-> {}, todo |-> {}, FID |-> <<>>,
            best |-> <<>>, next |-> {}]

RequestMatch ==
  /\ tm.pc \in {"idle", "answered"} /\ counted < MaxMatches
  /\ \E r \in Requests :
       tm' = [NoMatch EXCEPT !.pc = "pick", !.pubs = r[1], !.subs = r[2], !.todo = r[2],
                             !.FID = [p \in r[1] |-> NULL]]
  /\ UNCHANGED <<demandMapMeasured, demandMapApplied, cacheValid, te, counted, taken, rounds>>

(* numberOfHops comes from distanceMap, whatever path is used *)
Distance(p, s) == Len(CHOOSE q \in ShortestPath(Link, p, s) : TRUE) + 1
BestPublisher(pubs, s) ==
  CHOOSE p \in pubs : \A q \in pubs :
    Distance(p, s) < Distance(q, s) \/ (Distance(p, s) = Distance(q, s) /\ p <= q)

(* Before the first recalculation uncachedCalculateFID() takes a shortest. *)
UsablePaths(p, s) ==
  IF cacheValid THEN demandMapApplied[<<p, s>>] ELSE ShortestPath(Link, p, s)

\* Mutant: all the paths of the pair together.
AllPathsFID(path, b, s) == UNION {FIDOfPath(q, s) : q \in UsablePaths(b, s)}
PathFID(path, b, s) == FIDOfPath(path, s)

(* get_fid(): that of one of the paths, according to their share of the    *)
(* flow; for a pair without a path there is no entry, and a FID of zeros.  *)
get_fid(b, s) ==
  IF UsablePaths(b, s) = {} THEN {NULL} ELSE {PathFID(path, b, s) : path \in UsablePaths(b, s)}

(* One turn of the loop over the subscribers, until the demand is counted. *)
PickFID ==
  /\ tm.pc = "pick"
  /\ LET s == Min(tm.todo)
         b == BestPublisher(tm.pubs, s)
     IN  \E fid \in get_fid(b, s) :
           tm' = [tm EXCEPT !.pc = "count", !.best = <<b, s>>, !.next = fid]
  /\ UNCHANGED <<demandMapMeasured, demandMapApplied, cacheValid, te, counted, taken, rounds>>

\* Mutant: the FID of the last subscriber replaces the others.
ReplaceAnswer(old, new) == new
ExtendAnswer(old, new) == old \cup new

(* demand++ under te_mutex, and the FID of the publisher is extended *)
CountDemand ==
  /\ tm.pc = "count"
  /\ demandMapMeasured' = [demandMapMeasured EXCEPT ![tm.best] = @ + 1]
  /\ counted' = counted + 1
  /\ LET rest == tm.todo \ {tm.best[2]}
     IN  tm' = [tm EXCEPT !.pc = IF rest = {} THEN "answered" ELSE "pick",
                          !.todo = rest, !.best = <<>>, !.next = {},
                          !.FID = [tm.FID EXCEPT
                            ![tm.best[1]] = ExtendAnswer(tm.FID[tm.best[1]], tm.next)]]
  /\ UNCHANGED <<demandMapApplied, cacheValid, te, taken, rounds>>

-----------------------------------------------------------------------------
Init ==
  /\ demandMapMeasured = [p \in Pairs |-> 1]
  /\ demandMapApplied = [p \in Pairs |-> {}]
  /\ cacheValid = FALSE
  /\ te = Idle /\ tm = NoMatch
  /\ counted = 0 /\ taken = 0 /\ rounds = 0

Flow == Phase \/ (\E p \in Pairs : Push(p)) \/ FlowsDone
Next ==
  \/ Measure \/ Flow \/ Install \/ SetValid
  \/ RequestMatch \/ PickFID \/ CountDemand

(* The thread te_loop keeps running whatever the main thread does. *)
Spec == Init /\ [][Next]_vars /\ WF_vars(Flow \/ Install \/ SetValid)

-----------------------------------------------------------------------------

(* Both maps have an entry for every pair, whichever thread wrote them. *)
TypeOK ==
  /\ DOMAIN demandMapMeasured = Pairs
  /\ \A p \in Pairs : demandMapMeasured[p] \in 0 .. MaxMatches + 1
  /\ demandMapApplied \in [Pairs -> SUBSET SimplePaths] /\ cacheValid \in BOOLEAN
  /\ te.pc \in {"sleep", "flows", "install", "installed"}
  /\ tm.pc \in {"idle", "pick", "count", "answered"}
  /\ te.length \in [Link -> Nat]

(* The map is consulted only when cacheValid, which is read without the    *)
(* mutex: there is a map then, with a path for every pair (get_fid would   *)
(* answer with an empty FID and a warning).                                *)
MapIsComplete == cacheValid => \A p \in Pairs : demandMapApplied[p] # {}

(* Whatever paths were drawn for the different subscribers, and if a new   *)
(* map was installed between them, the union of their FIDs leads from each *)
(* subscriber's publisher to the subscriber.                               *)
SubscribersAreServed ==
  tm.pc = "answered" =>
    \A s \in tm.subs :
      s \in Delivered(BestPublisher(tm.pubs, s), tm.FID[BestPublisher(tm.pubs, s)], Link)

(* The paths of the flow algorithm, often not the shortest ones, have no   *)
(* loops: a packet to a single subscriber comes to every node once.        *)
SinglePathsHaveNoLoop ==
  tm.pc = "answered" /\ Cardinality(tm.subs) = 1 =>
    \A p \in tm.pubs, n \in Node :
      Cardinality({l \in Travelled(p, tm.FID[p], Link) : l[2] = n}) <= 1

(* An answer given while maps are replaced comes from a complete map and   *)
(* serves a single subscriber over a single path.                          *)
AnswersAreExact == TypeOK /\ MapIsComplete /\ SinglePathsHaveNoLoop

(* Matches are measured in exactly one recalculation, whenever the main    *)
(* thread counts them while the other thread runs; the first 1 of every    *)
(* pair stands for no match.                                               *)
MeasuredOnce ==
  Total(demandMapMeasured) + taken = counted + Cardinality(Pairs)

(* The flow algorithm treats the demands alike: after n phases each has n  *)
(* times its demand, in the phase under way at most one demand is partly   *)
(* routed.                                                                 *)
PhasesAreFair ==
  te.pc = "flows" => \A p \in Pairs :
    FlowOf(te.flow, p) = te.phases * te.demand[p] - te.left[p]

(* The flow fits the capacities but for one push: D grows by half at most  *)
(* beyond 1, so that scaled by the logarithm of 1 / delta, as the code     *)
(* does, no link is over its capacity by more than one push.               *)
FlowsFit == 2 * calcD(te.length) < 3 * One

(* The flow is shared fairly and within the capacities.                    *)
FlowsAreFair == PhasesAreFair /\ FlowsFit

(* A recalculation ends, although its end depends on lengths that grow     *)
(* only on the links in use.                                               *)
RecalculationsEnd == te.pc = "flows" ~> te.pc = "sleep"
=============================================================================
