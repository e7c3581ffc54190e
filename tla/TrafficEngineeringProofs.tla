---------------------- MODULE TrafficEngineeringProofs ----------------------
(***************************************************************************)
(* Proofs about the traffic engineering, for every network, capacity,      *)
(* demands and number of requests.  A pair is fractions apart until its    *)
(* `left` units have all been pushed: the invariants relate what is left,  *)
(* what the arcs still owe and what the flow already carries, and all of   *)
(* them rest on one fact, that a sum over a finite set may be taken in any *)
(* order.                                                                  *)
(***************************************************************************)
EXTENDS TrafficEngineering, SequenceFacts

\* FoldFunction adds the values up.
LEMMA TotalIsSum ==
    ASSUME NEW D, IsFiniteSet(D), NEW f, Sums(f, D)
    PROVE  \E it : SumOf(it, D, f) /\ Total(f) = it[D]
  <1> DEFINE Defines(it) ==
               it = [s \in SUBSET D |-> IF s = {} THEN 0 ELSE f[AnyOf(s)] + it[s \ {AnyOf(s)}]]
  <1>1. Total(f) = (CHOOSE it : Defines(it))[D]
    BY Zenon DEF Total, FoldFunction, FoldFunctionOnSet, MapThenFoldSet, AnyOf, Sums
  <1>2. \A it : Defines(it) <=> AddsUp(it, D, f)
    BY DEF AddsUp
  <1> HIDE DEF Defines
  <1>3. PICK it : Defines(it) /\ Total(f) = it[D]
    BY <1>1, <1>2, SumExists
  <1>4. SumOf(it, D, f)
    BY <1>2, <1>3, AddedUp
  <1> QED
    BY <1>3, <1>4

LEMMA TotalIsWhole ==
    ASSUME NEW D, IsFiniteSet(D), NEW f, Sums(f, D)
    PROVE  Total(f) \in Int
  <1>1. PICK it : SumOf(it, D, f) /\ Total(f) = it[D]
    BY TotalIsSum
  <1> QED
    BY <1>1 DEF SumOf

\* Sums of functions that agree are equal.
LEMMA SumsAgree ==
    ASSUME NEW D, NEW E, IsFiniteSet(D), NEW f, NEW g, NEW it, SumOf(it, D, f),
           NEW jt, SumOf(jt, E, g),
           NEW s \in SUBSET D, s \subseteq E, \A x \in s : f[x] = g[x]
    PROVE  it[s] = jt[s]
  <1> DEFINE T == {t \in SUBSET s : it[t] # jt[t]}
  <1> SUFFICES ASSUME T # {} PROVE FALSE
    OBVIOUS
  <1>1. IsFiniteSet(s)
    BY FS_Subset
  <1>2. PICK m \in T : \A x \in m : m \ {x} \notin T
    BY <1>1, SmallestSet
  <1>3. m # {} /\ m \in SUBSET s
    BY <1>2 DEF SumOf
  <1>4. PICK x \in m : TRUE
    BY <1>3
  <1>5. it[m \ {x}] = jt[m \ {x}] /\ f[x] = g[x]
    BY <1>2, <1>3, <1>4
  <1>6. it[m] = f[x] + it[m \ {x}] /\ jt[m] = g[x] + jt[m \ {x}]
    BY <1>3, <1>4 DEF SumOf
  <1> QED
    BY <1>2, <1>5, <1>6

Changed(D, f, x, g) ==
  Total(f) \in Int /\ Total(g) = Total(f) + g[x] - (IF x \in D THEN f[x] ELSE 0)

\* What changes the total: one element with another value, or one more element.
LEMMA TotalChanges ==
    ASSUME NEW D, IsFiniteSet(D), NEW f, Sums(f, D), NEW x,
           NEW g, Sums(g, D \cup {x}), \A y \in D \ {x} : g[y] = f[y]
    PROVE  Changed(D, f, x, g)
  <1> DEFINE E == D \cup {x}
  <1>1. IsFiniteSet(E) /\ Sums(g, E)
    BY FS_AddElement
  <1>2. PICK it : SumOf(it, D, f) /\ Total(f) = it[D]
    BY TotalIsSum
  <1>3. PICK jt : SumOf(jt, E, g) /\ Total(g) = jt[E]
    <2> HIDE DEF E
    <2> QED BY <1>1, TotalIsSum
  <1>4. it[D \ {x}] = jt[D \ {x}]
    <2>1. D \ {x} \in SUBSET D /\ D \ {x} \subseteq E /\ \A y \in D \ {x} : f[y] = g[y]
      OBVIOUS
    <2> HIDE DEF E
    <2> QED
      BY <1>2, <1>3, <2>1, SumsAgree
  <1>5. jt[E] = g[x] + jt[D \ {x}]
    <2>1. E \ {x} = D \ {x} /\ x \in E
      OBVIOUS
    <2> HIDE DEF E
    <2> QED
      BY <1>3, <2>1 DEF SumOf
  <1>6. x \in D => it[D] = f[x] + it[D \ {x}] /\ f[x] \in Int
    BY <1>2 DEF SumOf, Sums
  <1>7. x \notin D => D \ {x} = D
    OBVIOUS
  <1>8. it[D] \in Int /\ it[D \ {x}] \in Int /\ g[x] \in Int
    BY <1>2 DEF SumOf, Sums
  <1> QED
    BY <1>2, <1>3, <1>4, <1>5, <1>6, <1>7, <1>8 DEF Changed

\* One more of something.
LEMMA TotalCounts ==
    ASSUME NEW D, IsFiniteSet(D), NEW f \in [D -> Nat], NEW x \in D,
           NEW g, g = [f EXCEPT ![x] = @ + 1]
    PROVE  Total(g) = Total(f) + 1
  <1>1. Sums(f, D) /\ Sums(g, D \cup {x}) /\ \A y \in D \ {x} : g[y] = f[y]
    <2>1. g \in [D -> Nat] /\ D \cup {x} = D
      OBVIOUS
    <2> QED
      BY <2>1 DEF Sums
  <1>2. Changed(D, f, x, g)
    BY Zenon, <1>1, TotalChanges
  <1>3. f[x] \in Int /\ g[x] = f[x] + 1
    OBVIOUS
  <1> QED
    BY ONLY <1>2, <1>3, x \in D DEF Changed

\* The total of equal values, of nothing, and of nothing negative.
LEMMA TotalConstant ==
    ASSUME NEW D, IsFiniteSet(D), NEW f, Sums(f, D), NEW k \in Int, \A x \in D : f[x] = k
    PROVE  Total(f) = k * Cardinality(D) /\ Cardinality(D) \in Nat /\ (D = {} => Total(f) = 0)
  <1>1. PICK it : SumOf(it, D, f) /\ Total(f) = it[D]
    BY TotalIsSum
  <1> DEFINE T == {s \in SUBSET D : it[s] # k * Cardinality(s)}
  <1>2. T = {}
    <2> SUFFICES ASSUME T # {} PROVE FALSE
      OBVIOUS
    <2>1. PICK m \in T : \A x \in m : m \ {x} \notin T
      BY SmallestSet
    <2>2. m # {} /\ m \in SUBSET D
      <3>1. m \in SUBSET D /\ it[m] # k * Cardinality(m)
        OBVIOUS
      <3>2. it[{}] = k * Cardinality({})
        BY <1>1, FS_EmptySet DEF SumOf
      <3> QED
        BY Zenon, <3>1, <3>2
    <2>3. PICK x \in m : TRUE
      BY <2>2
    <2>4. it[m] = k + it[m \ {x}]
      BY <1>1, <2>2, <2>3 DEF SumOf
    <2>5. IsFiniteSet(m) /\ Cardinality(m) \in Nat /\ Cardinality(m \ {x}) = Cardinality(m) - 1
      BY <2>2, <2>3, FS_Subset, FS_CardinalityType, FS_RemoveElement
    <2>6. it[m \ {x}] = k * Cardinality(m \ {x})
      BY <2>1, <2>2, <2>3
    <2>7. it[m] # k * Cardinality(m)
      BY <2>1
    <2>8. k + k * (Cardinality(m) - 1) = k * Cardinality(m)
      BY <2>5
    <2> QED
      BY <2>4, <2>5, <2>6, <2>7, <2>8
  <1>3. D = {} => it[D] = 0
    BY <1>1 DEF SumOf
  <1>4. Cardinality(D) \in Nat
    BY FS_CardinalityType
  <1> QED
    BY <1>1, <1>2, <1>3, <1>4

LEMMA TotalBounds ==
    ASSUME NEW D, IsFiniteSet(D), NEW f, Sums(f, D), NEW g, Sums(g, D),
           \A x \in D : f[x] >= 0 /\ 2 * g[x] <= 3 * f[x]
    PROVE  2 * Total(g) <= 3 * Total(f) /\ \A x \in D : f[x] <= Total(f)
  <1>1. PICK it : SumOf(it, D, f) /\ Total(f) = it[D]
    BY TotalIsSum
  <1>2. PICK jt : SumOf(jt, D, g) /\ Total(g) = jt[D]
    BY TotalIsSum
  <1> DEFINE T == {s \in SUBSET D : ~(it[s] >= 0 /\ 2 * jt[s] <= 3 * it[s])}
  <1>3. T = {}
    <2> SUFFICES ASSUME T # {} PROVE FALSE
      OBVIOUS
    <2>1. PICK m \in T : \A x \in m : m \ {x} \notin T
      BY SmallestSet
    <2>2. m # {} /\ m \in SUBSET D
      <3>1. m \in SUBSET D /\ ~(it[m] >= 0 /\ 2 * jt[m] <= 3 * it[m])
        OBVIOUS
      <3>2. it[{}] >= 0 /\ 2 * jt[{}] <= 3 * it[{}]
        BY <1>1, <1>2 DEF SumOf
      <3> QED
        BY Zenon, <3>1, <3>2
    <2>3. PICK x \in m : TRUE
      BY <2>2
    <2>4. it[m] = f[x] + it[m \ {x}] /\ jt[m] = g[x] + jt[m \ {x}]
      BY <1>1, <1>2, <2>2, <2>3 DEF SumOf
    <2>5. it[m \ {x}] >= 0 /\ 2 * jt[m \ {x}] <= 3 * it[m \ {x}]
      BY <2>1, <2>2, <2>3
    <2>6. it[m \ {x}] \in Int /\ jt[m \ {x}] \in Int /\ f[x] \in Int /\ g[x] \in Int
      BY <1>1, <1>2, <2>2, <2>3 DEF SumOf, Sums
    <2>7. f[x] >= 0 /\ 2 * g[x] <= 3 * f[x]
      BY <2>2, <2>3
    <2>8. ~(it[m] >= 0 /\ 2 * jt[m] <= 3 * it[m])
      BY <2>1
    <2> QED
      BY <2>4, <2>5, <2>6, <2>7, <2>8
  <1>4. ASSUME NEW x \in D PROVE f[x] <= Total(f)
    <2>1. it[D] = f[x] + it[D \ {x}] /\ it[D \ {x}] \in Int /\ f[x] \in Int
      BY <1>1 DEF SumOf, Sums
    <2>2. it[D \ {x}] >= 0
      BY <1>3
    <2> QED
      BY <1>1, <2>1, <2>2
  <1>5. 2 * jt[D] <= 3 * it[D]
    BY <1>3
  <1> QED
    BY <1>1, <1>2, <1>4, <1>5

-----------------------------------------------------------------------------
(* The main thread. *)

(* A loop-free path from node s to node d, another one. *)
IsPath(q, s, d) ==
  /\ q \in Seq(Link) /\ Len(q) \in Nat \ {0} /\ q[1][1] = s /\ q[Len(q)][2] = d
  /\ \A i \in 1 .. Len(q) - 1 : q[i][2] = q[i + 1][1]
  /\ Cardinality(NodesOn(q)) = Len(q) + 1

\* The paths of a pair of nodes are the loop-free sequences of links between them.
LEMMA PairPaths ==
    ASSUME NEW s \in Node, NEW d \in Node, s # d, NEW q \in PathsBetween[<<s, d>>]
    PROVE  IsPath(q, s, d)
  <1>1. q \in SimplePaths /\ q[1][1] = s /\ q[Len(q)][2] = d
    BY DEF PathsBetween, PathsFromTo
  <1>2. q \in SeqOf(Link, Cardinality(Node) - 1)
    BY <1>1 DEF SimplePaths, BoundedSeq
  <1>3. q \in Seq(Link)
    BY <1>2 DEF SeqOf
  <1>4. q # <<>>
    <2> SUFFICES ASSUME q = <<>> PROVE FALSE
      OBVIOUS
    <2>1. NodesOn(q) = {} /\ Len(q) = 0
      BY DEF NodesOn
    <2>2. Cardinality(NodesOn(q)) = Len(q) + 1
      BY <1>1 DEF SimplePaths
    <2>3. Cardinality({}) = 0
      BY FS_EmptySet
    <2> QED
      BY ONLY <2>1, <2>2, <2>3
  <1>5. Len(q) \in Nat \ {0}
    BY <1>3, <1>4
  <1> QED
    BY <1>1, <1>3, <1>5 DEF SimplePaths, IsPath

\* The demands concern different nodes of the network, connected by a path.
LEMMA PairsAreConnected ==
    ASSUME NEW s, NEW d, <<s, d>> \in Pairs
    PROVE  /\ s \in Node /\ d \in Node /\ s # d
           /\ PathsBetween[<<s, d>>] # {} /\ ShortestPath(Link, s, d) # {}
           /\ ShortestPath(Link, s, d) \subseteq PathsBetween[<<s, d>>]
  <1>1. s \in Node /\ d \in Node /\ s # d /\ Reachable(Link, s, d)
    BY TEAssumption
  <1>2. Paths(Link, s, d) # {} /\ Paths(Link, s, d) \subseteq PathsBetween[<<s, d>>]
    BY <1>1 DEF Reachable, Paths
  <1> DEFINE L == {Len(q) : q \in Paths(Link, s, d)}
  <1>3. \A q \in Paths(Link, s, d) : Len(q) \in Nat
    BY <1>1, <1>2, PairPaths DEF IsPath
  <1>4. L \in SUBSET Nat /\ L # {}
    BY <1>2, <1>3
  <1>5. PICK m \in L : \A k \in L : m <= k
    <2> HIDE DEF L
    <2> QED BY <1>4, LeastElement
  <1>6. PICK p \in Paths(Link, s, d) : \A q \in Paths(Link, s, d) : Len(p) <= Len(q)
    BY <1>5
  <1> DEFINE c == CHOOSE x \in Paths(Link, s, d) : \A q \in Paths(Link, s, d) : Len(x) <= Len(q)
  <1>7. c \in Paths(Link, s, d)
    BY <1>6
  <1>8. ShortestPath(Link, s, d) = {c}
    BY <1>2 DEF ShortestPath
  <1> QED
    BY <1>1, <1>2, <1>7, <1>8

\* BestPublisher finds one of the publishers.
LEMMA BestIsPublisher ==
    ASSUME NEW pubs, pubs # {}, NEW s, \A p \in pubs : <<p, s>> \in Pairs
    PROVE  BestPublisher(pubs, s) \in pubs
  <1> DEFINE L == {Distance(p, s) : p \in pubs}
  <1>1. ASSUME NEW p \in pubs PROVE p \in Nat /\ Distance(p, s) \in Nat
    <2>1. <<p, s>> \in Pairs
      OBVIOUS
    <2>2. /\ p \in Node /\ s \in Node /\ p # s /\ ShortestPath(Link, p, s) # {}
          /\ ShortestPath(Link, p, s) \subseteq PathsBetween[<<p, s>>]
      BY <2>1, PairsAreConnected
    <2> DEFINE c == CHOOSE q \in ShortestPath(Link, p, s) : TRUE
    <2>3. c \in PathsBetween[<<p, s>>]
      BY <2>2
    <2>4. Len(c) \in Nat
      <3> HIDE DEF c
      <3> QED BY <2>2, <2>3, PairPaths DEF IsPath
    <2> QED
      BY <2>2, <2>4, NetworkAssumption DEF Distance
  <1>2. L \in SUBSET Nat /\ L # {}
    BY <1>1
  <1>3. PICK m \in L : \A k \in L : m <= k
    <2> HIDE DEF L
    <2> QED BY <1>2, LeastElement
  <1> DEFINE N == {p \in pubs : Distance(p, s) = m}
  <1>4. N \in SUBSET Nat /\ N # {}
    BY <1>1, <1>3
  <1>5. PICK b \in N : \A k \in N : b <= k
    <2> HIDE DEF N
    <2> QED BY <1>4, LeastElement
  <1>6. ASSUME NEW q \in pubs
        PROVE  Distance(b, s) < Distance(q, s) \/ (Distance(b, s) = Distance(q, s) /\ b <= q)
    <2>1. Distance(b, s) = m /\ m \in Nat /\ Distance(q, s) \in Nat /\ m <= Distance(q, s)
      BY <1>1, <1>3, <1>5
    <2>2. Distance(q, s) = m => b <= q
      BY <1>5
    <2> QED
      BY <2>1, <2>2
  <1>7. \E p \in pubs : \A q \in pubs :
          Distance(p, s) < Distance(q, s) \/ (Distance(p, s) = Distance(q, s) /\ p <= q)
    BY <1>5, <1>6
  <1> HIDE DEF L, N
  <1> QED
    BY Zenon, <1>7 DEF BestPublisher

\* The first of the subscribers in the order of their labels.
LEMMA FirstSubscriber ==
    ASSUME NEW todo, todo \in SUBSET Node, todo # {} PROVE Min(todo) \in todo
  <1>1. \E x \in todo : \A y \in todo : x <= y
    BY NetworkAssumption, LeastElement
  <1> QED
    BY Zenon, <1>1 DEF Min

(* The main thread has a publisher and a path to find for every subscriber *)
(* that is left, and counts the match of the pair it has chosen.           *)
MainType ==
  /\ tm = [pc |-> tm.pc, pubs |-> tm.pubs, subs |-> tm.subs, todo |-> tm.todo, FID |-> tm.FID,
           best |-> tm.best, next |-> tm.next]
  /\ tm.pc \in {"idle", "pick", "count", "answered"}
  /\ tm.pc \in {"pick", "count"} =>
       /\ tm.pubs # {} /\ tm.todo # {} /\ tm.todo \subseteq tm.subs
       /\ \A p \in tm.pubs, s \in tm.subs : <<p, s>> \in Pairs
  /\ tm.pc = "count" =>
       \E s \in tm.todo : tm.best = <<BestPublisher(tm.pubs, s), s>> /\ tm.best \in Pairs
MainInv ==
  /\ MainType /\ demandMapMeasured \in [Pairs -> Nat] /\ counted \in Nat /\ taken \in Nat
  /\ MeasuredOnce

\* There are finitely many pairs.
LEMMA FinitePairs ==
    IsFiniteSet(Pairs)
  <1>1. IsFiniteSet(Node \X Node)
    BY NetworkAssumption, FS_Product
  <1> QED
    BY <1>1, TEAssumption, FS_Subset

LEMMA InitMain ==
    ASSUME Init PROVE MainInv
  <1>1. Sums(demandMapMeasured, Pairs) /\ \A p \in Pairs : demandMapMeasured[p] = 1
    BY DEF Init, Sums
  <1>2. Total(demandMapMeasured) = 1 * Cardinality(Pairs) /\ Cardinality(Pairs) \in Nat
    BY <1>1, FinitePairs, TotalConstant
  <1>3. MeasuredOnce
    BY <1>2 DEF Init, MeasuredOnce
  <1>4. demandMapMeasured \in [Pairs -> Nat] /\ counted \in Nat /\ taken \in Nat
    BY DEF Init
  <1>5. MainType
    BY DEF Init, NoMatch, MainType
  <1> QED
    BY <1>3, <1>4, <1>5 DEF MainInv

\* The main thread chooses among the publishers of the match it answers.
LEMMA NextMainType ==
    ASSUME MainType, [Next]_vars PROVE MainType'
  <1>1. CASE tm' = tm
    BY <1>1 DEF MainType
  <1>2. CASE RequestMatch
    <2>1. PICK r \in Requests :
            tm' = [NoMatch EXCEPT !.pc = "pick", !.pubs = r[1], !.subs = r[2], !.todo = r[2],
                                  !.FID = [p \in r[1] |-> NULL]]
      BY <1>2 DEF RequestMatch
    <2>2. tm' = [pc |-> "pick", pubs |-> r[1], subs |-> r[2], todo |-> r[2],
                 FID |-> [p \in r[1] |-> NULL], best |-> <<>>, next |-> {}]
      BY <2>1 DEF NoMatch
    <2>3. r[1] # {} /\ r[2] # {} /\ r[1] \X r[2] \subseteq Pairs
      BY TEAssumption
    <2> QED
      BY <2>2, <2>3 DEF MainType
  <1>3. CASE PickFID
    <2> DEFINE s == Min(tm.todo)
               b == BestPublisher(tm.pubs, s)
    <2>1. PICK fid : tm' = [tm EXCEPT !.pc = "count", !.best = <<b, s>>, !.next = fid]
      BY <1>3 DEF PickFID
    <2>2. /\ tm.pubs # {} /\ tm.todo # {} /\ tm.todo \subseteq tm.subs
          /\ \A p \in tm.pubs, t \in tm.subs : <<p, t>> \in Pairs
      BY <1>3 DEF PickFID, MainType
    <2>3. tm.todo \in SUBSET Node
      BY <2>2, PairsAreConnected
    <2>4. s \in tm.todo /\ s \in tm.subs
      BY <2>2, <2>3, FirstSubscriber
    <2> HIDE DEF s
    <2>5. \A p \in tm.pubs : <<p, s>> \in Pairs
      BY <2>2, <2>4
    <2>6. b \in tm.pubs
      BY <2>2, <2>5, BestIsPublisher
    <2>7. <<b, s>> \in Pairs
      BY <2>5, <2>6
    <2>8. tm' = [pc |-> "count", pubs |-> tm.pubs, subs |-> tm.subs, todo |-> tm.todo, FID |-> tm.FID,
                 best |-> <<b, s>>, next |-> fid]
      BY <2>1 DEF MainType
    <2> QED
      BY <2>2, <2>4, <2>7, <2>8 DEF MainType
  <1>4. CASE CountDemand
    <2> DEFINE rest == tm.todo \ {tm.best[2]}
               fid == [tm.FID EXCEPT ![tm.best[1]] = ExtendAnswer(tm.FID[tm.best[1]], tm.next)]
    <2>1. tm' = [tm EXCEPT !.pc = IF rest = {} THEN "answered" ELSE "pick",
                           !.todo = rest, !.best = <<>>, !.next = {}, !.FID = fid]
      BY <1>4 DEF CountDemand
    <2> HIDE DEF fid
    <2>2. tm' = [pc |-> IF rest = {} THEN "answered" ELSE "pick", pubs |-> tm.pubs,
                 subs |-> tm.subs, todo |-> rest, FID |-> fid, best |-> <<>>, next |-> {}]
      BY <2>1 DEF MainType
    <2>3. /\ tm.pubs # {} /\ tm.todo \subseteq tm.subs
          /\ \A p \in tm.pubs, t \in tm.subs : <<p, t>> \in Pairs
      BY <1>4 DEF CountDemand, MainType
    <2> QED
      BY <2>2, <2>3 DEF MainType
  <1> QED
    BY <1>1, <1>2, <1>3, <1>4
    DEF Next, vars, Measure, Flow, Phase, Push, FlowsDone, Install, SetValid

\* A match counted, or a measurement: the sum stays.
LEMMA NextMain ==
    ASSUME MainInv, [Next]_vars PROVE MainInv'
  <1>1. MainType'
    BY NextMainType DEF MainInv
  <1>2. demandMapMeasured \in [Pairs -> Nat] /\ counted \in Nat /\ taken \in Nat /\ MeasuredOnce
    BY DEF MainInv
  <1>3. Sums(demandMapMeasured, Pairs) /\ Cardinality(Pairs) \in Nat
    BY <1>2, FinitePairs, FS_CardinalityType DEF Sums
  <1>4. Total(demandMapMeasured) \in Int /\ Total(demandMapMeasured) >= 0
    <2>1. \A p \in Pairs : demandMapMeasured[p] >= 0 /\ 2 * demandMapMeasured[p] <= 3 * demandMapMeasured[p]
      BY <1>2
    <2>2. 2 * Total(demandMapMeasured) <= 3 * Total(demandMapMeasured)
      BY <1>3, <2>1, FinitePairs, TotalBounds
    <2>3. Total(demandMapMeasured) \in Int
      BY <1>3, FinitePairs, TotalIsWhole
    <2> QED
      BY <2>2, <2>3
  <1>5. CASE UNCHANGED <<demandMapMeasured, counted, taken>>
    BY <1>1, <1>2, <1>5 DEF MainInv, MeasuredOnce
  <1>6. CASE Measure
    <2>1. /\ demandMapMeasured' = [p \in Pairs |-> 0] /\ counted' = counted
          /\ taken' = taken + Total(demandMapMeasured)
      BY <1>6 DEF Measure, ResetMeasured
    <2>2. Sums(demandMapMeasured', Pairs) /\ \A p \in Pairs : demandMapMeasured'[p] = 0
      BY <2>1 DEF Sums
    <2>3. Total(demandMapMeasured') = 0 * Cardinality(Pairs)
      BY <2>2, FinitePairs, TotalConstant
    <2>4. MeasuredOnce'
      BY <1>2, <1>3, <1>4, <2>1, <2>3 DEF MeasuredOnce
    <2> QED
      BY <1>1, <1>2, <1>4, <2>1, <2>4 DEF MainInv
  <1>7. CASE CountDemand
    <2> DEFINE b == tm.best
    <2>1. b \in Pairs
      BY <1>7 DEF CountDemand, MainInv, MainType
    <2>2. /\ demandMapMeasured' = [demandMapMeasured EXCEPT ![b] = @ + 1]
          /\ counted' = counted + 1 /\ taken' = taken
      BY <1>7 DEF CountDemand
    <2> HIDE DEF b
    <2>3. /\ demandMapMeasured' \in [Pairs -> Nat] /\ demandMapMeasured'[b] = demandMapMeasured[b] + 1
          /\ \A p \in Pairs \ {b} : demandMapMeasured'[p] = demandMapMeasured[p]
      BY <1>2, <2>1, <2>2
    <2>6. Total(demandMapMeasured') = Total(demandMapMeasured) + 1
      BY Zenon, <1>2, <2>1, <2>2, FinitePairs, TotalCounts
    <2>7. MeasuredOnce'
      BY <1>2, <1>3, <1>4, <2>2, <2>6 DEF MeasuredOnce
    <2> QED
      BY <1>1, <1>2, <2>2, <2>3, <2>7 DEF MainInv
  <1> QED
    BY <1>5, <1>6, <1>7
    DEF Next, vars, Flow, Phase, Push, FlowsDone, Install, SetValid, RequestMatch, PickFID

\* Every match is measured in exactly one recalculation (demand++ in
\* calculateFID and the copy that update_paths takes, both under te_mutex).
THEOREM TEMeasuredOnce == Spec => []MeasuredOnce
  <1>1. MainInv => MeasuredOnce
    BY DEF MainInv
  <1> QED
    BY <1>1, InitMain, NextMain, PTL DEF Spec

-----------------------------------------------------------------------------
(* The flow algorithm. *)

(* A flow of a pair goes over paths of the pair. *)
FlowOK(f, pair) ==
  IsFiniteSet(DOMAIN f) /\ Sums(f, DOMAIN f) /\ DOMAIN f \subseteq PathsBetween[pair]

\* A push more on a path.
LEMMA OneMorePush ==
    ASSUME NEW pair, NEW f, FlowOK(f, pair), NEW path \in PathsBetween[pair], NEW mincap \in Int
    PROVE  /\ FlowOK(AddFlow(f, path, mincap), pair)
           /\ Total(AddFlow(f, path, mincap)) = Total(f) + mincap
  <1> DEFINE D == DOMAIN f
             g == AddFlow(f, path, mincap)
  <1>1. IsFiniteSet(D) /\ Sums(f, D) /\ IsFiniteSet(D \cup {path})
    BY FS_AddElement DEF FlowOK
  <1>2. /\ DOMAIN g = D \cup {path} /\ \A y \in D \ {path} : g[y] = f[y]
        /\ g[path] = (IF path \in D THEN f[path] ELSE 0) + mincap
        /\ Sums(g, D \cup {path})
    <2>1. \A p \in D : f[p] \in Int
      BY <1>1 DEF Sums
    <2>2. DOMAIN g = D \cup {path}
      BY DEF AddFlow
    <2>3. \A p \in D \cup {path} :
            g[p] = (IF p \in D THEN f[p] ELSE 0) + (IF p = path THEN mincap ELSE 0)
      BY DEF AddFlow
    <2> HIDE DEF g
    <2>4. \A y \in D \ {path} : g[y] = f[y]
      BY <2>1, <2>3
    <2>5. g[path] = (IF path \in D THEN f[path] ELSE 0) + mincap
      BY <2>1, <2>3
    <2>6. \A p \in D \cup {path} : g[p] \in Int
      BY <2>1, <2>3
    <2> QED
      BY <2>2, <2>4, <2>5, <2>6 DEF Sums
  <1> HIDE DEF g
  <1>3. Changed(D, f, path, g)
    <2> HIDE DEF D
    <2> QED BY Zenon, <1>1, <1>2, TotalChanges
  <1>4. path \in D => f[path] \in Int
    BY <1>1 DEF Sums
  <1>5. Total(g) = Total(f) + mincap
    <2> HIDE DEF D
    <2> QED BY <1>2, <1>3, <1>4 DEF Changed
  <1>6. FlowOK(g, pair)
    <2>1. D \cup {path} \subseteq PathsBetween[pair]
      BY DEF FlowOK
    <2> HIDE DEF D
    <2> QED BY <1>1, <1>2, <2>1 DEF FlowOK
  <1> QED
    BY <1>5, <1>6 DEF g

\* There is a link, and D starts below 1.
LEMMA LinksExist ==
  /\ EdgeCount \in Nat \ {0} /\ Capacity \in Nat \ {0} /\ Start \in Nat
  /\ One \in Nat /\ 2 * (Start * EdgeCount) < 3 * One
  <1>1. Capacity \in Nat \ {0} /\ Start \in Nat \ {0}
    BY LengthsAssumption
  <1>2. Link # {}
    <2>1. PICK s, d : <<s, d>> \in Pairs
      <3>1. PICK p \in Pairs : TRUE
        BY TEAssumption
      <3>2. p = <<p[1], p[2]>>
        BY TEAssumption
      <3> QED
        BY <3>2
    <2>2. s \in Node /\ d \in Node /\ s # d /\ PathsBetween[<<s, d>>] # {}
      BY <2>1, PairsAreConnected
    <2>3. PICK q : IsPath(q, s, d)
      BY <2>2, PairPaths
    <2> QED
      BY <2>3 DEF IsPath
  <1>3. EdgeCount \in Nat \ {0}
    BY <1>2, NetworkAssumption, FS_CardinalityType, FS_EmptySet DEF EdgeCount
  <1>4. One \in Nat /\ 2 * (Start * EdgeCount) < 3 * One
    <2> DEFINE m == EdgeCount
               b == Start * m
    <2>1. m \in Nat \ {0} /\ One = (2 * m) * (2 * m) * Start
      BY <1>3 DEF One
    <2> HIDE DEF m
    <2>2. b \in Nat /\ b > 0
      BY <1>1, <2>1
    <2>3. One = 4 * (b * m)
      BY <1>1, <2>1
    <2> HIDE DEF b
    <2>4. b * m >= b /\ b * m \in Nat
      BY <2>1, <2>2
    <2>5. One \in Nat /\ 2 * b < 3 * One
      BY <2>2, <2>3, <2>4
    <2> QED
      BY <2>5 DEF b, m
  <1> QED
    BY <1>1, <1>3, <1>4

\* D at the start, and after a push over the links of a path.
LEMMA FirstLengths ==
    ASSUME NEW length, length = [l \in Link |-> Start]
    PROVE  length \in [Link -> Nat] /\ 2 * calcD(length) < 3 * One
  <1>1. length \in [Link -> Nat] /\ Sums(length, Link) /\ \A l \in Link : length[l] = Start
    BY LinksExist DEF Sums
  <1>2. calcD(length) = Start * EdgeCount
    BY <1>1, LinksExist, NetworkAssumption, TotalConstant DEF calcD, EdgeCount
  <1> QED
    BY <1>1, <1>2, LinksExist

\* A push of at most the capacity makes a link longer by half at most.
LEMMA GrowsByHalf ==
    ASSUME NEW w \in Nat, NEW mincap \in 0 .. Capacity
    PROVE  Grown(w, mincap) \in Nat /\ 2 * Grown(w, mincap) <= 3 * w
  <1> DEFINE c == Capacity
             q == (w * mincap) \div (2 * c)
  <1>1. c \in Nat \ {0} /\ mincap \in 0 .. c
    BY LinksExist
  <1> HIDE DEF c
  <1>2. w * mincap \in Nat /\ 2 * c \in Nat \ {0}
    BY <1>1
  <1>3. q \in Nat /\ (2 * c) * q <= w * mincap
    <2> DEFINE a == w * mincap
               b == 2 * c
    <2>1. a \in Nat /\ b \in Nat \ {0} /\ q = a \div b
      BY <1>2
    <2> HIDE DEF a, b, q
    <2>2. a \div b \in Nat /\ b * (a \div b) <= a
      BY <2>1
    <2> QED
      BY <2>1, <2>2 DEF a, b
  <1> HIDE DEF q
  <1>4. 2 * q <= w
    <2>1. w * mincap <= w * c
      BY <1>1
    <2>2. SUFFICES ASSUME 2 * q >= w + 1 PROVE FALSE
      BY <1>3
    <2>3. c * (2 * q) >= c * (w + 1)
      BY <1>1, <1>3, <2>2
    <2>4. c * (2 * q) = (2 * c) * q /\ c * (w + 1) = w * c + c
      BY <1>1, <1>3
    <2> QED
      BY <1>1, <1>3, <2>1, <2>3, <2>4
  <1>5. Grown(w, mincap) = w + q
    BY DEF Grown, q, c
  <1> QED
    BY <1>3, <1>4, <1>5

LEMMA LengthsGrow ==
    ASSUME NEW length \in [Link -> Nat], ~Done(length), NEW mincap \in 0 .. Capacity, NEW more,
           DOMAIN more = Link, more = [l \in Link |-> more[l]],
           \A l \in Link : more[l] \in {length[l], Grown(length[l], mincap)}
    PROVE  more \in [Link -> Nat] /\ 2 * calcD(more) < 3 * One
  <1>1. Sums(length, Link) /\ \A l \in Link : length[l] \in Nat
    BY DEF Sums
  <1>2. Total(length) \in Int /\ Total(length) < One
    BY <1>1, NetworkAssumption, TotalIsWhole, LinksExist DEF Done, calcD
  <1>3. ASSUME NEW l \in Link PROVE more[l] \in Nat /\ length[l] >= 0 /\ 2 * more[l] <= 3 * length[l]
    <2>1. length[l] \in Nat
      BY <1>1
    <2>2. Grown(length[l], mincap) \in Nat /\ 2 * Grown(length[l], mincap) <= 3 * length[l]
      BY <2>1, GrowsByHalf
    <2> QED
      BY <2>1, <2>2
  <1>4. more \in [Link -> Nat] /\ Sums(more, Link)
    BY <1>3 DEF Sums
  <1>5. 2 * Total(more) <= 3 * Total(length) /\ Total(more) \in Int
    <2>1. \A l \in Link : length[l] >= 0 /\ 2 * more[l] <= 3 * length[l]
      BY <1>3
    <2> QED
      BY Zenon, <1>1, <1>4, <2>1, NetworkAssumption, TotalBounds, TotalIsWhole
  <1> QED
    BY <1>2, <1>4, <1>5, LinksExist DEF calcD

(* What has been routed agrees with the phases, over paths of the pair. *)
FlowType ==
  /\ te = [pc |-> te.pc, demand |-> te.demand, left |-> te.left, phases |-> te.phases,
           length |-> te.length, flow |-> te.flow]
  /\ te.demand \in [Pairs -> Nat] /\ te.left \in [Pairs -> Nat] /\ te.phases \in Nat
  /\ te.length \in [Link -> Nat]
  /\ DOMAIN te.flow = Pairs /\ te.flow = [p \in Pairs |-> te.flow[p]]
  /\ \A p \in Pairs : FlowOK(te.flow[p], p)
FlowInv ==
  /\ FlowType /\ FlowsAreFair
  /\ DOMAIN demandMapApplied = Pairs
  /\ \A p \in Pairs : demandMapApplied[p] \subseteq PathsBetween[p]

\* Between two recalculations there is no flow.
LEMMA NothingRouted ==
    ASSUME NEW f, f = <<>>, NEW pair
    PROVE  FlowOK(f, pair) /\ Total(f) = 0
  <1>1. DOMAIN f = {}
    OBVIOUS
  <1>2. Sums(f, {}) /\ IsFiniteSet({})
    BY <1>1, FS_EmptySet DEF Sums
  <1>3. \A x \in {} : f[x] = 0
    OBVIOUS
  <1>4. Total(f) = 0
    BY <1>2, <1>3, TotalConstant
  <1> QED
    BY <1>1, <1>2, <1>4 DEF FlowOK

LEMMA IdleFlow ==
    ASSUME NEW d \in [Pairs -> Nat], NEW pc,
           te' = [pc |-> pc, demand |-> d, left |-> [p \in Pairs |-> 0], phases |-> 0,
                  length |-> [l \in Link |-> Start], flow |-> NoFlow]
    PROVE  FlowType' /\ FlowsAreFair'
  <1>1. /\ te'.pc = pc /\ te'.demand = d /\ te'.left = [p \in Pairs |-> 0] /\ te'.phases = 0
        /\ te'.length = [l \in Link |-> Start] /\ te'.flow = NoFlow
    OBVIOUS
  <1>2. te'.length \in [Link -> Nat] /\ 2 * calcD(te'.length) < 3 * One
    BY <1>1, FirstLengths
  <1>3. \A p \in Pairs : NoFlow[p] = <<>> /\ FlowOK(NoFlow[p], p) /\ Total(NoFlow[p]) = 0
    BY NothingRouted DEF NoFlow
  <1>4. FlowType'
    <2>1. DOMAIN NoFlow = Pairs /\ NoFlow = [p \in Pairs |-> NoFlow[p]]
      BY DEF NoFlow
    <2>2. (te').demand \in [Pairs -> Nat] /\ (te').left \in [Pairs -> Nat] /\ (te').phases \in Nat
      BY <1>1
    <2>3. te' = [pc |-> te'.pc, demand |-> te'.demand, left |-> te'.left, phases |-> te'.phases,
                 length |-> te'.length, flow |-> te'.flow]
      BY <1>1
    <2> QED
      BY <1>1, <1>2, <1>3, <2>1, <2>2, <2>3 DEF FlowType
  <1>5. PhasesAreFair'
    <2> SUFFICES ASSUME NEW p \in Pairs
                 PROVE  FlowOf(te'.flow, p) = te'.phases * te'.demand[p] - te'.left[p]
      BY DEF PhasesAreFair
    <2>1. FlowOf(te'.flow, p) = 0
      BY <1>1, <1>3 DEF FlowOf
    <2>2. te'.demand[p] \in Nat /\ te'.left[p] = 0 /\ te'.phases = 0
      BY <1>1
    <2> QED
      BY <2>1, <2>2
  <1>6. FlowsFit'
    BY <1>2 DEF FlowsFit
  <1> QED
    BY <1>4, <1>5, <1>6 DEF FlowsAreFair

LEMMA InitFlow ==
    ASSUME Init PROVE FlowType /\ FlowsAreFair
  <1>1. te = [pc |-> "sleep", demand |-> [p \in Pairs |-> 0], left |-> [p \in Pairs |-> 0],
              phases |-> 0, length |-> [l \in Link |-> Start], flow |-> NoFlow]
    BY DEF Init, Idle
  <1>2. te.length \in [Link -> Nat] /\ 2 * calcD(te.length) < 3 * One
    BY <1>1, FirstLengths
  <1>3. \A p \in Pairs : NoFlow[p] = <<>> /\ FlowOK(NoFlow[p], p)
    BY NothingRouted DEF NoFlow
  <1>4. DOMAIN NoFlow = Pairs /\ NoFlow = [p \in Pairs |-> NoFlow[p]]
    BY DEF NoFlow
  <1>5. FlowType
    BY <1>1, <1>2, <1>3, <1>4 DEF FlowType
  <1>6. PhasesAreFair
    BY <1>1 DEF PhasesAreFair
  <1> QED
    BY <1>2, <1>5, <1>6 DEF FlowsAreFair, FlowsFit

\* A phase puts all the demands up again.
LEMMA NextPhase ==
    ASSUME FlowType, FlowsAreFair, Phase PROVE FlowType' /\ FlowsAreFair'
  <1>1. /\ te.pc = "flows" /\ \A p \in Pairs : te.left[p] = 0
        /\ te' = [te EXCEPT !.left = te.demand, !.phases = @ + 1]
    BY DEF Phase
  <1>2. te' = [pc |-> te.pc, demand |-> te.demand, left |-> te.demand, phases |-> te.phases + 1,
               length |-> te.length, flow |-> te.flow]
    BY <1>1 DEF FlowType
  <1>3. /\ te'.pc = te.pc /\ te'.demand = te.demand /\ te'.left = te.demand
        /\ te'.phases = te.phases + 1 /\ te'.length = te.length /\ te'.flow = te.flow
    BY <1>2
  <1>4. FlowType'
    BY <1>2, <1>3 DEF FlowType
  <1>5. PhasesAreFair'
    <2> SUFFICES ASSUME NEW p \in Pairs
                 PROVE  FlowOf(te'.flow, p) = te'.phases * te'.demand[p] - te'.left[p]
      BY DEF PhasesAreFair
    <2>1. FlowOf(te.flow, p) = te.phases * te.demand[p] - te.left[p]
      BY <1>1 DEF FlowsAreFair, PhasesAreFair
    <2>2. te.left[p] = 0 /\ te.demand[p] \in Nat /\ te.phases \in Nat
      BY <1>1 DEF FlowType
    <2> DEFINE n == te.phases
               d == te.demand[p]
    <2>3. FlowOf(te.flow, p) = n * d - 0 /\ n \in Nat /\ d \in Nat
      BY <2>1, <2>2
    <2>4. FlowOf(te'.flow, p) = FlowOf(te.flow, p) /\ te'.phases = n + 1 /\ te'.demand[p] = d
          /\ te'.left[p] = d
      BY <1>3
    <2> HIDE DEF n, d
    <2>5. n * d - 0 = (n + 1) * d - d
      BY <2>3
    <2> QED
      BY <2>3, <2>4, <2>5
  <1>6. FlowsFit'
    BY <1>3 DEF FlowsFit, FlowsAreFair
  <1> QED
    BY <1>4, <1>5, <1>6 DEF FlowsAreFair

\* The shortest paths of a pair are among its paths.
LEMMA ShortestAreBetween ==
    ASSUME NEW pair, NEW length, NEW path \in ShortestNow(pair, length)
    PROVE  path \in PathsBetween[pair]
  <1> DEFINE all == {<<PathLength(p, length), p>> : p \in PathsBetween[pair]}
             least == Min({x[1] : x \in all})
             near == {y \in all : y[1] = least}
  <1>1. path \in {x[2] : x \in near}
    BY Zenon DEF ShortestNow
  <1>2. \A y \in all : y[2] \in PathsBetween[pair]
    OBVIOUS
  <1> HIDE DEF all, least
  <1> QED
    BY <1>1, <1>2

\* A push routes a part of one demand.
LEMMA NextPush ==
    ASSUME FlowType, FlowsAreFair, NEW pair \in Pairs, Push(pair) PROVE FlowType' /\ FlowsAreFair'
  <1> DEFINE mincap == IF te.left[pair] < Capacity THEN te.left[pair] ELSE Capacity
             more(q) == [l \in Link |-> IF \E i \in DOMAIN q : q[i] = l
                                        THEN Grown(te.length[l], mincap) ELSE te.length[l]]
             left == [te.left EXCEPT ![pair] = te.left[pair] - mincap]
             flow(q) == [te.flow EXCEPT ![pair] = AddFlow(te.flow[pair], q, mincap)]
  <1>1. te.pc = "flows" /\ ~Done(te.length) /\ te.left[pair] > 0
    BY DEF Push, MayPush
  <1>2. PICK path \in ShortestNow(pair, te.length) :
          te' = [te EXCEPT !.left = left, !.length = more(path), !.flow = flow(path)]
    BY DEF Push
  <1>3. path \in PathsBetween[pair]
    BY <1>2, ShortestAreBetween
  <1>4. mincap \in 0 .. Capacity /\ mincap \in Int /\ te.left[pair] - mincap \in Nat
    BY <1>1, LinksExist DEF FlowType
  <1> DEFINE length == more(path)
             flows == flow(path)
  <1>5. te' = [te EXCEPT !.left = left, !.length = length, !.flow = flows]
    BY <1>2
  <1> HIDE DEF mincap
  <1>6. length \in [Link -> Nat] /\ 2 * calcD(length) < 3 * One
    <2>1. /\ DOMAIN length = Link /\ length = [l \in Link |-> length[l]]
          /\ \A l \in Link : length[l] \in {te.length[l], Grown(te.length[l], mincap)}
      OBVIOUS
    <2> HIDE DEF length
    <2> QED
      BY <1>1, <1>4, <2>1, LengthsGrow DEF FlowType
  <1>7. /\ left \in [Pairs -> Nat] /\ left[pair] = te.left[pair] - mincap
        /\ \A p \in Pairs \ {pair} : left[p] = te.left[p]
    BY <1>1, <1>4 DEF FlowType
  <1>8. FlowOK(AddFlow(te.flow[pair], path, mincap), pair)
        /\ Total(AddFlow(te.flow[pair], path, mincap)) = Total(te.flow[pair]) + mincap
    BY <1>3, <1>4, OneMorePush DEF FlowType
  <1>9. /\ DOMAIN flows = Pairs /\ flows = [p \in Pairs |-> flows[p]]
        /\ flows[pair] = AddFlow(te.flow[pair], path, mincap)
        /\ \A p \in Pairs \ {pair} : flows[p] = te.flow[p]
    <2>1. DOMAIN te.flow = Pairs /\ te.flow = [p \in Pairs |-> te.flow[p]]
      BY DEF FlowType
    <2> HIDE DEF AddFlow
    <2> QED
      BY <2>1
  <1> HIDE DEF left, length, flows
  <1>10. te' = [pc |-> te.pc, demand |-> te.demand, left |-> left, phases |-> te.phases,
               length |-> length, flow |-> flows]
    BY <1>5 DEF FlowType
  <1>11. /\ te'.pc = te.pc /\ te'.demand = te.demand /\ te'.left = left
         /\ te'.phases = te.phases /\ te'.length = length /\ te'.flow = flows
    BY <1>10
  <1>12. FlowType'
    <2>1. \A p \in Pairs : FlowOK(flows[p], p)
      BY <1>8, <1>9 DEF FlowType
    <2>2. te.demand \in [Pairs -> Nat] /\ te.phases \in Nat
      BY DEF FlowType
    <2> QED
      BY <1>6, <1>7, <1>9, <1>10, <1>11, <2>1, <2>2 DEF FlowType
  <1>13. PhasesAreFair'
    <2> SUFFICES ASSUME NEW p \in Pairs
                 PROVE  FlowOf(te'.flow, p) = te'.phases * te'.demand[p] - te'.left[p]
      BY DEF PhasesAreFair
    <2>1. FlowOf(te.flow, p) = te.phases * te.demand[p] - te.left[p]
      BY <1>1 DEF FlowsAreFair, PhasesAreFair
    <2>2. CASE p # pair
      BY <1>7, <1>9, <1>11, <2>1, <2>2 DEF FlowOf
    <2>3. CASE p = pair
      <3> DEFINE x == te.phases * te.demand[p]
                 y == te.left[p]
      <3>1. x \in Int /\ y \in Int
        BY DEF FlowType
      <3>2. FlowOf(flows, p) = FlowOf(te.flow, p) + mincap
        BY <1>8, <1>9, <2>3 DEF FlowOf
      <3>3. left[p] = y - mincap /\ FlowOf(te.flow, p) = x - y
        BY <1>7, <2>1, <2>3
      <3>4. te'.phases * te'.demand[p] = x
        BY <1>11
      <3> HIDE DEF x, y
      <3>5. (x - y) + mincap = x - (y - mincap)
        BY <1>4, <3>1
      <3> QED
        BY <1>11, <3>2, <3>3, <3>4, <3>5
    <2> QED
      BY <2>2, <2>3
  <1>14. FlowsFit'
    BY <1>6, <1>11 DEF FlowsFit
  <1> QED
    BY <1>12, <1>13, <1>14 DEF FlowsAreFair

LEMMA NextFlow ==
    ASSUME FlowInv, MainInv, [Next]_vars PROVE FlowInv'
  <1>1. CASE UNCHANGED <<te, demandMapApplied>>
    BY <1>1 DEF FlowInv, FlowType, FlowsAreFair, PhasesAreFair, FlowsFit
  <1>2. CASE Measure
    <2>0. PICK scale \in Scales :
            te' = [Idle EXCEPT !.pc = "flows",
                               !.demand = [p \in Pairs |->
                                 scale * (IF demandMapMeasured[p] = 0 THEN 1
                                          ELSE demandMapMeasured[p])]]
      BY <1>2 DEF Measure
    <2> DEFINE d == [p \in Pairs |->
                      scale * (IF demandMapMeasured[p] = 0 THEN 1 ELSE demandMapMeasured[p])]
    <2>1. te' = [Idle EXCEPT !.pc = "flows", !.demand = d] /\ demandMapApplied' = demandMapApplied
      BY <1>2, <2>0 DEF Measure
    <2>2. d \in [Pairs -> Nat]
      BY LengthsAssumption DEF MainInv
    <2> HIDE DEF d
    <2>3. te' = [pc |-> "flows", demand |-> d, left |-> [p \in Pairs |-> 0], phases |-> 0,
                 length |-> [l \in Link |-> Start], flow |-> NoFlow]
      BY <2>1 DEF Idle
    <2> QED
      BY <2>1, <2>2, <2>3, IdleFlow DEF FlowInv
  <1>3. CASE Phase
    BY <1>3, NextPhase DEF FlowInv, Phase
  <1>4. ASSUME NEW pair \in Pairs, Push(pair) PROVE FlowInv'
    BY <1>4, NextPush DEF FlowInv, Push
  <1>5. CASE FlowsDone
    <2>1. te' = [te EXCEPT !.pc = "install"] /\ demandMapApplied' = demandMapApplied
      BY <1>5 DEF FlowsDone
    <2>2. te' = [pc |-> "install", demand |-> te.demand, left |-> te.left, phases |-> te.phases,
                 length |-> te.length, flow |-> te.flow]
      BY <2>1 DEF FlowInv, FlowType
    <2>3. FlowType' /\ FlowsFit'
      BY <2>2 DEF FlowInv, FlowType, FlowsAreFair, FlowsFit
    <2>4. PhasesAreFair'
      BY <2>2 DEF PhasesAreFair
    <2> QED
      BY <2>1, <2>3, <2>4 DEF FlowInv, FlowsAreFair
  <1>6. CASE Install
    <2>1. te' = [Idle EXCEPT !.pc = "installed"] /\ demandMapApplied' = NewMap(te.demand, te.flow)
      BY <1>6 DEF Install
    <2>2. te' = [pc |-> "installed", demand |-> [p \in Pairs |-> 0], left |-> [p \in Pairs |-> 0],
                 phases |-> 0, length |-> [l \in Link |-> Start], flow |-> NoFlow]
      BY <2>1 DEF Idle
    <2>3. [p \in Pairs |-> 0] \in [Pairs -> Nat]
      OBVIOUS
    <2>4. FlowType' /\ FlowsAreFair'
      BY <2>2, <2>3, IdleFlow
    <2>5. \A p \in Pairs : DOMAIN te.flow[p] \subseteq PathsBetween[p]
      BY DEF FlowInv, FlowType, FlowOK
    <2> QED
      BY <2>1, <2>4, <2>5 DEF FlowInv, NewMap
  <1>7. CASE SetValid
    <2>1. te' = Idle /\ demandMapApplied' = demandMapApplied
      BY <1>7 DEF SetValid
    <2>2. te' = [pc |-> "sleep", demand |-> [p \in Pairs |-> 0], left |-> [p \in Pairs |-> 0],
                 phases |-> 0, length |-> [l \in Link |-> Start], flow |-> NoFlow]
      BY <2>1 DEF Idle
    <2>3. [p \in Pairs |-> 0] \in [Pairs -> Nat]
      OBVIOUS
    <2> QED
      BY <2>1, <2>2, <2>3, IdleFlow DEF FlowInv
  <1> QED
    BY <1>1, <1>2, <1>3, <1>4, <1>5, <1>6, <1>7
    DEF Next, vars, Flow, RequestMatch, PickFID, CountDemand

\* The demands are treated alike and the flow fits the capacities but for
\* one push (max_concurrent_flow, for every network and every set of demands).
THEOREM TEFlowsAreFair == Spec => []FlowsAreFair
  <1>1. Init => FlowInv
    <2> SUFFICES ASSUME Init PROVE FlowInv
      OBVIOUS
    <2>1. DOMAIN demandMapApplied = Pairs /\ \A p \in Pairs : demandMapApplied[p] = {}
      BY DEF Init
    <2> QED
      BY <2>1, InitFlow DEF FlowInv
  <1>2. FlowInv => FlowsAreFair
    BY DEF FlowInv
  <1> QED
    BY <1>1, <1>2, InitMain, NextMain, NextFlow, PTL DEF Spec

-----------------------------------------------------------------------------
(* The forwarding of the packets. *)

(* hops[k]: the links that a packet of node n comes over in k + 1 hops. *)
Open(FID, up) == {l \in up : Matches(LID[l], FID)}
NextHops(FID, up, before) ==
  before \cup ((UNION {Forwarded(l, FID) : l \in before}) \cap up)
Hops(hops, n, FID, up) ==
  /\ hops[0] = Sent(n, FID) \cap up
  /\ \A k \in 1 .. Cardinality(Open(FID, up)) : hops[k] = NextHops(FID, up, hops[k - 1])
Travels(hops, n, FID, up) ==
  Hops(hops, n, FID, up) /\ Travelled(n, FID, up) = hops[Cardinality(Open(FID, up))]

\* Travelled repeats the forwarding.
LEMMA TravelledInHops ==
    ASSUME NEW n, NEW FID, NEW up \in SUBSET Link
    PROVE  \E hops : Travels(hops, n, FID, up)
  <1> DEFINE m == Cardinality(Open(FID, up))
             Defines(h) == h = [k \in 0 .. m |->
                                  IF k = 0 THEN Sent(n, FID) \cap up
                                  ELSE NextHops(FID, up, h[k - 1])]
  <1>1. Travelled(n, FID, up) = (CHOOSE h : Defines(h))[m]
    BY Zenon DEF Travelled, Open, NextHops
  <1>2. m \in Nat
    <2>1. Open(FID, up) \in SUBSET Link
      BY DEF Open
    <2> QED
      BY <2>1, NetworkAssumption, FS_Subset, FS_CardinalityType
  <1>3. \E h : Defines(h)
    <2> DEFINE F == [s \in SUBSET Link |-> NextHops(FID, up, s)]
               base == Sent(n, FID) \cap up
    <2>1. F \in [SUBSET Link -> SUBSET Link] /\ base \in SUBSET Link
      BY DEF NextHops
    <2>2. \A s \in SUBSET Link : F[s] = NextHops(FID, up, s)
      OBVIOUS
    <2> HIDE DEF F, base, m
    <2>3. PICK h \in [0 .. m -> SUBSET Link] : Iterates(h, m, base, F)
      BY Zenon, <1>2, <2>1, Iteration
    <2>4. \A k \in 0 .. m : h[k] = IF k = 0 THEN base ELSE NextHops(FID, up, h[k - 1])
      <3> TAKE k \in 0 .. m
      <3>1. CASE k = 0
        BY <2>3, <3>1 DEF Iterates
      <3>2. CASE k # 0
        <4>1. k \in 1 .. m /\ k - 1 \in 0 .. m
          BY <1>2, <3>2
        <4>2. h[k] = F[h[k - 1]] /\ h[k - 1] \in SUBSET Link
          BY <2>3, <4>1 DEF Iterates
        <4> QED
          BY <2>2, <3>2, <4>2
      <3> QED
        BY <3>1, <3>2
    <2>5. h = [k \in 0 .. m |-> IF k = 0 THEN base ELSE NextHops(FID, up, h[k - 1])]
      BY <2>3, <2>4
    <2>6. Defines(h)
      BY <2>5 DEF base
    <2> QED
      BY <2>6
  <1> DEFINE hops == CHOOSE h : Defines(h)
  <1>4. Defines(hops)
    BY <1>3
  <1> HIDE DEF hops, m
  <1>5. hops[0] = Sent(n, FID) \cap up
    BY <1>2, <1>4
  <1>6. \A k \in 1 .. m : hops[k] = NextHops(FID, up, hops[k - 1])
    <2> TAKE k \in 1 .. m
    <2>1. k \in 0 .. m /\ k # 0
      BY <1>2
    <2> QED
      BY <1>4, <2>1
  <1> HIDE DEF Defines
  <1>7. Travelled(n, FID, up) = hops[m]
    BY <1>1 DEF hops
  <1> QED
    BY <1>5, <1>6, <1>7 DEF Travels, Hops, m

\* What has been travelled stays so.
LEMMA HopsGrow ==
    ASSUME NEW hops, NEW n, NEW FID, NEW up \in SUBSET Link, Travels(hops, n, FID, up),
           NEW k \in 0 .. Cardinality(Open(FID, up)), NEW l \in hops[k]
    PROVE  l \in Travelled(n, FID, up)
  <1> DEFINE m == Cardinality(Open(FID, up))
             T == {j \in Nat : k + j <= m /\ l \notin hops[k + j]}
  <1>1. m \in Nat
    <2>1. Open(FID, up) \in SUBSET Link
      BY DEF Open
    <2> QED
      BY <2>1, NetworkAssumption, FS_Subset, FS_CardinalityType
  <1>2. \A j \in 1 .. m : hops[j - 1] \subseteq hops[j]
    BY DEF Travels, Hops, NextHops
  <1>3. Travelled(n, FID, up) = hops[m] /\ k \in 0 .. m
    BY DEF Travels
  <1> HIDE DEF m
  <1>4. T = {}
    <2> SUFFICES ASSUME T # {} PROVE FALSE
      OBVIOUS
    <2>1. PICK j \in T : \A i \in T : j <= i
      BY LeastElement
    <2>2. j \in Nat /\ k + j <= m /\ l \notin hops[k + j] /\ k \in Nat
      BY <1>1, <1>3, <2>1
    <2>3. j # 0
      BY <2>2
    <2>4. j - 1 \notin T /\ j - 1 \in Nat
      BY <2>1, <2>2, <2>3
    <2>5. l \in hops[k + (j - 1)]
      <3>1. k + (j - 1) <= m
        BY <1>1, <2>2
      <3> QED
        BY <2>4, <3>1
    <2>6. k + j \in 1 .. m /\ k + (j - 1) = (k + j) - 1
      BY <1>1, <2>2, <2>3
    <2> QED
      BY <1>2, <2>2, <2>5, <2>6
  <1>5. m - k \in Nat /\ k + (m - k) = m
    BY <1>1, <1>3
  <1>6. m - k \notin T
    BY <1>4
  <1> HIDE DEF T
  <1>7. l \in hops[m]
    BY <1>1, <1>3, <1>5, <1>6 DEF T
  <1> QED
    BY <1>3, <1>7

\* The nodes of a path are all different.
LEMMA DifferentNodes ==
    ASSUME NEW q, NEW s, NEW d, IsPath(q, s, d)
    PROVE  /\ \A i, j \in 1 .. Len(q) : q[i][2] = q[j][2] => i = j
           /\ \A j \in 1 .. Len(q) : q[j][2] # s
           /\ \A i \in 1 .. Len(q) - 1 : ~SameWires(q[i + 1], q[i])
  <1> DEFINE n == Len(q)
             v == [i \in 0 .. n |-> IF i = 0 THEN s ELSE q[i][2]]
             N == NodesOn(q)
  <1>1. /\ n \in Nat \ {0} /\ DOMAIN q = 1 .. n /\ q[1][1] = s
        /\ \A i \in 1 .. n - 1 : q[i][2] = q[i + 1][1]
        /\ Cardinality(N) = n + 1
    BY DEF IsPath
  <1>2. N = {q[i][1] : i \in 1 .. n} \cup {q[i][2] : i \in 1 .. n}
    BY <1>1 DEF NodesOn
  <1> HIDE DEF n, N
  <1>3. \A i \in 1 .. n : q[i][2] = v[i] /\ q[i][1] = v[i - 1]
    <2> TAKE i \in 1 .. n
    <2>1. v[i] = q[i][2]
      BY <1>1
    <2>2. CASE i = 1
      BY <1>1, <2>1, <2>2
    <2>3. CASE i # 1
      <3>1. i - 1 \in 1 .. n - 1 /\ (i - 1) + 1 = i /\ i - 1 \in 0 .. n /\ i - 1 # 0
        BY <1>1, <2>3
      <3>2. q[i - 1][2] = q[i][1]
        BY <1>1, <3>1
      <3>3. v[i - 1] = q[i - 1][2]
        BY <3>1
      <3> QED
        BY <2>1, <3>2, <3>3
    <2> QED
      BY <2>2, <2>3
  <1>4. v[0] = s /\ DOMAIN v = 0 .. n
    BY <1>1
  <1>5. v \in Surjection(0 .. n, N)
    <2>1. \A i \in 0 .. n : v[i] \in N
      <3> TAKE i \in 0 .. n
      <3>1. CASE i = 0
        <4>1. 1 \in 1 .. n
          BY <1>1
        <4> QED
          BY <1>1, <1>2, <1>4, <3>1, <4>1
      <3>2. CASE i # 0
        <4>1. i \in 1 .. n
          BY <1>1, <3>2
        <4> QED
          BY <1>2, <1>3, <4>1
      <3> QED
        BY <3>1, <3>2
    <2>2. \A x \in N : \E i \in 0 .. n : v[i] = x
      <3> TAKE x \in N
      <3>1. PICK i \in 1 .. n : x = q[i][1] \/ x = q[i][2]
        BY <1>2
      <3>2. i \in 0 .. n /\ i - 1 \in 0 .. n
        BY <1>1
      <3> QED
        BY <1>3, <3>1, <3>2
    <2>3. v \in [0 .. n -> N]
      BY <2>1
    <2> HIDE DEF v
    <2> QED
      BY <2>2, <2>3 DEF Surjection
  <1> HIDE DEF v
  <1>6. v \in Injection(0 .. n, N)
    <2>1. IsFiniteSet(0 .. n) /\ Cardinality(0 .. n) = n + 1
      <3>1. 0 \in Int /\ n \in Int /\ ~(0 > n) /\ (n - 0) + 1 = n + 1
        BY <1>1
      <3> QED
        BY <3>1, FS_Interval
    <2> QED
      BY <1>1, <1>5, <2>1, FS_Surjection
  <1>7. \A i, j \in 0 .. n : v[i] = v[j] => i = j
    BY <1>6 DEF Injection, IsInjective
  <1>8. \A i \in 1 .. n : i \in 0 .. n /\ i - 1 \in 0 .. n /\ i # 0
    BY <1>1
  <1>9. \A i, j \in 1 .. n : q[i][2] = q[j][2] => i = j
    BY <1>3, <1>7, <1>8
  <1>10. \A j \in 1 .. n : q[j][2] # s
    BY <1>1, <1>3, <1>4, <1>7, <1>8
  <1>11. ASSUME NEW i \in 1 .. n - 1 PROVE ~SameWires(q[i + 1], q[i])
    <2>1. i \in 1 .. n /\ i + 1 \in 1 .. n /\ i + 1 # i - 1 /\ i + 1 \in 0 .. n /\ i - 1 \in 0 .. n
      BY <1>1
    <2>2. q[i + 1][2] = v[i + 1] /\ q[i][1] = v[i - 1]
      BY <1>3, <2>1
    <2> QED
      BY <1>7, <2>1, <2>2 DEF SameWires
  <1> QED
    BY <1>9, <1>10, <1>11 DEF n

\* A packet whose FID holds a path, and is no broadcast, comes to its end.
LEMMA PathDelivers ==
    ASSUME NEW s \in Node, NEW d \in Node, NEW q, IsPath(q, s, d),
           NEW FID, FIDOfPath(q, d) \subseteq FID, FID # AllOnes
    PROVE  d \in Delivered(s, FID, Link)
  <1> DEFINE n == Len(q)
             open == Open(FID, Link)
             m == Cardinality(open)
  <1>1. /\ n \in Nat \ {0} /\ DOMAIN q = 1 .. n /\ q[1][1] = s /\ q[n][2] = d
        /\ \A i \in 1 .. n : q[i] \in Link
        /\ \A i \in 1 .. n - 1 : q[i][2] = q[i + 1][1]
    BY DEF IsPath
  <1>2. /\ \A i, j \in 1 .. n : q[i][2] = q[j][2] => i = j
        /\ \A i \in 1 .. n - 1 : ~SameWires(q[i + 1], q[i])
    BY DifferentNodes
  <1>3. iLID[d] \subseteq FID /\ \A i \in 1 .. n : LID[q[i]] \subseteq FID
    BY <1>1 DEF FIDOfPath
  <1> HIDE DEF n
  <1>4. \A i \in 1 .. n : q[i] \in open
    BY <1>1, <1>3 DEF Open, Matches
  <1>5. IsFiniteSet(open) /\ m \in Nat
    <2>1. open \in SUBSET Link
      BY DEF Open
    <2> HIDE DEF open
    <2> QED
      BY <2>1, NetworkAssumption, FS_Subset, FS_CardinalityType
  <1>6. n <= m
    <2> DEFINE f == [i \in 1 .. n |-> q[i]]
    <2>1. f \in Injection(1 .. n, open)
      BY <1>2, <1>4 DEF Injection, IsInjective
    <2>2. Cardinality(1 .. n) = n
      <3>1. 1 \in Int /\ n \in Int /\ ~(1 > n) /\ (n - 1) + 1 = n
        BY <1>1
      <3> QED
        BY <3>1, FS_Interval
    <2> HIDE DEF f, open
    <2> QED
      BY <1>5, <2>1, <2>2, FS_Injection
  <1>7. PICK hops : Travels(hops, s, FID, Link)
    BY TravelledInHops
  <1> HIDE DEF m
  <1>8. /\ hops[0] = Sent(s, FID) \cap Link
        /\ \A k \in 1 .. m : hops[k] = NextHops(FID, Link, hops[k - 1])
    BY <1>7 DEF Travels, Hops, m
  <1> DEFINE T == {i \in Nat : i \in 1 .. n /\ q[i] \notin hops[i - 1]}
  <1>9. T = {}
    <2> SUFFICES ASSUME T # {} PROVE FALSE
      OBVIOUS
    <2>1. PICK i \in T : \A j \in T : i <= j
      BY LeastElement
    <2>2. i \in 1 .. n /\ q[i] \notin hops[i - 1]
      BY <2>1
    <2>3. CASE i = 1
      <3>1. q[1] \in Link /\ q[1][1] = s /\ Matches(LID[q[1]], FID)
        BY <1>1, <1>3, <2>2, <2>3 DEF Matches
      <3>2. q[1] \in Sent(s, FID) \cap Link
        BY <3>1 DEF Sent, fwTable
      <3> QED
        BY <1>8, <2>2, <2>3, <3>2
    <2>4. CASE i # 1
      <3>1. i - 1 \in 1 .. n - 1 /\ i - 1 \in 1 .. m /\ (i - 1) + 1 = i /\ i - 1 \in 1 .. n
        BY <1>1, <1>5, <1>6, <2>2, <2>4
      <3> DEFINE j == i - 1
                 before == hops[j - 1]
      <3>2. j \notin T
        <4>1. ~(i <= j)
          BY <2>2, <1>1
        <4> QED
          BY <2>1, <4>1
      <3>3. q[j] \in before /\ q[j] \in Link
        BY <1>1, <3>1, <3>2
      <3>4. /\ q[i] \in Link /\ q[i][1] = q[j][2] /\ Matches(LID[q[i]], FID)
            /\ ~SameWires(q[i], q[j])
        BY <1>1, <1>2, <1>3, <2>2, <3>1 DEF Matches
      <3>5. hops[j] = NextHops(FID, Link, before)
        BY <1>8, <3>1
      <3> HIDE DEF T, before, j
      <3>6. q[i] \in Forwarded(q[j], FID)
        BY <3>4 DEF Forwarded, fwTable
      <3>7. q[i] \in hops[j]
        BY <3>3, <3>4, <3>5, <3>6 DEF NextHops
      <3> QED
        BY <2>2, <3>7 DEF j
    <2> QED
      BY <2>3, <2>4
  <1>10. q[n] \in hops[n - 1] /\ n - 1 \in 0 .. m
    <2>1. n \in 1 .. n /\ n \notin T
      BY <1>1, <1>9
    <2> QED
      BY <1>1, <1>5, <1>6, <2>1
  <1> HIDE DEF T
  <1>11. q[n] \in Travelled(s, FID, Link)
    BY <1>7, <1>10, HopsGrow DEF m
  <1>12. PushedLocally(d, FID)
    BY <1>3 DEF PushedLocally, Matches
  <1> QED
    BY <1>1, <1>11, <1>12 DEF Delivered

-----------------------------------------------------------------------------
(* The answers. *)

(* A path from the best publisher to s is in the publisher's FID. *)
HasPath(b, s, FID) == \E q \in PathsBetween[<<b, s>>] : FIDOfPath(q, s) \subseteq FID
Handled(s) ==
  HasPath(BestPublisher(tm.pubs, s), s, tm.FID[BestPublisher(tm.pubs, s)])
AnswerInv ==
  /\ tm.pc # "idle" =>
       /\ tm.pubs # {} /\ DOMAIN tm.FID = tm.pubs
       /\ \A p \in tm.pubs, s \in tm.subs : <<p, s>> \in Pairs
       /\ \A s \in tm.subs \ tm.todo : Handled(s)
  /\ tm.pc = "answered" => tm.todo = {}
  /\ tm.pc = "count" =>
       tm.todo \subseteq tm.subs /\
       \E s \in tm.todo : /\ tm.best = <<BestPublisher(tm.pubs, s), s>>
                          /\ HasPath(BestPublisher(tm.pubs, s), s, tm.next)

\* A FID only grows while the others are handled.
LEMMA NextAnswer ==
    ASSUME AnswerInv, MainInv, FlowInv, MapIsComplete, [Next]_vars PROVE AnswerInv'
  <1>1. CASE tm' = tm
    BY <1>1 DEF AnswerInv, Handled
  <1>2. CASE RequestMatch
    <2>1. PICK r \in Requests :
            tm' = [NoMatch EXCEPT !.pc = "pick", !.pubs = r[1], !.subs = r[2], !.todo = r[2],
                                  !.FID = [p \in r[1] |-> NULL]]
      BY <1>2 DEF RequestMatch
    <2>2. tm' = [pc |-> "pick", pubs |-> r[1], subs |-> r[2], todo |-> r[2],
                 FID |-> [p \in r[1] |-> NULL], best |-> <<>>, next |-> {}]
      BY <2>1 DEF NoMatch
    <2>3. /\ tm'.pc = "pick" /\ tm'.pubs = r[1] /\ tm'.subs = r[2] /\ tm'.todo = r[2]
          /\ DOMAIN tm'.FID = r[1]
      BY <2>2
    <2>4. r[1] # {} /\ \A p \in r[1], s \in r[2] : <<p, s>> \in Pairs
      BY TEAssumption
    <2> QED
      BY <2>3, <2>4 DEF AnswerInv
  <1>3. CASE PickFID
    <2> DEFINE s == Min(tm.todo)
               b == BestPublisher(tm.pubs, s)
    <2>1. PICK fid \in get_fid(b, s) :
            tm' = [tm EXCEPT !.pc = "count", !.best = <<b, s>>, !.next = fid]
      BY <1>3 DEF PickFID
    <2>2. /\ tm.pc = "pick" /\ tm.pubs # {} /\ tm.todo # {} /\ tm.todo \subseteq tm.subs
          /\ \A p \in tm.pubs, t \in tm.subs : <<p, t>> \in Pairs
      BY <1>3 DEF PickFID, MainInv, MainType
    <2>3. tm.todo \in SUBSET Node
      BY <2>2, PairsAreConnected
    <2>4. s \in tm.todo /\ s \in tm.subs
      BY <2>2, <2>3, FirstSubscriber
    <2> HIDE DEF s
    <2>5. \A p \in tm.pubs : <<p, s>> \in Pairs
      BY <2>2, <2>4
    <2>6. b \in tm.pubs
      BY <2>2, <2>5, BestIsPublisher
    <2>7. PICK path \in PathsBetween[<<b, s>>] : fid = FIDOfPath(path, s)
      <3>1. <<b, s>> \in Pairs
        BY <2>5, <2>6
      <3> HIDE DEF b
      <3>2. UsablePaths(b, s) # {} /\ UsablePaths(b, s) \subseteq PathsBetween[<<b, s>>]
        BY <3>1, PairsAreConnected DEF UsablePaths, MapIsComplete, FlowInv
      <3>3. PICK path \in UsablePaths(b, s) : fid = PathFID(path, b, s)
        BY <2>1, <3>2 DEF get_fid
      <3> QED
        BY <3>2, <3>3 DEF PathFID
    <2>8. tm' = [pc |-> "count", pubs |-> tm.pubs, subs |-> tm.subs, todo |-> tm.todo, FID |-> tm.FID,
                 best |-> <<b, s>>, next |-> fid]
      BY <2>1 DEF MainInv, MainType
    <2>9. HasPath(b, s, fid)
      BY <2>7 DEF HasPath
    <2>10. /\ tm'.pc = "count" /\ tm'.pubs = tm.pubs /\ tm'.subs = tm.subs /\ tm'.todo = tm.todo
           /\ tm'.FID = tm.FID /\ tm'.best = <<b, s>> /\ tm'.next = fid
      BY <2>8
    <2>11. DOMAIN tm.FID = tm.pubs /\ \A t \in tm.subs \ tm.todo : Handled(t)
      BY <2>2 DEF AnswerInv
    <2>12. \A t \in tm'.subs \ tm'.todo : Handled(t)'
      BY <2>10, <2>11 DEF Handled
    <2> QED
      BY <2>2, <2>4, <2>9, <2>10, <2>11, <2>12 DEF AnswerInv
  <1>4. CASE CountDemand
    <2> DEFINE rest == tm.todo \ {tm.best[2]}
               fid == [tm.FID EXCEPT ![tm.best[1]] = ExtendAnswer(tm.FID[tm.best[1]], tm.next)]
    <2>1. tm' = [tm EXCEPT !.pc = IF rest = {} THEN "answered" ELSE "pick",
                           !.todo = rest, !.best = <<>>, !.next = {}, !.FID = fid]
      BY <1>4 DEF CountDemand
    <2> HIDE DEF fid
    <2>2. tm' = [pc |-> IF rest = {} THEN "answered" ELSE "pick", pubs |-> tm.pubs,
                 subs |-> tm.subs, todo |-> rest, FID |-> fid, best |-> <<>>, next |-> {}]
      BY <2>1 DEF MainInv, MainType
    <2>3. tm.pc = "count"
      BY <1>4 DEF CountDemand
    <2>4. /\ tm.pubs # {} /\ DOMAIN tm.FID = tm.pubs /\ tm.todo \subseteq tm.subs
          /\ \A p \in tm.pubs, t \in tm.subs : <<p, t>> \in Pairs
          /\ \A t \in tm.subs \ tm.todo : Handled(t)
      BY <2>3 DEF AnswerInv
    <2>5. PICK s \in tm.todo : /\ tm.best = <<BestPublisher(tm.pubs, s), s>>
                               /\ HasPath(BestPublisher(tm.pubs, s), s, tm.next)
      BY <2>3 DEF AnswerInv
    <2> DEFINE b == BestPublisher(tm.pubs, s)
    <2>6. b \in tm.pubs
      BY <2>4, <2>5, BestIsPublisher
    <2> HIDE DEF b
    <2>7. /\ DOMAIN fid = tm.pubs /\ fid[b] = tm.FID[b] \cup tm.next
          /\ \A p \in tm.pubs \ {b} : fid[p] = tm.FID[p]
      BY <2>4, <2>5, <2>6 DEF fid, b, ExtendAnswer
    <2>8. /\ tm'.pubs = tm.pubs /\ tm'.subs = tm.subs /\ tm'.todo = tm.todo \ {s} /\ tm'.FID = fid
          /\ tm'.pc = IF tm'.todo = {} THEN "answered" ELSE "pick"
      BY <2>2, <2>5
    <2>9. ASSUME NEW t \in tm.subs, t \notin tm.todo \/ t = s
          PROVE  HasPath(BestPublisher(tm.pubs, t), t, fid[BestPublisher(tm.pubs, t)])
      <3> DEFINE c == BestPublisher(tm.pubs, t)
      <3>1. c \in tm.pubs
        BY <2>4, BestIsPublisher
      <3>2. CASE t = s
        <4>1. c = b /\ HasPath(b, s, tm.next)
          BY <2>5, <3>2 DEF b
        <4> QED
          BY <2>7, <3>2, <4>1 DEF HasPath
      <3>3. CASE t # s
        <4>1. HasPath(c, t, tm.FID[c])
          BY <2>4, <2>9, <3>3 DEF Handled
        <4>2. tm.FID[c] \subseteq fid[c]
          BY <2>7, <3>1
        <4> HIDE DEF c
        <4>3. HasPath(c, t, fid[c])
          BY <4>1, <4>2 DEF HasPath
        <4> QED
          BY <4>3 DEF c
      <3> QED
        BY <3>2, <3>3
    <2>10. \A t \in tm'.subs \ tm'.todo : Handled(t)'
      BY <2>8, <2>9 DEF Handled
    <2> QED
      BY <2>4, <2>7, <2>8, <2>10 DEF AnswerInv
  <1> QED
    BY <1>1, <1>2, <1>3, <1>4
    DEF Next, vars, Measure, Flow, Phase, Push, FlowsDone, Install, SetValid

(* No answer has all bits set; the Forwarder takes it for a broadcast then *)
(* and does not forward it beyond the neighbours.                          *)
NoBroadcast == \A p \in tm.pubs : tm.FID[p] # AllOnes

\* The union of the FIDs drawn for the subscribers leads to each of them,
\* whatever maps they came from (calculateFID with option -t), as long as
\* every map has a path for every pair: get_fid() answers with no links for
\* a pair that has none, and a demand too large for the length of the
\* algorithm would leave such pairs.
THEOREM TESubscribersAreServed ==
    Spec /\ []MapIsComplete => [](NoBroadcast => SubscribersAreServed)
  <1>1. Init => AnswerInv
    BY DEF Init, NoMatch, AnswerInv
  <1>2. Init => FlowInv
    <2> SUFFICES ASSUME Init PROVE FlowInv
      OBVIOUS
    <2>1. DOMAIN demandMapApplied = Pairs /\ \A p \in Pairs : demandMapApplied[p] = {}
      BY DEF Init
    <2> QED
      BY <2>1, InitFlow DEF FlowInv
  <1>3. AnswerInv => (NoBroadcast => SubscribersAreServed)
    <2> SUFFICES ASSUME AnswerInv, NoBroadcast, tm.pc = "answered", NEW s \in tm.subs
                 PROVE  s \in Delivered(BestPublisher(tm.pubs, s),
                                        tm.FID[BestPublisher(tm.pubs, s)], Link)
      BY DEF SubscribersAreServed
    <2> DEFINE b == BestPublisher(tm.pubs, s)
    <2>1. tm.pubs # {} /\ (\A p \in tm.pubs : <<p, s>> \in Pairs) /\ HasPath(b, s, tm.FID[b])
      BY DEF AnswerInv, Handled
    <2>2. b \in tm.pubs
      BY <2>1, BestIsPublisher
    <2> HIDE DEF b
    <2>3. b \in Node /\ s \in Node /\ b # s
      BY <2>1, <2>2, PairsAreConnected
    <2>4. PICK q \in PathsBetween[<<b, s>>] : FIDOfPath(q, s) \subseteq tm.FID[b]
      BY <2>1 DEF HasPath
    <2>5. IsPath(q, b, s) /\ tm.FID[b] # AllOnes
      BY <2>2, <2>3, PairPaths DEF NoBroadcast
    <2>6. s \in Delivered(b, tm.FID[b], Link)
      BY <2>3, <2>4, <2>5, PathDelivers
    <2> QED
      BY <2>6 DEF b
  <1> QED
    BY <1>1, <1>2, <1>3, InitMain, NextMain, NextFlow, NextAnswer, PTL DEF Spec

=============================================================================
