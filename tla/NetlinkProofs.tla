---------------------------- MODULE NetlinkProofs ----------------------------
(***************************************************************************)
(* What holds between applications and a node for every number of          *)
(* applications, requests, fragments and messages in a socket.             *)
(*                                                                         *)
(* First what the operators of Netlink compute: Of, the packets of one     *)
(* application in a queue, and that Decode, what LocalProxy::push() reads, *)
(* undoes Encode, what the library writes.  Then the invariants, each with *)
(* one step for every action: Shape (types, tasks, wakeups and sizes),     *)
(* Carried (requests on their way down) and Kept (events on their way up). *)
(* What is on its way is a Chain of sequences, and an action moves some of *)
(* its elements over the boundary between two of them.                     *)
(***************************************************************************)
EXTENDS Netlink, SequenceFacts

\* What goes over a socket, and what waits in the queues of the node.
Message == Seq(Int)
Packets == [pid : App, msg : Message]

-----------------------------------------------------------------------------
(* The packets of an application in a queue *)

\* One step of Of: the packets of a among the n + 1 oldest of q.
OfStep(a, q, n, found) ==
  LET p == q[Len(q) + 1 - n] IN IF p.pid = a THEN Append(found, p) ELSE found

\* F[n] is the packets of a among the n oldest of q, up to m of them.
Counts(a, q, m, F) ==
  F = [n \in 0 .. m |-> IF n = 0 THEN <<>> ELSE OfStep(a, q, n, F[n - 1])]

\* There is such a function.
LEMMA CountsExists ==
    ASSUME NEW a, NEW q, NEW m \in Nat
    PROVE  \E F : Counts(a, q, m, F)
  <1> DEFINE T == {k \in Nat : ~\E F : Counts(a, q, k, F)}
  <1> SUFFICES ASSUME T # {} PROVE FALSE
    OBVIOUS
  <1>1. PICK k \in T : \A j \in T : k <= j
    <2>1. T \in SUBSET Nat
      OBVIOUS
    <2> HIDE DEF T
    <2> QED
      BY <2>1, LeastElement
  <1>2. CASE k = 0
    <2> DEFINE F == [n \in 0 .. 0 |-> <<>>]
    <2>1. Counts(a, q, 0, F)
      BY DEF Counts
    <2> QED
      BY <1>1, <1>2, <2>1
  <1>3. CASE k # 0
    <2>1. k \in Nat /\ k - 1 \in Nat /\ k - 1 < k
      BY <1>3
    <2>2. PICK F : Counts(a, q, k - 1, F)
      BY <1>1, <2>1
    <2> DEFINE G == [n \in 0 .. k |-> IF n = k THEN OfStep(a, q, k, F[k - 1]) ELSE F[n]]
    <2>3. ASSUME NEW n \in 0 .. k
          PROVE  G[n] = IF n = 0 THEN <<>> ELSE OfStep(a, q, n, G[n - 1])
      <3>1. CASE n = k
        BY <1>3, <2>1, <3>1
      <3>2. CASE n # k
        <4>1. n \in 0 .. k - 1 /\ n - 1 # k
          BY <2>1, <3>2
        <4>2. F[n] = IF n = 0 THEN <<>> ELSE OfStep(a, q, n, F[n - 1])
          BY <2>2, <4>1 DEF Counts
        <4>3. n # 0 => n - 1 \in 0 .. k
          BY <2>1
        <4> QED
          BY <3>2, <4>1, <4>2, <4>3
      <3> QED
        BY <3>1, <3>2
    <2>4. Counts(a, q, k, G)
      <3>1. G = [n \in 0 .. k |-> G[n]]
        OBVIOUS
      <3> HIDE DEF G
      <3>2. G = [n \in 0 .. k |-> IF n = 0 THEN <<>> ELSE OfStep(a, q, n, G[n - 1])]
        BY <2>3, <3>1
      <3> QED
        BY <3>2 DEF Counts
    <2> QED
      BY <1>1, <2>4
  <1> QED
    BY <1>2, <1>3

\* Two that count the same packets agree, as far as both go.
LEMMA CountsOnce ==
    ASSUME NEW a, NEW q, NEW F, NEW m \in Nat, Counts(a, q, m, F),
           NEW b, NEW r, NEW G, NEW l \in Nat, Counts(b, r, l, G), l <= m,
           \A n \in 1 .. l : \A found : OfStep(a, q, n, found) = OfStep(b, r, n, found)
    PROVE  F[l] = G[l]
  <1> DEFINE T == {k \in 0 .. l : F[k] # G[k]}
  <1> SUFFICES ASSUME T # {} PROVE FALSE
    OBVIOUS
  <1>1. PICK k \in T : \A j \in T : k <= j
    <2>1. T \in SUBSET Nat
      OBVIOUS
    <2> HIDE DEF T
    <2> QED
      BY <2>1, LeastElement
  <1>2. /\ F[k] = IF k = 0 THEN <<>> ELSE OfStep(a, q, k, F[k - 1])
        /\ G[k] = IF k = 0 THEN <<>> ELSE OfStep(b, r, k, G[k - 1])
    BY DEF Counts
  <1>3. k # 0 => k \in 1 .. l /\ k - 1 \in 0 .. l /\ ~(k <= k - 1)
    OBVIOUS
  <1> QED
    BY <1>1, <1>2, <1>3

\* What Of is.
LEMMA OfCounts ==
    ASSUME NEW a, NEW q, Len(q) \in Nat
    PROVE  \E F : Counts(a, q, Len(q), F) /\ Of(a, q) = F[Len(q)]
  <1> DEFINE F == CHOOSE G : Counts(a, q, Len(q), G)
  <1>1. Counts(a, q, Len(q), F)
    BY CountsExists
  <1>2. Of(a, q) = F[Len(q)]
    BY DEF Of, Counts, OfStep
  <1> QED
    BY <1>1, <1>2

\* The packet of a at a place of q, if it is his.
One(a, p) == IF p.pid = a THEN <<p>> ELSE <<>>

\* Of is a sequence of packets of a, and empty for an empty queue.
LEMMA OfType ==
    ASSUME NEW S, NEW q \in Seq(S), NEW a
    PROVE  Of(a, q) \in Seq(S) /\ Of(a, <<>>) = <<>>
  <1>1. PICK F : Counts(a, q, Len(q), F) /\ Of(a, q) = F[Len(q)]
    BY OfCounts
  <1> DEFINE T == {k \in 0 .. Len(q) : F[k] \notin Seq(S)}
  <1>2. T = {}
    <2> SUFFICES ASSUME T # {} PROVE FALSE
      OBVIOUS
    <2>1. PICK k \in T : \A j \in T : k <= j
      <3>1. T \in SUBSET Nat
        OBVIOUS
      <3> HIDE DEF T
      <3> QED
        BY <3>1, LeastElement
    <2>2. F[k] = IF k = 0 THEN <<>> ELSE OfStep(a, q, k, F[k - 1])
      BY <1>1 DEF Counts
    <2>3. k # 0 => k - 1 \in 0 .. Len(q) /\ ~(k <= k - 1) /\ Len(q) + 1 - k \in 1 .. Len(q)
      OBVIOUS
    <2>4. k # 0 => F[k - 1] \in Seq(S)
      BY <2>1, <2>3
    <2>5. k # 0 => q[Len(q) + 1 - k] \in S
      BY <2>3
    <2>6. k # 0 => OfStep(a, q, k, F[k - 1]) \in Seq(S)
      BY <2>4, <2>5 DEF OfStep
    <2>7. F[k] \notin Seq(S) /\ <<>> \in Seq(S)
      BY <2>1
    <2> QED
      BY <2>2, <2>6, <2>7
  <1>3. Of(a, <<>>) = <<>>
    <2> DEFINE e == <<>>
    <2>1. Len(e) = 0
      OBVIOUS
    <2> HIDE DEF e
    <2>2. PICK G : Counts(a, e, Len(e), G) /\ Of(a, e) = G[Len(e)]
      BY <2>1, OfCounts
    <2>3. G[0] = <<>>
      BY <2>1, <2>2 DEF Counts
    <2> QED
      BY <2>1, <2>2, <2>3 DEF e
  <1> QED
    BY <1>1, <1>2, <1>3

\* A packet that is put in front is the last that will be taken.
LEMMA OfPush ==
    ASSUME NEW S, NEW q \in Seq(S), NEW p \in S, NEW a
    PROVE  Of(a, PushFront(q, p)) = Of(a, q) \o One(a, p)
  <1> DEFINE r == PushFront(q, p)
  <1>1. /\ r \in Seq(S) /\ Len(r) = Len(q) + 1 /\ Len(q) \in Nat /\ r[1] = p
        /\ \A i \in 1 .. Len(q) : r[i + 1] = q[i]
    BY DEF PushFront
  <1> HIDE DEF r
  <1>2. PICK F : Counts(a, q, Len(q), F) /\ Of(a, q) = F[Len(q)]
    BY <1>1, OfCounts
  <1>3. PICK G : Counts(a, r, Len(r), G) /\ Of(a, r) = G[Len(r)]
    BY SMTT(30), <1>1, OfCounts
  <1>4. ASSUME NEW n \in 1 .. Len(q), NEW found
        PROVE  OfStep(a, r, n, found) = OfStep(a, q, n, found)
    <2>1. Len(q) + 1 - n \in 1 .. Len(q) /\ (Len(q) + 1 - n) + 1 = Len(r) + 1 - n
      BY <1>1
    <2>2. r[Len(r) + 1 - n] = q[Len(q) + 1 - n]
      BY <1>1, <2>1
    <2> QED
      BY <2>2 DEF OfStep
  <1>5. G[Len(q)] = F[Len(q)]
    <2>1. Len(q) <= Len(r) /\ Len(r) \in Nat
      BY <1>1
    <2> QED
      BY <1>1, <1>2, <1>3, <1>4, <2>1, CountsOnce
  <1>6. G[Len(r)] = OfStep(a, r, Len(r), G[Len(q)])
    <2>1. Len(r) \in 0 .. Len(r) /\ Len(r) # 0 /\ Len(r) - 1 = Len(q)
      BY <1>1
    <2> QED
      BY <1>3, <2>1 DEF Counts
  <1>7. OfStep(a, r, Len(r), F[Len(q)]) = F[Len(q)] \o One(a, p)
    <2>1. Len(r) + 1 - Len(r) = 1
      BY <1>1
    <2>2. F[Len(q)] \in Seq(S)
      BY <1>2, OfType
    <2>3. OfStep(a, r, Len(r), F[Len(q)]) = IF p.pid = a THEN Append(F[Len(q)], p) ELSE F[Len(q)]
      BY <1>1, <2>1 DEF OfStep
    <2>4. Append(F[Len(q)], p) = F[Len(q)] \o <<p>> /\ F[Len(q)] \o <<>> = F[Len(q)]
      <3> DEFINE f == F[Len(q)]
      <3>1. f \in Seq(S)
        BY <2>2
      <3> HIDE DEF f
      <3>2. Append(f, p) = f \o <<p>>
        BY <3>1, AppendIsConcat
      <3>3. f \o <<>> = f
        BY <3>1, ConcatEmptySeq
      <3> QED
        BY <3>2, <3>3 DEF f
    <2> QED
      BY <2>3, <2>4 DEF One
  <1> QED
    BY <1>2, <1>3, <1>5, <1>6, <1>7 DEF r

\* The packet at the back is the one taken first.
LEMMA OfTake ==
    ASSUME NEW S, NEW q \in Seq(S), q # <<>>, NEW a
    PROVE  Of(a, q) = One(a, Last(q)) \o Of(a, Front(q))
  <1> DEFINE r == Front(q)
             p == Last(q)
  <1>1. /\ r \in Seq(S) /\ Len(r) = Len(q) - 1 /\ Len(q) \in Nat \ {0} /\ p \in S /\ p = q[Len(q)]
        /\ \A i \in 1 .. Len(r) : r[i] = q[i]
    BY EndsOfSeq DEF Front, Last
  <1> HIDE DEF r, p
  <1>2. Len(r) \in Nat /\ Len(q) \in Nat
    BY <1>1
  <1>3. PICK F : Counts(a, q, Len(q), F) /\ Of(a, q) = F[Len(q)]
    BY <1>2, OfCounts
  <1>4. PICK G : Counts(a, r, Len(r), G) /\ Of(a, r) = G[Len(r)]
    BY <1>2, OfCounts
  <1> DEFINE T == {k \in 1 .. Len(q) : ~(G[k - 1] \in Seq(S) /\ F[k] = One(a, p) \o G[k - 1])}
  <1>5. T = {}
    <2> SUFFICES ASSUME T # {} PROVE FALSE
      OBVIOUS
    <2>1. PICK k \in T : \A j \in T : k <= j
      <3>1. T \in SUBSET Nat
        OBVIOUS
      <3> HIDE DEF T
      <3> QED
        BY <3>1, LeastElement
    <2>2. F[k] = OfStep(a, q, k, F[k - 1]) /\ F[0] = <<>> /\ G[0] = <<>>
      BY <1>2, <1>3, <1>4, <2>1 DEF Counts
    <2>3. CASE k = 1
      <3>1. Len(q) + 1 - 1 = Len(q) /\ 1 - 1 = 0
        BY <1>1
      <3>2. F[1] = One(a, p)
        <4>1. F[1] = IF p.pid = a THEN Append(<<>>, p) ELSE <<>>
          BY <1>1, <2>2, <2>3, <3>1 DEF OfStep
        <4>2. Append(<<>>, p) = <<p>>
          OBVIOUS
        <4> QED
          BY <4>1, <4>2 DEF One
      <3>3. One(a, p) \in Seq(S) /\ One(a, p) \o <<>> = One(a, p) /\ <<>> \in Seq(S)
        BY <1>1 DEF One
      <3> QED
        BY <2>1, <2>2, <2>3, <3>1, <3>2, <3>3
    <2>4. CASE k # 1
      <3>1. /\ k - 1 \in 1 .. Len(q) /\ ~(k <= k - 1) /\ k - 1 \in 1 .. Len(r)
            /\ Len(q) + 1 - k \in 1 .. Len(r) /\ Len(q) + 1 - k = Len(r) + 1 - (k - 1)
        BY <1>1, <2>1, <2>4
      <3>2. G[(k - 1) - 1] \in Seq(S) /\ F[k - 1] = One(a, p) \o G[(k - 1) - 1]
        BY <2>1, <3>1
      <3>3. G[k - 1] = OfStep(a, r, k - 1, G[(k - 1) - 1])
        BY <1>4, <3>1 DEF Counts
      <3>4. q[Len(q) + 1 - k] = r[Len(r) + 1 - (k - 1)] /\ q[Len(q) + 1 - k] \in S
        BY <1>1, <3>1
      <3> DEFINE x == q[Len(q) + 1 - k]
                 g == G[(k - 1) - 1]
      <3>5. /\ F[k] = IF x.pid = a THEN Append(One(a, p) \o g, x) ELSE One(a, p) \o g
            /\ G[k - 1] = IF x.pid = a THEN Append(g, x) ELSE g
        BY <2>2, <3>2, <3>3, <3>4 DEF OfStep
      <3>6. One(a, p) \in Seq(S) /\ g \in Seq(S) /\ x \in S
        BY <1>1, <3>2, <3>4 DEF One
      <3> HIDE DEF x, g, T
      <3>7. Append(g, x) \in Seq(S) /\ Append(One(a, p) \o g, x) = One(a, p) \o Append(g, x)
        <4>1. Append(g, x) \in Seq(S) /\ One(a, p) \o Append(g, x) = Append(One(a, p) \o g, x)
          BY <3>6, AppendConcat
        <4> QED
          BY <4>1
      <3>8. G[k - 1] \in Seq(S) /\ F[k] = One(a, p) \o G[k - 1]
        BY <3>5, <3>6, <3>7
      <3> QED
        BY <2>1, <3>8 DEF T
    <2> QED
      BY <2>3, <2>4
  <1>6. Len(q) \in 1 .. Len(q) /\ Len(q) - 1 = Len(r)
    BY <1>1
  <1> QED
    BY <1>3, <1>4, <1>5, <1>6 DEF r, p

-----------------------------------------------------------------------------
(* Requests as they are written and read *)

\* A sequence of a given length.
HasLen(s, n) == Len(s) = n

\* The fields every request but a disconnection begins with: two numbers, an
\* identifier and one more number.
LEMMA Header ==
    ASSUME NEW S, NEW two \in Seq(S), HasLen(two, 2), NEW id \in Seq(S),
           NEW one \in Seq(S), HasLen(one, 1), NEW rest \in Seq(S),
           NEW h, Joined(h, two, id), NEW x, Joined(x, h, one), NEW w, Joined(w, x, rest)
    PROVE  /\ w \in Seq(S) /\ w[1] = two[1] /\ w[2] = two[2]
           /\ SubSeq(w, 3, 2 + Len(id)) = id
           /\ w[3 + Len(id)] = one[1]
           /\ SubSeq(w, 4 + Len(id), Len(w)) = rest
  <1> DEFINE v == one \o rest
  <1>0. h \in Seq(S) /\ x \in Seq(S) /\ w \in Seq(S)
    <2>1. h \in Seq(S)
      BY JoinedParts
    <2>2. x \in Seq(S)
      BY <2>1, JoinedParts
    <2> QED
      BY <2>1, <2>2, JoinedParts
  <1>1. /\ Len(h) = Len(two) + Len(id) /\ Len(id) \in Nat
        /\ \A i \in 1 .. Len(two) : h[i] = two[i]
    BY JoinedParts
  <1>2. /\ Len(x) = Len(h) + Len(one)
        /\ \A i \in 1 .. Len(h) : x[i] = h[i]
        /\ \A i \in 1 .. Len(one) : x[Len(h) + i] = one[i]
    BY <1>0, JoinedParts
  <1>3. /\ SubSeq(w, Len(x) + 1, Len(w)) = rest
        /\ \A i \in 1 .. Len(x) : w[i] = x[i]
    BY <1>0, JoinedParts
  <1>4. Joined(v, one, rest)
    BY DEF Joined
  <1> HIDE DEF v
  <1>5. Joined(w, h, v) /\ v \in Seq(S)
    BY <1>0, <1>4, JoinedAgain
  <1>6. SubSeq(w, Len(two) + 1, Len(two) + Len(id)) = id
    BY <1>5, JoinedMiddle
  <1>7. /\ 1 \in 1 .. Len(two) /\ 2 \in 1 .. Len(two) /\ 1 \in 1 .. Len(one)
        /\ 1 \in 1 .. Len(h) /\ 2 \in 1 .. Len(h) /\ 1 \in 1 .. Len(x) /\ 2 \in 1 .. Len(x)
        /\ Len(h) + 1 \in 1 .. Len(x)
        /\ 3 + Len(id) = Len(h) + 1 /\ 4 + Len(id) = Len(x) + 1
        /\ Len(two) + 1 = 3 /\ Len(two) + Len(id) = 2 + Len(id)
    BY <1>1, <1>2 DEF HasLen
  <1>8. w[1] = two[1] /\ w[2] = two[2] /\ w[Len(h) + 1] = one[1]
    BY <1>1, <1>2, <1>3, <1>7
  <1> QED
    BY <1>0, <1>3, <1>6, <1>7, <1>8

\* The length that is written is the length of the identifier.
LEMMA WholeLength ==
    ASSUME NEW id \in Seq(Int), Whole(id)
    PROVE  LengthOf(id) = Len(id)
  <1>1. \A k \in DOMAIN id : id[k] # Cut
    BY DEF Whole, Range
  <1>2. {k \in DOMAIN id : id[k] # Cut} = 1 .. Len(id)
    BY <1>1
  <1>3. Cardinality(1 .. Len(id)) = Len(id)
    <2>1. Len(id) \in Nat
      OBVIOUS
    <2>2. Cardinality(1 .. Len(id)) = IF 1 > Len(id) THEN 0 ELSE Len(id) - 1 + 1
      BY <2>1, FS_Interval
    <2> QED
      BY <2>1, <2>2
  <1> QED
    BY <1>2, <1>3 DEF LengthOf

\* What a message is made of.
Field == Int

\* A sequence read back from its front.
LEMMA ReadFront ==
    ASSUME NEW S, NEW s \in Seq(S), NEW t \in Seq(S), NEW w, Joined(w, s, t)
    PROVE  SubSeq(w, 1, Len(s)) = s
  <1> DEFINE none == <<>>
  <1>1. none \in Seq(S) /\ none \o s = s
    BY ConcatEmptySeq
  <1>2. Joined(s, none, s)
    BY <1>1 DEF Joined
  <1>3. Len(none) = 0
    OBVIOUS
  <1> HIDE DEF none
  <1>4. SubSeq(w, Len(none) + 1, Len(none) + Len(s)) = s
    BY <1>1, <1>2, JoinedMiddle
  <1>5. Len(s) \in Nat
    OBVIOUS
  <1>6. Len(none) + 1 = 1 /\ Len(none) + Len(s) = Len(s)
    BY <1>3, <1>5
  <1> QED
    BY <1>4, <1>6

\* The two forms of a request that is not a disconnection.
DataMessage(w, id, strategy, opt, data) ==
  w = <<PUBLISH_DATA, Len(id)>> \o id \o <<strategy>> \o opt \o data
OtherMessage(w, type, id, prefix, strategy, opt) ==
  w = <<type, Len(id)>> \o id \o <<Len(prefix)>> \o prefix \o <<strategy>> \o opt
FIDFits(strategy, opt) == Len(opt) = IF HasFID(strategy) THEN 1 ELSE 0

\* Data as they are written and read.
LEMMA DecodeData ==
    ASSUME NEW id \in Seq(Field), NEW strategy \in Field, NEW opt \in Seq(Field),
           NEW data \in Seq(Field), FIDFits(strategy, opt),
           NEW w, DataMessage(w, id, strategy, opt, data)
    PROVE  /\ w \in Seq(Field)
           /\ Decode(w) = [type |-> PUBLISH_DATA, id |-> id, prefix |-> <<>>,
                           strategy |-> strategy, opt |-> opt, data |-> data]
  <1> DEFINE two == <<PUBLISH_DATA, Len(id)>>
             one == <<strategy>>
             h == two \o id
             x == h \o one
             y == x \o opt
             rest == opt \o data
  <1>1. /\ two \in Seq(Field) /\ HasLen(two, 2) /\ two[1] = PUBLISH_DATA /\ two[2] = Len(id)
        /\ one \in Seq(Field) /\ HasLen(one, 1) /\ one[1] = strategy
    BY DEF PUBLISH_DATA, Field, HasLen
  <1>2. /\ Joined(h, two, id) /\ Joined(x, h, one) /\ Joined(y, x, opt) /\ Joined(w, y, data)
        /\ Joined(rest, opt, data)
    BY DEF Joined, DataMessage
  <1> HIDE DEF two, one, h, x, y, rest
  <1>3. h \in Seq(Field) /\ x \in Seq(Field)
    <2>1. h \in Seq(Field)
      BY <1>1, <1>2, JoinedParts
    <2> QED
      BY <1>1, <1>2, <2>1, JoinedParts
  <1>4. Joined(w, x, rest) /\ rest \in Seq(Field)
    BY <1>2, <1>3, JoinedAgain
  <1>5. /\ w \in Seq(Field) /\ w[1] = PUBLISH_DATA /\ w[2] = Len(id)
        /\ SubSeq(w, 3, 2 + Len(id)) = id /\ w[3 + Len(id)] = strategy
        /\ SubSeq(w, 4 + Len(id), Len(w)) = rest
    <2>1. /\ w \in Seq(Field) /\ w[1] = two[1] /\ w[2] = two[2]
          /\ SubSeq(w, 3, 2 + Len(id)) = id /\ w[3 + Len(id)] = one[1]
          /\ SubSeq(w, 4 + Len(id), Len(w)) = rest
      <3>1. two \in Seq(Field) /\ HasLen(two, 2) /\ one \in Seq(Field) /\ HasLen(one, 1)
        BY <1>1
      <3>2. Joined(h, two, id) /\ Joined(x, h, one)
        BY <1>2
      <3> QED
        BY <1>4, <3>1, <3>2, Header
    <2> QED
      BY <1>1, <2>1
  <1>6. ASSUME HasFID(strategy) PROVE SubSeq(rest, 1, 1) = opt /\ Tail(rest) = data
    <2>1. SubSeq(rest, Len(opt) + 1, Len(rest)) = data /\ Len(rest) = Len(opt) + Len(data)
          /\ Len(data) \in Nat
      BY <1>2, JoinedParts
    <2>2. SubSeq(rest, 1, Len(opt)) = opt
      BY <1>2, ReadFront
    <2>3. Len(opt) = 1
      BY <1>6 DEF FIDFits
    <2>4. rest # <<>>
      BY <2>1, <2>3
    <2>5. Tail(rest) = SubSeq(rest, 2, Len(rest))
      BY <1>4, <2>4, TailIsSubSeq
    <2>6. SubSeq(rest, 2, Len(rest)) = data
      BY <2>1, <2>3
    <2> QED
      BY <2>2, <2>3, <2>5, <2>6
  <1>7. ASSUME ~HasFID(strategy) PROVE opt = <<>> /\ rest = data
    <2>1. opt = <<>>
      BY <1>7 DEF FIDFits
    <2>2. <<>> \o data = data
      BY ConcatEmptySeq
    <2> QED
      BY <1>2, <2>1, <2>2 DEF Joined
  <1>8. Decode(w) = [type |-> w[1], id |-> id, prefix |-> <<>>, strategy |-> strategy,
                     opt |-> IF HasFID(strategy) THEN SubSeq(rest, 1, 1) ELSE <<>>,
                     data |-> IF HasFID(strategy) THEN Tail(rest) ELSE rest]
    <2>1. w[1] = PUBLISH_DATA /\ w[1] # DISCONNECT
      BY <1>5 DEF PUBLISH_DATA, DISCONNECT
    <2> QED
      BY <1>5, <2>1 DEF Decode
  <1>9. CASE HasFID(strategy)
    BY <1>5, <1>6, <1>8, <1>9
  <1>10. CASE ~HasFID(strategy)
    BY <1>5, <1>7, <1>8, <1>10
  <1> QED
    BY <1>9, <1>10

\* All other requests.
LEMMA DecodeRequest ==
    ASSUME NEW type \in Field \ {DISCONNECT, PUBLISH_DATA}, NEW id \in Seq(Field),
           NEW prefix \in Seq(Field), NEW strategy \in Field, NEW opt \in Seq(Field),
           NEW w, OtherMessage(w, type, id, prefix, strategy, opt)
    PROVE  /\ w \in Seq(Field)
           /\ Decode(w) = [type |-> type, id |-> id, prefix |-> prefix,
                           strategy |-> strategy, opt |-> opt, data |-> <<>>]
  <1> DEFINE two == <<type, Len(id)>>
             one == <<Len(prefix)>>
             str == <<strategy>>
             h == two \o id
             x == h \o one
             y == x \o prefix
             z == y \o str
             tail == str \o opt
             rest == prefix \o tail
             v == prefix \o str
             u == v \o opt
  <1>1. /\ two \in Seq(Field) /\ HasLen(two, 2) /\ two[1] = type /\ two[2] = Len(id)
        /\ one \in Seq(Field) /\ HasLen(one, 1) /\ one[1] = Len(prefix)
        /\ str \in Seq(Field) /\ HasLen(str, 1) /\ str[1] = strategy
    BY DEF Field, HasLen
  <1>2. /\ Joined(h, two, id) /\ Joined(x, h, one) /\ Joined(y, x, prefix) /\ Joined(z, y, str)
        /\ Joined(w, z, opt) /\ Joined(tail, str, opt) /\ Joined(rest, prefix, tail)
        /\ Joined(v, prefix, str) /\ Joined(u, v, opt)
    BY DEF Joined, OtherMessage
  <1> HIDE DEF two, one, str, h, x, y, z, tail, rest, v, u
  <1>3. h \in Seq(Field) /\ x \in Seq(Field) /\ y \in Seq(Field)
    <2>1. h \in Seq(Field)
      BY <1>1, <1>2, JoinedParts
    <2>2. x \in Seq(Field)
      BY <1>1, <1>2, <2>1, JoinedParts
    <2> QED
      BY <1>2, <2>1, <2>2, JoinedParts
  <1>4. Joined(w, y, tail) /\ tail \in Seq(Field)
    <2>1. Joined(z, y, str) /\ Joined(w, z, opt) /\ Joined(tail, str, opt)
      BY <1>2
    <2> QED
      BY <1>1, <1>3, <2>1, JoinedAgain
  <1>5. Joined(w, x, rest) /\ rest \in Seq(Field)
    <2>1. Joined(y, x, prefix) /\ Joined(rest, prefix, tail)
      BY <1>2
    <2> QED
      BY <1>3, <1>4, <2>1, JoinedAgain
  <1>6. /\ w \in Seq(Field) /\ w[1] = type /\ w[2] = Len(id)
        /\ SubSeq(w, 3, 2 + Len(id)) = id /\ w[3 + Len(id)] = Len(prefix)
        /\ SubSeq(w, 4 + Len(id), Len(w)) = rest
    <2>1. /\ w \in Seq(Field) /\ w[1] = two[1] /\ w[2] = two[2]
          /\ SubSeq(w, 3, 2 + Len(id)) = id /\ w[3 + Len(id)] = one[1]
          /\ SubSeq(w, 4 + Len(id), Len(w)) = rest
      <3>1. two \in Seq(Field) /\ HasLen(two, 2) /\ one \in Seq(Field) /\ HasLen(one, 1)
        BY <1>1
      <3>2. Joined(h, two, id) /\ Joined(x, h, one)
        BY <1>2
      <3> QED
        BY <1>5, <3>1, <3>2, Header
    <2> QED
      BY <1>1, <2>1
  <1>7. SubSeq(rest, 1, Len(prefix)) = prefix
    BY <1>2, <1>4, ReadFront
  <1>8. rest[Len(prefix) + 1] = strategy
    <2>1. \A i \in 1 .. Len(tail) : rest[Len(prefix) + i] = tail[i]
      BY <1>2, <1>4, JoinedParts
    <2>2. /\ Len(tail) = Len(str) + Len(opt) /\ Len(opt) \in Nat
          /\ \A i \in 1 .. Len(str) : tail[i] = str[i]
      BY <1>1, <1>2, JoinedParts
    <2>3. 1 \in 1 .. Len(tail) /\ 1 \in 1 .. Len(str)
      BY <1>1, <2>2 DEF HasLen
    <2> QED
      BY <1>1, <2>1, <2>2, <2>3
  <1>9. SubSeq(rest, Len(prefix) + 2, Len(rest)) = opt
    <2>1. v \in Seq(Field)
      BY <1>1, <1>2, JoinedParts
    <2>2. Len(v) = Len(prefix) + Len(str) /\ Len(prefix) \in Nat
      BY <1>1, <1>2, JoinedParts
    <2>3. Joined(u, prefix, tail)
      <3>1. Joined(v, prefix, str) /\ Joined(u, v, opt) /\ Joined(tail, str, opt)
        BY <1>2
      <3> QED
        BY <1>1, <3>1, JoinedAgain
    <2>4. u = rest
      BY <1>2, <2>3 DEF Joined
    <2>5. SubSeq(u, Len(v) + 1, Len(u)) = opt
      BY <1>2, <2>1, JoinedParts
    <2>6. Len(v) + 1 = Len(prefix) + 2
      BY <1>1, <2>2 DEF HasLen
    <2> QED
      BY <2>4, <2>5, <2>6
  <1>10. Decode(w) = [type |-> w[1], id |-> id, prefix |-> SubSeq(rest, 1, Len(prefix)),
                      strategy |-> rest[Len(prefix) + 1],
                      opt |-> SubSeq(rest, Len(prefix) + 2, Len(rest)), data |-> <<>>]
    BY <1>6 DEF Decode
  <1> QED
    BY <1>6, <1>7, <1>8, <1>9, <1>10

\* What LocalProxy::push() reads is what the library was asked for.
LEMMA DecodeEncode ==
    ASSUME NEW r \in Request, Accepted(r)
    PROVE  Encode(r) \in Seq(Int) /\ Decode(Encode(r)) = r
  <1> DEFINE w == Encode(r)
  <1>1. CASE r.type = DISCONNECT
    <2>1. r = [type |-> DISCONNECT]
      BY <1>1 DEF Request
    <2>2. w = <<DISCONNECT>>
      BY <1>1 DEF Encode, DISCONNECT, PUBLISH_DATA
    <2>3. w \in Seq(Int) /\ w[1] = DISCONNECT
      BY <2>2 DEF DISCONNECT
    <2> HIDE DEF w
    <2>4. Decode(w) = [type |-> DISCONNECT]
      BY <2>3 DEF Decode, DISCONNECT, PUBLISH_DATA
    <2> QED
      BY <2>1, <2>3, <2>4 DEF w
  <1>2. CASE r.type # DISCONNECT
    <2>1. /\ r \in [type : Int \ {DISCONNECT}, id : Seq(Int), prefix : Seq(Int), strategy : Int,
                    opt : Seq(Int), data : Seq(Int)]
          /\ IF r.type = PUBLISH_DATA
             THEN r.prefix = <<>> /\ Len(r.opt) = IF HasFID(r.strategy) THEN 1 ELSE 0
             ELSE r.data = <<>>
      BY <1>2 DEF Request
    <2>2. r = [type |-> r.type, id |-> r.id, prefix |-> r.prefix, strategy |-> r.strategy,
               opt |-> r.opt, data |-> r.data]
      BY <2>1
    <2>3. LengthOf(r.id) = Len(r.id) /\ LengthOf(r.prefix) = Len(r.prefix)
      <3>1. Whole(r.id) /\ Whole(r.prefix)
        BY <1>2 DEF Accepted
      <3>2. r.id \in Seq(Int) /\ r.prefix \in Seq(Int)
        BY <2>1
      <3> QED
        BY <3>1, <3>2, WholeLength
    <2>4. /\ r.type \in Field \ {DISCONNECT} /\ r.strategy \in Field
          /\ r.id \in Seq(Field) /\ r.opt \in Seq(Field) /\ r.data \in Seq(Field)
          /\ r.prefix \in Seq(Field)
      BY <2>1 DEF Field
    <2>5. CASE r.type = PUBLISH_DATA
      <3>1. w = <<PUBLISH_DATA, Len(r.id)>> \o r.id \o <<r.strategy>> \o r.opt \o r.data
        BY <1>2, <2>3, <2>5 DEF Encode
      <3> HIDE DEF w
      <3>2. FIDFits(r.strategy, r.opt) /\ DataMessage(w, r.id, r.strategy, r.opt, r.data)
        BY <2>1, <2>5, <3>1 DEF FIDFits, DataMessage
      <3>3. w \in Seq(Field) /\ Decode(w) = [type |-> PUBLISH_DATA, id |-> r.id, prefix |-> <<>>,
                           strategy |-> r.strategy, opt |-> r.opt, data |-> r.data]
        BY <2>4, <3>2, DecodeData
      <3>4. r.prefix = <<>>
        BY <2>1, <2>5
      <3> QED
        BY <2>2, <2>5, <3>3, <3>4 DEF w, Field
    <2>6. CASE r.type # PUBLISH_DATA
      <3>1. w = <<r.type, Len(r.id)>> \o r.id \o <<Len(r.prefix)>> \o r.prefix \o <<r.strategy>>
                \o r.opt
        BY <1>2, <2>3, <2>6 DEF Encode
      <3> HIDE DEF w
      <3>2. OtherMessage(w, r.type, r.id, r.prefix, r.strategy, r.opt)
        BY <3>1 DEF OtherMessage
      <3>3. w \in Seq(Field) /\ Decode(w) = [type |-> r.type, id |-> r.id, prefix |-> r.prefix,
                           strategy |-> r.strategy, opt |-> r.opt, data |-> <<>>]
        BY <2>4, <2>6, <3>2, DecodeRequest
      <3>4. r.data = <<>>
        BY <2>1, <2>6
      <3> QED
        BY <2>2, <3>3, <3>4 DEF w, Field
    <2> QED
      BY <2>5, <2>6
  <1> QED
    BY <1>1, <1>2

-----------------------------------------------------------------------------
(* Types: the invariant every other proof rests on                         *)

\* The messages the library writes, and the packets that carry them.
Written == {Encode(r) : r \in {q \in Request : Accepted(q)}}
Letters == [pid : App, msg : Written]
\* The events getEvent() can return.
Occurrences == {Event(w) : w \in Seq(Int)}

Types ==
  /\ mode \in {"kernel", "user"} /\ script \in [App -> Seq(Request)]
  /\ sock \in [App -> {"none", "open", "closed"}]
  /\ calling \in [App -> Seq(Written)] /\ received \in [App -> Seq(Message)]
  /\ down \in Seq(Letters) /\ up \in Seq(Packets) /\ pushing \in Seq(Packets)
  /\ asked \in [App -> Seq(Request)] /\ read \in [App -> Seq(Request)]
  /\ told \in [App -> Seq(Occurrences)] /\ got \in [App -> Seq(Occurrences)]
  /\ lost \in [App -> Nat]

(* The elements of the other mode are never active; a socket holds no more *)
(* than it may.                                                            *)
Tasks ==
  /\ from \in TaskType /\ to \in TaskType
  /\ from.pc = "push" <=> pushing # <<>>
  /\ ~Kernel => from = Idle /\ to.pc \in {"idle", "sendmsg"}
  /\ Kernel => to.pc # "sendmsg"
  /\ to.pc = "sendmsg" => to.sched

Sizes ==
  /\ \A a \in App : /\ Len(received[a]) <= (IF sock[a] = "open" THEN MaxSocket ELSE 0)
                     /\ Len(calling[a]) <= 1
  /\ ~Kernel => Len(down) <= MaxSocket

\* What was written is a sequence of numbers, and is read as a request.
LEMMA WrittenIsRead ==
    ASSUME NEW w \in Written
    PROVE  w \in Seq(Int) /\ Decode(w) \in Request
  <1>1. PICK r \in {q \in Request : Accepted(q)} : w = Encode(r)
    BY DEF Written
  <1>2. Encode(r) \in Seq(Int) /\ Decode(Encode(r)) = r
    BY DecodeEncode
  <1> QED
    BY <1>1, <1>2

\* A letter is a packet.
LEMMA LettersArePackets == Letters \subseteq Packets
  BY WrittenIsRead DEF Letters, Packets, Message

\* LocalProxy turns a request into an event whose fields are numbers.
LEMMA EventOfType ==
    ASSUME NEW r \in Request, r.type # DISCONNECT
    PROVE  EventOf(r) \in Seq(Int)
  <1>1. r.id \in Seq(Int) /\ r.data \in Seq(Int)
    BY DEF Request
  <1>2. /\ <<PUBLISHED_DATA, Len(r.id)>> \in Seq(Int)
        /\ <<START_PUBLISH, Len(r.id)>> \in Seq(Int)
    BY <1>1 DEF PUBLISHED_DATA, START_PUBLISH
  <1> DEFINE x == <<PUBLISHED_DATA, Len(r.id)>>
             y == <<START_PUBLISH, Len(r.id)>>
             id == r.id
             data == r.data
  <1>3. x \in Seq(Int) /\ y \in Seq(Int) /\ id \in Seq(Int) /\ data \in Seq(Int)
    BY <1>1, <1>2
  <1> HIDE DEF x, y, id, data
  <1>4. x \o id \in Seq(Int) /\ y \o id \in Seq(Int)
    BY <1>3, ConcatProperties
  <1>5. (x \o id) \o data \in Seq(Int)
    BY <1>3, <1>4, ConcatProperties
  <1> QED
    BY <1>4, <1>5 DEF EventOf, x, y, id, data

\* What LocalProxy makes of a letter.
LEMMA AnswersType ==
    ASSUME Types, NEW p \in Letters, NEW answer \in Answers(p)
    PROVE  /\ Reads(p) \in [App -> Seq(Request)]
           /\ answer \in Seq(Packets)
           /\ answer # <<>> => /\ answer = <<answer[1]>> /\ answer[1] \in Packets
                               /\ answer[1].pid \in Known(Reads(p))
                               /\ Event(answer[1].msg) \in Occurrences
  <1>1. p.pid \in App /\ p.msg \in Written
    BY DEF Letters
  <1>2. Decode(p.msg) \in Request
    BY <1>1, WrittenIsRead
  <1>3. Reads(p) \in [App -> Seq(Request)]
    <2>1. read[p.pid] \in Seq(Request)
      BY <1>1 DEF Types
    <2>2. Append(read[p.pid], Decode(p.msg)) \in Seq(Request)
      BY <1>2, <2>1, AppendProperties
    <2> QED
      BY <1>1, <2>2 DEF Reads, Types
  <1>4. CASE answer = <<>>
    BY <1>3, <1>4
  <1>5. CASE answer # <<>>
    <2>1. PICK b \in Known(Reads(p)) :
             Decode(p.msg).type # DISCONNECT /\ answer = <<Packet(b, EventOf(Decode(p.msg)))>>
      BY <1>5 DEF Answers
    <2>2. EventOf(Decode(p.msg)) \in Seq(Int) /\ b \in App
      BY <1>2, <2>1, EventOfType DEF Known
    <2> DEFINE w == EventOf(Decode(p.msg))
    <2> HIDE DEF w
    <2>3. answer[1] = Packet(b, w) /\ answer = <<answer[1]>> /\ w \in Seq(Int)
      BY <2>1, <2>2 DEF w
    <2>4. answer[1] \in Packets /\ answer[1].pid = b /\ answer[1].msg = w
      BY <2>2, <2>3 DEF Packet, Packets, Message
    <2>5. Event(w) \in Occurrences
      BY <2>3 DEF Occurrences
    <2>6. answer \in Seq(Packets)
      <3>1. \A q \in Packets : <<q>> \in Seq(Packets)
        OBVIOUS
      <3> QED
        BY <2>3, <2>4, <3>1
    <2> QED
      BY <1>3, <2>1, <2>3, <2>4, <2>5, <2>6
  <1> QED
    BY <1>4, <1>5

\* What the queues become.
LEMMA QueueTypes ==
    ASSUME NEW S, NEW q \in Seq(S)
    PROVE  /\ \A p \in S : /\ PushFront(q, p) \in Seq(S) /\ PushFront(q, p) # <<>>
                           /\ Len(PushFront(q, p)) = Len(q) + 1
           /\ q # <<>> => /\ Front(q) \in Seq(S) /\ Last(q) \in S
                          /\ Len(Front(q)) = Len(q) - 1 /\ Len(q) \in Nat \ {0}
  <1>1. ASSUME NEW p \in S
        PROVE  /\ PushFront(q, p) \in Seq(S) /\ PushFront(q, p) # <<>>
               /\ Len(PushFront(q, p)) = Len(q) + 1
    BY DEF PushFront
  <1>2. ASSUME q # <<>>
        PROVE  /\ Front(q) \in Seq(S) /\ Last(q) \in S
               /\ Len(Front(q)) = Len(q) - 1 /\ Len(q) \in Nat \ {0}
    BY <1>2, EndsOfSeq DEF Front, Last
  <1> QED
    BY <1>1, <1>2

\* The return of sendmsg().
LEMMA ReturnsType ==
    ASSUME Types, NEW a \in App, Returns(a)
    PROVE  /\ calling' \in [App -> Seq(Written)] /\ received' \in [App -> Seq(Message)]
           /\ sock' \in [App -> {"none", "open", "closed"}]
  <1>1. <<>> \in Seq(Written) /\ <<>> \in Seq(Message)
    OBVIOUS
  <1>2. calling' \in [App -> Seq(Written)]
    BY <1>1 DEF Types, Returns
  <1>3. received' \in [App -> Seq(Message)]
    BY <1>1 DEF Types, Returns
  <1>4. sock' \in [App -> {"none", "open", "closed"}]
    BY DEF Types, Returns
  <1> QED
    BY <1>2, <1>3, <1>4

\* LocalProxy handles a letter.
LEMMA HandleType ==
    ASSUME Types, NEW p \in Letters, NEW answer \in Answers(p), Handle(p, answer)
    PROVE  /\ read' \in [App -> Seq(Request)] /\ told' \in [App -> Seq(Occurrences)]
           /\ asked' = asked /\ got' = got /\ lost' = lost
  <1>1. read' = Reads(p) /\ asked' = asked /\ got' = got /\ lost' = lost
    BY DEF Handle
  <1>2. Reads(p) \in [App -> Seq(Request)]
    BY AnswersType
  <1>3. told' \in [App -> Seq(Occurrences)]
    <2>1. CASE answer = <<>>
      BY <2>1 DEF Handle, Types
    <2>2. CASE answer # <<>>
      <3> DEFINE b == answer[1].pid
                 e == Event(answer[1].msg)
      <3>1. b \in App /\ e \in Occurrences
        BY <2>2, AnswersType DEF Known
      <3>2. told' = [told EXCEPT ![b] = Append(@, e)]
        BY <2>2 DEF Handle
      <3> HIDE DEF b, e
      <3>3. told[b] \in Seq(Occurrences) /\ told \in [App -> Seq(Occurrences)]
        BY <3>1 DEF Types
      <3>4. Append(told[b], e) \in Seq(Occurrences)
        BY <3>1, <3>3, AppendProperties
      <3> QED
        BY <3>1, <3>2, <3>3, <3>4
    <2> QED
      BY <2>1, <2>2
  <1> QED
    BY <1>1, <1>2, <1>3

\* A packet reaches its socket, or not.
LEMMA DeliverType ==
    ASSUME Types, NEW p \in Packets, Deliver(p)
    PROVE  received' \in [App -> Seq(Message)] /\ lost' \in [App -> Nat]
  <1>1. p.pid \in App /\ p.msg \in Message
    BY DEF Packets
  <1>2. received[p.pid] \in Seq(Message) /\ lost[p.pid] \in Nat
    BY <1>1 DEF Types
  <1>3. Append(received[p.pid], p.msg) \in Seq(Message)
    BY <1>1, <1>2, AppendProperties
  <1>4. received' \in [App -> Seq(Message)]
    <2>1. CASE Takes(p)
      BY <1>1, <1>3, <2>1 DEF Deliver, Types
    <2>2. CASE ~Takes(p)
      BY <2>2 DEF Deliver, Types
    <2> QED
      BY <2>1, <2>2
  <1>5. lost' \in [App -> Nat]
    <2>1. CASE Takes(p)
      BY <2>1 DEF Deliver, Types
    <2>2. CASE ~Takes(p)
      <3>1. lost[p.pid] + 1 \in Nat /\ lost \in [App -> Nat]
        BY <1>2 DEF Types
      <3> QED
        BY <1>1, <2>2, <3>1 DEF Deliver
    <2> QED
      BY <2>1, <2>2
  <1> QED
    BY <1>4, <1>5

\* Every step keeps the types.
LEMMA TypesStep ==
    ASSUME Types, Tasks, NoLostWakeup, Next
    PROVE  Types'
  <1>1. ASSUME NEW a \in App, Instance(a) PROVE Types'
    BY <1>1 DEF Types, Instance, node, history
  <1>2. ASSUME NEW a \in App, Call(a) PROVE Types'
    <2> DEFINE r == Head(script[a])
    <2>1. script[a] \in Seq(Request) /\ asked[a] \in Seq(Request)
      BY DEF Types
    <2>2. r \in Request /\ Tail(script[a]) \in Seq(Request)
      <3>1. script[a] # <<>>
        BY <1>2 DEF Call
      <3> QED
        BY <2>1, <3>1, EndsOfSeq
    <2>3. Append(asked[a], r) \in Seq(Request)
      BY <2>1, <2>2, AppendProperties
    <2>4. Accepted(r) => <<Encode(r)>> \in Seq(Written)
      <3>1. Accepted(r) => Encode(r) \in Written
        BY <2>2 DEF Written
      <3>2. \A w \in Written : <<w>> \in Seq(Written)
        OBVIOUS
      <3> QED
        BY <3>1, <3>2
    <2>5. /\ \/ calling' = calling /\ asked' = asked
             \/ /\ Accepted(r) /\ calling' = [calling EXCEPT ![a] = <<Encode(r)>>]
                /\ asked' = [asked EXCEPT ![a] = Append(@, r)]
          /\ script' = [script EXCEPT ![a] = Tail(@)]
          /\ UNCHANGED <<mode, sock, received, node, read, told, got, lost>>
      BY <1>2 DEF Call
    <2> HIDE DEF r
    <2>6. /\ calling' \in [App -> Seq(Written)] /\ asked' \in [App -> Seq(Request)]
      BY <2>3, <2>4, <2>5 DEF Types
    <2>7. script' \in [App -> Seq(Request)]
      BY <2>2, <2>5 DEF Types
    <2> QED
      BY <2>5, <2>6, <2>7 DEF Types, node
  <1>3. ASSUME NEW a \in App, calling[a] # <<>>, Returns(a),
               down' = PushFront(down, Packet(a, calling[a][1])),
               UNCHANGED <<mode, script, up, pushing, history>>
        PROVE  Types'
    <2>1. calling[a][1] \in Written
      <3>1. calling[a] \in Seq(Written)
        BY DEF Types
      <3> QED
        BY <1>3, <3>1
    <2>2. Packet(a, calling[a][1]) \in Letters
      BY <2>1 DEF Packet, Letters
    <2>3. down' \in Seq(Letters)
      BY <1>3, <2>2, QueueTypes DEF Types
    <2>4. /\ calling' \in [App -> Seq(Written)] /\ received' \in [App -> Seq(Message)]
          /\ sock' \in [App -> {"none", "open", "closed"}]
      BY <1>3, ReturnsType
    <2> QED
      BY <1>3, <2>3, <2>4 DEF Types, history
  <1>4. ASSUME NEW a \in App, GetEvent(a) PROVE Types'
    <2>1. received[a] \in Seq(Message) /\ received[a] # <<>> /\ got[a] \in Seq(Occurrences)
      BY <1>4 DEF GetEvent, Types
    <2> DEFINE w == Head(received[a])
    <2>2. w \in Message /\ Tail(received[a]) \in Seq(Message)
      BY <2>1, EndsOfSeq
    <2>3. Append(got[a], Event(w)) \in Seq(Occurrences)
      <3>1. Event(w) \in Occurrences
        BY <2>2 DEF Occurrences, Message
      <3> QED
        BY <2>1, <3>1, AppendProperties
    <2>4. received' \in [App -> Seq(Message)]
      BY <1>4, <2>2 DEF GetEvent, Types
    <2>5. got' \in [App -> Seq(Occurrences)]
      BY <1>4, <2>3 DEF GetEvent, Types
    <2> QED
      BY <1>4, <2>4, <2>5 DEF GetEvent, Types, node
  <1>5. ASSUME down # <<>>, down' = Front(down), NEW answer \in Answers(Last(down)),
               Handle(Last(down), answer), UNCHANGED <<mode, script, sock, calling, received>>,
               \/ pushing' = answer /\ up' = up
               \/ /\ up' = IF answer = <<>> THEN up ELSE PushFront(up, answer[1])
                  /\ pushing' = pushing
        PROVE  Types'
    <2>1. Last(down) \in Letters /\ down' \in Seq(Letters)
      BY <1>5, QueueTypes DEF Types
    <2>2. /\ read' \in [App -> Seq(Request)] /\ told' \in [App -> Seq(Occurrences)]
          /\ asked' = asked /\ got' = got /\ lost' = lost
      BY <1>5, <2>1, HandleType
    <2>3. answer \in Seq(Packets) /\ (answer # <<>> => answer[1] \in Packets)
      BY <1>5, <2>1, AnswersType
    <2>4. up' \in Seq(Packets)
      <3>1. \A p \in Packets : PushFront(up, p) \in Seq(Packets)
        BY QueueTypes DEF Types
      <3> QED
        BY <1>5, <2>3, <3>1 DEF Types
    <2>5. pushing' \in Seq(Packets)
      BY <1>5, <2>3 DEF Types
    <2> QED
      BY <1>5, <2>1, <2>2, <2>4, <2>5 DEF Types
  <1>6. CASE PushLocked
    <2>1. pushing # <<>>
      BY <1>6 DEF PushLocked, Tasks
    <2>2. pushing[1] \in Packets
      <3>1. pushing \in Seq(Packets)
        BY DEF Types
      <3> QED
        BY <2>1, <3>1
    <2>3. up' \in Seq(Packets)
      BY <1>6, <2>2, QueueTypes DEF PushLocked, Types
    <2>4. pushing' \in Seq(Packets)
      BY <1>6 DEF PushLocked
    <2> QED
      BY <1>6, <2>3, <2>4 DEF PushLocked, Types, history
  <1>7. ASSUME up # <<>>, up' = Front(up), Deliver(Last(up)),
               UNCHANGED <<mode, script, sock, calling, down, pushing, asked, read, told, got>>
        PROVE  Types'
    <2>1. Last(up) \in Packets /\ up' \in Seq(Packets)
      BY <1>7, QueueTypes DEF Types
    <2>2. received' \in [App -> Seq(Message)] /\ lost' \in [App -> Nat]
      BY <1>7, <2>1, DeliverType
    <2> QED
      BY <1>7, <2>1, <2>2 DEF Types
  <1>8. ASSUME UNCHANGED <<mode, script, sock, calling, received, down, up, pushing, history>>
        PROVE  Types'
    BY <1>8 DEF Types, history
  <1>9. ASSUME NEW a \in App, nl_callback(a) PROVE Types'
    BY <1>3, <1>9 DEF nl_callback
  <1>10. ASSUME NEW a \in App, Sendmsg(a) PROVE Types'
    BY <1>3, <1>10 DEF Sendmsg
  <1>11. CASE FromDrain
    BY <1>5, <1>11 DEF FromDrain
  <1>12. CASE FromSelected
    BY <1>5, <1>12 DEF FromSelected
  <1>13. CASE ToDrain
    BY <1>7, <1>13 DEF ToDrain
  <1>14. CASE Sent
    <2>1. to.pc = "sendmsg" /\ to.sched
      BY <1>14 DEF Sent, Tasks
    <2>2. up # <<>>
      BY <2>1 DEF Tasks, NoLostWakeup
    <2> QED
      BY <1>7, <1>14, <2>2 DEF Sent
  <1>15. CASE FromRun \/ FromClear \/ FromLock \/ FromEnd \/ PushWakes \/ PushMarks
    BY <1>8, <1>15 DEF FromRun, FromClear, FromLock, FromEnd, PushWakes, PushMarks
  <1>16. CASE ToRun \/ ToClear \/ ToLock \/ ToUnlock \/ ToTest \/ ToSelected
    BY <1>8, <1>16 DEF ToRun, ToClear, ToLock, ToUnlock, ToTest, ToSelected
  <1> QED
    BY <1>1, <1>2, <1>4, <1>6, <1>9, <1>10, <1>11, <1>12, <1>13, <1>14, <1>15, <1>16
       DEF Next, FromTask, ToTask

-----------------------------------------------------------------------------
(* Wakeups                                                                 *)

\* Every step keeps what is known of the tasks, and loses no wakeup.
LEMMA TasksStep ==
    ASSUME Types, Tasks, NoLostWakeup, Next
    PROVE  Tasks' /\ NoLostWakeup'
  <1> DEFINE Goal == Tasks' /\ NoLostWakeup'
  <1>1. ASSUME UNCHANGED <<mode, node>> PROVE Goal
    BY <1>1 DEF node, Tasks, NoLostWakeup, Kernel
  <1>2. ASSUME NEW a \in App, Instance(a) \/ Call(a) \/ GetEvent(a) PROVE Goal
    <2> HIDE DEF Goal
    <2> QED
      BY <1>1, <1>2 DEF Instance, Call, GetEvent
  <1>3. ASSUME NEW a \in App, nl_callback(a) PROVE Goal
    <2>1. /\ from' = Woken(from) /\ mode = "kernel"
          /\ UNCHANGED <<mode, up, to, pushing>>
      BY <1>3 DEF nl_callback, Kernel
    <2>2. from' \in TaskType /\ from'.sched = TRUE /\ from'.pc = from.pc
      BY <2>1 DEF Woken, Tasks, TaskType
    <2> QED
      BY <2>1, <2>2 DEF Tasks, NoLostWakeup, Kernel
  <1>4. ASSUME NEW a \in App, Sendmsg(a) PROVE Goal
    BY <1>4 DEF Sendmsg, Tasks, NoLostWakeup, Kernel
  <1>5. CASE FromRun
    <2>1. /\ from' \in TaskType /\ from'.pc = "clear" /\ from.pc = "idle"
          /\ UNCHANGED <<mode, down, up, to, pushing>> /\ mode = "kernel"
      BY <1>5 DEF FromRun, Tasks, TaskType, Kernel
    <2> QED
      BY <2>1 DEF Tasks, NoLostWakeup, Kernel
  <1>6. CASE FromClear
    <2>1. /\ from' \in TaskType /\ from'.pc = "lock" /\ from.pc = "clear"
          /\ UNCHANGED <<mode, down, up, to, pushing>>
      BY <1>6 DEF FromClear, Tasks, TaskType
    <2> QED
      BY <2>1 DEF Tasks, NoLostWakeup, Kernel, Idle
  <1>7. CASE FromLock
    <2>1. /\ from' \in TaskType /\ from'.pc = "drain" /\ from.pc = "lock"
          /\ UNCHANGED <<mode, down, up, to, pushing>>
      BY <1>7 DEF FromLock, Tasks, TaskType
    <2> QED
      BY <2>1 DEF Tasks, NoLostWakeup, Kernel, Idle
  <1>8. CASE FromDrain
    <2>1. PICK answer : /\ pushing' = answer
                        /\ from' = [from EXCEPT !.pc = IF answer = <<>> THEN "drain" ELSE "push"]
      BY <1>8 DEF FromDrain
    <2>2. /\ from' \in TaskType /\ from'.pc = (IF pushing' = <<>> THEN "drain" ELSE "push")
          /\ from.pc = "drain" /\ UNCHANGED <<mode, up, to>>
      BY <1>8, <2>1 DEF FromDrain, Tasks, TaskType
    <2> QED
      BY <2>2 DEF Tasks, NoLostWakeup, Kernel, Idle
  <1>9. CASE FromEnd
    <2>1. /\ from' \in TaskType /\ from'.pc = "idle" /\ from.pc = "drain" /\ down' = <<>>
          /\ UNCHANGED <<mode, up, to, pushing>>
      BY <1>9 DEF FromEnd, Tasks, TaskType
    <2> QED
      BY <2>1 DEF Tasks, NoLostWakeup, Kernel, Idle
  <1>10. CASE PushLocked
    <2>1. /\ from' \in TaskType /\ from'.pc = "wake" /\ from.pc = "push" /\ pushing' = <<>>
          /\ UNCHANGED <<mode, down, to>>
      BY <1>10 DEF PushLocked, Tasks, TaskType
    <2> QED
      BY <2>1 DEF Tasks, NoLostWakeup, Kernel, Idle
  <1>11. CASE PushWakes
    <2>1. /\ from' \in TaskType /\ from'.pc = "bit" /\ from.pc = "wake"
          /\ to' \in TaskType /\ to'.sched = TRUE /\ to'.pc = to.pc
          /\ UNCHANGED <<mode, down, up, pushing>>
      BY <1>11 DEF PushWakes, Rescheduled, Tasks, TaskType
    <2> QED
      BY <2>1 DEF Tasks, NoLostWakeup, Kernel, Idle
  <1>12. CASE PushMarks
    <2>1. /\ from' \in TaskType /\ from'.pc = "drain" /\ from.pc = "bit"
          /\ to' \in TaskType /\ to'.sched = to.sched /\ to'.pc = to.pc
          /\ UNCHANGED <<mode, down, up, pushing>>
      BY <1>12 DEF PushMarks, Tasks, TaskType
    <2> QED
      BY <2>1 DEF Tasks, NoLostWakeup, Kernel, Idle
  <1>13. CASE ToRun
    <2>1. /\ to' \in TaskType /\ to'.pc = "clear" /\ mode = "kernel"
          /\ UNCHANGED <<mode, down, up, from, pushing>>
      BY <1>13 DEF ToRun, Tasks, TaskType, Kernel
    <2> QED
      BY <2>1 DEF Tasks, NoLostWakeup, Kernel
  <1>14. CASE ToClear
    <2>1. /\ to' \in TaskType /\ to'.pc = "lock" /\ to.pc = "clear"
          /\ UNCHANGED <<mode, down, up, from, pushing>>
      BY <1>14 DEF ToClear, Tasks, TaskType
    <2> QED
      BY <2>1 DEF Tasks, NoLostWakeup, Kernel
  <1>15. CASE ToLock
    <2>1. /\ to' \in TaskType /\ to'.pc = "drain" /\ to.pc = "lock"
          /\ UNCHANGED <<mode, down, up, from, pushing>>
      BY <1>15 DEF ToLock, Tasks, TaskType
    <2> QED
      BY <2>1 DEF Tasks, NoLostWakeup, Kernel
  <1>16. CASE ToDrain
    <2>1. to.pc = "drain" /\ up # <<>> /\ UNCHANGED <<mode, down, from, to, pushing>>
      BY <1>16 DEF ToDrain
    <2> QED
      BY <2>1 DEF Tasks, NoLostWakeup, Kernel
  <1>17. CASE ToUnlock
    <2>1. /\ to' \in TaskType /\ to'.pc = "test" /\ to.pc = "drain" /\ up' = <<>>
          /\ UNCHANGED <<mode, down, from, pushing>>
      BY <1>17 DEF ToUnlock, Tasks, TaskType
    <2> QED
      BY <2>1 DEF Tasks, NoLostWakeup, Kernel
  <1>18. CASE ToTest
    <2>1. /\ to' \in TaskType /\ to'.pc = "idle" /\ to.pc = "test" /\ (to.sched => to'.sched)
          /\ UNCHANGED <<mode, down, up, from, pushing>>
      BY <1>18 DEF ToTest, Tasks, TaskType
    <2> QED
      BY <2>1 DEF Tasks, NoLostWakeup, Kernel
  <1>19. CASE FromSelected
    <2>1. PICK answer \in Answers(Last(down)) :
                   /\ up' = IF answer = <<>> THEN up ELSE PushFront(up, answer[1])
                   /\ to' = IF answer = <<>> THEN to ELSE Rescheduled(to)
      BY <1>19 DEF FromSelected
    <2>2. mode # "kernel" /\ to.pc = "idle" /\ down # <<>> /\ UNCHANGED <<mode, from, pushing>>
      BY <1>19 DEF FromSelected, Kernel, Waiting
    <2>3. CASE answer = <<>>
      BY <2>1, <2>2, <2>3 DEF Tasks, NoLostWakeup, Kernel
    <2>4. CASE answer # <<>>
      <3>1. Last(down) \in Letters
        BY <2>2, QueueTypes DEF Types
      <3>2. answer[1] \in Packets
        BY <2>4, <3>1, AnswersType
      <3>3. up' # <<>>
        BY ZenonT(30), <2>1, <2>4, <3>2, QueueTypes DEF Types
      <3>4. to' \in TaskType /\ to'.sched = TRUE /\ to'.pc = "idle"
        BY <2>1, <2>2, <2>4 DEF Tasks, TaskType, Rescheduled
      <3> QED
        BY <2>2, <3>3, <3>4 DEF Tasks, NoLostWakeup, Kernel
    <2> QED
      BY <2>3, <2>4
  <1>20. CASE ToSelected
    <2>1. /\ to' \in TaskType /\ to'.pc = "sendmsg" /\ to'.sched = to.sched /\ to.sched
          /\ mode # "kernel" /\ UNCHANGED <<mode, down, up, from, pushing>>
      BY <1>20 DEF ToSelected, Tasks, TaskType, Kernel
    <2> QED
      BY <2>1 DEF Tasks, NoLostWakeup, Kernel
  <1>21. CASE Sent
    <2>1. /\ to' \in TaskType /\ to'.pc = "idle" /\ to'.sched = (Front(up) # <<>>)
          /\ to.pc = "sendmsg" /\ up' = Front(up) /\ UNCHANGED <<mode, down, from, pushing>>
      BY <1>21 DEF Sent, KeepsSelecting, Tasks, TaskType
    <2> QED
      BY <2>1 DEF Tasks, NoLostWakeup, Kernel
  <1> QED
    BY <1>2, <1>3, <1>4, <1>5, <1>6, <1>7, <1>8, <1>9, <1>10, <1>11, <1>12, <1>13, <1>14,
       <1>15, <1>16, <1>17, <1>18, <1>19, <1>20, <1>21 DEF Next, FromTask, ToTask

\* Every step keeps the sizes.
LEMMA SizesStep ==
    ASSUME Types, Tasks, NoLostWakeup, Sizes, Next
    PROVE  Sizes'
  <1>0. MaxSocket \in Nat \ {0} /\ Len(<<>>) = 0
    BY SeparateAssumption
  <1>1. ASSUME UNCHANGED <<mode, sock, received, calling, down>> PROVE Sizes'
    BY <1>1 DEF Sizes, Kernel
  <1>2. ASSUME NEW a \in App, Instance(a) PROVE Sizes'
    <2>1. \A b \in App : Len(received[b]) \in Nat
      BY DEF Types
    <2> QED
      BY SMTT(30), <1>0, <1>2, <2>1 DEF Instance, Sizes, Kernel, node, Types
  <1>3. ASSUME NEW a \in App, Call(a) PROVE Sizes'
    <2>1. /\ calling' = calling \/ \E w : calling' = [calling EXCEPT ![a] = <<w>>]
          /\ UNCHANGED <<mode, sock, received, down>>
      BY <1>3 DEF Call, node
    <2>2. ASSUME NEW b \in App PROVE Len(calling'[b]) <= 1
      <3>1. calling'[b] = calling[b] \/ \E w : calling'[b] = <<w>>
        BY <2>1 DEF Types
      <3>2. Len(calling[b]) <= 1
        BY DEF Sizes
      <3>3. ASSUME NEW w, calling'[b] = <<w>> PROVE Len(calling'[b]) <= 1
        BY <3>3
      <3> QED
        BY <3>1, <3>2, <3>3
    <2> QED
      BY <2>1, <2>2 DEF Sizes, Kernel
  <1>4. ASSUME NEW a \in App, Returns(a), mode' = mode, ~Kernel => Len(down') <= MaxSocket
        PROVE  Sizes'
    <2>1. \A b \in App : Len(calling'[b]) <= 1
      BY <1>0, <1>4 DEF Returns, Sizes, Types
    <2>2. ASSUME NEW b \in App
          PROVE  Len(received'[b]) <= (IF sock'[b] = "open" THEN MaxSocket ELSE 0)
      <3>1. \/ received'[b] = received[b] /\ sock'[b] = sock[b]
            \/ received'[b] = <<>>
        BY <1>4 DEF Returns, Types
      <3>2. Len(received[b]) <= (IF sock[b] = "open" THEN MaxSocket ELSE 0)
        BY DEF Sizes
      <3> QED
        BY <1>0, <3>1, <3>2
    <2> QED
      BY <1>4, <2>1, <2>2 DEF Sizes, Kernel
  <1>5. ASSUME NEW a \in App, nl_callback(a) PROVE Sizes'
    BY <1>4, <1>5 DEF nl_callback
  <1>6. ASSUME NEW a \in App, Sendmsg(a) PROVE Sizes'
    <2>1. calling[a] \in Seq(Written) /\ calling[a] # <<>> /\ down \in Seq(Letters)
      BY <1>6 DEF Sendmsg, Types
    <2>2. Packet(a, calling[a][1]) \in Letters
      <3>1. calling[a][1] \in Written
        BY <2>1
      <3> QED
        BY <3>1 DEF Packet, Letters
    <2>3. Len(down') = Len(down) + 1 /\ Len(down) \in Nat /\ Len(down) < MaxSocket
      <3>1. \A p \in Letters : Len(PushFront(down, p)) = Len(down) + 1
        BY <2>1, QueueTypes
      <3>2. Len(down) \in Nat
        BY <2>1
      <3>3. down' = PushFront(down, Packet(a, calling[a][1])) /\ Len(down) < MaxSocket
        BY <1>6 DEF Sendmsg
      <3> QED
        BY <2>2, <3>1, <3>2, <3>3
    <2>4. Len(down') <= MaxSocket
      BY <1>0, <2>3
    <2> QED
      BY <1>4, <1>6, <2>4 DEF Sendmsg
  <1>7. ASSUME NEW a \in App, GetEvent(a) PROVE Sizes'
    <2>1. received[a] \in Seq(Message) /\ received[a] # <<>>
      BY <1>7 DEF GetEvent, Types
    <2>2. Len(Tail(received[a])) <= Len(received[a]) /\ Len(Tail(received[a])) \in Nat
          /\ Len(received[a]) \in Nat
      BY <2>1
    <2>3. ASSUME NEW b \in App
          PROVE  Len(received'[b]) <= (IF sock'[b] = "open" THEN MaxSocket ELSE 0)
      <3>1. received'[b] = (IF b = a THEN Tail(received[a]) ELSE received[b]) /\ sock'[b] = sock[b]
        BY <1>7 DEF GetEvent, Types
      <3>2. /\ Len(received[b]) <= (IF sock[b] = "open" THEN MaxSocket ELSE 0)
            /\ Len(received[a]) <= (IF sock[a] = "open" THEN MaxSocket ELSE 0)
        BY DEF Sizes
      <3>3. CASE b = a
        BY <1>0, <2>2, <3>1, <3>2, <3>3
      <3>4. CASE b # a
        BY <3>1, <3>2, <3>4
      <3> QED
        BY <3>3, <3>4
    <2> QED
      BY <1>7, <2>3 DEF GetEvent, Sizes, Kernel, node
  <1>8. ASSUME down # <<>>, down' = Front(down), UNCHANGED <<mode, sock, received, calling>>
        PROVE  Sizes'
    <2>1. Len(down') = Len(down) - 1 /\ Len(down) \in Nat
      BY <1>8, QueueTypes DEF Types
    <2> QED
      BY <1>0, <1>8, <2>1 DEF Sizes, Kernel
  <1>9. ASSUME up # <<>>, Deliver(Last(up)), UNCHANGED <<mode, sock, calling, down>>
        PROVE  Sizes'
    <2> DEFINE p == Last(up)
    <2>1. p \in Packets
      BY <1>9, QueueTypes DEF Types
    <2>2. p.pid \in App /\ received[p.pid] \in Seq(Message)
      BY <2>1 DEF Packets, Types
    <2>3. p.msg \in Message
      BY <2>1 DEF Packets
    <2>4. /\ Len(Append(received[p.pid], p.msg)) = Len(received[p.pid]) + 1
          /\ Len(received[p.pid]) \in Nat
      BY <2>2, <2>3, AppendProperties
    <2> HIDE DEF p
    <2>5. ASSUME NEW b \in App
          PROVE  Len(received'[b]) <= (IF sock'[b] = "open" THEN MaxSocket ELSE 0)
      <3>1. CASE Takes(p)
        <4>1. /\ received' = [received EXCEPT ![p.pid] = Append(@, p.msg)]
              /\ sock[p.pid] = "open" /\ Len(received[p.pid]) < MaxSocket /\ sock' = sock
          BY <1>9, <3>1 DEF Deliver, Takes, p
        <4>2. received'[b] = IF b = p.pid THEN Append(received[b], p.msg) ELSE received[b]
          BY <2>2, <4>1 DEF Types
        <4>3. Len(received[b]) <= (IF sock[b] = "open" THEN MaxSocket ELSE 0)
          BY DEF Sizes
        <4>4. CASE b = p.pid
          BY <1>0, <2>4, <4>1, <4>2, <4>4
        <4>5. CASE b # p.pid
          BY <4>1, <4>2, <4>3, <4>5
        <4> QED
          BY <4>4, <4>5
      <3>2. CASE ~Takes(p)
        <4>1. received' = received /\ sock' = sock
          BY <1>9, <3>2 DEF Deliver, p
        <4> QED
          BY <4>1 DEF Sizes
      <3> QED
        BY <3>1, <3>2
    <2> QED
      BY <1>9, <2>5 DEF Sizes, Kernel
  <1>10. CASE FromDrain
    BY <1>8, <1>10 DEF FromDrain
  <1>11. CASE FromSelected
    BY <1>8, <1>11 DEF FromSelected
  <1>12. CASE ToDrain
    BY <1>9, <1>12 DEF ToDrain
  <1>13. CASE Sent
    <2>1. to.pc = "sendmsg" /\ to.sched
      BY <1>13 DEF Sent, Tasks
    <2>2. up # <<>>
      BY <2>1 DEF Tasks, NoLostWakeup
    <2> QED
      BY <1>9, <1>13, <2>2 DEF Sent
  <1>14. CASE FromRun \/ FromClear \/ FromLock \/ FromEnd \/ PushLocked \/ PushWakes \/ PushMarks
    BY <1>1, <1>14 DEF FromRun, FromClear, FromLock, FromEnd, PushLocked, PushWakes, PushMarks
  <1>15. CASE ToRun \/ ToClear \/ ToLock \/ ToUnlock \/ ToTest \/ ToSelected
    BY <1>1, <1>15 DEF ToRun, ToClear, ToLock, ToUnlock, ToTest, ToSelected
  <1> QED
    BY <1>2, <1>3, <1>5, <1>6, <1>7, <1>10, <1>11, <1>12, <1>13, <1>14, <1>15
       DEF Next, FromTask, ToTask

Shape == Types /\ Tasks /\ NoLostWakeup /\ Sizes

\* The initial states have the shape.
LEMMA ShapeInit ==
    ASSUME Init
    PROVE  Shape
  <1>1. PICK s \in Setups : mode = s.mode /\ script = s.script
    BY DEF Init
  <1>2. mode \in {"kernel", "user"} /\ script \in [App -> Seq(Request)]
    BY <1>1, SetupsAssumption
  <1>3. <<>> \in Seq(Written) /\ <<>> \in Seq(Message) /\ <<>> \in Seq(Letters)
        /\ <<>> \in Seq(Packets) /\ <<>> \in Seq(Request) /\ <<>> \in Seq(Occurrences)
    OBVIOUS
  <1>4. Types
    BY <1>2, <1>3 DEF Init, Types
  <1>5. Tasks /\ NoLostWakeup
    BY DEF Init, Tasks, NoLostWakeup, Idle, TaskType
  <1>6. Sizes
    <2>1. Len(<<>>) = 0 /\ MaxSocket \in Nat
      BY SeparateAssumption
    <2> QED
      BY <2>1 DEF Init, Sizes
  <1> QED
    BY <1>4, <1>5, <1>6 DEF Shape

\* Every step keeps the shape.
LEMMA ShapeStep ==
    ASSUME Shape, [Next]_vars
    PROVE  Shape'
  <1>1. CASE Next
    BY <1>1, TypesStep, TasksStep, SizesStep DEF Shape
  <1>2. CASE UNCHANGED vars
    <2>1. /\ UNCHANGED <<mode, script, sock, calling, received, down, up, from, to, pushing>>
          /\ UNCHANGED <<asked, read, told, got, lost>>
      BY <1>2 DEF vars, node, history
    <2>2. Types'
      BY <2>1 DEF Shape, Types
    <2>3. Tasks' /\ NoLostWakeup'
      BY <2>1 DEF Shape, Tasks, NoLostWakeup, Kernel
    <2>4. Sizes'
      BY <2>1 DEF Shape, Sizes, Kernel
    <2> QED
      BY <2>2, <2>3, <2>4 DEF Shape
  <1> QED
    BY <1>1, <1>2

\* A reachable state has the shape, whatever App, Setups and MaxSocket are.
LEMMA ShapeAlways == Spec => []Shape
  <1>1. Init => Shape
    BY ShapeInit
  <1>2. Shape /\ [Next]_vars => Shape'
    BY ShapeStep
  <1> QED
    BY <1>1, <1>2, PTL DEF Spec

\* The elements' state is well formed, and no socket of nl_sock or sock_fd holds
\* more than its buffer, for any number of applications, requests and messages.
THEOREM TypesAreKept == Spec => []TypeOK
  <1>1. Shape => TypeOK
    <2> SUFFICES ASSUME Shape PROVE TypeOK
      OBVIOUS
    <2>1. \A S : \A q \in Seq(S) : Range(q) \subseteq S
      BY DEF Range
    <2>2. Range(down) \subseteq Packets
      BY <2>1, LettersArePackets DEF Shape, Types
    <2>3. Range(up) \subseteq Packets /\ Range(pushing) \subseteq Packets
      BY <2>1 DEF Shape, Types
    <2>4. Range(down) \cup Range(up) \cup Range(pushing) \subseteq [pid : App, msg : Seq(Int)]
      BY <2>2, <2>3 DEF Packets, Message
    <2>5. ~Kernel => pushing = <<>>
      BY DEF Shape, Tasks, Idle
    <2> QED
      BY <2>4, <2>5 DEF TypeOK, Shape, Tasks, Sizes
  <1> QED
    BY <1>1, ShapeAlways, PTL

\* No wakeup is lost between nl_callback(), the push() of ToNetlink and the two
\* run_task(), or, in user space, between the two selected().
THEOREM WakeupsAreKept == Spec => []NoLostWakeup
  <1>1. Shape => NoLostWakeup
    BY DEF Shape
  <1> QED
    BY <1>1, ShapeAlways, PTL

-----------------------------------------------------------------------------
(* Requests                                                                *)

\* What f makes of packet p, for application a.
OneOf(f, a, p) == IF p.pid = a THEN <<f[p]>> ELSE <<>>

\* A packet put into a queue comes last for its application ...
LEMMA MapPush ==
    ASSUME NEW S, NEW T, NEW f \in [S -> T], NEW q \in Seq(S), NEW p \in S, NEW a
    PROVE  /\ Map(f, Of(a, q)) \in Seq(T) /\ OneOf(f, a, p) \in Seq(T)
           /\ Joined(Map(f, Of(a, PushFront(q, p))), Map(f, Of(a, q)), OneOf(f, a, p))
  <1>1. Of(a, q) \in Seq(S)
    BY OfType
  <1>2. One(a, p) \in Seq(S)
    BY DEF One
  <1>3. Joined(Of(a, PushFront(q, p)), Of(a, q), One(a, p))
    BY OfPush DEF Joined
  <1>4. Map(f, One(a, p)) = OneOf(f, a, p)
    BY MapOne DEF One, OneOf
  <1>5. /\ Map(f, Of(a, q)) \in Seq(T) /\ Map(f, One(a, p)) \in Seq(T)
        /\ Joined(Map(f, Of(a, PushFront(q, p))), Map(f, Of(a, q)), Map(f, One(a, p)))
    BY <1>1, <1>2, <1>3, MapJoined
  <1> QED
    BY <1>4, <1>5

\* ... and the one that is taken comes first.
LEMMA MapTake ==
    ASSUME NEW S, NEW T, NEW f \in [S -> T], NEW q \in Seq(S), q # <<>>, NEW a
    PROVE  /\ Map(f, Of(a, Front(q))) \in Seq(T) /\ OneOf(f, a, Last(q)) \in Seq(T)
           /\ Joined(Map(f, Of(a, q)), OneOf(f, a, Last(q)), Map(f, Of(a, Front(q))))
  <1>1. Front(q) \in Seq(S) /\ Last(q) \in S
    BY QueueTypes
  <1>2. Of(a, Front(q)) \in Seq(S)
    BY <1>1, OfType
  <1>3. One(a, Last(q)) \in Seq(S)
    BY <1>1 DEF One
  <1>4. Joined(Of(a, q), One(a, Last(q)), Of(a, Front(q)))
    BY OfTake DEF Joined
  <1>5. Map(f, One(a, Last(q))) = OneOf(f, a, Last(q))
    BY MapOne DEF One, OneOf
  <1>6. /\ Map(f, Of(a, Front(q))) \in Seq(T) /\ Map(f, One(a, Last(q))) \in Seq(T)
        /\ Joined(Map(f, Of(a, q)), Map(f, One(a, Last(q))), Map(f, Of(a, Front(q))))
    BY <1>2, <1>3, <1>4, MapJoined
  <1> QED
    BY <1>5, <1>6

\* What LocalProxy reads from a letter.
AsRead == [p \in Letters |-> Decode(p.msg)]

\* AsRead gives requests.
LEMMA AsReadType == AsRead \in [Letters -> Request]
  <1>1. \A p \in Letters : Decode(p.msg) \in Request
    BY WrittenIsRead DEF Letters
  <1> QED
    BY <1>1 DEF AsRead

\* Read is the letters of an application, read one by one.
LEMMA ReadIsMap ==
    ASSUME NEW q \in Seq(Letters), NEW a
    PROVE  Read(a, q) = Map(AsRead, Of(a, q))
  <1>1. Of(a, q) \in Seq(Letters)
    BY OfType
  <1> DEFINE s == Of(a, q)
  <1>2. s \in Seq(Letters)
    BY <1>1
  <1> HIDE DEF s
  <1>3. \A k \in DOMAIN s : s[k] \in Letters
    BY <1>2
  <1>4. \A k \in DOMAIN s : AsRead[s[k]] = Decode(s[k].msg)
    BY <1>3 DEF AsRead
  <1>5. [k \in DOMAIN s |-> Decode(s[k].msg)] = [k \in DOMAIN s |-> AsRead[s[k]]]
    BY <1>4
  <1> QED
    BY <1>5 DEF Read, Map, s

\* A letter is added behind those of its application that wait.
LEMMA ReadPush ==
    ASSUME NEW q \in Seq(Letters), NEW p \in Letters, NEW a
    PROVE  /\ Read(a, q) \in Seq(Request) /\ OneOf(AsRead, a, p) \in Seq(Request)
           /\ Joined(Read(a, PushFront(q, p)), Read(a, q), OneOf(AsRead, a, p))
  <1>1. PushFront(q, p) \in Seq(Letters)
    BY QueueTypes
  <1>2. /\ Read(a, q) = Map(AsRead, Of(a, q))
        /\ Read(a, PushFront(q, p)) = Map(AsRead, Of(a, PushFront(q, p)))
    BY <1>1, ReadIsMap
  <1>3. /\ Map(AsRead, Of(a, q)) \in Seq(Request) /\ OneOf(AsRead, a, p) \in Seq(Request)
        /\ Joined(Map(AsRead, Of(a, PushFront(q, p))), Map(AsRead, Of(a, q)),
                  OneOf(AsRead, a, p))
    BY AsReadType, MapPush
  <1> QED
    BY <1>2, <1>3

\* LocalProxy reads the first of those that wait.
LEMMA ReadTake ==
    ASSUME NEW q \in Seq(Letters), q # <<>>, NEW a
    PROVE  /\ Read(a, Front(q)) \in Seq(Request) /\ OneOf(AsRead, a, Last(q)) \in Seq(Request)
           /\ Joined(Read(a, q), OneOf(AsRead, a, Last(q)), Read(a, Front(q)))
  <1>1. Front(q) \in Seq(Letters) /\ Last(q) \in Letters
    BY QueueTypes
  <1>2. /\ Read(a, q) = Map(AsRead, Of(a, q))
        /\ Read(a, Front(q)) = Map(AsRead, Of(a, Front(q)))
    BY <1>1, ReadIsMap
  <1>3. /\ Map(AsRead, Of(a, Front(q))) \in Seq(Request)
        /\ OneOf(AsRead, a, Last(q)) \in Seq(Request)
        /\ Joined(Map(AsRead, Of(a, q)), OneOf(AsRead, a, Last(q)),
                  Map(AsRead, Of(a, Front(q))))
    BY AsReadType, MapTake
  <1> QED
    BY <1>2, <1>3

\* The message sendmsg() waits with, as it will be read.
LEMMA InTransitIs ==
    ASSUME NEW a
    PROVE  /\ calling[a] = <<>> => InTransit(a) = <<>>
           /\ \A w : calling[a] = <<w>> => InTransit(a) = <<Decode(w)>>
  BY DEF InTransit

\* What is read, waits and is being sent is what was asked for.
Carried == \A a \in App : Chain(asked[a], read[a], Read(a, down), InTransit(a))

\* A request is accepted.
LEMMA CarriedCall ==
    ASSUME Types, Carried, NEW a \in App, Call(a)
    PROVE  Carried'
  <1> DEFINE r == Head(script[a])
  <1>1. /\ script[a] \in Seq(Request) /\ script[a] # <<>> /\ calling[a] = <<>>
        /\ UNCHANGED <<read, down>>
    BY DEF Call, Types, node
  <1>2. r \in Request
    BY <1>1, EndsOfSeq
  <1> SUFFICES ASSUME NEW b \in App
               PROVE  Chain(asked'[b], read'[b], Read(b, down'), InTransit(b)')
    BY DEF Carried
  <1>3. Chain(asked[b], read[b], Read(b, down), InTransit(b))
    BY DEF Carried
  <1>4. CASE b # a \/ ~(Accepted(r) /\ sock[a] = "open")
    <2>1. calling'[b] = calling[b] /\ asked'[b] = asked[b]
      BY <1>4 DEF Call, Types
    <2>2. InTransit(b)' = InTransit(b)
      BY <2>1 DEF InTransit
    <2> QED
      BY <1>1, <1>3, <2>1, <2>2
  <1>5. CASE b = a /\ Accepted(r) /\ sock[a] = "open"
    <2>1. calling'[a] = <<Encode(r)>> /\ asked'[a] = Append(asked[a], r)
      BY <1>5 DEF Call, Types
    <2>2. InTransit(a) = <<>> /\ InTransit(a)' = <<Decode(Encode(r))>>
      BY <1>1, <2>1 DEF InTransit
    <2>3. Decode(Encode(r)) = r
      BY <1>2, <1>5, DecodeEncode
    <2> HIDE DEF r
    <2>4. Joined(asked'[a], asked[a], <<r>>) /\ <<r>> \in Seq(Request)
      <3>1. asked[a] \in Seq(Request)
        BY DEF Types
      <3> QED
        BY <1>2, <2>1, <3>1, JoinedOne
    <2>5. Joined(<<r>>, <<>>, <<r>>) /\ <<>> \in Seq(Request)
      BY <2>4, JoinedOne
    <2>6. read[a] \in Seq(Request) /\ Read(a, down) \in Seq(Request)
      <3>1. down \in Seq(Letters) /\ read[a] \in Seq(Request)
        BY DEF Types
      <3>2. Map(AsRead, Of(a, down)) \in Seq(Request)
        <4>1. Of(a, down) \in Seq(Letters)
          BY <3>1, OfType
        <4>2. Joined(Of(a, down), Of(a, down), <<>>) /\ <<>> \in Seq(Letters)
          BY <4>1, JoinedOne
        <4> QED
          BY <4>1, <4>2, AsReadType, MapJoined
      <3> QED
        BY <3>1, <3>2, ReadIsMap
    <2>7. Chain(asked[a], read[a], Read(a, down), <<>>)
      BY <1>3, <1>5, <2>2
    <2>8. Chain(asked'[a], read[a], Read(a, down), <<r>>)
      BY <2>4, <2>5, <2>6, <2>7, ChainEnd
    <2> QED
      BY <1>1, <1>5, <2>2, <2>3, <2>8
  <1> QED
    BY <1>4, <1>5

\* A request reaches the node.
LEMMA CarriedSend ==
    ASSUME Types, Sizes, Carried, NEW a \in App, calling[a] # <<>>, Returns(a),
           down' = PushFront(down, Packet(a, calling[a][1])), UNCHANGED <<asked, read>>
    PROVE  Carried'
  <1> DEFINE w == calling[a][1]
             p == Packet(a, w)
  <1>1. calling[a] = <<w>> /\ w \in Written
    <2>1. calling[a] \in Seq(Written) /\ Len(calling[a]) <= 1
      BY DEF Types, Sizes
    <2>2. Len(calling[a]) = 1
      <3>1. Len(calling[a]) \in Nat \ {0}
        BY <2>1, EndsOfSeq
      <3>2. Len(calling[a]) <= 1
        BY <2>1
      <3> DEFINE n == Len(calling[a])
      <3>3. n \in Nat \ {0} /\ n <= 1
        BY <3>1, <3>2
      <3> HIDE DEF n
      <3>4. n = 1
        BY <3>3
      <3> QED
        BY <3>4 DEF n
    <2> QED
      BY <2>1, <2>2
  <1>2. p \in Letters /\ p.pid = a /\ p.msg = w
    BY <1>1 DEF Packet, Letters
  <1>3. down' = PushFront(down, p) /\ down \in Seq(Letters)
    BY DEF Types
  <1> SUFFICES ASSUME NEW b \in App
               PROVE  Chain(asked'[b], read'[b], Read(b, down'), InTransit(b)')
    BY DEF Carried
  <1>4. Chain(asked[b], read[b], Read(b, down), InTransit(b)) /\ read[b] \in Seq(Request)
    BY DEF Carried, Types
  <1> HIDE DEF w, p
  <1>5. /\ Read(b, down) \in Seq(Request) /\ OneOf(AsRead, b, p) \in Seq(Request)
        /\ Joined(Read(b, down'), Read(b, down), OneOf(AsRead, b, p))
    BY <1>2, <1>3, ReadPush
  <1>6. CASE b = a
    <2>1. OneOf(AsRead, b, p) = <<Decode(w)>>
      BY <1>2, <1>6 DEF OneOf, AsRead
    <2>2. InTransit(b) = <<Decode(w)>>
      BY <1>1, <1>6, InTransitIs
    <2>3. InTransit(b)' = <<>>
      BY <1>6 DEF InTransit, Returns, Types
    <2>4. Joined(InTransit(b), OneOf(AsRead, b, p), <<>>) /\ <<>> \in Seq(Request)
      BY <1>5, <2>1, <2>2, JoinedOne
    <2>5. Chain(asked[b], read[b], Read(b, down'), <<>>)
      BY <1>4, <1>5, <2>4, ChainSecond
    <2> QED
      BY <2>3, <2>5
  <1>7. CASE b # a
    <2>1. OneOf(AsRead, b, p) = <<>>
      BY <1>2, <1>7 DEF OneOf
    <2>2. Joined(Read(b, down), Read(b, down), <<>>)
      BY <1>5, JoinedOne
    <2>3. Read(b, down') = Read(b, down)
      BY <1>5, <2>1, <2>2 DEF Joined
    <2>4. calling'[b] = calling[b]
      BY <1>7 DEF Returns, Types
    <2>5. InTransit(b)' = InTransit(b)
      BY <2>4 DEF InTransit
    <2> QED
      BY <1>4, <2>3, <2>5
  <1> QED
    BY <1>6, <1>7

\* LocalProxy reads a request.
LEMMA CarriedRead ==
    ASSUME Types, Carried, down # <<>>, down' = Front(down), read' = Reads(Last(down)),
           UNCHANGED <<asked, calling>>
    PROVE  Carried'
  <1> DEFINE p == Last(down)
  <1>1. p \in Letters /\ down \in Seq(Letters)
    BY QueueTypes DEF Types
  <1>2. p.pid \in App /\ Decode(p.msg) \in Request
    BY <1>1, WrittenIsRead DEF Letters
  <1> SUFFICES ASSUME NEW b \in App
               PROVE  Chain(asked'[b], read'[b], Read(b, down'), InTransit(b)')
    BY DEF Carried
  <1>3. Chain(asked[b], read[b], Read(b, down), InTransit(b)) /\ read[b] \in Seq(Request)
    BY DEF Carried, Types
  <1>4. /\ Read(b, down') \in Seq(Request) /\ OneOf(AsRead, b, p) \in Seq(Request)
        /\ Joined(Read(b, down), OneOf(AsRead, b, p), Read(b, down'))
    BY <1>1, ReadTake
  <1>5. Joined(read'[b], read[b], OneOf(AsRead, b, p))
    <2>1. CASE p.pid = b
      <3>1. OneOf(AsRead, b, p) = <<Decode(p.msg)>>
        BY <1>1, <2>1 DEF OneOf, AsRead
      <3>2. read'[b] = Append(read[b], Decode(p.msg))
        BY <1>2, <2>1 DEF Reads, Types
      <3> HIDE DEF p
      <3> QED
        BY <1>2, <1>3, <3>1, <3>2, JoinedOne
    <2>2. CASE p.pid # b
      <3>1. OneOf(AsRead, b, p) = <<>>
        BY <2>2 DEF OneOf
      <3>2. read'[b] = read[b]
        BY <1>2, <2>2 DEF Reads, Types
      <3> HIDE DEF p
      <3> QED
        BY <1>3, <3>1, <3>2, JoinedOne
    <2> QED
      BY <2>1, <2>2
  <1>6. InTransit(b)' = InTransit(b)
    BY DEF InTransit
  <1>7. InTransit(b) \in Seq(Request)
    <2>1. calling[b] \in Seq(Written)
      BY DEF Types
    <2>2. \A k \in 1 .. Len(calling[b]) : Decode(calling[b][k]) \in Request
      BY <2>1, WrittenIsRead
    <2>3. InTransit(b) = [k \in 1 .. Len(calling[b]) |-> Decode(calling[b][k])]
      BY <2>1 DEF InTransit
    <2> QED
      BY <2>1, <2>2, <2>3
  <1> HIDE DEF p
  <1>8. Chain(asked[b], read'[b], Read(b, down'), InTransit(b))
    BY <1>3, <1>4, <1>5, <1>7, ChainFirst
  <1> QED
    BY <1>6, <1>8

\* Every step carries the requests.
LEMMA CarriedStep ==
    ASSUME Shape, Carried, [Next]_vars
    PROVE  Carried'
  <1> USE DEF Shape
  <1>1. ASSUME UNCHANGED <<asked, read, down, calling>> PROVE Carried'
    BY <1>1 DEF Carried, InTransit
  <1>2. ASSUME NEW a \in App, Instance(a) \/ GetEvent(a) PROVE Carried'
    BY <1>1, <1>2 DEF Instance, GetEvent, node, history
  <1>3. ASSUME NEW a \in App, Call(a) PROVE Carried'
    BY <1>3, CarriedCall
  <1>4. ASSUME NEW a \in App, nl_callback(a) PROVE Carried'
    BY <1>4, CarriedSend DEF nl_callback, history
  <1>5. ASSUME NEW a \in App, Sendmsg(a) PROVE Carried'
    BY <1>5, CarriedSend DEF Sendmsg, history
  <1>6. CASE FromDrain \/ FromSelected
    BY <1>6, CarriedRead DEF FromDrain, FromSelected, Handle
  <1>7. CASE FromRun \/ FromClear \/ FromLock \/ FromEnd \/ PushLocked \/ PushWakes \/ PushMarks
    BY <1>1, <1>7 DEF FromRun, FromClear, FromLock, FromEnd, PushLocked, PushWakes, PushMarks,
                      history
  <1>8. CASE ToTask \/ ToSelected \/ Sent
    BY <1>1, <1>8 DEF ToTask, ToRun, ToClear, ToLock, ToDrain, ToUnlock, ToTest, ToSelected,
                      Sent, history
  <1>9. CASE UNCHANGED vars
    BY <1>1, <1>9 DEF vars, node, history
  <1> QED
    BY <1>2, <1>3, <1>4, <1>5, <1>6, <1>7, <1>8, <1>9 DEF Next, FromTask

\* Requests are carried from the first state on.
LEMMA CarriedInit ==
    ASSUME Init
    PROVE  Carried
  <1>1. \A a \in App : Of(a, <<>>) = <<>>
    <2>1. <<>> \in Seq(Letters)
      OBVIOUS
    <2> QED
      BY <2>1, OfType
  <1>2. ASSUME NEW a \in App PROVE Chain(asked[a], read[a], Read(a, down), InTransit(a))
    <2>1. /\ asked[a] = <<>> /\ read[a] = <<>> /\ down = <<>> /\ calling[a] = <<>>
      BY DEF Init
    <2>2. Read(a, down) = <<>>
      BY <1>1, <2>1 DEF Read
    <2>3. InTransit(a) = <<>>
      BY <2>1, InTransitIs
    <2>4. Chain(<<>>, <<>>, <<>>, <<>>)
      BY DEF Chain
    <2> QED
      BY <2>1, <2>2, <2>3, <2>4
  <1> QED
    BY <1>2 DEF Carried

\* Requests are carried in every reachable state.
LEMMA CarriedAlways == Spec => []Carried
  <1>1. Init => Carried
    BY CarriedInit
  <1>2. Shape /\ Carried /\ [Next]_vars => Carried'
    BY CarriedStep
  <1> QED
    BY <1>1, <1>2, ShapeAlways, PTL DEF Spec

\* LocalProxy::push() reads the requests of an application in the order in which
\* it made them, each once and with the fields the library was given, in both
\* modes and for any number of applications and any length of identifiers.
THEOREM RequestsArrive == Spec => []RequestsArriveAsAsked
  <1>1. Carried => RequestsArriveAsAsked
    BY DEF Carried, Chain, RequestsArriveAsAsked
  <1> QED
    BY <1>1, CarriedAlways, PTL

-----------------------------------------------------------------------------
(* Events                                                                  *)

\* Messages and packets as the events they carry.
AsEvent == [w \in Message |-> Event(w)]
PacketEvent == [p \in Packets |-> Event(p.msg)]
\* The events for a in queue q, and in the hands of FromNetlink's task.
UpOf(a, q) == Events([k \in DOMAIN Of(a, q) |-> Of(a, q)[k].msg])
PushedOf(a, pc, q) == IF pc = "push" /\ q[1].pid = a THEN <<Event(q[1].msg)>> ELSE <<>>
\* The events told are those got, received, queued and being pushed.
Flow(a, t, g, rc, q, x) == Chain(t, g \o Events(rc), UpOf(a, q), x)

\* Both functions give events.
LEMMA EventTypes ==
    AsEvent \in [Message -> Occurrences] /\ PacketEvent \in [Packets -> Occurrences]
  <1>1. \A w \in Message : Event(w) \in Occurrences
    BY DEF Message, Occurrences
  <1>2. \A p \in Packets : p.msg \in Message
    BY DEF Packets
  <1> QED
    BY <1>1, <1>2 DEF AsEvent, PacketEvent

\* Events in a socket, one by one.
LEMMA EventsIsMap ==
    ASSUME NEW s \in Seq(Message)
    PROVE  Events(s) = Map(AsEvent, s) /\ Events(s) \in Seq(Occurrences)
  <1>1. \A k \in DOMAIN s : s[k] \in Message
    OBVIOUS
  <1>2. \A k \in DOMAIN s : AsEvent[s[k]] = Event(s[k])
    BY <1>1 DEF AsEvent
  <1>3. [k \in DOMAIN s |-> Event(s[k])] = [k \in DOMAIN s |-> AsEvent[s[k]]]
    BY <1>2
  <1>4. Events(s) = Map(AsEvent, s)
    BY <1>3 DEF Events, Map
  <1>5. Joined(s, s, <<>>) /\ <<>> \in Seq(Message)
    BY JoinedOne
  <1>6. Map(AsEvent, s) \in Seq(Occurrences)
    BY <1>5, EventTypes, MapJoined
  <1> QED
    BY <1>4, <1>6

\* Events in a queue, one by one.
LEMMA UpIsMap ==
    ASSUME NEW q \in Seq(Packets), NEW a
    PROVE  UpOf(a, q) = Map(PacketEvent, Of(a, q)) /\ UpOf(a, q) \in Seq(Occurrences)
  <1> DEFINE s == Of(a, q)
             m == [k \in DOMAIN s |-> s[k].msg]
  <1>1. s \in Seq(Packets)
    BY OfType
  <1> HIDE DEF s
  <1>2. \A k \in DOMAIN s : s[k] \in Packets
    BY <1>1
  <1>3. \A k \in DOMAIN s : PacketEvent[s[k]] = Event(s[k].msg)
    BY <1>2 DEF PacketEvent
  <1>4. DOMAIN m = DOMAIN s /\ \A k \in DOMAIN s : m[k] = s[k].msg
    OBVIOUS
  <1>5. [k \in DOMAIN m |-> Event(m[k])] = [k \in DOMAIN s |-> PacketEvent[s[k]]]
    BY <1>3, <1>4
  <1>6. Events(m) = Map(PacketEvent, s)
    BY <1>5 DEF Events, Map
  <1>7. Joined(s, s, <<>>) /\ <<>> \in Seq(Packets)
    BY <1>1, JoinedOne
  <1>8. Map(PacketEvent, s) \in Seq(Occurrences)
    BY <1>1, <1>7, EventTypes, MapJoined
  <1> QED
    BY <1>6, <1>8 DEF UpOf, s

\* A packet is queued behind the others of its application ...
LEMMA UpPush ==
    ASSUME NEW q \in Seq(Packets), NEW p \in Packets, NEW a
    PROVE  /\ p.pid # a => UpOf(a, PushFront(q, p)) = UpOf(a, q)
           /\ p.pid = a => Joined(UpOf(a, PushFront(q, p)), UpOf(a, q), <<Event(p.msg)>>)
           /\ UpOf(a, q) \in Seq(Occurrences) /\ <<Event(p.msg)>> \in Seq(Occurrences)
  <1>1. PushFront(q, p) \in Seq(Packets)
    BY QueueTypes
  <1>2. /\ UpOf(a, q) = Map(PacketEvent, Of(a, q)) /\ UpOf(a, q) \in Seq(Occurrences)
        /\ UpOf(a, PushFront(q, p)) = Map(PacketEvent, Of(a, PushFront(q, p)))
    BY <1>1, UpIsMap
  <1>3. Joined(Map(PacketEvent, Of(a, PushFront(q, p))), Map(PacketEvent, Of(a, q)),
               OneOf(PacketEvent, a, p))
    BY EventTypes, MapPush
  <1>4. OneOf(PacketEvent, a, p) = IF p.pid = a THEN <<Event(p.msg)>> ELSE <<>>
    BY DEF OneOf, PacketEvent
  <1>5. Joined(UpOf(a, PushFront(q, p)), UpOf(a, q), OneOf(PacketEvent, a, p))
    BY <1>2, <1>3
  <1>6. ASSUME p.pid # a PROVE UpOf(a, PushFront(q, p)) = UpOf(a, q)
    <2>1. Joined(UpOf(a, q), UpOf(a, q), <<>>)
      BY <1>2, JoinedOne
    <2>2. Joined(UpOf(a, PushFront(q, p)), UpOf(a, q), <<>>)
      BY <1>4, <1>5, <1>6
    <2> QED
      BY <2>1, <2>2 DEF Joined
  <1>7. <<Event(p.msg)>> \in Seq(Occurrences)
    <2>1. Event(p.msg) \in Occurrences
      BY DEF Packets, Message, Occurrences
    <2>2. \A e \in Occurrences : <<e>> \in Seq(Occurrences)
      OBVIOUS
    <2> QED
      BY <2>1, <2>2
  <1> QED
    BY <1>2, <1>4, <1>5, <1>6, <1>7

\* ... and the first of them is taken.
LEMMA UpTake ==
    ASSUME NEW q \in Seq(Packets), q # <<>>, NEW a
    PROVE  /\ Last(q).pid # a => UpOf(a, q) = UpOf(a, Front(q))
           /\ Last(q).pid = a => Joined(UpOf(a, q), <<Event(Last(q).msg)>>, UpOf(a, Front(q)))
           /\ UpOf(a, Front(q)) \in Seq(Occurrences)
  <1>1. Front(q) \in Seq(Packets) /\ Last(q) \in Packets
    BY QueueTypes
  <1>2. /\ UpOf(a, q) = Map(PacketEvent, Of(a, q)) /\ UpOf(a, Front(q)) \in Seq(Occurrences)
        /\ UpOf(a, Front(q)) = Map(PacketEvent, Of(a, Front(q)))
    BY <1>1, UpIsMap
  <1>3. Joined(Map(PacketEvent, Of(a, q)), OneOf(PacketEvent, a, Last(q)),
               Map(PacketEvent, Of(a, Front(q))))
    BY EventTypes, MapTake
  <1>4. OneOf(PacketEvent, a, Last(q)) =
          IF Last(q).pid = a THEN <<Event(Last(q).msg)>> ELSE <<>>
    BY <1>1 DEF OneOf, PacketEvent
  <1>5. Joined(UpOf(a, q), OneOf(PacketEvent, a, Last(q)), UpOf(a, Front(q)))
    BY <1>2, <1>3
  <1>6. ASSUME Last(q).pid # a PROVE UpOf(a, q) = UpOf(a, Front(q))
    <2>1. Joined(UpOf(a, Front(q)), <<>>, UpOf(a, Front(q)))
      BY <1>2, JoinedOne
    <2>2. Joined(UpOf(a, q), <<>>, UpOf(a, Front(q)))
      BY <1>4, <1>5, <1>6
    <2> QED
      BY <2>1, <2>2 DEF Joined
  <1> QED
    BY <1>2, <1>4, <1>5, <1>6

\* getEvent() takes the first message of the socket.
LEMMA FlowGet ==
    ASSUME NEW a, NEW t, NEW g \in Seq(Occurrences), NEW rc \in Seq(Message), rc # <<>>,
           NEW q, NEW x, Flow(a, t, g, rc, q, x)
    PROVE  Flow(a, t, Append(g, Event(Head(rc))), Tail(rc), q, x)
  <1> DEFINE e == Event(Head(rc))
             old == Events(rc)
             new == Events(Tail(rc))
             one == <<e>>
             h == Append(g, e)
             w == h \o new
  <1>1. /\ Joined(rc, <<Head(rc)>>, Tail(rc)) /\ <<Head(rc)>> \in Seq(Message)
        /\ Head(rc) \in Message /\ Tail(rc) \in Seq(Message)
    BY JoinedHead
  <1>2. /\ Joined(Map(AsEvent, rc), Map(AsEvent, <<Head(rc)>>), Map(AsEvent, Tail(rc)))
        /\ Map(AsEvent, Tail(rc)) \in Seq(Occurrences)
    BY <1>1, EventTypes, MapJoined
  <1>3. Map(AsEvent, <<Head(rc)>>) = <<e>> /\ e \in Occurrences
    <2>1. AsEvent[Head(rc)] = e /\ AsEvent[Head(rc)] \in Occurrences
      BY <1>1, EventTypes DEF AsEvent
    <2> QED
      BY <2>1, MapOne
  <1>4. old = Map(AsEvent, rc) /\ new = Map(AsEvent, Tail(rc))
    BY <1>1, EventsIsMap
  <1>5. Joined(old, one, new) /\ new \in Seq(Occurrences)
    BY <1>2, <1>3, <1>4
  <1> HIDE DEF e, old, new, h
  <1>6. Joined(h, g, one) /\ one \in Seq(Occurrences)
    BY <1>3, JoinedOne DEF h
  <1> HIDE DEF one
  <1>7. Joined(w, h, new)
    BY DEF Joined
  <1> HIDE DEF w
  <1>8. Joined(w, g, old)
    BY <1>5, <1>6, <1>7, JoinedAgain
  <1>9. g \o old = h \o new
    BY <1>7, <1>8 DEF Joined
  <1> QED
    BY <1>9 DEF Flow, old, new, h, e

\* The socket takes the first packet of the queue.
LEMMA FlowTake ==
    ASSUME NEW a, NEW t, NEW g \in Seq(Occurrences), NEW rc \in Seq(Message),
           NEW q \in Seq(Packets), q # <<>>, Last(q).pid = a, NEW x \in Seq(Occurrences),
           Flow(a, t, g, rc, q, x)
    PROVE  Flow(a, t, g, Append(rc, Last(q).msg), Front(q), x)
  <1> DEFINE m == Last(q).msg
             e == Event(m)
             old == Events(rc)
             new == Events(Append(rc, m))
             one == <<e>>
             c == g \o old
             w == c \o one
  <1>1. Last(q) \in Packets
    BY QueueTypes
  <1>2. m \in Message
    BY <1>1 DEF Packets
  <1>3. Joined(UpOf(a, q), one, UpOf(a, Front(q))) /\ UpOf(a, Front(q)) \in Seq(Occurrences)
    BY UpTake
  <1> HIDE DEF m
  <1>4. Joined(Append(rc, m), rc, <<m>>) /\ <<m>> \in Seq(Message)
    BY <1>2, JoinedOne
  <1>5. /\ Joined(Map(AsEvent, Append(rc, m)), Map(AsEvent, rc), Map(AsEvent, <<m>>))
        /\ Map(AsEvent, rc) \in Seq(Occurrences)
    BY <1>4, EventTypes, MapJoined
  <1>6. Append(rc, m) \in Seq(Message)
    BY <1>2, AppendProperties
  <1>7. old = Map(AsEvent, rc) /\ new = Map(AsEvent, Append(rc, m))
    BY <1>6, EventsIsMap
  <1>8. Map(AsEvent, <<m>>) = <<e>> /\ e \in Occurrences
    <2>1. AsEvent[m] = e /\ AsEvent[m] \in Occurrences
      BY <1>2, EventTypes DEF AsEvent
    <2> QED
      BY <2>1, MapOne
  <1>9. Joined(new, old, one) /\ old \in Seq(Occurrences)
    BY <1>5, <1>7, <1>8
  <1> HIDE DEF e, old, new
  <1>10. one \in Seq(Occurrences)
    BY <1>8
  <1>11. Joined(c, g, old) /\ Joined(w, c, one)
    BY DEF Joined
  <1>12. Chain(t, c, UpOf(a, q), x)
    BY DEF Flow, old
  <1> HIDE DEF one, c, w
  <1>13. Joined(w, g, new) /\ c \in Seq(Occurrences)
    BY <1>9, <1>10, <1>11, JoinedAgain
  <1>14. Chain(t, w, UpOf(a, Front(q)), x)
    BY <1>3, <1>10, <1>11, <1>12, <1>13, ChainFirst
  <1>15. w = g \o new
    BY <1>13 DEF Joined
  <1> QED
    BY <1>14, <1>15 DEF Flow, new, m

\* A packet goes from LocalProxy's hands into the queue.
LEMMA FlowPush ==
    ASSUME NEW a, NEW t, NEW g \in Seq(Occurrences), NEW rc \in Seq(Message),
           NEW q \in Seq(Packets), NEW p \in Packets, p.pid = a,
           Flow(a, t, g, rc, q, <<Event(p.msg)>>)
    PROVE  Flow(a, t, g, rc, PushFront(q, p), <<>>)
  <1> DEFINE x == <<Event(p.msg)>>
             old == Events(rc)
             c == g \o old
  <1>1. /\ Joined(UpOf(a, PushFront(q, p)), UpOf(a, q), x)
        /\ UpOf(a, q) \in Seq(Occurrences) /\ x \in Seq(Occurrences)
    BY UpPush
  <1>2. old \in Seq(Occurrences)
    BY EventsIsMap
  <1>3. Joined(c, g, old)
    BY DEF Joined
  <1>4. Chain(t, c, UpOf(a, q), x)
    BY DEF Flow
  <1> HIDE DEF x, old, c
  <1>5. c \in Seq(Occurrences)
    BY <1>2, <1>3, JoinedParts
  <1>6. Joined(x, x, <<>>) /\ <<>> \in Seq(Occurrences)
    BY <1>1, JoinedOne
  <1>7. Chain(t, c, UpOf(a, PushFront(q, p)), <<>>)
    BY <1>1, <1>4, <1>5, <1>6, ChainSecond
  <1> QED
    BY <1>7 DEF Flow, c, old

\* LocalProxy has an event for the application.
LEMMA FlowTell ==
    ASSUME NEW a, NEW t \in Seq(Occurrences), NEW g \in Seq(Occurrences),
           NEW rc \in Seq(Message), NEW q \in Seq(Packets), NEW e \in Occurrences,
           Flow(a, t, g, rc, q, <<>>)
    PROVE  Flow(a, Append(t, e), g, rc, q, <<e>>)
  <1> DEFINE old == Events(rc)
             c == g \o old
  <1>1. old \in Seq(Occurrences) /\ UpOf(a, q) \in Seq(Occurrences)
    BY EventsIsMap, UpIsMap
  <1>2. Joined(c, g, old)
    BY DEF Joined
  <1>3. Chain(t, c, UpOf(a, q), <<>>)
    BY DEF Flow
  <1> HIDE DEF old, c
  <1>4. c \in Seq(Occurrences)
    BY <1>1, <1>2, JoinedParts
  <1>5. Joined(Append(t, e), t, <<e>>) /\ <<e>> \in Seq(Occurrences) /\ <<>> \in Seq(Occurrences)
    BY JoinedOne
  <1>6. Joined(<<e>>, <<>>, <<e>>)
    BY <1>5, JoinedOne
  <1>7. Chain(Append(t, e), c, UpOf(a, q), <<e>>)
    BY <1>1, <1>3, <1>4, <1>5, <1>6, ChainEnd
  <1> QED
    BY <1>7 DEF Flow, c, old

\* An application that was told nothing has nothing in the queue.
LEMMA FlowEmpty ==
    ASSUME NEW a, NEW g \in Seq(Occurrences), NEW rc \in Seq(Message),
           NEW q \in Seq(Packets), q # <<>>, NEW x \in Seq(Occurrences),
           Flow(a, <<>>, g, rc, q, x)
    PROVE  Last(q).pid # a
  <1> SUFFICES ASSUME Last(q).pid = a PROVE FALSE
    OBVIOUS
  <1> DEFINE old == Events(rc)
             c == g \o old
             one == <<Event(Last(q).msg)>>
  <1>1. old \in Seq(Occurrences) /\ UpOf(a, q) \in Seq(Occurrences)
    BY EventsIsMap, UpIsMap
  <1>2. Joined(c, g, old)
    BY DEF Joined
  <1>3. Chain(<<>>, c, UpOf(a, q), x)
    BY DEF Flow
  <1>4. Joined(UpOf(a, q), one, UpOf(a, Front(q))) /\ UpOf(a, Front(q)) \in Seq(Occurrences)
    BY UpTake
  <1>5. one \in Seq(Occurrences)
    <2>1. Last(q) \in Packets
      BY QueueTypes
    <2> QED
      BY <2>1, UpPush
  <1>6. Len(one) = 1
    OBVIOUS
  <1> HIDE DEF old, c, one
  <1>7. c \in Seq(Occurrences)
    BY <1>1, <1>2, JoinedParts
  <1>8. UpOf(a, q) = <<>>
    BY <1>1, <1>3, <1>7, ChainEmpty
  <1>9. Len(UpOf(a, q)) = Len(one) + Len(UpOf(a, Front(q))) /\ Len(UpOf(a, Front(q))) \in Nat
    BY <1>4, <1>5, JoinedParts
  <1>10. Len(<<>>) = 0
    OBVIOUS
  <1> QED
    BY <1>6, <1>8, <1>9, <1>10

\* The events of an application are on their way, in order.
Flows(a) == Flow(a, told[a], got[a], received[a], up, PushedOf(a, from.pc, pushing))

(* EventsAreKept is not inductive as it stands: that no event is lost in   *)
(* user space needs that nothing was told to an application without a      *)
(* socket, whose packets sendmsg() would drop.                             *)
KeptFor(a) ==
  /\ sock[a] = "none" => asked[a] = <<>> /\ told[a] = <<>> /\ lost[a] = 0
  /\ sock[a] # "closed" /\ lost[a] = 0 => Flows(a)
  /\ sock[a] # "closed" /\ ~Kernel => lost[a] = 0
Kept == \A a \in App : KeptFor(a)

\* Types of what one application has.
LEMMA FlowsTypes ==
    ASSUME Shape, NEW a \in App
    PROVE  /\ told[a] \in Seq(Occurrences) /\ got[a] \in Seq(Occurrences)
           /\ received[a] \in Seq(Message) /\ up \in Seq(Packets) /\ lost[a] \in Nat
           /\ PushedOf(a, from.pc, pushing) \in Seq(Occurrences)
  <1>1. /\ told[a] \in Seq(Occurrences) /\ got[a] \in Seq(Occurrences)
        /\ received[a] \in Seq(Message) /\ up \in Seq(Packets) /\ lost[a] \in Nat
        /\ pushing \in Seq(Packets) /\ (from.pc = "push" => pushing # <<>>)
    BY DEF Shape, Types, Tasks
  <1>2. CASE from.pc = "push" /\ pushing[1].pid = a
    <2>1. pushing[1] \in Packets
      BY <1>1, <1>2
    <2>2. <<Event(pushing[1].msg)>> \in Seq(Occurrences)
      BY <1>1, <2>1, UpPush
    <2> QED
      BY <1>1, <1>2, <2>2 DEF PushedOf
  <1>3. CASE ~(from.pc = "push" /\ pushing[1].pid = a)
    <2>1. <<>> \in Seq(Occurrences)
      OBVIOUS
    <2> QED
      BY <1>1, <1>3, <2>1 DEF PushedOf
  <1> QED
    BY <1>2, <1>3

\* A step that leaves the events of an application alone.
LEMMA KeptSame ==
    ASSUME NEW b \in App, KeptFor(b), mode' = mode, sock'[b] = sock[b],
           asked'[b] = asked[b] \/ sock[b] # "none",
           told'[b] = told[b], got'[b] = got[b], received'[b] = received[b], lost'[b] = lost[b],
           UpOf(b, up') = UpOf(b, up),
           PushedOf(b, from.pc, pushing)' = PushedOf(b, from.pc, pushing)
    PROVE  KeptFor(b)'
  <1>1. Flows(b) => Flows(b)'
    BY DEF Flows, Flow
  <1> QED
    BY <1>1 DEF KeptFor, Kernel

\* What the applications do.
LEMMA KeptApps ==
    ASSUME Shape, Kept, NEW a \in App,
           Instance(a) \/ Call(a) \/ nl_callback(a) \/ Sendmsg(a) \/ GetEvent(a)
    PROVE  Kept'
  <1> SUFFICES ASSUME NEW b \in App PROVE KeptFor(b)'
    BY DEF Kept
  <1>0. KeptFor(b)
    BY DEF Kept
  <1>1. CASE Instance(a)
    <2>1. /\ UNCHANGED <<mode, asked, told, got, received, lost, up, from, pushing>>
          /\ sock[a] = "none"
          /\ sock' = [sock EXCEPT ![a] = "open"] /\ sock \in [App -> {"none", "open", "closed"}]
      BY <1>1 DEF Instance, node, history, Shape, Types
    <2>2. CASE b # a
      <3>1. sock'[b] = sock[b]
        BY <2>1, <2>2
      <3> QED
        BY <1>0, <2>1, <3>1, KeptSame
    <2>3. CASE b = a
      <3>1. sock'[b] = "open" /\ sock[b] = "none" /\ lost'[b] = 0
        BY <1>0, <2>1, <2>3 DEF KeptFor
      <3>2. Flows(b) /\ Flows(b)' = Flows(b)
        BY <1>0, <2>1, <3>1 DEF KeptFor, Flows
      <3> QED
        BY <3>1, <3>2 DEF KeptFor
    <2> QED
      BY <2>2, <2>3
  <1>2. CASE Call(a)
    <2>1. /\ UNCHANGED <<mode, sock, told, got, received, lost, up, from, pushing>>
          /\ sock[a] # "none"
          /\ asked' = asked \/ \E r : asked' = [asked EXCEPT ![a] = r]
      BY <1>2 DEF Call, node
    <2>2. asked'[b] = asked[b] \/ sock[b] # "none"
      BY <2>1 DEF Shape, Types
    <2> QED
      BY <1>0, <2>1, <2>2, KeptSame
  <1>3. CASE nl_callback(a) \/ Sendmsg(a)
    <2>1. /\ UNCHANGED <<mode, asked, told, got, lost, up, pushing>> /\ Returns(a)
          /\ from'.pc = from.pc
      BY <1>3 DEF nl_callback, Sendmsg, history, Woken, Shape, Tasks, TaskType
    <2>2. \/ sock'[b] = "closed"
          \/ sock'[b] = sock[b] /\ received'[b] = received[b]
      BY <2>1 DEF Returns, Shape, Types
    <2>3. CASE sock'[b] = "closed"
      BY <2>3 DEF KeptFor
    <2>4. CASE sock'[b] = sock[b] /\ received'[b] = received[b]
      BY <1>0, <2>1, <2>4, KeptSame
    <2> QED
      BY <2>2, <2>3, <2>4
  <1>4. CASE GetEvent(a)
    <2>1. /\ UNCHANGED <<mode, sock, asked, told, lost, up, from, pushing>>
          /\ sock[a] = "open" /\ received[a] # <<>>
          /\ got' = [got EXCEPT ![a] = Append(@, Event(Head(received[a])))]
          /\ received' = [received EXCEPT ![a] = Tail(@)]
      BY <1>4 DEF GetEvent, node
    <2>2. CASE b # a
      <3>1. got'[b] = got[b] /\ received'[b] = received[b]
        BY <2>1, <2>2 DEF Shape, Types
      <3> QED
        BY <1>0, <2>1, <3>1, KeptSame
    <2>3. CASE b = a
      <3>1. got'[b] = Append(got[b], Event(Head(received[b]))) /\ received'[b] = Tail(received[b])
        BY <2>1, <2>3 DEF Shape, Types
      <3>2. Flows(b) => Flows(b)'
        <4>1. got[b] \in Seq(Occurrences) /\ received[b] \in Seq(Message) /\ received[b] # <<>>
          BY <2>1, <2>3, FlowsTypes
        <4>2. ASSUME NEW t, NEW q, NEW x, Flow(b, t, got[b], received[b], q, x)
              PROVE  Flow(b, t, got'[b], received'[b], q, x)
          BY <3>1, <4>1, <4>2, FlowGet
        <4> QED
          BY <2>1, <4>2 DEF Flows
      <3> QED
        BY <1>0, <2>1, <2>3, <3>2 DEF KeptFor, Kernel
    <2> QED
      BY <2>2, <2>3
  <1> QED
    BY <1>1, <1>2, <1>3, <1>4

\* LocalProxy tells only applications that have made a request.
LEMMA ToldHaveAsked ==
    ASSUME Shape, Carried, Kept, down # <<>>, down' = Front(down), UNCHANGED <<asked, calling>>,
           read' = Reads(Last(down)), NEW b \in Known(Reads(Last(down)))
    PROVE  b \in App /\ sock[b] # "none"
  <1>1. b \in App /\ read'[b] # <<>>
    BY DEF Known
  <1>2. Carried'
    BY CarriedRead DEF Shape
  <1>3. Chain(asked[b], read'[b], Read(b, down'), InTransit(b)')
    BY <1>1, <1>2 DEF Carried
  <1>4. down' \in Seq(Letters) /\ Last(down) \in Letters
    BY QueueTypes DEF Shape, Types
  <1>5. read'[b] \in Seq(Request)
    <2>1. <<>> \in Answers(Last(down))
      BY DEF Answers
    <2>2. Reads(Last(down)) \in [App -> Seq(Request)]
      BY <1>4, <2>1, AnswersType DEF Shape
    <2> QED
      BY <1>1, <2>2
  <1>6. Read(b, down') \in Seq(Request)
    BY <1>4, ReadPush
  <1>7. InTransit(b)' \in Seq(Request)
    <2>1. calling'[b] \in Seq(Written)
      BY <1>1 DEF Shape, Types
    <2>2. \A k \in 1 .. Len(calling'[b]) : Decode(calling'[b][k]) \in Request
      BY <2>1, WrittenIsRead
    <2>3. InTransit(b)' = [k \in 1 .. Len(calling'[b]) |-> Decode(calling'[b][k])]
      BY <2>1 DEF InTransit
    <2> QED
      BY <2>1, <2>2, <2>3
  <1>8. asked[b] # <<>>
    <2> SUFFICES ASSUME asked[b] = <<>> PROVE FALSE
      OBVIOUS
    <2>1. Chain(<<>>, read'[b], Read(b, down'), InTransit(b)')
      BY <1>3
    <2>2. read'[b] = <<>>
      BY <1>5, <1>6, <1>7, <2>1, ChainEmpty
    <2> QED
      BY <1>1, <2>2
  <1> QED
    BY <1>1, <1>8 DEF Kept, KeptFor

\* LocalProxy reads a request, and may have an event for an application.
LEMMA KeptTell ==
    ASSUME Shape, Carried, Kept, FromDrain \/ FromSelected
    PROVE  Kept'
  <1>1. /\ down # <<>> /\ down' = Front(down)
        /\ UNCHANGED <<mode, sock, calling, received>>
    BY DEF FromDrain, FromSelected
  <1>2. PICK answer \in Answers(Last(down)) :
          /\ Handle(Last(down), answer)
          /\ \/ /\ pushing' = answer /\ up' = up /\ from.pc = "drain"
                /\ from' = [from EXCEPT !.pc = IF answer = <<>> THEN "drain" ELSE "push"]
             \/ /\ up' = IF answer = <<>> THEN up ELSE PushFront(up, answer[1])
                /\ UNCHANGED <<from, pushing>> /\ ~Kernel
    BY DEF FromDrain, FromSelected
  <1>3. UNCHANGED <<asked, got, lost>> /\ read' = Reads(Last(down))
    BY <1>2 DEF Handle
  <1>4. Last(down) \in Letters
    BY <1>1, QueueTypes DEF Shape, Types
  <1>5. answer # <<>> => /\ answer[1] \in Packets /\ answer[1].pid \in Known(Reads(Last(down)))
                         /\ Event(answer[1].msg) \in Occurrences
    BY <1>4, AnswersType DEF Shape
  <1> SUFFICES ASSUME NEW b \in App PROVE KeptFor(b)'
    BY DEF Kept
  <1>6. KeptFor(b)
    BY DEF Kept
  <1>7. PushedOf(b, from.pc, pushing) = <<>>
    BY <1>2 DEF PushedOf, Shape, Tasks, Idle
  <1>8. /\ told[b] \in Seq(Occurrences) /\ got[b] \in Seq(Occurrences)
        /\ received[b] \in Seq(Message) /\ up \in Seq(Packets)
    BY FlowsTypes
  <1>9. CASE answer = <<>> \/ answer[1].pid # b
    <2>1. told'[b] = told[b]
      <3>1. CASE answer = <<>>
        BY <1>2, <3>1 DEF Handle
      <3>2. CASE answer # <<>> /\ answer[1].pid # b
        BY <1>2, <3>2 DEF Handle, Shape, Types
      <3> QED
        BY <1>9, <3>1, <3>2
    <2>2. PushedOf(b, from.pc, pushing)' = <<>>
      <3>1. CASE from' = [from EXCEPT !.pc = IF answer = <<>> THEN "drain" ELSE "push"]
                 /\ pushing' = answer
        <4>1. from'.pc = IF answer = <<>> THEN "drain" ELSE "push"
          BY <3>1 DEF Shape, Tasks, TaskType
        <4> QED
          BY <1>9, <3>1, <4>1 DEF PushedOf
      <3>2. CASE UNCHANGED <<from, pushing>>
        BY <1>7, <3>2 DEF PushedOf
      <3> QED
        BY <1>2, <3>1, <3>2
    <2>3. UpOf(b, up') = UpOf(b, up)
      <3>1. answer # <<>> => UpOf(b, PushFront(up, answer[1])) = UpOf(b, up)
        BY <1>5, <1>8, <1>9, UpPush
      <3> QED
        BY <1>2, <3>1
    <2> QED
      BY <1>1, <1>3, <1>6, <1>7, <2>1, <2>2, <2>3, KeptSame
  <1>10. CASE answer # <<>> /\ answer[1].pid = b
    <2> DEFINE p == answer[1]
               e == Event(p.msg)
    <2>1. p \in Packets /\ p.pid = b /\ e \in Occurrences
      BY <1>5, <1>10
    <2>2. sock[b] # "none"
      BY <1>1, <1>3, <1>5, <1>10, ToldHaveAsked
    <2>3. told'[b] = Append(told[b], e)
      BY <1>2, <1>10 DEF Handle, Shape, Types
    <2>4. \/ up' = up /\ PushedOf(b, from.pc, pushing)' = <<e>>
          \/ up' = PushFront(up, p) /\ PushedOf(b, from.pc, pushing)' = <<>>
      <3>1. CASE from' = [from EXCEPT !.pc = IF answer = <<>> THEN "drain" ELSE "push"]
                 /\ pushing' = answer /\ up' = up
        <4>1. from'.pc = "push"
          BY <1>10, <3>1 DEF Shape, Tasks, TaskType
        <4> QED
          BY <1>10, <3>1, <4>1 DEF PushedOf
      <3>2. CASE UNCHANGED <<from, pushing>>
                 /\ up' = IF answer = <<>> THEN up ELSE PushFront(up, answer[1])
        BY <1>7, <1>10, <3>2 DEF PushedOf
      <3> QED
        BY <1>2, <3>1, <3>2
    <2>5. ASSUME Flows(b) PROVE Flows(b)'
      <3>1. Flow(b, told[b], got[b], received[b], up, <<>>)
        BY <1>7, <2>5 DEF Flows
      <3> HIDE DEF e, p
      <3>2. Flow(b, told'[b], got[b], received[b], up, <<e>>)
        BY <1>8, <2>1, <2>3, <3>1, FlowTell
      <3>3. Flow(b, told'[b], got[b], received[b], PushFront(up, p), <<>>)
        <4>1. Flow(b, told'[b], got[b], received[b], up, <<Event(p.msg)>>)
          BY <3>2 DEF e
        <4> QED
          BY <1>8, <2>1, <4>1, FlowPush
      <3>4. got'[b] = got[b] /\ received'[b] = received[b]
        BY <1>1, <1>3
      <3>5. CASE up' = up /\ PushedOf(b, from.pc, pushing)' = <<e>>
        BY <3>2, <3>4, <3>5 DEF Flows
      <3>6. CASE up' = PushFront(up, p) /\ PushedOf(b, from.pc, pushing)' = <<>>
        BY <3>3, <3>4, <3>6 DEF Flows
      <3> QED
        BY <2>4, <3>5, <3>6
    <2> QED
      BY <1>1, <1>3, <1>6, <2>2, <2>5 DEF KeptFor, Kernel
  <1> QED
    BY <1>9, <1>10

\* ToNetlink::push() puts a packet into up_queue.
LEMMA KeptPush ==
    ASSUME Shape, Kept, PushLocked
    PROVE  Kept'
  <1> DEFINE p == pushing[1]
  <1>1. /\ from.pc = "push" /\ up' = PushFront(up, p) /\ from' = [from EXCEPT !.pc = "wake"]
        /\ UNCHANGED <<mode, sock, received, asked, told, got, lost>>
    BY DEF PushLocked, history
  <1>2. p \in Packets
    <2>1. pushing # <<>> /\ pushing \in Seq(Packets)
      BY <1>1 DEF Shape, Tasks, Types
    <2> QED
      BY <2>1
  <1>3. from'.pc = "wake"
    BY <1>1 DEF Shape, Tasks, TaskType
  <1> SUFFICES ASSUME NEW b \in App PROVE KeptFor(b)'
    BY DEF Kept
  <1>4. KeptFor(b)
    BY DEF Kept
  <1>5. PushedOf(b, from.pc, pushing)' = <<>>
    BY <1>3 DEF PushedOf
  <1>6. got[b] \in Seq(Occurrences) /\ received[b] \in Seq(Message) /\ up \in Seq(Packets)
    BY FlowsTypes
  <1>7. CASE p.pid # b
    <2>1. PushedOf(b, from.pc, pushing) = <<>>
      BY <1>7 DEF PushedOf
    <2>2. UpOf(b, up') = UpOf(b, up)
      BY <1>1, <1>2, <1>6, <1>7, UpPush
    <2> QED
      BY <1>1, <1>4, <1>5, <2>1, <2>2, KeptSame
  <1>8. CASE p.pid = b
    <2>1. PushedOf(b, from.pc, pushing) = <<Event(p.msg)>>
      BY <1>1, <1>8 DEF PushedOf
    <2>2. ASSUME Flows(b) PROVE Flows(b)'
      <3>1. Flow(b, told[b], got[b], received[b], up, <<Event(p.msg)>>)
        BY <2>1, <2>2 DEF Flows
      <3> HIDE DEF p
      <3>2. Flow(b, told[b], got[b], received[b], PushFront(up, p), <<>>)
        BY <1>2, <1>6, <1>8, <3>1, FlowPush
      <3> QED
        BY <1>1, <1>5, <3>2 DEF Flows
    <2> QED
      BY <1>1, <1>4, <2>2 DEF KeptFor, Kernel
  <1> QED
    BY <1>7, <1>8

\* A packet reaches its socket or is gone.
LEMMA KeptDeliver ==
    ASSUME Shape, Kept, up # <<>>, up' = Front(up), Deliver(Last(up)),
           Kernel \/ CanReturn(Last(up)),
           UNCHANGED <<mode, sock, from, pushing, asked, told, got>>
    PROVE  Kept'
  <1> DEFINE p == Last(up)
  <1>1. p \in Packets /\ up \in Seq(Packets)
    BY QueueTypes DEF Shape, Types
  <1>2. p.pid \in App
    BY <1>1 DEF Packets
  <1> SUFFICES ASSUME NEW b \in App PROVE KeptFor(b)'
    BY DEF Kept
  <1>3. KeptFor(b)
    BY DEF Kept
  <1>4. PushedOf(b, from.pc, pushing)' = PushedOf(b, from.pc, pushing)
    BY DEF PushedOf
  <1>5. /\ got[b] \in Seq(Occurrences) /\ received[b] \in Seq(Message) /\ lost[b] \in Nat
        /\ PushedOf(b, from.pc, pushing) \in Seq(Occurrences)
    BY FlowsTypes
  <1>6. CASE p.pid # b
    <2>1. UpOf(b, up') = UpOf(b, up)
      BY <1>1, <1>6, UpTake
    <2>2. received'[b] = received[b] /\ lost'[b] = lost[b]
      BY <1>2, <1>6 DEF Deliver, Shape, Types
    <2> QED
      BY <1>3, <1>4, <2>1, <2>2, KeptSame
  <1>7. CASE p.pid = b /\ sock[b] = "none"
    <2>1. told[b] = <<>> /\ Flows(b)
      BY <1>3, <1>7 DEF KeptFor
    <2>2. Flow(b, <<>>, got[b], received[b], up, PushedOf(b, from.pc, pushing))
      BY <2>1 DEF Flows
    <2>3. Last(up).pid # b
      BY <1>1, <1>5, <2>2, FlowEmpty
    <2> QED
      BY <1>7, <2>3
  <1>8. CASE sock[b] = "closed"
    BY <1>8 DEF KeptFor
  <1>9. CASE p.pid = b /\ sock[b] = "open"
    <2>1. CASE Takes(p)
      <3>1. received'[b] = Append(received[b], p.msg) /\ lost'[b] = lost[b]
        BY <1>9, <2>1 DEF Deliver, Shape, Types
      <3>2. ASSUME Flows(b) PROVE Flows(b)'
        <4>1. Flow(b, told[b], got[b], received[b], up, PushedOf(b, from.pc, pushing))
          BY <3>2 DEF Flows
        <4>2. Flow(b, told[b], got[b], Append(received[b], Last(up).msg), Front(up),
                   PushedOf(b, from.pc, pushing))
          BY <1>1, <1>5, <1>9, <4>1, FlowTake
        <4> QED
          BY <1>4, <3>1, <4>2 DEF Flows
      <3> QED
        BY <1>3, <1>9, <3>1, <3>2 DEF KeptFor, Kernel
    <2>2. CASE ~Takes(p)
      <3>1. Kernel
        BY <1>9, <2>2 DEF CanReturn
      <3>2. lost'[b] = lost[b] + 1
        BY <1>9, <2>2 DEF Deliver, Shape, Types
      <3>3. lost'[b] # 0
        BY <1>5, <3>2
      <3> QED
        BY <1>9, <3>1, <3>3 DEF KeptFor, Kernel
    <2> QED
      BY <2>1, <2>2
  <1>10. sock[b] \in {"none", "open", "closed"}
    BY DEF Shape, Types
  <1> QED
    BY <1>6, <1>7, <1>8, <1>9, <1>10

\* Every step keeps the events.
LEMMA KeptStep ==
    ASSUME Shape, Carried, Kept, [Next]_vars
    PROVE  Kept'
  <1>1. ASSUME UNCHANGED <<mode, sock, asked, told, got, received, lost, up, pushing>>,
               from'.pc = "push" <=> from.pc = "push"
        PROVE  Kept'
    <2> SUFFICES ASSUME NEW b \in App PROVE KeptFor(b)'
      BY DEF Kept
    <2>1. PushedOf(b, from.pc, pushing)' = PushedOf(b, from.pc, pushing)
      BY <1>1 DEF PushedOf
    <2> QED
      BY <1>1, <2>1, KeptSame DEF Kept
  <1>2. ASSUME NEW a \in App,
               Instance(a) \/ Call(a) \/ nl_callback(a) \/ Sendmsg(a) \/ GetEvent(a)
        PROVE  Kept'
    BY <1>2, KeptApps
  <1>3. CASE FromDrain \/ FromSelected
    BY <1>3, KeptTell
  <1>4. CASE PushLocked
    BY <1>4, KeptPush
  <1>5. CASE ToDrain
    <2>1. Kernel
      BY <1>5 DEF ToDrain, Shape, Tasks
    <2> QED
      BY <1>5, <2>1, KeptDeliver DEF ToDrain
  <1>6. CASE Sent
    <2>1. up # <<>>
      BY <1>6 DEF Sent, Shape, Tasks, NoLostWakeup
    <2> QED
      BY <1>6, <2>1, KeptDeliver DEF Sent
  <1>7. CASE FromRun \/ FromClear \/ FromLock \/ FromEnd \/ PushWakes \/ PushMarks
    <2>1. from.pc # "push" /\ from'.pc # "push"
      BY <1>7 DEF FromRun, FromClear, FromLock, FromEnd, PushWakes, PushMarks, Shape, Tasks, TaskType
    <2>2. UNCHANGED <<mode, sock, asked, told, got, received, lost, up, pushing>>
      BY <1>7 DEF FromRun, FromClear, FromLock, FromEnd, PushWakes, PushMarks, history
    <2> QED
      BY <1>1, <2>1, <2>2
  <1>8. CASE ToRun \/ ToClear \/ ToLock \/ ToUnlock \/ ToTest \/ ToSelected
    BY <1>1, <1>8 DEF ToRun, ToClear, ToLock, ToUnlock, ToTest, ToSelected, history
  <1>9. CASE UNCHANGED vars
    BY <1>1, <1>9 DEF vars, node, history
  <1> QED
    BY <1>2, <1>3, <1>4, <1>5, <1>6, <1>7, <1>8, <1>9 DEF Next, FromTask, ToTask

\* No event has been told in the first state.
LEMMA KeptInit ==
    ASSUME Init
    PROVE  Kept
  <1> SUFFICES ASSUME NEW a \in App PROVE KeptFor(a)
    BY DEF Kept
  <1>1. /\ sock[a] = "none" /\ asked[a] = <<>> /\ told[a] = <<>> /\ lost[a] = 0 /\ got[a] = <<>>
        /\ received[a] = <<>> /\ up = <<>> /\ from.pc = "idle"
    BY DEF Init, Idle
  <1>2. <<>> \in Seq(Packets)
    OBVIOUS
  <1>3. Of(a, <<>>) = <<>>
    BY <1>2, OfType
  <1>4. Events(<<>>) = <<>> /\ UpOf(a, <<>>) = <<>>
    BY <1>3 DEF Events, UpOf
  <1>5. PushedOf(a, from.pc, pushing) = <<>>
    BY <1>1 DEF PushedOf
  <1>6. Chain(<<>>, <<>> \o <<>>, <<>>, <<>>)
    BY DEF Chain
  <1>7. Flows(a)
    BY <1>1, <1>4, <1>5, <1>6 DEF Flows, Flow
  <1> QED
    BY <1>1, <1>7 DEF KeptFor

\* An application that is connected gets the events LocalProxy pushed for it in
\* order and without a gap unless netlink_unicast() found its socket full; in user
\* space, where sendmsg() waits, none is lost.
THEOREM EventsArrive == Spec => []EventsAreKept
  <1>1. Init => Kept
    BY KeptInit
  <1>2. Shape /\ Carried /\ Kept /\ [Next]_vars => Kept'
    BY KeptStep
  <1>3. Kept => EventsAreKept
    <2> SUFFICES ASSUME Kept, NEW a \in App
                 PROVE  /\ sock[a] = "open" /\ lost[a] = 0 =>
                             got[a] \o Events(received[a]) \o Up(a) \o Pushed(a) = told[a]
                        /\ sock[a] = "open" /\ ~Kernel => lost[a] = 0
      BY DEF EventsAreKept
    <2>1. Up(a) = UpOf(a, up) /\ Pushed(a) = PushedOf(a, from.pc, pushing)
      BY DEF Up, UpOf, Pushed, PushedOf
    <2> QED
      BY <2>1 DEF Kept, KeptFor, Flows, Flow, Chain
  <1> QED
    BY <1>1, <1>2, <1>3, ShapeAlways, CarriedAlways, PTL DEF Spec

==============================================================================
