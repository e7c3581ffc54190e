--------------------------- MODULE SequenceFacts ---------------------------
(***************************************************************************)
(* What several proofs need of numbers, sets and sequences: the least      *)
(* element and the smallest set, which stand in for induction, sequences   *)
(* mapped element by element, iteration, recursion on the subsets of a     *)
(* set, which the folds of the community modules are, and sums.            *)
(***************************************************************************)
EXTENDS Integers, Sequences, FiniteSetTheorems, SequenceTheorems, TLAPS

\* Every non-empty set of natural numbers has a least element.
LEMMA LeastElement ==
    ASSUME NEW T \in SUBSET Nat, T # {}
    PROVE  \E m \in T : \A k \in T : m <= k
  <1> DEFINE U == {0 .. n : n \in T}
             R == StrictSubsetOrdering(Nat)
  <1>1. U \subseteq FiniteSubsetsOf(Nat) /\ U # {}
    <2>1. ASSUME NEW n \in T PROVE 0 .. n \in FiniteSubsetsOf(Nat)
      <3>1. IsFiniteSet(0 .. n)
        BY FS_Interval
      <3> QED
        BY <3>1 DEF FiniteSubsetsOf
    <2> QED
      BY <2>1
  <1>2. IsWellFoundedOn(R, FiniteSubsetsOf(Nat))
    BY FS_StrictSubsetOrderingWellFounded
  <1>3. PICK I \in U : \A J \in U : ~(<<J, I>> \in R)
    <2> HIDE DEF U, R
    <2> QED BY <1>1, <1>2, WFMin
  <1>4. PICK m \in T : I = 0 .. m
    BY <1>3
  <1>5. ASSUME NEW k \in T, k < m PROVE FALSE
    <2>1. 0 .. k \in U /\ 0 .. k \subseteq 0 .. m /\ 0 .. k # 0 .. m
      BY <1>5
    <2>2. 0 .. k \in SUBSET Nat /\ 0 .. m \in SUBSET Nat
      OBVIOUS
    <2>3. <<0 .. k, 0 .. m>> \in R
      BY <2>1, <2>2 DEF StrictSubsetOrdering
    <2> QED
      BY <1>3, <1>4, <2>1, <2>3
  <1> QED
    BY <1>5

\* The sequence of what f makes of the elements of s.
Map(f, s) == [k \in DOMAIN s |-> f[s[k]]]

\* Mapping nothing, and a single element.
LEMMA MapOne ==
    ASSUME NEW f, NEW x
    PROVE  Map(f, <<>>) = <<>> /\ Map(f, <<x>>) = <<f[x]>>
  BY DEF Map

\* Taking a sequence apart at its ends.
LEMMA EndsOfSeq ==
    ASSUME NEW S, NEW s \in Seq(S), s # <<>>
    PROVE  /\ SubSeq(s, 1, Len(s) - 1) \in Seq(S) /\ s[Len(s)] \in S
           /\ Len(SubSeq(s, 1, Len(s) - 1)) = Len(s) - 1 /\ Len(s) \in Nat \ {0}
           /\ \A i \in 1 .. Len(s) - 1 : SubSeq(s, 1, Len(s) - 1)[i] = s[i]
           /\ s = <<Head(s)>> \o Tail(s) /\ Head(s) \in S /\ Tail(s) \in Seq(S)
  <1>1. Len(s) \in Nat /\ Len(s) # 0 /\ \A i \in 1 .. Len(s) : s[i] \in S
    OBVIOUS
  <1>2. \A i \in 1 .. Len(s) - 1 : s[i] \in S
    BY <1>1
  <1>3. /\ SubSeq(s, 1, Len(s) - 1) \in Seq(S)
        /\ Len(SubSeq(s, 1, Len(s) - 1)) = IF 1 <= Len(s) - 1 THEN Len(s) - 1 - 1 + 1 ELSE 0
        /\ \A i \in 1 .. Len(s) - 1 - 1 + 1 : SubSeq(s, 1, Len(s) - 1)[i] = s[1 + i - 1]
    BY <1>1, <1>2, SubSeqProperties
  <1>4. s = <<Head(s)>> \o Tail(s) /\ Head(s) \in S /\ Tail(s) \in Seq(S)
    OBVIOUS
  <1> QED
    BY <1>1, <1>3, <1>4

\* Adding an element to a sequence in parts.
LEMMA AppendConcat ==
    ASSUME NEW S, NEW s \in Seq(S), NEW t \in Seq(S), NEW x \in S
    PROVE  Append(t, x) \in Seq(S) /\ s \o Append(t, x) = Append(s \o t, x)
  <1>1. s \o t \in Seq(S) /\ <<x>> \in Seq(S) /\ Append(t, x) \in Seq(S)
    BY ConcatProperties, AppendProperties
  <1>2. Append(s \o t, x) = (s \o t) \o <<x>> /\ Append(t, x) = t \o <<x>>
    BY <1>1, AppendIsConcat
  <1>3. (s \o t) \o <<x>> = s \o (t \o <<x>>)
    BY <1>1, ConcatAssociative
  <1> QED
    BY <1>1, <1>2, <1>3

\* Sequence w is s followed by t.
Joined(w, s, t) == w = s \o t

\* A concatenation read back in parts.
LEMMA JoinedParts ==
    ASSUME NEW S, NEW s \in Seq(S), NEW t \in Seq(S), NEW w, Joined(w, s, t)
    PROVE  /\ w \in Seq(S) /\ Len(w) = Len(s) + Len(t) /\ Len(s) \in Nat /\ Len(t) \in Nat
           /\ \A i \in 1 .. Len(s) : w[i] = s[i] /\ s[i] \in S
           /\ \A i \in 1 .. Len(t) : w[Len(s) + i] = t[i] /\ t[i] \in S
           /\ SubSeq(w, Len(s) + 1, Len(w)) = t
  <1> DEFINE y == SubSeq(w, Len(s) + 1, Len(w))
  <1>1. /\ w \in Seq(S) /\ Len(w) = Len(s) + Len(t) /\ Len(s) \in Nat /\ Len(t) \in Nat
        /\ \A i \in 1 .. Len(s) + Len(t) : w[i] = IF i <= Len(s) THEN s[i] ELSE t[i - Len(s)]
    BY ConcatProperties DEF Joined
  <1>2. /\ \A i \in 1 .. Len(w) : w[i] \in S
        /\ \A i \in 1 .. Len(s) : s[i] \in S
        /\ \A i \in 1 .. Len(t) : t[i] \in S
    BY <1>1
  <1>3. \A i \in 1 .. Len(s) : w[i] = s[i]
    <2>1. \A i \in 1 .. Len(s) : i \in 1 .. Len(s) + Len(t) /\ i <= Len(s)
      BY <1>1
    <2> QED
      BY <1>1, <2>1
  <1>4. ASSUME NEW i \in 1 .. Len(t) PROVE w[Len(s) + i] = t[i]
    <2>1. /\ Len(s) + i \in 1 .. Len(s) + Len(t) /\ ~(Len(s) + i <= Len(s))
          /\ (Len(s) + i) - Len(s) = i
      BY <1>1
    <2> QED
      BY <1>1, <2>1
  <1>5. y = t
    <2>1. \A i \in Len(s) + 1 .. Len(w) : w[i] \in S
      BY <1>1, <1>2
    <2>2. /\ y \in Seq(S)
          /\ Len(y) = IF Len(s) + 1 <= Len(w) THEN Len(w) - (Len(s) + 1) + 1 ELSE 0
          /\ \A i \in 1 .. Len(w) - (Len(s) + 1) + 1 : y[i] = w[Len(s) + 1 + i - 1]
      BY <1>1, <2>1, SubSeqProperties
    <2> HIDE DEF y
    <2>3. Len(y) = Len(t)
      BY <1>1, <2>2
    <2>4. ASSUME NEW i \in 1 .. Len(t) PROVE y[i] = t[i]
      <3>1. i \in 1 .. Len(w) - (Len(s) + 1) + 1 /\ Len(s) + 1 + i - 1 = Len(s) + i
        BY <1>1
      <3> QED
        BY <1>4, <2>2, <3>1
    <2> QED
      BY <2>2, <2>3, <2>4, SeqEqual
  <1> QED
    BY <1>1, <1>2, <1>3, <1>4, <1>5

\* The part in the middle.
LEMMA JoinedMiddle ==
    ASSUME NEW S, NEW s \in Seq(S), NEW u \in Seq(S), NEW t \in Seq(S),
           NEW x, Joined(x, s, u), NEW w, Joined(w, x, t)
    PROVE  SubSeq(w, Len(s) + 1, Len(s) + Len(u)) = u
  <1> DEFINE y == SubSeq(w, Len(s) + 1, Len(s) + Len(u))
  <1>1. /\ x \in Seq(S) /\ Len(x) = Len(s) + Len(u) /\ Len(s) \in Nat /\ Len(u) \in Nat
        /\ \A i \in 1 .. Len(u) : x[Len(s) + i] = u[i] /\ u[i] \in S
    BY JoinedParts
  <1>2. \A i \in 1 .. Len(x) : w[i] = x[i] /\ w[i] \in S
    BY <1>1, JoinedParts
  <1>3. \A i \in Len(s) + 1 .. Len(s) + Len(u) : w[i] \in S
    BY <1>1, <1>2
  <1>4. /\ y \in Seq(S)
        /\ Len(y) = IF Len(s) + 1 <= Len(s) + Len(u) THEN Len(s) + Len(u) - (Len(s) + 1) + 1 ELSE 0
        /\ \A i \in 1 .. Len(s) + Len(u) - (Len(s) + 1) + 1 : y[i] = w[Len(s) + 1 + i - 1]
    BY <1>1, <1>3, SubSeqProperties
  <1> HIDE DEF y
  <1>5. Len(y) = Len(u)
    BY <1>1, <1>4
  <1>6. ASSUME NEW i \in 1 .. Len(u) PROVE y[i] = u[i]
    <2>1. /\ i \in 1 .. Len(s) + Len(u) - (Len(s) + 1) + 1
          /\ Len(s) + 1 + i - 1 = Len(s) + i /\ Len(s) + i \in 1 .. Len(x)
      BY <1>1
    <2> QED
      BY <1>1, <1>2, <1>4, <2>1
  <1>7. y = u
    BY <1>4, <1>5, <1>6, SeqEqual
  <1> QED
    BY <1>7 DEF y

\* Grouping the other way.
LEMMA JoinedAgain ==
    ASSUME NEW S, NEW s \in Seq(S), NEW u \in Seq(S), NEW t \in Seq(S),
           NEW x, Joined(x, s, u), NEW w, Joined(w, x, t), NEW v, Joined(v, u, t)
    PROVE  Joined(w, s, v) /\ v \in Seq(S) /\ x \in Seq(S) /\ w \in Seq(S)
  <1>1. v \in Seq(S) /\ x \in Seq(S)
    BY JoinedParts
  <1>2. w \in Seq(S)
    BY <1>1, JoinedParts
  <1>3. w = (s \o u) \o t /\ v = u \o t
    BY DEF Joined
  <1>4. (s \o u) \o t = s \o (u \o t)
    BY ConcatAssociative
  <1> QED
    BY <1>1, <1>2, <1>3, <1>4 DEF Joined

\* Mapping a sequence in parts.
LEMMA MapJoined ==
    ASSUME NEW S, NEW T, NEW f \in [S -> T], NEW s \in Seq(S), NEW t \in Seq(S),
           NEW w, Joined(w, s, t)
    PROVE  /\ Map(f, s) \in Seq(T) /\ Map(f, t) \in Seq(T) /\ Map(f, w) \in Seq(T)
           /\ Joined(Map(f, w), Map(f, s), Map(f, t))
  <1>1. ASSUME NEW u \in Seq(S)
        PROVE  /\ Map(f, u) \in Seq(T) /\ Len(Map(f, u)) = Len(u)
               /\ \A i \in 1 .. Len(u) : Map(f, u)[i] = f[u[i]]
    <2>1. DOMAIN u = 1 .. Len(u) /\ Len(u) \in Nat /\ \A i \in 1 .. Len(u) : u[i] \in S
      OBVIOUS
    <2>2. Map(f, u) = [i \in 1 .. Len(u) |-> f[u[i]]]
      BY <2>1 DEF Map
    <2>3. \A i \in 1 .. Len(u) : f[u[i]] \in T
      BY <2>1
    <2>4. Map(f, u) \in Seq(T)
      BY <2>1, <2>2, <2>3
    <2>5. DOMAIN Map(f, u) = 1 .. Len(u) /\ DOMAIN Map(f, u) = 1 .. Len(Map(f, u))
      BY <2>2, <2>4
    <2>6. Len(Map(f, u)) = Len(u)
      <3>1. Len(Map(f, u)) \in Nat
        BY <2>4
      <3> QED
        BY <2>1, <2>5, <3>1
    <2>7. \A i \in 1 .. Len(u) : Map(f, u)[i] = f[u[i]]
      BY <2>2
    <2> QED
      BY <2>4, <2>6, <2>7
  <1> DEFINE n == Len(s)
             whole == Map(f, w)
             parts == Map(f, s) \o Map(f, t)
  <1>2. /\ w \in Seq(S) /\ Len(w) = n + Len(t) /\ n \in Nat /\ Len(t) \in Nat
        /\ \A i \in 1 .. n + Len(t) : w[i] = IF i <= n THEN s[i] ELSE t[i - n]
    BY ConcatProperties DEF Joined
  <1>3. /\ parts \in Seq(T) /\ Len(parts) = n + Len(t)
        /\ \A i \in 1 .. n + Len(t) :
              parts[i] = IF i <= n THEN Map(f, s)[i] ELSE Map(f, t)[i - n]
    <2> DEFINE a == Map(f, s)
               b == Map(f, t)
    <2>1. a \in Seq(T) /\ b \in Seq(T) /\ Len(a) = n /\ Len(b) = Len(t)
      BY <1>1
    <2> HIDE DEF a, b, n
    <2>2. /\ a \o b \in Seq(T) /\ Len(a \o b) = Len(a) + Len(b)
          /\ \A i \in 1 .. Len(a) + Len(b) :
                (a \o b)[i] = IF i <= Len(a) THEN a[i] ELSE b[i - Len(a)]
      BY ONLY <2>1, ConcatProperties
    <2>3. /\ a \o b \in Seq(T) /\ Len(a \o b) = n + Len(t)
          /\ \A i \in 1 .. n + Len(t) : (a \o b)[i] = IF i <= n THEN a[i] ELSE b[i - n]
      BY <2>1, <2>2
    <2> QED
      BY <2>3 DEF a, b
  <1>4. whole \in Seq(T) /\ Len(whole) = n + Len(t)
    BY <1>1, <1>2
  <1>5. ASSUME NEW i \in 1 .. n + Len(t) PROVE whole[i] = parts[i]
    <2>1. whole[i] = f[w[i]]
      BY <1>1, <1>2
    <2>2. CASE i <= n
      <3>1. i \in 1 .. n
        BY <1>2, <2>2
      <3> QED
        BY <1>1, <1>2, <1>3, <2>1, <2>2, <3>1
    <2>3. CASE ~(i <= n)
      <3>1. i - n \in 1 .. Len(t)
        BY <1>2, <2>3
      <3> QED
        BY <1>1, <1>2, <1>3, <2>1, <2>3, <3>1
    <2> QED
      BY <2>2, <2>3
  <1> HIDE DEF whole, parts
  <1>6. whole = parts
    BY <1>3, <1>4, <1>5, SeqEqual
  <1> QED
    BY <1>1, <1>2, <1>6 DEF whole, parts, Joined

\* Sequence w is s, t and u one after another.
Chain(w, s, t, u) == w = s \o t \o u

\* An element, or a few, go from the front of the second part to the end of the first.
LEMMA ChainFirst ==
    ASSUME NEW S, NEW s \in Seq(S), NEW x \in Seq(S), NEW t \in Seq(S), NEW u \in Seq(S),
           NEW v, Joined(v, x, t), NEW r, Joined(r, s, x), NEW w, Chain(w, s, v, u)
    PROVE  Chain(w, r, t, u)
  <1>1. s \o (x \o t) = (s \o x) \o t
    BY SMTT(30), ConcatAssociative
  <1> QED
    BY <1>1 DEF Chain, Joined

\* The same from the third part to the second.
LEMMA ChainSecond ==
    ASSUME NEW S, NEW s \in Seq(S), NEW x \in Seq(S), NEW t \in Seq(S), NEW u \in Seq(S),
           NEW v, Joined(v, x, u), NEW r, Joined(r, t, x), NEW w, Chain(w, s, t, v)
    PROVE  Chain(w, s, r, u)
  <1> DEFINE a == s \o t
             b == a \o x
  <1>1. Joined(a, s, t) /\ Joined(b, a, x) /\ Joined(w, a, v)
    BY DEF Joined, Chain
  <1> HIDE DEF a, b
  <1>2. a \in Seq(S)
    BY <1>1, JoinedParts
  <1>3. Joined(b, s, r)
    BY <1>1, JoinedAgain
  <1> DEFINE d == b \o u
  <1>4. Joined(d, b, u)
    BY DEF Joined
  <1> HIDE DEF d
  <1>5. Joined(d, a, v)
    BY <1>1, <1>2, <1>4, JoinedAgain
  <1>6. w = d
    BY <1>1, <1>5 DEF Joined
  <1> QED
    BY <1>3, <1>4, <1>6 DEF Joined, Chain

\* The whole and the third part grow at their ends.
LEMMA ChainEnd ==
    ASSUME NEW S, NEW s \in Seq(S), NEW x \in Seq(S), NEW t \in Seq(S), NEW u \in Seq(S),
           NEW v, Joined(v, u, x), NEW w, Chain(w, s, t, u), NEW r, Joined(r, w, x)
    PROVE  Chain(r, s, t, v)
  <1> DEFINE a == s \o t
  <1>1. a \in Seq(S)
    BY ConcatProperties
  <1>2. v = u \o x /\ r = (a \o u) \o x
    BY DEF Chain, Joined
  <1>3. (a \o u) \o x = a \o (u \o x)
    <2> HIDE DEF a
    <2> QED
      BY SMTT(30), <1>1, ConcatAssociative
  <1> QED
    BY <1>2, <1>3 DEF Chain

\* Appending is joining with one element, and joining with nothing changes nothing.
LEMMA JoinedOne ==
    ASSUME NEW S, NEW s \in Seq(S)
    PROVE  /\ \A x \in S : Joined(Append(s, x), s, <<x>>) /\ <<x>> \in Seq(S)
           /\ Joined(s, s, <<>>) /\ Joined(s, <<>>, s) /\ <<>> \in Seq(S)
  <1>1. ASSUME NEW x \in S PROVE Joined(Append(s, x), s, <<x>>) /\ <<x>> \in Seq(S)
    BY AppendIsConcat DEF Joined
  <1>2. Joined(s, s, <<>>) /\ Joined(s, <<>>, s) /\ <<>> \in Seq(S)
    BY ConcatEmptySeq DEF Joined
  <1> QED
    BY <1>1, <1>2

\* A sequence is its head followed by its tail.
LEMMA JoinedHead ==
    ASSUME NEW S, NEW s \in Seq(S), s # <<>>
    PROVE  /\ Joined(s, <<Head(s)>>, Tail(s)) /\ <<Head(s)>> \in Seq(S)
           /\ Head(s) \in S /\ Tail(s) \in Seq(S)
  <1>1. s = <<Head(s)>> \o Tail(s) /\ Head(s) \in S /\ Tail(s) \in Seq(S)
    BY EndsOfSeq
  <1> DEFINE x == Head(s)
  <1>2. <<x>> \in Seq(S)
    <2> HIDE DEF x
    <2>1. x \in S
      BY <1>1 DEF x
    <2> QED
      BY <2>1
  <1> QED
    BY <1>1, <1>2 DEF Joined

\* A chain with nothing at its end.
LEMMA ChainEmpty ==
    ASSUME NEW S, NEW s \in Seq(S), NEW t \in Seq(S), NEW u \in Seq(S), Chain(<<>>, s, t, u)
    PROVE  s = <<>> /\ t = <<>> /\ u = <<>>
  <1> DEFINE a == s \o t
  <1>1. a \in Seq(S) /\ Len(a) = Len(s) + Len(t)
    BY ConcatProperties
  <1>2. Len(a \o u) = Len(a) + Len(u)
    <2> HIDE DEF a
    <2> QED
      BY <1>1, ConcatProperties
  <1>3. Len(s) \in Nat /\ Len(t) \in Nat /\ Len(u) \in Nat
    OBVIOUS
  <1>4. Len(a \o u) = 0
    BY SMTT(30) DEF Chain
  <1>5. Len(s) = 0 /\ Len(t) = 0 /\ Len(u) = 0
    BY <1>1, <1>2, <1>3, <1>4
  <1> QED
    BY <1>5

\* Among sets of elements of a finite set one is smallest.
LEMMA SmallestSet ==
    ASSUME NEW D, IsFiniteSet(D), NEW T \in SUBSET SUBSET D, T # {}
    PROVE  \E m \in T : \A x \in m : m \ {x} \notin T
  <1> DEFINE R == StrictSubsetOrdering(D)
  <1>1. T \subseteq FiniteSubsetsOf(D)
    <2>1. \A s \in T : IsFiniteSet(s)
      BY FS_Subset
    <2> QED
      BY <2>1 DEF FiniteSubsetsOf
  <1>2. IsWellFoundedOn(R, FiniteSubsetsOf(D))
    BY FS_StrictSubsetOrderingWellFounded
  <1>3. PICK m \in T : \A s \in T : ~(<<s, m>> \in R)
    <2> HIDE DEF R
    <2> QED BY <1>1, <1>2, WFMin
  <1>4. ASSUME NEW x \in m, m \ {x} \in T PROVE FALSE
    <2>1. m \ {x} \subseteq m /\ m \ {x} # m
      BY <1>4
    <2>2. m \ {x} \in SUBSET D /\ m \in SUBSET D
      OBVIOUS
    <2>3. <<m \ {x}, m>> \in R
      BY <2>1, <2>2 DEF StrictSubsetOrdering
    <2> QED
      BY <1>3, <1>4, <2>3
  <1> QED
    BY <1>4

(* Function it is defined by recursion on the subsets of D: from base, by  *)
(* F, removing the element that c chooses.                                 *)
Recursion(it, D, base, F, c) ==
  /\ it[{}] = base
  /\ \A s \in SUBSET D : s # {} => it[s] = F[<<c[s], it[s \ {c[s]}]>>]

\* A recursion on the subsets of a finite set has a solution.
LEMMA SetRecursion ==
    ASSUME NEW D, IsFiniteSet(D), NEW V, NEW base \in V, NEW F \in [D \X V -> V],
           NEW c, \A s \in SUBSET D : s # {} => c[s] \in s
    PROVE  \E it \in [SUBSET D -> V] : Recursion(it, D, base, F, c)
  <1> DEFINE B(n) == {s \in SUBSET D : Cardinality(s) <= n}
             Up(g, n) == /\ g \in [B(n) -> V] /\ g[{}] = base
                         /\ \A s \in B(n) : s # {} => g[s] = F[<<c[s], g[s \ {c[s]}]>>]
             Bad == {n \in Nat : ~\E g : Up(g, n)}
  <1>1. \A s \in SUBSET D : /\ IsFiniteSet(s) /\ Cardinality(s) \in Nat
                            /\ Cardinality(s) <= Cardinality(D)
    BY FS_Subset, FS_CardinalityType
  <1>2. \A s \in SUBSET D : s # {} => /\ s \ {c[s]} \in SUBSET D
                                      /\ Cardinality(s \ {c[s]}) = Cardinality(s) - 1
    BY <1>1, FS_RemoveElement
  <1>3. Cardinality({}) = 0 /\ \A s \in SUBSET D : Cardinality(s) = 0 => s = {}
    BY <1>1, FS_EmptySet
  <1>4. \E g : Up(g, 0)
    <2> DEFINE g == [s \in B(0) |-> base]
    <2>1. {} \in B(0) /\ \A s \in B(0) : s = {}
      BY <1>1, <1>3
    <2> HIDE DEF B
    <2>2. Up(g, 0)
      BY <2>1
    <2> QED
      BY <2>2
  <1>5. ASSUME NEW n \in Nat, NEW g, Up(g, n) PROVE \E h : Up(h, n + 1)
    <2> DEFINE h == [s \in B(n + 1) |-> IF s \in B(n) THEN g[s] ELSE F[<<c[s], g[s \ {c[s]}]>>]]
    <2>1. \A s \in B(n + 1) : s # {} => s \ {c[s]} \in B(n)
      BY <1>1, <1>2
    <2>2. B(n) \subseteq B(n + 1) /\ {} \in B(n)
      BY <1>1, <1>3
    <2>3. \A s \in B(n + 1) : s \notin B(n) => s # {} /\ c[s] \in D
      BY <2>2
    <2> HIDE DEF B
    <2>4. h \in [B(n + 1) -> V]
      BY <1>5, <2>1, <2>3
    <2>5. h[{}] = base
      BY <1>5, <2>2
    <2>6. ASSUME NEW s \in B(n + 1), s # {} PROVE h[s] = F[<<c[s], h[s \ {c[s]}]>>]
      <3>1. h[s \ {c[s]}] = g[s \ {c[s]}]
        BY <2>1, <2>2, <2>6
      <3>2. s \in B(n) => h[s] = F[<<c[s], g[s \ {c[s]}]>>]
        BY <1>5, <2>6
      <3>3. s \notin B(n) => h[s] = F[<<c[s], g[s \ {c[s]}]>>]
        OBVIOUS
      <3> QED
        BY <3>1, <3>2, <3>3
    <2> QED
      BY <2>4, <2>5, <2>6
  <1> HIDE DEF B
  <1> HIDE DEF Up
  <1>6. Bad = {}
    <2> SUFFICES ASSUME Bad # {} PROVE FALSE
      OBVIOUS
    <2>1. PICK m \in Bad : \A k \in Bad : m <= k
      BY LeastElement
    <2>2. m # 0
      BY <1>4
    <2>3. m - 1 \in Nat /\ m - 1 \notin Bad /\ (m - 1) + 1 = m
      BY <2>1, <2>2
    <2>4. \E g : Up(g, m - 1)
      BY <2>3
    <2>5. \E h : Up(h, (m - 1) + 1)
      BY <1>5, <2>3, <2>4
    <2> QED
      BY <2>1, <2>3, <2>5
  <1>7. Cardinality(D) \in Nat /\ B(Cardinality(D)) = SUBSET D
    BY <1>1, FS_CardinalityType DEF B
  <1>8. PICK it : Up(it, Cardinality(D))
    BY <1>6, <1>7
  <1> QED
    BY <1>7, <1>8 DEF Recursion, Up

(* Function it is F applied again and again, up to n times. *)
Iterates(it, n, base, F) ==
  it[0] = base /\ \A k \in 1 .. n : it[k] = F[it[k - 1]]

\* A function can be iterated.
LEMMA Iteration ==
    ASSUME NEW n \in Nat, NEW V, NEW base \in V, NEW F \in [V -> V]
    PROVE  \E it \in [0 .. n -> V] : Iterates(it, n, base, F)
  <1> DEFINE Bad == {m \in Nat : ~\E g \in [0 .. m -> V] : Iterates(g, m, base, F)}
  <1>1. 0 \notin Bad
    <2> DEFINE g == [k \in 0 .. 0 |-> base]
    <2>1. g \in [0 .. 0 -> V] /\ Iterates(g, 0, base, F)
      BY DEF Iterates
    <2> QED
      BY <2>1
  <1>2. ASSUME NEW m \in Nat, m \notin Bad PROVE m + 1 \notin Bad
    <2>1. PICK g \in [0 .. m -> V] : Iterates(g, m, base, F)
      BY <1>2
    <2> DEFINE h == [k \in 0 .. m + 1 |-> IF k = m + 1 THEN F[g[m]] ELSE g[k]]
    <2>2. h \in [0 .. m + 1 -> V]
      OBVIOUS
    <2>3. h[0] = base
      BY <2>1 DEF Iterates
    <2>4. ASSUME NEW k \in 1 .. m + 1 PROVE h[k] = F[h[k - 1]]
      <3>1. k - 1 \in 0 .. m /\ h[k - 1] = g[k - 1]
        OBVIOUS
      <3>2. CASE k = m + 1
        BY <3>1, <3>2
      <3>3. CASE k # m + 1
        <4>1. k \in 1 .. m /\ h[k] = g[k]
          BY <3>3
        <4> QED
          BY <2>1, <3>1, <4>1 DEF Iterates
      <3> QED
        BY <3>2, <3>3
    <2> HIDE DEF h
    <2>5. Iterates(h, m + 1, base, F)
      BY <2>3, <2>4 DEF Iterates
    <2> QED
      BY <2>2, <2>5
  <1>3. Bad = {}
    <2> SUFFICES ASSUME Bad # {} PROVE FALSE
      OBVIOUS
    <2>1. PICK m \in Bad : \A k \in Bad : m <= k
      BY LeastElement
    <2> HIDE DEF Bad
    <2>2. m \in Nat /\ m # 0
      BY <1>1 DEF Bad
    <2>3. m - 1 \in Nat /\ m - 1 \notin Bad /\ (m - 1) + 1 = m
      BY <2>1, <2>2
    <2> QED
      BY <1>2, <2>1, <2>3
  <1> QED
    BY <1>3

UpToN(D, n) == D = 1 .. n

(* c picks the largest element of every set of numbers in D. *)
PicksLast(c, D) ==
  \A s \in SUBSET D : s # {} => c[s] \in s /\ \A y \in s : y <= c[s]

(* it folds F over sets of numbers, from the least to the largest, as far  *)
(* as the values are in V.                                                 *)
TakesLast(it, D, V, base, F, c) ==
  /\ it[{}] = base
  /\ \A s \in SUBSET D :
       s # {} /\ it[s \ {c[s]}] \in V => it[s] = F[<<c[s], it[s \ {c[s]}]>>]
(* y comes out of n steps, one for each number. *)
InSteps(y, n, V, base, F) ==
  \E st \in [0 .. n -> V] :
    /\ st[0] = base /\ st[n] = y
    /\ \A k \in 1 .. n : st[k] = F[<<k, st[k - 1]>>]

\* A recursion that takes the largest number out of a set goes up to it one
\* number at a time.
LEMMA FoldSteps ==
    ASSUME NEW n \in Nat, NEW D, UpToN(D, n), NEW V, NEW base \in V, NEW F \in [D \X V -> V],
           NEW c, PicksLast(c, D), NEW it, TakesLast(it, D, V, base, F, c)
    PROVE  InSteps(it[D], n, V, base, F)
  <1>0. IsFiniteSet(D) /\ D = 1 .. n
    BY FS_Interval DEF UpToN
  <1>1. \A s \in SUBSET D : it[s] \in V
    <2> DEFINE T == {s \in SUBSET D : it[s] \notin V}
    <2> SUFFICES ASSUME T # {} PROVE FALSE
      OBVIOUS
    <2>1. PICK m \in T : \A x \in m : m \ {x} \notin T
      BY <1>0, SmallestSet
    <2>2. m \in SUBSET D /\ it[m] \notin V
      BY <2>1
    <2>3. m # {}
      <3> HIDE DEF T
      <3>1. it[{}] \in V
        BY DEF TakesLast
      <3> QED BY Zenon, <2>2, <3>1
    <2>4. c[m] \in m
      BY <2>2, <2>3 DEF PicksLast
    <2>5. it[m \ {c[m]}] \in V
      BY <2>1, <2>2, <2>4
    <2> HIDE DEF T
    <2>6. it[m] = F[<<c[m], it[m \ {c[m]}]>>]
      BY <2>2, <2>3, <2>5 DEF TakesLast
    <2> QED
      BY <2>2, <2>4, <2>5, <2>6
  <1> DEFINE st == [k \in 0 .. n |-> it[1 .. k]]
  <1>2. \A k \in 0 .. n : 1 .. k \in SUBSET D
    BY <1>0
  <1>3. st \in [0 .. n -> V]
    BY <1>1, <1>2
  <1>4. st[0] = base /\ st[n] = it[D]
    <2>1. 1 .. 0 = {}
      OBVIOUS
    <2> QED
      BY <1>0, <2>1 DEF TakesLast
  <1>5. ASSUME NEW k \in 1 .. n PROVE st[k] = F[<<k, st[k - 1]>>]
    <2>1. 1 .. k \in SUBSET D /\ k \in 1 .. k /\ 1 .. k # {} /\ k - 1 \in 0 .. n
                /\ k \in 0 .. n
      BY <1>0
    <2>2. c[1 .. k] \in 1 .. k /\ k <= c[1 .. k]
      BY <2>1 DEF PicksLast
    <2>3. c[1 .. k] = k
      BY <1>0, <2>2
    <2>4. (1 .. k) \ {k} = 1 .. (k - 1)
      BY <1>0
    <2>5. it[1 .. (k - 1)] \in V
      BY <1>1, <1>2, <2>1
    <2>6. it[1 .. k] = F[<<k, it[1 .. (k - 1)]>>]
      BY <2>1, <2>3, <2>4, <2>5 DEF TakesLast
    <2> QED
      BY <2>1, <2>6
  <1> HIDE DEF st
  <1> QED
    BY <1>3, <1>4, <1>5 DEF InSteps

\* What holds of 0, and of the next number whenever of one, holds up to n.
LEMMA UpTo ==
    ASSUME NEW n \in Nat, NEW S, 0 \in S, \A k \in 0 .. n - 1 : k \in S => k + 1 \in S
    PROVE  \A k \in 0 .. n : k \in S
  <1> DEFINE T == {k \in 0 .. n : k \notin S}
  <1> SUFFICES ASSUME T # {} PROVE FALSE
    OBVIOUS
  <1>1. PICK m \in T : \A k \in T : m <= k
    <2>1. T \in SUBSET Nat
      OBVIOUS
    <2> HIDE DEF T
    <2> QED BY <2>1, LeastElement
  <1>2. m \in 0 .. n /\ m \notin S /\ m # 0
    BY <1>1
  <1>3. m - 1 \in 0 .. n - 1 /\ m - 1 \notin T /\ (m - 1) + 1 = m
    BY <1>1, <1>2
  <1> QED
    BY <1>2, <1>3

(* The element CHOOSE takes out of a set. *)
AnyOf(s) == CHOOSE x \in s : TRUE

(* it[s] is the sum of f over s, whichever element is taken out first. *)
SumOf(it, D, f) ==
  /\ it \in [SUBSET D -> Int] /\ it[{}] = 0
  /\ \A s \in SUBSET D : \A x \in s : it[s] = f[x] + it[s \ {x}]

\* The order in which a sum is taken does not matter.
LEMMA AnyOrder ==
    ASSUME NEW D, IsFiniteSet(D), NEW f, \A x \in D : f[x] \in Int,
           NEW it, it \in [SUBSET D -> Int], it[{}] = 0,
           \A s \in SUBSET D : s # {} => \E c \in s : it[s] = f[c] + it[s \ {c}]
    PROVE  SumOf(it, D, f)
  <1> DEFINE T == {s \in SUBSET D : \E x \in s : it[s] # f[x] + it[s \ {x}]}
  <1>1. SUFFICES ASSUME T # {} PROVE FALSE
    BY DEF SumOf
  <1>2. PICK m \in T : \A x \in m : m \ {x} \notin T
    BY <1>1, SmallestSet
  <1>3. PICK x \in m : it[m] # f[x] + it[m \ {x}]
    BY <1>2
  <1>4. PICK c \in m : it[m] = f[c] + it[m \ {c}]
    BY <1>2
  <1>5. x # c /\ m \in SUBSET D /\ x \in D /\ c \in D
    BY <1>2, <1>3, <1>4
  <1> DEFINE r == (m \ {c}) \ {x}
  <1>6. it[m \ {c}] = f[x] + it[r]
    BY <1>2, <1>5
  <1>7. it[m \ {x}] = f[c] + it[r]
    <2>1. (m \ {x}) \ {c} = r
      OBVIOUS
    <2>2. c \in m \ {x} /\ m \ {x} \in SUBSET D /\ m \ {x} \notin T
      BY <1>2, <1>5
    <2> DEFINE n == m \ {x}
    <2> HIDE DEF n, r
    <2> QED
      BY <2>1, <2>2 DEF n
  <1>8. f[x] \in Int /\ f[c] \in Int /\ it[r] \in Int
    BY <1>5
  <1> HIDE DEF r
  <1> QED
    BY <1>3, <1>4, <1>6, <1>7, <1>8

(* f has domain D and whole numbers as values. *)
Sums(f, D) == DOMAIN f = D /\ \A x \in D : f[x] \in Int

(* it adds the values of f up, in the order of CHOOSE. *)
AddsUp(it, D, f) ==
  it = [s \in SUBSET D |-> IF s = {} THEN 0 ELSE f[AnyOf(s)] + it[s \ {AnyOf(s)}]]

\* Values can be added up.
LEMMA SumExists ==
    ASSUME NEW D, IsFiniteSet(D), NEW f, Sums(f, D)
    PROVE  \E it : AddsUp(it, D, f)
  <1> DEFINE F == [p \in D \X Int |-> f[p[1]] + p[2]]
             c == [s \in SUBSET D |-> AnyOf(s)]
  <1>1. F \in [D \X Int -> Int] /\ \A x \in D, n \in Int : F[<<x, n>>] = f[x] + n
    <2>1. \A x \in D : f[x] \in Int
      BY DEF Sums
    <2> QED
      BY <2>1
  <1>2. \A s \in SUBSET D : s # {} => AnyOf(s) \in s /\ c[s] = AnyOf(s)
    <2>1. \A s : s # {} => AnyOf(s) \in s
      BY Zenon DEF AnyOf
    <2> QED
      BY <2>1
  <1> HIDE DEF F, c
  <1>3. 0 \in Int /\ \A s \in SUBSET D : s # {} => c[s] \in s
    BY <1>2
  <1>4. PICK it \in [SUBSET D -> Int] : Recursion(it, D, 0, F, c)
    BY Zenon, <1>1, <1>3, SetRecursion
  <1>5. ASSUME NEW s \in SUBSET D, s # {} PROVE it[s] = f[AnyOf(s)] + it[s \ {AnyOf(s)}]
    <2>1. c[s] = AnyOf(s) /\ AnyOf(s) \in D
      BY <1>2, <1>5
    <2>2. it[s] = F[<<c[s], it[s \ {c[s]}]>>]
      BY <1>4, <1>5 DEF Recursion
    <2>3. it[s \ {c[s]}] \in Int
      BY <1>4
    <2> QED
      BY <1>1, <2>1, <2>2, <2>3
  <1>6. it[{}] = 0
    BY <1>4 DEF Recursion
  <1>7. AddsUp(it, D, f)
    BY <1>4, <1>5, <1>6 DEF AddsUp
  <1> QED
    BY <1>7

\* What adds up is a sum in any order.
LEMMA AddedUp ==
    ASSUME NEW D, IsFiniteSet(D), NEW f, Sums(f, D), NEW it, AddsUp(it, D, f)
    PROVE  SumOf(it, D, f)
  <1>1. \A s : s # {} => AnyOf(s) \in s
    BY Zenon DEF AnyOf
  <1>2. /\ it = [s \in SUBSET D |-> it[s]] /\ it[{}] = 0
        /\ \A s \in SUBSET D : s # {} => it[s] = f[AnyOf(s)] + it[s \ {AnyOf(s)}]
    BY DEF AddsUp
  <1>3. \A x \in D : f[x] \in Int
    BY DEF Sums
  <1>4. \A s \in SUBSET D : it[s] \in Int
    <2> DEFINE T == {s \in SUBSET D : it[s] \notin Int}
    <2> SUFFICES ASSUME T # {} PROVE FALSE
      OBVIOUS
    <2>1. PICK m \in T : \A x \in m : m \ {x} \notin T
      BY SmallestSet
    <2>2. m # {} /\ m \in SUBSET D /\ it[m] \notin Int
      <3>1. m \in SUBSET D /\ it[m] \notin Int
        OBVIOUS
      <3> HIDE DEF T
      <3>2. it[{}] \in Int
        BY <1>2
      <3>3. m # {}
        BY Zenon, <3>1, <3>2
      <3> QED
        BY <3>1, <3>3
    <2>3. AnyOf(m) \in m
      BY <1>1, <2>2
    <2>4. it[m \ {AnyOf(m)}] \in Int /\ f[AnyOf(m)] \in Int
      BY <1>3, <2>1, <2>2, <2>3
    <2>5. f[AnyOf(m)] + it[m \ {AnyOf(m)}] \in Int
      BY <2>4
    <2> HIDE DEF T
    <2> QED
      BY <1>2, <2>2, <2>5
  <1>5. it \in [SUBSET D -> Int]
    BY <1>2, <1>4
  <1>6. \A s \in SUBSET D : s # {} => \E x \in s : it[s] = f[x] + it[s \ {x}]
    BY <1>1, <1>2
  <1> QED
    BY <1>2, <1>3, <1>5, <1>6, AnyOrder

=============================================================================
