---------------------------- MODULE TMQoSProofs ----------------------------
(***************************************************************************)
(* Proofs about TMQoS, for every network, every set of items and every     *)
(* priority: its cache of metadata is tidy, reports and metadata are read  *)
(* as they were written, the planes agree with the priorities of links,    *)
(* and no item is matched on a plane above its own priority.               *)
(***************************************************************************)
EXTENDS TMQoS, SequenceFacts

Entry(e) == \E q, o, p : e = [querying |-> q, old |-> o, prio |-> p]

(* The cache m and the subscriptions s.  QueriesAreTidy alone does not     *)
(* survive a clean-up: the metadata item's entry must not be older than    *)
(* the query it serves.                                                    *)
Entries(m) == m = [j \in DOMAIN m |-> m[j]] /\ \A j \in DOMAIN m : Entry(m[j])
Served(m, i) ==
  Meta(i) \in DOMAIN m /\ m[Meta(i)].prio = 99 /\ ~m[Meta(i)].old
Tidy(m, s) ==
  /\ Entries(m)
  /\ \A i \in Info \cap DOMAIN m :
       /\ m[i].querying /\ ~m[i].old => Served(m, i)
       /\ ~m[i].querying => Meta(i) \notin s

\* A metadata item is none of the items with a priority.
LEMMA MetaItems ==
  /\ \A i \in Info : i[1] = "info"
  /\ \A i, j : Meta(i) = Meta(j) => i = j
  /\ \A i : Meta(i) \notin Info
  <1>1. \A i \in Info : i[1] = "info"
    BY QoSAssumption DEF Info
  <1>2. \A i : Meta(i)[1] = "meta"
    BY DEF Meta
  <1>3. \A i, j : Meta(i) = Meta(j) => i = j
    BY DEF Meta
  <1> QED
    BY <1>1, <1>2, <1>3

(* n is m with an entry e for i; n is m without S. *)
IsWith(n, m, i, e) ==
  /\ Entries(n) /\ DOMAIN n = DOMAIN m \cup {i}
  /\ n[i] = e /\ \A j \in DOMAIN m : j # i => n[j] = m[j]
IsWithout(n, m, S) ==
  /\ Entries(n) /\ DOMAIN n = DOMAIN m \ S
  /\ \A j \in DOMAIN m \ S : n[j] = m[j]

\* What With returns.
LEMMA WithIs ==
  ASSUME NEW m, Entries(m), NEW i, NEW e, Entry(e)
  PROVE  IsWith(With(m, i, e), m, i, e)
  BY DEF With, Entries, IsWith

\* What Without returns.
LEMMA WithoutIs ==
  ASSUME NEW m, Entries(m), NEW S
  PROVE  IsWithout(Without(m, S), m, S)
  BY DEF Without, Restrict, Entries, IsWithout

\* What an entry is.
LEMMA NewEntries ==
  \A q, o, p : Entry([querying |-> q, old |-> o, prio |-> p])
  BY DEF Entry

\* Clean-ups remove entries that have outlived their time; the subscriptions
\* they give up can only become fewer.
LEMMA CleanIsTidy ==
  ASSUME NEW m, NEW s, Tidy(m, s), NEW S, NEW t, t \subseteq s,
         \A j \in S \cap DOMAIN m : m[j].old
  PROVE  Tidy(Without(m, S), t)
  <1> DEFINE n == Without(m, S)
  <1>1. IsWithout(n, m, S)
    BY WithoutIs DEF Tidy
  <1> HIDE DEF n
  <1> USE DEF IsWithout
  <1>2. ASSUME NEW i \in Info \cap DOMAIN n
        PROVE  /\ n[i].querying /\ ~n[i].old => Served(n, i)
               /\ ~n[i].querying => Meta(i) \notin t
    <2>1. i \in DOMAIN m /\ n[i] = m[i]
      BY <1>1
    <2>2. Served(m, i) => Served(n, i)
      <3> SUFFICES ASSUME Served(m, i) PROVE Served(n, i)
        OBVIOUS
      <3>1. Meta(i) \in DOMAIN m \ S
        BY DEF Served
      <3> QED
        BY <1>1, <3>1 DEF Served
    <2> QED
      BY <2>1, <2>2 DEF Tidy
  <1>3. Tidy(n, t)
    BY <1>1, <1>2 DEF Tidy
  <1> QED
    BY <1>3 DEF n

\* A query for i, which is not in the cache.
LEMMA SendQueryIsTidy ==
  ASSUME NEW m, NEW s, Tidy(m, s), NEW i, i \notin DOMAIN m
  PROVE  LET c == SendQuery([meta |-> m, subs |-> s], i) IN Tidy(c.meta, c.subs)
  <1> DEFINE meta == [querying |-> FALSE, old |-> FALSE, prio |-> 99]
             query == [querying |-> TRUE, old |-> FALSE, prio |-> DEFAULT_QOS_PRIO]
             n == With(m, Meta(i), meta)
             o == With(n, i, query)
             t == s \cup {Meta(i)}
  <1>1. SendQuery([meta |-> m, subs |-> s], i) = [meta |-> o, subs |-> t]
    BY DEF SendQuery, addMetaItem
  <1>2. Entry(meta) /\ Entry(query)
    BY NewEntries
  <1>3. meta.prio = 99 /\ ~meta.old /\ query.querying
    OBVIOUS
  <1>4. Entries(m)
    BY DEF Tidy
  <1> HIDE DEF meta, query
  <1>5. IsWith(n, m, Meta(i), meta)
    BY <1>2, <1>4, WithIs
  <1>6. Entries(n)
    BY <1>5 DEF IsWith
  <1> HIDE DEF n
  <1>7. IsWith(o, n, i, query)
    BY <1>2, <1>6, WithIs
  <1> HIDE DEF o
  <1> USE DEF IsWith
  <1>8. ASSUME NEW k \in Info \cap DOMAIN o
        PROVE  /\ o[k].querying /\ ~o[k].old => Served(o, k)
               /\ ~o[k].querying => Meta(k) \notin t
    <2>1. CASE k = i
      <3>1. Meta(i) # i
        BY <2>1, MetaItems
      <3>2. o[Meta(i)] = meta /\ Meta(i) \in DOMAIN o
        BY <1>5, <1>7, <3>1
      <3> QED
        BY <1>7, <1>3, <2>1, <3>2 DEF Served
    <2>2. CASE k # i
      <3>1. k \in DOMAIN m /\ o[k] = m[k] /\ Meta(k) # Meta(i)
        BY <1>5, <1>7, <2>2, MetaItems
      <3>2. Meta(k) \in DOMAIN m => o[Meta(k)] = m[Meta(k)] /\ Meta(k) \in DOMAIN o
        BY <1>5, <1>7, <3>1
      <3> QED
        BY <3>1, <3>2 DEF Tidy, Served
    <2> QED
      BY <2>1, <2>2
  <1>9. Tidy(o, t)
    BY <1>7, <1>8 DEF Tidy
  <1> QED
    BY <1>1, <1>9 DEF o

\* sendQueryIfNeeded() and getIIQoSPrio(), whatever has expired.
LEMMA LookUpIsTidy ==
  ASSUME NEW m, NEW s, Tidy(m, s), NEW i
  PROVE  LET c == LookUp([meta |-> m, subs |-> s], i).c IN Tidy(c.meta, c.subs)
  <1> DEFINE c0 == [meta |-> m, subs |-> s]
             c1 == checkClean(c0, i)
             c2 == IF late THEN cleanAllExpired(c1) ELSE c1
             m1 == c1.meta
             s1 == c1.subs
             old == {j \in DOMAIN m1 : m1[j].old}
  <1>1. c1 = [meta |-> m1, subs |-> s1] /\ Tidy(m1, s1)
    <2>1. CASE i \in DOMAIN m /\ m[i].old
      <3> DEFINE t == s \ {j \in {i} : m[i].querying}
      <3>1. c1 = [meta |-> Without(m, {i}), subs |-> t]
        BY <2>1 DEF checkClean
      <3>2. Tidy(Without(m, {i}), t)
        <4>1. t \subseteq s /\ \A j \in {i} \cap DOMAIN m : m[j].old
          BY <2>1
        <4> HIDE DEF t
        <4> QED
          BY <4>1, CleanIsTidy
      <3> QED
        BY <3>1, <3>2
    <2>2. CASE ~(i \in DOMAIN m /\ m[i].old)
      <3>1. c1 = c0
        BY <2>2 DEF checkClean
      <3> QED
        BY <3>1
    <2> QED
      BY <2>1, <2>2
  <1> HIDE DEF c1
  <1>2. Tidy(c2.meta, c2.subs)
    <2> DEFINE t == s1 \ {j \in old : m1[j].querying}
    <2>1. cleanAllExpired(c1) = [meta |-> Without(m1, old), subs |-> t]
      BY <1>1 DEF cleanAllExpired
    <2>2. t \subseteq s1 /\ \A j \in old \cap DOMAIN m1 : m1[j].old
      OBVIOUS
    <2> HIDE DEF t, old, m1, s1
    <2>3. Tidy(Without(m1, old), t)
      BY <1>1, <2>2, CleanIsTidy
    <2> QED
      BY <1>1, <2>1, <2>3 DEF m1, s1
  <1>3. i \notin DOMAIN m1 =>
          Tidy(SendQuery(c1, i).meta, SendQuery(c1, i).subs)
    <2> HIDE DEF m1, s1
    <2> QED
      BY <1>1, SendQueryIsTidy
  <1>4. LookUp(c0, i).c = IF i \notin DOMAIN c1.meta THEN SendQuery(c1, i) ELSE c2
    BY DEF LookUp, c1
  <1> HIDE DEF c2
  <1> QED
    BY <1>2, <1>3, <1>4

\* The metadata of an item has come.
LEMMA UpdateIsTidy ==
  ASSUME NEW m, NEW s, Tidy(m, s), NEW x, NEW prio
  PROVE  LET c == update([meta |-> m, subs |-> s], <<"info", x>>, prio) IN Tidy(c.meta, c.subs)
  <1> DEFINE i == <<"info", x>>
             e == [querying |-> FALSE, old |-> FALSE, prio |-> prio]
             n == With(m, i, e)
             o == Without(n, {Meta(i)})
             t == s \ {Meta(i)}
             c == update([meta |-> m, subs |-> s], i, prio)
  <1>1. CASE i \notin DOMAIN m
    BY <1>1 DEF update
  <1>2. CASE i \in DOMAIN m
    <2>1. c = [meta |-> o, subs |-> t]
      BY <1>2 DEF update
    <2>2. Entry(e) /\ ~e.querying
      BY NewEntries
    <2>3. \A k \in Info : Meta(k) # i
      BY DEF Meta
    <2>4. Entries(m)
      BY DEF Tidy
    <2> HIDE DEF i, e, c
    <2>5. IsWith(n, m, i, e)
      BY <2>2, <2>4, WithIs
    <2>6. Entries(n)
      BY <2>5 DEF IsWith
    <2> HIDE DEF n
    <2>7. IsWithout(o, n, {Meta(i)})
      BY <2>6, WithoutIs
    <2> HIDE DEF o
    <2> USE DEF IsWith, IsWithout
    <2>8. ASSUME NEW k \in Info \cap DOMAIN o
          PROVE  /\ o[k].querying /\ ~o[k].old => Served(o, k)
                 /\ ~o[k].querying => Meta(k) \notin t
      <3>1. CASE k = i
        BY <2>2, <2>5, <2>7, <3>1
      <3>2. CASE k # i
        <4>1. k \in DOMAIN m /\ o[k] = m[k] /\ Meta(k) # Meta(i) /\ Meta(k) # i
          BY <2>3, <2>5, <2>7, <3>2, MetaItems
        <4>2. Meta(k) \in DOMAIN m => o[Meta(k)] = m[Meta(k)] /\ Meta(k) \in DOMAIN o
          BY <2>5, <2>7, <4>1
        <4> QED
          BY <4>1, <4>2 DEF Tidy, Served
      <3> QED
        BY <3>1, <3>2
    <2>9. Tidy(o, t)
      BY <2>7, <2>8 DEF Tidy
    <2> QED
      BY <2>1, <2>9 DEF i, c
  <1> QED
    BY <1>1, <1>2

\* An entry that has outlived its time.
LEMMA Outlived ==
  ASSUME NEW r, Entry(r)
  PROVE  LET e == [r EXCEPT !.old = TRUE]
         IN  Entry(e) /\ e.old /\ e.querying = r.querying /\ e.prio = r.prio
  <1>1. PICK q, o, p : r = [querying |-> q, old |-> o, prio |-> p]
    BY DEF Entry
  <1>2. [r EXCEPT !.old = TRUE] = [querying |-> q, old |-> TRUE, prio |-> p]
    <2>1. \A z : [[querying |-> q, old |-> o, prio |-> p] EXCEPT !.old = z]
                   = [querying |-> q, old |-> z, prio |-> p]
      OBVIOUS
    <2> QED
      BY <1>1, <2>1, Zenon
  <1> DEFINE e == [r EXCEPT !.old = TRUE]
  <1>3. Entry(e)
    BY <1>2, NewEntries
  <1>4. e.old /\ e.querying = q /\ r.querying = q /\ e.prio = p /\ r.prio = p
    BY <1>1, <1>2
  <1> HIDE DEF e
  <1>5. Entry(e) /\ e.old /\ e.querying = r.querying /\ e.prio = r.prio
    BY <1>3, <1>4
  <1> QED
    BY <1>5 DEF e

\* Time passes for one entry.
LEMMA ExpireIsTidy ==
  ASSUME Tidy(ii_meta, subscribed), NEW i, Expire(i)
  PROVE  Tidy(ii_meta', subscribed')
  <1> DEFINE e == [ii_meta[i] EXCEPT !.old = TRUE]
  <1>1. /\ i \in DOMAIN ii_meta /\ ii_meta' = [ii_meta EXCEPT ![i] = e]
        /\ subscribed' = subscribed
    BY DEF Expire
  <1>2. \A k \in Info \cap DOMAIN ii_meta :
          i = Meta(k) => ~ii_meta[k].querying \/ ii_meta[k].old
    BY DEF Expire, Meta
  <1>3. Entry(e) /\ e.old /\ e.querying = ii_meta[i].querying
    BY <1>1, Outlived DEF Tidy, Entries
  <1> HIDE DEF e
  <1>4. IsWith(ii_meta', ii_meta, i, e)
    <2>1. Entries(ii_meta)
      BY DEF Tidy
    <2> QED
      BY <1>1, <1>3, <2>1 DEF IsWith, Entries
  <1>5. ASSUME NEW k \in Info \cap DOMAIN ii_meta'
        PROVE  /\ ii_meta'[k].querying /\ ~ii_meta'[k].old => Served(ii_meta', k)
               /\ ~ii_meta'[k].querying => Meta(k) \notin subscribed
    <2>1. k \in DOMAIN ii_meta /\ ii_meta'[k].querying = ii_meta[k].querying
      BY <1>1, <1>3, <1>4 DEF IsWith
    <2>2. ASSUME ii_meta'[k].querying, ~ii_meta'[k].old PROVE Served(ii_meta', k)
      <3>1. k # i /\ ii_meta'[k] = ii_meta[k]
        BY <1>3, <1>4, <2>1, <2>2 DEF IsWith
      <3>2. Served(ii_meta, k) /\ Meta(k) # i
        BY <1>2, <2>1, <2>2, <3>1 DEF Tidy
      <3> QED
        BY <1>4, <3>2 DEF IsWith, Served
    <2> QED
      BY <2>1, <2>2 DEF Tidy
  <1> QED
    BY <1>1, <1>4, <1>5 DEF IsWith, Tidy

\* No other step touches the cache.
LEMMA StepIsTidy ==
  ASSUME Tidy(ii_meta, subscribed), [Next]_vars
  PROVE  Tidy(ii_meta', subscribed')
  <1>1. ASSUME HandleMatch PROVE Tidy(ii_meta', subscribed')
    <2> DEFINE c == LookUp(C, Head(tmQueue).item).c
    <2>1. (ii_meta' = c.meta /\ subscribed' = c.subs) \/ UNCHANGED <<ii_meta, subscribed>>
      BY <1>1 DEF HandleMatch, SetCache
    <2>2. Tidy(c.meta, c.subs)
      BY LookUpIsTidy DEF C
    <2> HIDE DEF c
    <2> QED
      BY <2>1, <2>2
  <1>2. ASSUME HandleIIMetaData PROVE Tidy(ii_meta', subscribed')
    <2> DEFINE d == Head(tmQueue).data
               c == update(C, <<"info", getID_RAW(d)[2]>>, getIIStatus(d)[PRIO])
    <2>1. ii_meta' = c.meta /\ subscribed' = c.subs
      BY <1>2 DEF HandleIIMetaData, SetCache
    <2>2. Tidy(c.meta, c.subs)
      BY UpdateIsTidy DEF C
    <2> HIDE DEF c
    <2> QED
      BY <2>1, <2>2
  <1>3. HandleMatch \/ HandleIIMetaData \/ (\E i : Expire(i)) \/ UNCHANGED <<ii_meta, subscribed>>
    BY DEF Next, Manager, HandleLSMUpdate, GetsLate, Report, RequestMatch, RequestMetaMatch,
           ProvideMetadata, vars, cache
  <1> QED
    BY <1>1, <1>2, <1>3, ExpireIsTidy

\* While a query waits, the item that brings its answer is matched without a
\* query of its own; an answer ends the subscription (tm_qos.cpp).
THEOREM QueriesStayTidy == Spec => []QueriesAreTidy
  <1>1. Init => Tidy(ii_meta, subscribed)
    BY DEF Init, Tidy, Entries
  <1>2. Tidy(ii_meta, subscribed) /\ [Next]_vars => Tidy(ii_meta, subscribed)'
    BY StepIsTidy
  <1>3. Tidy(ii_meta, subscribed) => QueriesAreTidy
    BY DEF Tidy, Served, QueriesAreTidy
  <1> QED
    BY <1>1, <1>2, <1>3, PTL DEF Spec

-----------------------------------------------------------------------------
(* Byte arrays, as setBits(), setBytes() and getBits() write and read them  *)
(* at whole bytes.                                                         *)

\* The largest element of a set of indices.
LEMMA LastIndex ==
  ASSUME NEW n \in Nat, NEW S, S \in SUBSET (1 .. n), S # {}
  PROVE  Max(S) \in S /\ \A y \in S : y <= Max(S)
  <1> DEFINE R == {n - k : k \in S}
  <1>1. R \in SUBSET Nat /\ R # {}
    <2>1. \A k \in S : k \in 1 .. n
      OBVIOUS
    <2>2. \A k \in S : n - k \in Nat
      BY <2>1
    <2> QED
      BY <2>2
  <1>2. PICK r \in R : \A q \in R : r <= q
    <2> HIDE DEF R
    <2> QED BY <1>1, LeastElement
  <1>3. PICK x \in S : r = n - x
    BY <1>2
  <1>4. \A y \in S : n - y \in R
    OBVIOUS
  <1> HIDE DEF R
  <1>5. \A y \in S : x >= y
    <2> TAKE y \in S
    <2>1. r <= n - y /\ y \in 1 .. n /\ x \in 1 .. n
      BY <1>2, <1>4
    <2> QED
      BY <1>3, <2>1
  <1>6. Max(S) \in S /\ \A y \in S : Max(S) >= y
    BY Zenon, <1>5 DEF Max
  <1>7. \A y \in S : y \in Int
    OBVIOUS
  <1> QED
    BY <1>6, <1>7

(* Arrays of n bytes. *)
Byte == {v \in Int : 0 <= v /\ v < 256}
Bytes(n) == [1 .. n -> Byte]

\* A byte is a number below 256.
LEMMA ByteIsNumber == \A b \in Byte : b \in 0 .. 255
  BY DEF Byte

\* What a byte array is.
LEMMA BytesAre ==
  ASSUME NEW n \in Nat, NEW d \in Bytes(n)
  PROVE  Len(d) = n /\ DOMAIN d = 1 .. n /\ \A i \in 1 .. n : d[i] \in Byte
  BY DEF Bytes

\* One byte is put.
LEMMA PutByte ==
  ASSUME NEW n \in Nat, NEW d \in Bytes(n), NEW o \in 0 .. n - 1, NEW b \in Byte
  PROVE  /\ Put(d, o, b) \in Bytes(n)
         /\ \A i \in 1 .. n : Put(d, o, b)[i] = IF i = o + 1 THEN b ELSE d[i]
  BY DEF Bytes, Put

(* x is byte array d, of n bytes, with byte b at offset o. *)
HasByte(x, d, n, o, b) ==
  x \in Bytes(n) /\ \A i \in 1 .. n : x[i] = IF i = o + 1 THEN b ELSE d[i]

\* The same, told in one word.
LEMMA ByteIsPut ==
  ASSUME NEW n \in Nat, NEW d \in Bytes(n), NEW o \in 0 .. n - 1, NEW b \in Byte
  PROVE  HasByte(Put(d, o, b), d, n, o, b)
  BY PutByte DEF HasByte

\* A byte and the byte after it, or something for it.
LEMMA TwoBytesAre ==
  ASSUME NEW n \in Nat, NEW d \in Bytes(n), NEW o \in 0 .. n - 1
  PROVE  \E r \in Byte : TwoBytes(d, o) = 256 * d[o + 1] + r /\ (o + 1 < n => r = d[o + 2])
  <1>1. Len(d) = n
    BY BytesAre
  <1>2. CASE o + 1 < n
    <2>1. d[o + 2] \in Byte /\ (o + 1) + 1 = o + 2
      BY <1>2 DEF Bytes
    <2>2. TwoBytes(d, o) = 256 * d[o + 1] + d[o + 2]
      BY <1>1, <1>2, <2>1 DEF TwoBytes, At
    <2> QED
      BY <2>1, <2>2
  <1>3. CASE ~(o + 1 < n)
    <2>1. TwoBytes(d, o) = 256 * d[o + 1] + 0 /\ 0 \in Byte
      BY <1>1, <1>3 DEF TwoBytes, At, Byte
    <2> QED
      BY <1>3, <2>1
  <1> QED
    BY <1>2, <1>3

\* Setting eight bits from the first bit of a byte on sets the byte.
LEMMA SetWholeByte ==
  ASSUME NEW n \in Nat, NEW d \in Bytes(n), NEW o \in 0 .. n - 1, NEW b \in Byte
  PROVE  setBits8(d, b, 8, o, 0) = Put(d, o, b)
  <1>1. PICK r \in Byte : TwoBytes(d, o) = 256 * d[o + 1] + r /\ (o + 1 < n => r = d[o + 2])
    BY TwoBytesAre
  <1>2. Len(d) = n /\ d[o + 1] \in Byte /\ d \in [1 .. n -> Byte]
    BY BytesAre DEF Bytes
  <1>3. 2^(16 - 8 - 0) = 256 /\ 2^8 = 256
    OBVIOUS
  <1> DEFINE t == TwoBytes(d, o)
             x == d[o + 1]
             old == (t \div 256) % 256
             new == t + ((b % 256) - old) * 256
  <1>4. setBits8(d, b, 8, o, 0) =
          [i \in 1 .. n |-> CASE i = o + 1 -> new \div 256
                              [] i = o + 2 -> new % 256
                              [] OTHER -> d[i]]
    <2>1. ~(8 > 8 \/ 0 > 8 \/ o > Len(d) - 1 \/ 8 \div 8 + o > Len(d))
      BY <1>2
    <2> QED
      BY <1>2, <1>3, <2>1 DEF setBits8
  <1>5. t = 256 * x + r /\ x \in 0 .. 255 /\ r \in 0 .. 255 /\ b \in 0 .. 255
    BY <1>1, <1>2, ByteIsNumber
  <1> HIDE DEF x, t
  <1>6. old = x /\ b % 256 = b
    BY <1>5
  <1> HIDE DEF old
  <1>7. new = 256 * b + r
    BY <1>5, <1>6
  <1> HIDE DEF new
  <1>8. new \div 256 = b /\ new % 256 = r
    BY <1>5, <1>7
  <1>9. ASSUME NEW i \in 1 .. n
        PROVE  (CASE i = o + 1 -> b [] i = o + 2 -> r [] OTHER -> d[i])
                 = [d EXCEPT ![o + 1] = b][i]
    <2>1. CASE i = o + 1
      BY <1>2, <2>1
    <2>2. CASE i = o + 2
      BY <1>1, <1>2, <2>2
    <2>3. CASE i # o + 1 /\ i # o + 2
      BY <1>2, <2>3
    <2> QED
      BY <2>1, <2>2, <2>3
  <1>10. [d EXCEPT ![o + 1] = b] = [i \in 1 .. n |-> [d EXCEPT ![o + 1] = b][i]]
    BY <1>2
  <1> QED
    BY <1>4, <1>8, <1>9, <1>10 DEF Put

\* A whole byte is read.
LEMMA ReadByte ==
  ASSUME NEW n \in Nat, NEW d \in Bytes(n), NEW o \in 0 .. n - 1
  PROVE  getBits8_ORLESS(d, 8, o, 0) = d[o + 1]
  <1>1. PICK r \in Byte : TwoBytes(d, o) = 256 * d[o + 1] + r
    BY TwoBytesAre
  <1>2. d[o + 1] \in Byte
    BY BytesAre
  <1>3. 2^(16 - 8 - 0) = 256 /\ 2^8 = 256
    OBVIOUS
  <1>4. getBits8_ORLESS(d, 8, o, 0) = ((256 * d[o + 1] + r) \div 256) % 256
    BY <1>1, <1>3 DEF getBits8_ORLESS
  <1> QED
    BY <1>2, <1>4 DEF Byte

\* One bit is read, counting from the left.
LEMMA ReadBit ==
  ASSUME NEW n \in Nat, NEW d \in Bytes(n), NEW o \in 0 .. n - 1, NEW j \in 0 .. 7
  PROVE  getBits8_ORLESS(d, 1, o, j) = (d[o + 1] \div 2^(7 - j)) % 2
  <1>1. PICK r \in Byte : TwoBytes(d, o) = 256 * d[o + 1] + r
    BY TwoBytesAre
  <1>2. d[o + 1] \in 0 .. 255 /\ r \in 0 .. 255
    BY BytesAre, ByteIsNumber
  <1>3. 2^1 = 2
    OBVIOUS
  <1>4. getBits8_ORLESS(d, 1, o, j) = ((256 * d[o + 1] + r) \div 2^(15 - j)) % 2
    <2>1. 16 - 1 - j = 15 - j
      OBVIOUS
    <2> QED
      BY <1>1, <1>3, <2>1 DEF getBits8_ORLESS
  <1>5. j \in {0, 1, 2, 3, 4, 5, 6, 7}
    OBVIOUS
  <1> DEFINE x == d[o + 1]
  <1> HIDE DEF x
  <1>6. x \in 0 .. 255
    BY <1>2 DEF x
  <1>7. (256 * x + r) \div 2^(15 - j) = x \div 2^(7 - j)
    <2>0. CASE j = 0
      BY <1>2, <1>6, <2>0
    <2>1. CASE j = 1
      BY <1>2, <1>6, <2>1
    <2>2. CASE j = 2
      BY <1>2, <1>6, <2>2
    <2>3. CASE j = 3
      BY <1>2, <1>6, <2>3
    <2>4. CASE j = 4
      BY <1>2, <1>6, <2>4
    <2>5. CASE j = 5
      BY <1>2, <1>6, <2>5
    <2>6. CASE j = 6
      BY <1>2, <1>6, <2>6
    <2>7. CASE j = 7
      BY <1>2, <1>6, <2>7
    <2> QED
      BY <1>5, <2>0, <2>1, <2>2, <2>3, <2>4, <2>5, <2>6, <2>7
  <1> QED
    BY <1>4, <1>7 DEF x

(* e is d with the m bytes of w from offset o on. *)
Overwritten(e, d, n, w, m, o) ==
  /\ e \in Bytes(n)
  /\ \A i \in 1 .. n : e[i] = IF o < i /\ i <= o + m THEN w[i - o] ELSE d[i]

\* The loop of setBits and setBytes writes one byte after the other.
LEMMA BytesAreSet ==
  ASSUME NEW n \in Nat, NEW d \in Bytes(n), NEW m \in Nat, NEW w \in Bytes(m),
         NEW o \in Nat, o + m <= n
  PROVE  Overwritten(SetEach(d, w, o, 0), d, n, w, m, o)
  <1> DEFINE D == 1 .. m
             next(e, k) == setBits8(e, w[k], 8, o + k - 1, 0)
             seq == [k \in 1 .. Len(w) |-> k]
             Defines(it) == it = [s \in SUBSET DOMAIN seq |->
                                    IF s = {} THEN d ELSE next(it[s \ {Max(s)}], seq[Max(s)])]
             F == [p \in D \X Bytes(n) |-> next(p[2], p[1])]
             c == [s \in SUBSET D |-> Max(s)]
  <1>1. SetEach(d, w, o, 0) = (CHOOSE it : Defines(it))[DOMAIN seq]
    BY Zenon DEF SetEach, FoldLeft, MapThenFoldSet
  <1>2. DOMAIN seq = D /\ \A k \in D : seq[k] = k
    BY BytesAre
  <1>3. PicksLast(c, D) /\ \A s \in SUBSET D : c[s] = Max(s)
    BY LastIndex DEF PicksLast
  <1>4. ASSUME NEW e \in Bytes(n), NEW k \in D
        PROVE  next(e, k) = Put(e, o + k - 1, w[k]) /\ next(e, k) \in Bytes(n)
    <2>1. o + k - 1 \in 0 .. n - 1 /\ w[k] \in Byte
      BY BytesAre
    <2> QED
      BY <2>1, SetWholeByte, PutByte
  <1>5. F \in [D \X Bytes(n) -> Bytes(n)] /\ \A k \in D, e \in Bytes(n) : F[<<k, e>>] = next(e, k)
    <2> HIDE DEF next, D
    <2> QED BY <1>4
  <1>6. IsFiniteSet(D)
    BY FS_Interval
  <1> HIDE DEF F, c, next, seq
  <1>7. \E it : Defines(it)
    <2>1. \A s \in SUBSET D : s # {} => c[s] \in s
      BY <1>3 DEF PicksLast
    <2>2. PICK it \in [SUBSET D -> Bytes(n)] : Recursion(it, D, d, F, c)
      <3> HIDE DEF D
      <3> QED BY Zenon, <1>5, <1>6, <2>1, SetRecursion
    <2>3. ASSUME NEW s \in SUBSET D, s # {} PROVE it[s] = next(it[s \ {Max(s)}], seq[Max(s)])
      <3>1. c[s] = Max(s) /\ Max(s) \in D /\ s \ {Max(s)} \in SUBSET D
        BY <1>3, <2>1, <2>3
      <3>2. it[s] = F[<<c[s], it[s \ {c[s]}]>>]
        BY <2>2, <2>3 DEF Recursion
      <3>3. it[s \ {Max(s)}] \in Bytes(n)
        BY <2>2, <3>1
      <3> QED
        BY <1>2, <1>5, <3>1, <3>2, <3>3
    <2>4. it[{}] = d
      BY <2>2 DEF Recursion
    <2>5. Defines(it)
      BY <1>2, <2>2, <2>3, <2>4
    <2> QED
      BY <2>5
  <1>8. PICK it : Defines(it) /\ SetEach(d, w, o, 0) = it[D]
    BY <1>1, <1>2, <1>7
  <1>9. TakesLast(it, D, Bytes(n), d, F, c)
    <2>1. it[{}] = d /\ \A s \in SUBSET D : s # {} => it[s] = next(it[s \ {Max(s)}], seq[Max(s)])
      BY <1>2, <1>8
    <2>2. \A s \in SUBSET D : s # {} => c[s] = Max(s) /\ Max(s) \in D /\ seq[Max(s)] = Max(s)
      BY <1>2, <1>3 DEF PicksLast
    <2> HIDE DEF Defines, D
    <2>3. ASSUME NEW s \in SUBSET D, s # {}, it[s \ {c[s]}] \in Bytes(n)
          PROVE  it[s] = F[<<c[s], it[s \ {c[s]}]>>]
      <3>1. c[s] = Max(s) /\ Max(s) \in D /\ it[s] = next(it[s \ {Max(s)}], Max(s))
        BY <2>1, <2>2, <2>3
      <3> QED
        BY <1>5, <2>3, <3>1
    <2> QED
      BY <2>1, <2>3 DEF TakesLast
  <1> HIDE DEF Defines
  <1>10. PICK st \in [0 .. m -> Bytes(n)] :
           /\ st[0] = d /\ st[m] = it[D]
           /\ \A k \in D : st[k] = next(st[k - 1], k)
    <2>1. UpToN(D, m) /\ \A k \in D : k \in 1 .. m /\ k - 1 \in 0 .. m
      BY DEF UpToN
    <2> HIDE DEF D
    <2>2. InSteps(it[D], m, Bytes(n), d, F)
      BY <1>3, <1>5, <1>9, <2>1, FoldSteps
    <2> QED
      BY <1>5, <2>1, <2>2 DEF InSteps
  <1> DEFINE S == {k \in 0 .. m : Overwritten(st[k], d, n, w, k, o)}
  <1>11. 0 \in S
    <2>1. \A i \in 1 .. n : ~(o < i /\ i <= o + 0)
      OBVIOUS
    <2> QED
      BY <1>10, <2>1 DEF Overwritten
  <1>12. ASSUME NEW k \in 0 .. m - 1, k \in S PROVE k + 1 \in S
    <2>1. st[k] \in Bytes(n) /\ k + 1 \in D /\ (k + 1) - 1 = k /\ o + (k + 1) - 1 = o + k
      BY <1>10
    <2>2. st[k + 1] = Put(st[k], o + k, w[k + 1])
      BY <1>4, <1>10, <2>1
    <2>3. o + k \in 0 .. n - 1 /\ w[k + 1] \in Byte
      BY <2>1, BytesAre
    <2>4. /\ st[k + 1] \in Bytes(n)
          /\ \A i \in 1 .. n : st[k + 1][i] = IF i = (o + k) + 1 THEN w[k + 1] ELSE st[k][i]
      BY <2>1, <2>2, <2>3, PutByte
    <2>5. \A i \in 1 .. n : st[k][i] = IF o < i /\ i <= o + k THEN w[i - o] ELSE d[i]
      BY <1>12 DEF Overwritten
    <2>6. ASSUME NEW i \in 1 .. n
          PROVE  st[k + 1][i] = IF o < i /\ i <= o + (k + 1) THEN w[i - o] ELSE d[i]
      <3>1. CASE i = (o + k) + 1
        <4>1. i - o = k + 1
          BY <3>1
        <4> QED
          BY <2>4, <3>1, <4>1
      <3>2. CASE i # (o + k) + 1
        BY <2>4, <2>5, <3>2
      <3> QED
        BY <3>1, <3>2
    <2> QED
      BY <2>1, <2>4, <2>6 DEF Overwritten
  <1>13. m \in S
    <2> HIDE DEF S
    <2>1. \A k \in 0 .. m : k \in S
      BY <1>11, <1>12, UpTo
    <2> QED
      BY <2>1
  <1> QED
    BY <1>8, <1>10, <1>13

(* The numbers of two bytes. *)
Word == {v \in Int : 0 <= v /\ v < 65536}

\* The high byte of two is a byte.
LEMMA HighByteTop ==
  ASSUME NEW v \in Word
  PROVE  v \div 256 <= 255
  BY DEF Word

LEMMA HighByteBottom ==
  ASSUME NEW v \in Word
  PROVE  v \div 256 >= 0
  BY DEF Word

(* The two bytes of v make v again. *)
Splits(v) ==
  \E h \in Byte, r \in Byte :
    256 * h + r = v /\ h % 256 = h /\ v \div 256 = h /\ v % 256 = r

\* Two bytes hold their number.
LEMMA TwoBytesOf ==
  ASSUME NEW v \in Word
  PROVE  Splits(v)
  <1>1. v \div 256 \in Int /\ v % 256 \in 0 .. 255
    BY DEF Word
  <1>2. v \div 256 <= 255
    BY HighByteTop
  <1>3. v \div 256 >= 0
    BY HighByteBottom
  <1>4. 256 * (v \div 256) + (v % 256) = v
    BY DEF Word
  <1> DEFINE h == v \div 256
             r == v % 256
  <1>5. h \in Int /\ 0 <= h /\ h <= 255
    BY <1>1, <1>2, <1>3
  <1>6. 256 * h + r = v /\ r \in Byte /\ v \div 256 = h /\ v % 256 = r
    BY <1>1, <1>4 DEF Byte
  <1> HIDE DEF h, r
  <1>7. h \in Byte /\ h % 256 = h
    BY <1>5 DEF Byte
  <1> QED
    BY <1>6, <1>7 DEF Splits

\* A number of two bytes, higher byte first.
LEMMA TwoBytesAreSet ==
  ASSUME NEW n \in Nat, NEW d \in Bytes(n), NEW v \in Word, NEW o \in Nat, o + 2 <= n
  PROVE  Overwritten(setBits(d, v, 16, o, 0), d, n, <<v \div 256, v % 256>>, 2, o)
  <1> DEFINE w == [k \in 1 .. 2 |-> (v \div 2^(8 * (2 - k))) % 256]
  <1>1. (16 + 7) \div 8 = 2 /\ ~(16 \div 8 + o > Len(d))
    BY BytesAre
  <1>2. setBits(d, v, 16, o, 0) = SetEach(d, w, o, 0)
    <2> DEFINE U(to) == SetEach(d, [k \in 1 .. to |-> (v \div 2^(8 * (to - k))) % 256], o, 0)
    <2>1. setBits(d, v, 16, o, 0) = U((16 + 7) \div 8)
      BY <1>1 DEF setBits
    <2> HIDE DEF U
    <2>2. setBits(d, v, 16, o, 0) = U(2)
      BY <1>1, <2>1
    <2> QED
      BY <2>2 DEF U
  <1>3. w = <<v \div 256, v % 256>> /\ w \in Bytes(2)
    <2>1. w[1] = (v \div 256) % 256
      <3>1. 2^(8 * (2 - 1)) = 256
        OBVIOUS
      <3> QED
        BY <3>1
    <2>2. w[2] = v % 256
      <3>1. 2^(8 * (2 - 2)) = 1
        OBVIOUS
      <3> QED
        BY <3>1 DEF Word
    <2>3. w = [k \in 1 .. 2 |-> w[k]]
      OBVIOUS
    <2> HIDE DEF w
    <2>4. PICK h \in Byte, r \in Byte : h % 256 = h /\ v \div 256 = h /\ v % 256 = r
      <3>1. Splits(v)
        BY TwoBytesOf
      <3> QED
        BY <3>1 DEF Splits
    <2>8. w = <<w[1], w[2]>>
      BY <2>3
    <2>9. w = <<h, r>>
      BY <2>1, <2>2, <2>4, <2>8
    <2>10. w \in Bytes(2)
      BY <2>9 DEF Bytes
    <2> QED
      BY <2>4, <2>9, <2>10
  <1> HIDE DEF w
  <1>4. Overwritten(SetEach(d, w, o, 0), d, n, w, 2, o)
    BY <1>3, BytesAreSet
  <1> QED
    BY <1>2, <1>3, <1>4

\* Sixteen bits from the first bit of a byte on are two bytes.
LEMMA ReadTwoBytes ==
  ASSUME NEW n \in Nat, NEW d \in Bytes(n), NEW o \in Nat, o + 2 <= n
  PROVE  getBits(d, 16, o, 0) = 256 * d[o + 1] + d[o + 2]
  <1> DEFINE D == {1, 2}
             at == 8 * o + 0 + 0
             next(e, k) == 256 * e + getBits8_ORLESS(d, 8, (at + 8 * (k - 1)) \div 8, at % 8)
             seq == [k \in 1 .. 2 |-> k]
             Defines(it) == it = [s \in SUBSET DOMAIN seq |->
                                    IF s = {} THEN 0 ELSE next(it[s \ {Max(s)}], seq[Max(s)])]
             F == [p \in D \X Int |-> next(p[2], p[1])]
             c == [s \in SUBSET D |-> Max(s)]
  <1>1. getBits(d, 16, o, 0) = (CHOOSE it : Defines(it))[DOMAIN seq]
    <2>1. 16 % 8 = 0 /\ 16 \div 8 = 2
      OBVIOUS
    <2> DEFINE head(first) == IF first = 0 THEN 0 ELSE getBits8_ORLESS(d, first, o, 0)
               U(h, first, to) ==
                 FoldLeft(LAMBDA res, k : 256 * res
                            + getBits8_ORLESS(d, 8, (8 * o + 0 + first + 8 * (k - 1)) \div 8,
                                              (8 * o + 0 + first) % 8),
                          h, [k \in 1 .. to |-> k])
    <2>2. getBits(d, 16, o, 0) = U(head(16 % 8), 16 % 8, 16 \div 8)
      BY Zenon DEF getBits
    <2>3. U(0, 0, 2) = (CHOOSE it : Defines(it))[DOMAIN seq]
      BY Zenon DEF FoldLeft, MapThenFoldSet
    <2> HIDE DEF U, Defines
    <2>4. U(head(16 % 8), 16 % 8, 16 \div 8) = U(0, 0, 2)
      BY <2>1
    <2> QED
      BY <2>2, <2>3, <2>4
  <1>2. DOMAIN seq = D /\ \A k \in D : seq[k] = k
    OBVIOUS
  <1>3. \A s \in SUBSET D : s # {} => Max(s) \in s /\ (\A y \in s : y <= Max(s)) /\ c[s] = Max(s)
    <2>1. D = 1 .. 2
      OBVIOUS
    <2> QED
      BY <2>1, LastIndex
  <1>4. \A e \in Int : next(e, 1) = 256 * e + d[o + 1] /\ next(e, 2) = 256 * e + d[o + 2]
    <2>1. (at + 8 * (1 - 1)) \div 8 = o /\ (at + 8 * (2 - 1)) \div 8 = o + 1 /\ at % 8 = 0
      OBVIOUS
    <2>2. /\ getBits8_ORLESS(d, 8, o, 0) = d[o + 1]
          /\ getBits8_ORLESS(d, 8, o + 1, 0) = d[(o + 1) + 1]
      BY ReadByte
    <2>3. (o + 1) + 1 = o + 2
      OBVIOUS
    <2> HIDE DEF at
    <2> QED
      BY <2>1, <2>2, <2>3
  <1>5. d[o + 1] \in Int /\ d[o + 2] \in Int
    <2>1. o + 1 \in 1 .. n /\ o + 2 \in 1 .. n
      OBVIOUS
    <2>2. \A i \in 1 .. n : d[i] \in Byte
      BY BytesAre
    <2>3. d[o + 1] \in Byte /\ d[o + 2] \in Byte
      BY <2>1, <2>2
    <2> QED
      BY <2>3 DEF Byte
  <1>6. F \in [D \X Int -> Int] /\ \A k \in D, e \in Int : F[<<k, e>>] = next(e, k)
    <2> HIDE DEF next
    <2>1. \A e \in Int : next(e, 1) \in Int /\ next(e, 2) \in Int
      BY <1>4, <1>5
    <2> QED
      BY <2>1
  <1> HIDE DEF F, c, next, seq, at
  <1>7. IsFiniteSet(D)
    <2>1. 1 \in Int /\ 2 \in Int
      OBVIOUS
    <2>2. IsFiniteSet(1 .. 2)
      BY Zenon, <2>1, FS_Interval
    <2>3. 1 .. 2 = D
      OBVIOUS
    <2> QED
      BY <2>2, <2>3
  <1>8. \E it : Defines(it)
    <2>1. \A s \in SUBSET D : s # {} => c[s] \in s
      BY <1>3
    <2>0. 0 \in Int
      OBVIOUS
    <2> HIDE DEF D
    <2>2. PICK it \in [SUBSET D -> Int] : Recursion(it, D, 0, F, c)
      BY Zenon, <1>6, <1>7, <2>1, <2>0, SetRecursion
    <2>3. ASSUME NEW s \in SUBSET D, s # {} PROVE it[s] = next(it[s \ {Max(s)}], seq[Max(s)])
      <3>1. c[s] = Max(s) /\ Max(s) \in D /\ s \ {Max(s)} \in SUBSET D
        BY <1>3, <2>3
      <3>2. it[s] = F[<<c[s], it[s \ {c[s]}]>>]
        BY <2>2, <2>3 DEF Recursion
      <3>3. it[s \ {Max(s)}] \in Int
        BY <2>2, <3>1
      <3> QED
        BY <1>2, <1>6, <3>1, <3>2, <3>3
    <2>4. it[{}] = 0
      BY <2>2 DEF Recursion
    <2>5. Defines(it)
      BY <1>2, <2>2, <2>3, <2>4
    <2> QED
      BY <2>5
  <1>9. PICK it : Defines(it) /\ getBits(d, 16, o, 0) = it[D]
    BY <1>1, <1>2, <1>8
  <1>10. it[{}] = 0 /\ it[{1}] = next(it[{}], 1) /\ it[D] = next(it[{1}], 2)
    <2>1. {1} \in SUBSET D /\ D \in SUBSET D /\ {} \in SUBSET D /\ {1} # {} /\ D # {}
      OBVIOUS
    <2>2. Max({1}) = 1 /\ Max(D) = 2
      <3>1. Max({1}) \in {1} /\ Max(D) \in D /\ 2 <= Max(D)
        BY <1>3, <2>1
      <3> QED
        BY <3>1
    <2>3. {1} \ {1} = {} /\ D \ {2} = {1}
      OBVIOUS
    <2>4. \A s \in SUBSET D : it[s] = IF s = {} THEN 0 ELSE next(it[s \ {Max(s)}], seq[Max(s)])
      BY <1>2, <1>9
    <2> HIDE DEF Defines
    <2>5. seq[1] = 1 /\ seq[2] = 2
      BY <1>2
    <2> QED
      BY <2>1, <2>2, <2>3, <2>4, <2>5
  <1> HIDE DEF Defines, D
  <1>11. it[{1}] = d[o + 1]
    BY <1>4, <1>5, <1>10
  <1> QED
    BY <1>4, <1>5, <1>9, <1>10, <1>11

-----------------------------------------------------------------------------
(* Lists of items (QoSList).                                               *)

(* An item of a list of items: the key and its number at offset a; x is e *)
(* with that item written.                                                 *)
ItemAt(x, a, key, v) == x[a + 1] = key /\ 256 * x[a + 2] + x[a + 3] = v
OneItem(x, e, n, a, key, v) ==
  /\ x \in Bytes(n) /\ ItemAt(x, a, key, v)
  /\ \A i \in 1 .. n : i <= a \/ a + 3 < i => x[i] = e[i]

\* An item is a key and two bytes.
LEMMA ItemIsSet ==
  ASSUME NEW n \in Nat, NEW e \in Bytes(n), NEW a \in Nat, a + 3 <= n,
         NEW key \in Byte, NEW v \in Word
  PROVE  OneItem(setBits(Put(e, a, key), v, 16, a + 1, 0), e, n, a, key, v)
  <1> DEFINE p == Put(e, a, key)
             x == setBits(p, v, 16, a + 1, 0)
  <1>1. p \in Bytes(n) /\ \A i \in 1 .. n : p[i] = IF i = a + 1 THEN key ELSE e[i]
    <2>1. a \in 0 .. n - 1
      OBVIOUS
    <2> QED
      BY <2>1, PutByte
  <1> HIDE DEF p
  <1>2. Overwritten(x, p, n, <<v \div 256, v % 256>>, 2, a + 1)
    <2>1. a + 1 \in Nat /\ (a + 1) + 2 <= n
      OBVIOUS
    <2> QED
      BY <1>1, <2>1, TwoBytesAreSet
  <1> HIDE DEF x
  <1>3. PICK h \in Byte, r \in Byte : 256 * h + r = v /\ v \div 256 = h /\ v % 256 = r
    <2>1. Splits(v)
      BY TwoBytesOf
    <2> QED
      BY <2>1 DEF Splits
  <1>4. Overwritten(x, p, n, <<h, r>>, 2, a + 1)
    BY <1>2, <1>3
  <1>5. /\ x \in Bytes(n)
        /\ \A i \in 1 .. n : x[i] = IF a + 1 < i /\ i <= (a + 1) + 2 THEN <<h, r>>[i - (a + 1)] ELSE p[i]
    BY <1>4 DEF Overwritten
  <1>6. x[a + 1] = key /\ x[a + 2] = h /\ x[a + 3] = r
    <2>1. /\ a + 1 \in 1 .. n /\ a + 2 \in 1 .. n /\ a + 3 \in 1 .. n
          /\ (a + 2) - (a + 1) = 1 /\ (a + 3) - (a + 1) = 2
      OBVIOUS
    <2>2. x[a + 1] = p[a + 1] /\ p[a + 1] = key
      BY <1>1, <1>5, <2>1
    <2>3. x[a + 2] = <<h, r>>[(a + 2) - (a + 1)]
      <3>1. a + 1 < a + 2 /\ a + 2 <= (a + 1) + 2
        OBVIOUS
      <3> QED
        BY <1>5, <2>1, <3>1
    <2>4. x[a + 3] = <<h, r>>[(a + 3) - (a + 1)]
      BY <1>5, <2>1
    <2> QED
      BY <2>1, <2>2, <2>3, <2>4
  <1>7. ASSUME NEW i \in 1 .. n, i <= a \/ a + 3 < i PROVE x[i] = e[i]
    <2>1. ~(a + 1 < i /\ i <= (a + 1) + 2) /\ i # a + 1
      BY <1>7
    <2>2. x[i] = p[i]
      BY <1>5, <2>1
    <2>3. p[i] = e[i]
      BY <1>1, <2>1
    <2> QED
      BY <2>2, <2>3
  <1>8. OneItem(x, e, n, a, key, v)
    BY <1>3, <1>5, <1>6, <1>7 DEF OneItem, ItemAt
  <1> QED
    BY <1>8 DEF x, p

(* x is d with the first m items of q, from offset pos on. *)
ItemsWritten(x, d, n, pos, q, m) ==
  /\ x \in Bytes(n)
  /\ \A i \in 1 .. n : i <= pos \/ pos + 3 * m < i => x[i] = d[i]
  /\ \A k \in 1 .. m : ItemAt(x, pos + 3 * (k - 1), Keys(q)[k], q[Keys(q)[k]])
(* q has m items that fit in bytes. *)
Fits(q, m) ==
  Len(Keys(q)) = m /\ \A k \in 1 .. m : Keys(q)[k] \in Byte /\ q[Keys(q)[k]] \in Word

\* The items of a list, one after the other.
LEMMA ItemsAreSet ==
  ASSUME NEW n \in Nat, NEW d \in Bytes(n), NEW pos \in Nat, NEW q, NEW m \in Nat,
         Fits(q, m), pos + 3 * m <= n
  PROVE  ItemsWritten(PutItems(d, pos, q), d, n, pos, q, m)
  <1> DEFINE D == 1 .. m
             next(e, k) == setBits(Put(e, pos + QoS_ITEM_SIZE * (k - 1), Keys(q)[k]),
                                   q[Keys(q)[k]], 16, pos + QoS_ITEM_SIZE * (k - 1) + 1, 0)
             seq == [k \in 1 .. Len(Keys(q)) |-> k]
             Defines(it) == it = [s \in SUBSET DOMAIN seq |->
                                    IF s = {} THEN d ELSE next(it[s \ {Max(s)}], seq[Max(s)])]
             F == [p \in D \X Bytes(n) |-> next(p[2], p[1])]
             c == [s \in SUBSET D |-> Max(s)]
  <1>1. PutItems(d, pos, q) = (CHOOSE it : Defines(it))[DOMAIN seq]
    BY Zenon DEF PutItems, FoldLeft, MapThenFoldSet
  <1>2. DOMAIN seq = D /\ \A k \in D : seq[k] = k
    BY DEF Fits
  <1>3. PicksLast(c, D) /\ \A s \in SUBSET D : c[s] = Max(s)
    BY LastIndex DEF PicksLast
  <1>4. ASSUME NEW e \in Bytes(n), NEW k \in D
        PROVE  /\ next(e, k) \in Bytes(n)
               /\ OneItem(next(e, k), e, n, pos + 3 * (k - 1), Keys(q)[k], q[Keys(q)[k]])
    <2> DEFINE a == pos + 3 * (k - 1)
    <2>1. a \in Nat /\ a + 3 <= n /\ pos + QoS_ITEM_SIZE * (k - 1) = a
      BY DEF QoS_ITEM_SIZE
    <2>2. Keys(q)[k] \in Byte /\ q[Keys(q)[k]] \in Word
      BY DEF Fits
    <2> HIDE DEF a
    <2>3. next(e, k) = setBits(Put(e, a, Keys(q)[k]), q[Keys(q)[k]], 16, a + 1, 0)
      BY <2>1
    <2> HIDE DEF next
    <2>4. OneItem(next(e, k), e, n, a, Keys(q)[k], q[Keys(q)[k]])
      BY <2>1, <2>2, <2>3, ItemIsSet
    <2> QED
      BY <2>4 DEF OneItem, a
  <1>5. F \in [D \X Bytes(n) -> Bytes(n)] /\ \A k \in D, e \in Bytes(n) : F[<<k, e>>] = next(e, k)
    <2> HIDE DEF next, D
    <2> QED BY <1>4
  <1>6. IsFiniteSet(D)
    BY FS_Interval
  <1> HIDE DEF F, c, next, seq
  <1>7. \E it : Defines(it)
    <2>1. \A s \in SUBSET D : s # {} => c[s] \in s
      BY <1>3 DEF PicksLast
    <2>2. PICK it \in [SUBSET D -> Bytes(n)] : Recursion(it, D, d, F, c)
      <3> HIDE DEF D
      <3> QED BY Zenon, <1>5, <1>6, <2>1, SetRecursion
    <2>3. ASSUME NEW s \in SUBSET D, s # {} PROVE it[s] = next(it[s \ {Max(s)}], seq[Max(s)])
      <3>1. c[s] = Max(s) /\ Max(s) \in D /\ s \ {Max(s)} \in SUBSET D
        BY <1>3, <2>1, <2>3
      <3>2. it[s] = F[<<c[s], it[s \ {c[s]}]>>]
        BY <2>2, <2>3 DEF Recursion
      <3>3. it[s \ {Max(s)}] \in Bytes(n)
        BY <2>2, <3>1
      <3> QED
        BY <1>2, <1>5, <3>1, <3>2, <3>3
    <2>4. it[{}] = d
      BY <2>2 DEF Recursion
    <2>5. Defines(it)
      BY <1>2, <2>2, <2>3, <2>4
    <2> QED
      BY <2>5
  <1>8. PICK it : Defines(it) /\ PutItems(d, pos, q) = it[D]
    BY <1>1, <1>2, <1>7
  <1>9. TakesLast(it, D, Bytes(n), d, F, c)
    <2>1. it[{}] = d /\ \A s \in SUBSET D : s # {} => it[s] = next(it[s \ {Max(s)}], seq[Max(s)])
      BY <1>2, <1>8
    <2>2. \A s \in SUBSET D : s # {} => c[s] = Max(s) /\ Max(s) \in D /\ seq[Max(s)] = Max(s)
      BY <1>2, <1>3 DEF PicksLast
    <2> HIDE DEF Defines, D
    <2>3. ASSUME NEW s \in SUBSET D, s # {}, it[s \ {c[s]}] \in Bytes(n)
          PROVE  it[s] = F[<<c[s], it[s \ {c[s]}]>>]
      <3>1. c[s] = Max(s) /\ Max(s) \in D /\ it[s] = next(it[s \ {Max(s)}], Max(s))
        BY <2>1, <2>2, <2>3
      <3> QED
        BY <1>5, <2>3, <3>1
    <2> QED
      BY <2>1, <2>3 DEF TakesLast
  <1> HIDE DEF Defines
  <1>10. PICK st \in [0 .. m -> Bytes(n)] :
           /\ st[0] = d /\ st[m] = it[D]
           /\ \A k \in D : st[k] = next(st[k - 1], k)
    <2>1. UpToN(D, m) /\ \A k \in D : k \in 1 .. m /\ k - 1 \in 0 .. m
      BY DEF UpToN
    <2> HIDE DEF D
    <2>2. InSteps(it[D], m, Bytes(n), d, F)
      BY <1>3, <1>5, <1>9, <2>1, FoldSteps
    <2> QED
      BY <1>5, <2>1, <2>2 DEF InSteps
  <1> DEFINE S == {k \in 0 .. m : ItemsWritten(st[k], d, n, pos, q, k)}
  <1>11. 0 \in S
    <2>1. st[0] \in Bytes(n) /\ st[0] = d /\ 1 .. 0 = {} /\ 0 \in 0 .. m
      BY <1>10
    <2> QED
      BY <2>1 DEF ItemsWritten
  <1>12. ASSUME NEW k \in 0 .. m - 1, k \in S PROVE k + 1 \in S
    <2> DEFINE a == pos + 3 * k
    <2>1. st[k] \in Bytes(n) /\ k + 1 \in D /\ (k + 1) - 1 = k /\ k + 1 \in 0 .. m /\ a \in Nat
      BY <1>10
    <2>2. /\ st[k + 1] \in Bytes(n)
          /\ OneItem(st[k + 1], st[k], n, a, Keys(q)[k + 1], q[Keys(q)[k + 1]])
      <3>1. st[k + 1] = next(st[k], k + 1)
        BY <1>10, <2>1
      <3> QED
        BY <1>4, <2>1, <3>1
    <2>3. ItemsWritten(st[k], d, n, pos, q, k)
      BY <1>12
    <2>4. ASSUME NEW i \in 1 .. n, i <= pos \/ pos + 3 * (k + 1) < i PROVE st[k + 1][i] = d[i]
      <3>1. (i <= a \/ a + 3 < i) /\ (i <= pos \/ pos + 3 * k < i)
        BY <2>4
      <3> QED
        BY <2>2, <2>3, <3>1 DEF OneItem, ItemsWritten
    <2>5. ASSUME NEW j \in 1 .. k + 1
          PROVE  ItemAt(st[k + 1], pos + 3 * (j - 1), Keys(q)[j], q[Keys(q)[j]])
      <3>1. CASE j = k + 1
        <4>1. pos + 3 * (j - 1) = a
          BY <3>1
        <4> QED
          BY <2>2, <3>1, <4>1 DEF OneItem
      <3>2. CASE j # k + 1
        <4> DEFINE b == pos + 3 * (j - 1)
        <4>1. j \in 1 .. k /\ b \in Nat /\ b + 3 <= a /\ a <= n
          BY <3>2
        <4>2. ItemAt(st[k], b, Keys(q)[j], q[Keys(q)[j]])
          BY <2>3, <4>1 DEF ItemsWritten
        <4> HIDE DEF a, b
        <4>3. \A i \in 1 .. n : i <= a => st[k + 1][i] = st[k][i]
          BY <2>2 DEF OneItem
        <4>4. /\ b + 1 \in 1 .. n /\ b + 2 \in 1 .. n /\ b + 3 \in 1 .. n
              /\ b + 1 <= a /\ b + 2 <= a /\ b + 3 <= a
          BY <2>1, <4>1
        <4>5. ItemAt(st[k + 1], b, Keys(q)[j], q[Keys(q)[j]])
          BY <4>2, <4>3, <4>4 DEF ItemAt
        <4> QED
          BY <4>5 DEF b
      <3> QED
        BY <3>1, <3>2
    <2>6. ItemsWritten(st[k + 1], d, n, pos, q, k + 1)
      BY <2>2, <2>4, <2>5 DEF ItemsWritten
    <2> QED
      BY <2>1, <2>6
  <1>13. m \in S
    <2> HIDE DEF S
    <2>1. \A k \in 0 .. m : k \in S
      BY <1>11, <1>12, UpTo
    <2> QED
      BY <2>1
  <1> QED
    BY <1>8, <1>10, <1>13

(* The keys of q are told apart, and there is one for every item. *)
KeysTold(q, m) ==
  /\ q = [key \in DOMAIN q |-> q[key]]
  /\ DOMAIN q = {Keys(q)[k] : k \in 1 .. m}
  /\ \A j, k \in 1 .. m : Keys(q)[j] = Keys(q)[k] => j = k
ItemsAt(d, n, pos, q, m) ==
  /\ d \in Bytes(n) /\ pos + 3 * m <= n
  /\ \A k \in 1 .. m : ItemAt(d, pos + 3 * (k - 1), Keys(q)[k], q[Keys(q)[k]])

\* The items of a list are read as they were written.
LEMMA ItemsAreRead ==
  ASSUME NEW n \in Nat, NEW d, NEW pos \in Nat, NEW q, NEW m \in Nat,
         ItemsAt(d, n, pos, q, m), KeysTold(q, m)
  PROVE  GetItems(d, pos, m) = q
  <1> DEFINE a(k) == pos + QoS_ITEM_SIZE * (k - 1)
             last(key) == Max({k \in 1 .. m : At(d, a(k)) = key})
  <1>1. GetItems(d, pos, m) = [key \in {At(d, a(k)) : k \in 1 .. m} |-> getBits(d, 16, 1 + a(last(key)), 0)]
    BY Zenon DEF GetItems
  <1>2. ASSUME NEW k \in 1 .. m
        PROVE  At(d, a(k)) = Keys(q)[k] /\ getBits(d, 16, 1 + a(k), 0) = q[Keys(q)[k]]
    <2> DEFINE b == pos + 3 * (k - 1)
    <2>1. b \in Nat /\ b + 3 <= n /\ a(k) = b
      BY DEF ItemsAt, QoS_ITEM_SIZE
    <2>2. ItemAt(d, b, Keys(q)[k], q[Keys(q)[k]]) /\ d \in Bytes(n)
      BY DEF ItemsAt
    <2> HIDE DEF a, b
    <2>3. 1 + b \in Nat /\ (1 + b) + 2 <= n /\ (1 + b) + 1 = b + 2 /\ (1 + b) + 2 = b + 3
      BY <2>1
    <2>4. getBits(d, 16, 1 + b, 0) = 256 * d[(1 + b) + 1] + d[(1 + b) + 2]
      BY <2>2, <2>3, ReadTwoBytes
    <2>5. getBits(d, 16, 1 + b, 0) = 256 * d[b + 2] + d[b + 3]
      BY <2>3, <2>4
    <2> QED
      BY <2>1, <2>2, <2>5 DEF ItemAt, At
  <1>3. {At(d, a(k)) : k \in 1 .. m} = DOMAIN q
    <2> HIDE DEF a
    <2> QED
      BY <1>2 DEF KeysTold
  <1>4. ASSUME NEW key \in DOMAIN q PROVE getBits(d, 16, 1 + a(last(key)), 0) = q[key]
    <2>1. PICK k \in 1 .. m : key = Keys(q)[k]
      BY DEF KeysTold
    <2> HIDE DEF a
    <2>2. {j \in 1 .. m : At(d, a(j)) = key} = {k}
      BY <1>2, <2>1 DEF KeysTold
    <2>3. Max({k}) = k
      <3>1. {k} \in SUBSET (1 .. m) /\ {k} # {}
        OBVIOUS
      <3>2. Max({k}) \in {k}
        BY <3>1, LastIndex
      <3> QED
        BY <3>2
    <2>4. last(key) = k
      BY <2>2, <2>3
    <2> HIDE DEF last
    <2> QED
      BY <1>2, <2>1, <2>4
  <1>5. GetItems(d, pos, m) = [key \in DOMAIN q |-> getBits(d, 16, 1 + a(last(key)), 0)]
    <2> HIDE DEF a, last
    <2> QED
      BY <1>1, <1>3
  <1>6. GetItems(d, pos, m) = [key \in DOMAIN q |-> q[key]]
    <2> HIDE DEF a, last
    <2> QED
      BY <1>4, <1>5
  <1> QED
    BY <1>6 DEF KeysTold

\* The keys of the status of a link.
LEMMA StatusKeys ==
  ASSUME NEW q, DOMAIN q = {1, 10, 15}
  PROVE  Keys(q) = <<1, 10, 15>> /\ Cardinality(DOMAIN q) = 3
  <1> DEFINE S == DOMAIN q
             below(key) == {j \in S : j < key}
             at(k) == CHOOSE key \in S : Cardinality(below(key)) = k - 1
  <1>1. below(1) = {} /\ below(10) = {1} /\ below(15) = {1, 10}
    OBVIOUS
  <1>2. /\ Cardinality({}) = 0 /\ Cardinality({1}) = 1
        /\ Cardinality({1, 10}) = 2 /\ Cardinality(S) = 3
    <2>1. IsFiniteSet({1}) /\ Cardinality({1}) = 1
      BY FS_Singleton
    <2>2. {1} \cup {10} = {1, 10} /\ 10 \notin {1}
      OBVIOUS
    <2>3. IsFiniteSet({1, 10}) /\ Cardinality({1, 10}) = 1 + 1
      BY <2>1, <2>2, FS_AddElement
    <2>4. {1, 10} \cup {15} = S /\ 15 \notin {1, 10}
      OBVIOUS
    <2>5. Cardinality(S) = (1 + 1) + 1
      BY <2>3, <2>4, FS_AddElement
    <2> QED
      BY <2>1, <2>3, <2>5, FS_EmptySet
  <1>3. Keys(q) = [k \in 1 .. 3 |-> at(k)]
    <2>1. Keys(q) = [k \in 1 .. Cardinality(S) |-> at(k)]
      BY Zenon DEF Keys
    <2> QED
      BY <1>2, <2>1
  <1>4. /\ Cardinality(below(1)) = 0 /\ Cardinality(below(10)) = 1
        /\ Cardinality(below(15)) = 2
    BY <1>1, <1>2
  <1> HIDE DEF below
  <1>5. at(1) = 1 /\ at(2) = 10 /\ at(3) = 15
    BY <1>4
  <1> HIDE DEF at
  <1> QED
    BY <1>2, <1>3, <1>5

\* The key of an item's metadata.
LEMMA MetadataKeys ==
  ASSUME NEW q, DOMAIN q = {15}
  PROVE  Keys(q) = <<15>> /\ Cardinality(DOMAIN q) = 1
  <1> DEFINE S == DOMAIN q
             below(key) == {j \in S : j < key}
             at(k) == CHOOSE key \in S : Cardinality(below(key)) = k - 1
  <1>1. Cardinality(S) = 1 /\ Cardinality(below(15)) = 0
    <2>1. below(15) = {}
      OBVIOUS
    <2> QED
      BY <2>1, FS_Singleton, FS_EmptySet
  <1>2. Keys(q) = [k \in 1 .. 1 |-> at(k)]
    <2>1. Keys(q) = [k \in 1 .. Cardinality(S) |-> at(k)]
      BY Zenon DEF Keys
    <2> QED
      BY <1>1, <2>1
  <1> HIDE DEF below
  <1>3. at(1) = 15
    BY <1>1
  <1> HIDE DEF at
  <1> QED
    BY <1>1, <1>2, <1>3

-----------------------------------------------------------------------------
(* Identifiers of links: a byte is the sum of its bits.                    *)

(* The value of bit j of byte k, if it is in bv: bits count from the left. *)
BitValue(bv, k, j) == IF 8 * (k - 1) + j \in bv THEN 2^(7 - j) ELSE 0

\* A byte of a link identifier is the sum of its bits.
LEMMA ByteIsSum ==
  ASSUME NEW bv \in SUBSET Int, NEW k \in Nat \ {0}
  PROVE  MapThenSumSet(LAMBDA bit : 2^(8 * k - 1 - bit), {bit \in bv : bit \div 8 = k - 1})
           = BitValue(bv, k, 0) + BitValue(bv, k, 1) + BitValue(bv, k, 2) + BitValue(bv, k, 3)
             + BitValue(bv, k, 4) + BitValue(bv, k, 5) + BitValue(bv, k, 6) + BitValue(bv, k, 7)
  <1> DEFINE b == 8 * (k - 1)
             D == {bit \in bv : bit \div 8 = k - 1}
             value(bit) == 2^(8 * k - 1 - bit)
             f == [bit \in D |-> value(bit)]
             Defines(it) == it = [s \in SUBSET D |->
                                    IF s = {} THEN 0 ELSE value(AnyOf(s)) + it[s \ {AnyOf(s)}]]
  <1>1. MapThenSumSet(LAMBDA bit : value(bit), D) = (CHOOSE it : Defines(it))[D]
    BY Zenon DEF MapThenSumSet, MapThenFoldSet, AnyOf
  <1>2. b \in Int /\ \A x \in D : \E j \in 0 .. 7 : x = b + j
    <2>1. ASSUME NEW x \in D PROVE x - b \in 0 .. 7 /\ x = b + (x - b)
      BY <2>1
    <2> QED
      BY <2>1
  <1>3. \A j \in 0 .. 7 : (b + j \in D <=> b + j \in bv) /\ value(b + j) = 2^(7 - j)
    <2> TAKE j \in 0 .. 7
    <2>1. (b + j) \div 8 = k - 1 /\ 8 * k - 1 - (b + j) = 7 - j
      OBVIOUS
    <2> QED
      BY <2>1
  <1>4. 2^7 = 128 /\ 2^6 = 64 /\ 2^5 = 32 /\ 2^4 = 16 /\ 2^3 = 8 /\ 2^2 = 4 /\ 2^1 = 2 /\ 2^0 = 1
    OBVIOUS
  <1>5. \A j \in 0 .. 7 : 2^(7 - j) \in Int
    BY <1>4
  <1> HIDE DEF D, value
  <1>6. Sums(f, D)
    <2>1. \A x \in D : value(x) \in Int
      BY <1>2, <1>3, <1>5
    <2> QED
      BY <2>1 DEF Sums
  <1>7. IsFiniteSet(D)
    <2>1. D \subseteq b .. (b + 7)
      BY <1>2
    <2>2. IsFiniteSet(b .. (b + 7))
      BY <1>2, FS_Interval
    <2> QED
      BY <2>1, <2>2, FS_Subset
  <1>8. \A it : Defines(it) <=> AddsUp(it, D, f)
    <2>1. \A s \in SUBSET D : s # {} => f[AnyOf(s)] = value(AnyOf(s))
      <3>1. \A s : s # {} => AnyOf(s) \in s
        BY Zenon DEF AnyOf
      <3> QED
        BY <3>1
    <2> TAKE it
    <2> DEFINE g == [s \in SUBSET D |-> IF s = {} THEN 0 ELSE value(AnyOf(s)) + it[s \ {AnyOf(s)}]]
               h == [s \in SUBSET D |-> IF s = {} THEN 0 ELSE f[AnyOf(s)] + it[s \ {AnyOf(s)}]]
    <2>2. \A s \in SUBSET D : g[s] = h[s]
      <3> HIDE DEF f
      <3> QED BY <2>1
    <2>3. g = h
      <3> HIDE DEF f
      <3> QED BY <2>2
    <2>4. Defines(it) <=> it = g
      BY Zenon
    <2>5. AddsUp(it, D, f) <=> it = h
      BY Zenon DEF AddsUp
    <2> QED
      BY <2>3, <2>4, <2>5
  <1>9. PICK it : Defines(it) /\ MapThenSumSet(LAMBDA bit : value(bit), D) = it[D]
    <2> HIDE DEF f
    <2>1. \E it : Defines(it)
      <3> HIDE DEF Defines
      <3> QED BY <1>6, <1>7, <1>8, SumExists
    <2> HIDE DEF Defines
    <2> QED
      BY <1>1, <2>1
  <1>10. SumOf(it, D, f)
    <2> HIDE DEF f, Defines
    <2> QED BY <1>6, <1>7, <1>8, <1>9, AddedUp
  <1>11. \A x \in D : f[x] = value(x)
    OBVIOUS
  <1> HIDE DEF f, Defines
  <1> DEFINE r(j) == {x \in D : b + j <= x}
  <1>12. r(0) = D /\ r(8) = {}
    BY <1>2
  <1>13. ASSUME NEW j \in 0 .. 7 PROVE it[r(j)] = BitValue(bv, k, j) + it[r(j + 1)]
    <2>1. r(j) \in SUBSET D /\ r(j + 1) \in SUBSET D /\ D \in SUBSET Int
      BY <1>2
    <2>0. /\ \A x \in Int : b + j <= x /\ x # b + j <=> b + (j + 1) <= x
          /\ b + j \in Int /\ b + j <= b + j /\ ~(b + (j + 1) <= b + j)
      BY <1>2
    <2>2. CASE b + j \in D
      <3>1. b + j \in r(j) /\ r(j) \ {b + j} = r(j + 1)
        <4>1. \A x \in D : b + j <= x /\ x # b + j <=> b + (j + 1) <= x
          BY <2>0, <2>1
        <4> DEFINE y == b + j
                   z == b + (j + 1)
        <4>2. y \in D /\ y <= y /\ \A x \in D : y <= x /\ x # y <=> z <= x
          BY <2>0, <2>2, <4>1
        <4> HIDE DEF y, z
        <4>3. y \in {x \in D : y <= x} /\ {x \in D : y <= x} \ {y} = {x \in D : z <= x}
          BY <4>2
        <4> QED
          BY <4>3 DEF y, z
      <3>2. it[r(j)] = f[b + j] + it[r(j) \ {b + j}]
        <4> HIDE DEF r
        <4> QED BY <1>10, <2>1, <3>1 DEF SumOf
      <3>3. BitValue(bv, k, j) = f[b + j]
        BY <1>3, <1>11, <2>2 DEF BitValue
      <3> HIDE DEF r
      <3> QED BY <3>1, <3>2, <3>3
    <2>3. CASE b + j \notin D
      <3>1. r(j) = r(j + 1)
        <4>1. \A x \in D : b + j <= x <=> b + (j + 1) <= x
          BY <2>0, <2>1, <2>3
        <4> DEFINE y == b + j
                   z == b + (j + 1)
        <4>2. \A x \in D : y <= x <=> z <= x
          BY <4>1
        <4> HIDE DEF y, z
        <4>3. {x \in D : y <= x} = {x \in D : z <= x}
          BY <4>2
        <4> QED
          BY <4>3 DEF y, z
      <3>2. BitValue(bv, k, j) = 0
        BY <1>3, <2>3 DEF BitValue
      <3>3. it[r(j + 1)] \in Int
        BY <1>10, <2>1 DEF SumOf
      <3> HIDE DEF r
      <3> QED BY <3>1, <3>2, <3>3
    <2> QED
      BY <2>2, <2>3
  <1>14. it[{}] = 0 /\ \A j \in 0 .. 7 : BitValue(bv, k, j) \in Int
    BY <1>5, <1>10 DEF SumOf, BitValue
  <1> HIDE DEF r, b
  <1>15. /\ it[r(0)] = BitValue(bv, k, 0) + it[r(1)] /\ it[r(1)] = BitValue(bv, k, 1) + it[r(2)]
         /\ it[r(2)] = BitValue(bv, k, 2) + it[r(3)] /\ it[r(3)] = BitValue(bv, k, 3) + it[r(4)]
         /\ it[r(4)] = BitValue(bv, k, 4) + it[r(5)] /\ it[r(5)] = BitValue(bv, k, 5) + it[r(6)]
         /\ it[r(6)] = BitValue(bv, k, 6) + it[r(7)] /\ it[r(7)] = BitValue(bv, k, 7) + it[r(8)]
    <2>1. 0 + 1 = 1 /\ 1 + 1 = 2 /\ 2 + 1 = 3 /\ 3 + 1 = 4 /\ 4 + 1 = 5 /\ 5 + 1 = 6 /\ 6 + 1 = 7 /\ 7 + 1 = 8
      OBVIOUS
    <2> QED
      BY <1>13, <2>1
  <1>16. it[D] = BitValue(bv, k, 0) + BitValue(bv, k, 1) + BitValue(bv, k, 2) + BitValue(bv, k, 3)
             + BitValue(bv, k, 4) + BitValue(bv, k, 5) + BitValue(bv, k, 6) + BitValue(bv, k, 7)
    BY <1>12, <1>14, <1>15
  <1> QED
    BY <1>9, <1>16 DEF D, value

(* w is a bit of weight p. *)
Weighs(w, p) == w = p \/ w = 0

(* A byte as the sum of its bits, and its bits as the byte gives them. *)
SumOfBits(x, a, b, c, d, e, f, g, h) ==
  /\ Weighs(a, 128) /\ Weighs(b, 64) /\ Weighs(c, 32) /\ Weighs(d, 16)
  /\ Weighs(e, 8) /\ Weighs(f, 4) /\ Weighs(g, 2) /\ Weighs(h, 1)
  /\ x = a + b + c + d + e + f + g + h
BitsTold(x, a, b, c, d, e, f, g, h) ==
  /\ x \in Byte
  /\ ((x \div 128) % 2 = 1 <=> a # 0) /\ ((x \div 64) % 2 = 1 <=> b # 0)
  /\ ((x \div 32) % 2 = 1 <=> c # 0) /\ ((x \div 16) % 2 = 1 <=> d # 0)
  /\ ((x \div 8) % 2 = 1 <=> e # 0) /\ ((x \div 4) % 2 = 1 <=> f # 0)
  /\ ((x \div 2) % 2 = 1 <=> g # 0) /\ ((x \div 1) % 2 = 1 <=> h # 0)

\* Dividing a byte by the weight of a bit leaves the bit last.
LEMMA BitsOfSum ==
  ASSUME NEW x, NEW a, NEW b, NEW c, NEW d, NEW e, NEW f, NEW g, NEW h,
         SumOfBits(x, a, b, c, d, e, f, g, h)
  PROVE  BitsTold(x, a, b, c, d, e, f, g, h)
  <1> USE DEF Weighs, SumOfBits
  <1>0. /\ a \in Int /\ b \in Int /\ c \in Int /\ d \in Int
        /\ e \in Int /\ f \in Int /\ g \in Int /\ h \in Int
    OBVIOUS
  <1>1. x \in Byte
    BY <1>0 DEF Byte
  <1>2. (x \div 128) % 2 = 1 <=> a # 0
    BY <1>0
  <1>3. (x \div 64) % 2 = 1 <=> b # 0
    BY <1>0
  <1>4. (x \div 32) % 2 = 1 <=> c # 0
    BY <1>0
  <1>5. (x \div 16) % 2 = 1 <=> d # 0
    BY <1>0
  <1>6. (x \div 8) % 2 = 1 <=> e # 0
    BY <1>0
  <1>7. (x \div 4) % 2 = 1 <=> f # 0
    BY <1>0
  <1>8. (x \div 2) % 2 = 1 <=> g # 0
    BY <1>0
  <1>9. (x \div 1) % 2 = 1 <=> h # 0
    BY <1>0
  <1> QED
    BY Zenon, <1>1, <1>2, <1>3, <1>4, <1>5, <1>6, <1>7, <1>8, <1>9 DEF BitsTold

\* The bytes of a link identifier hold its bits.
LEMMA BytesOfBits ==
  ASSUME FID_LEN \in Nat, NEW bv \in SUBSET Int
  PROVE  /\ BytesOf(bv) \in Bytes(FID_LEN)
         /\ \A k \in 1 .. FID_LEN, j \in 0 .. 7 :
              (BytesOf(bv)[k] \div 2^(7 - j)) % 2 = 1 <=> 8 * (k - 1) + j \in bv
  <1> DEFINE byte(k) == MapThenSumSet(LAMBDA bit : 2^(8 * k - 1 - bit), {bit \in bv : bit \div 8 = k - 1})
  <1>1. BytesOf(bv) = [k \in 1 .. FID_LEN |-> byte(k)]
    BY Zenon DEF BytesOf
  <1>2. ASSUME NEW k \in 1 .. FID_LEN
        PROVE  byte(k) \in Byte /\ \A j \in 0 .. 7 : (byte(k) \div 2^(7 - j)) % 2 = 1 <=> 8 * (k - 1) + j \in bv
    <2> DEFINE v(j) == BitValue(bv, k, j)
               x == v(0) + v(1) + v(2) + v(3) + v(4) + v(5) + v(6) + v(7)
    <2>1. byte(k) = x
      <3>1. k \in Nat \ {0}
        OBVIOUS
      <3> QED
        BY <3>1, ByteIsSum
    <2>2. /\ 7 - 0 = 7 /\ 7 - 1 = 6 /\ 7 - 2 = 5 /\ 7 - 3 = 4
          /\ 7 - 4 = 3 /\ 7 - 5 = 2 /\ 7 - 6 = 1 /\ 7 - 7 = 0
      OBVIOUS
    <2>3. 2^7 = 128 /\ 2^6 = 64 /\ 2^5 = 32 /\ 2^4 = 16 /\ 2^3 = 8 /\ 2^2 = 4 /\ 2^1 = 2 /\ 2^0 = 1
      OBVIOUS
    <2>4. SumOfBits(x, v(0), v(1), v(2), v(3), v(4), v(5), v(6), v(7))
      BY <2>2, <2>3 DEF BitValue, Weighs, SumOfBits
    <2>5. /\ (v(0) # 0 <=> 8 * (k - 1) + 0 \in bv) /\ (v(1) # 0 <=> 8 * (k - 1) + 1 \in bv)
          /\ (v(2) # 0 <=> 8 * (k - 1) + 2 \in bv) /\ (v(3) # 0 <=> 8 * (k - 1) + 3 \in bv)
          /\ (v(4) # 0 <=> 8 * (k - 1) + 4 \in bv) /\ (v(5) # 0 <=> 8 * (k - 1) + 5 \in bv)
          /\ (v(6) # 0 <=> 8 * (k - 1) + 6 \in bv) /\ (v(7) # 0 <=> 8 * (k - 1) + 7 \in bv)
      BY <2>2, <2>3 DEF BitValue
    <2> HIDE DEF v
    <2>6. BitsTold(x, v(0), v(1), v(2), v(3), v(4), v(5), v(6), v(7))
      BY <2>4, BitsOfSum
    <2> HIDE DEF x, byte
    <2>7. ASSUME NEW j \in 0 .. 7 PROVE (x \div 2^(7 - j)) % 2 = 1 <=> 8 * (k - 1) + j \in bv
      <3>1. j \in {0, 1, 2, 3, 4, 5, 6, 7}
        OBVIOUS
      <3>2. CASE j = 0
        BY <2>2, <2>3, <2>5, <2>6, <3>2 DEF BitsTold
      <3>3. CASE j = 1
        BY <2>2, <2>3, <2>5, <2>6, <3>3 DEF BitsTold
      <3>4. CASE j = 2
        BY <2>2, <2>3, <2>5, <2>6, <3>4 DEF BitsTold
      <3>5. CASE j = 3
        BY <2>2, <2>3, <2>5, <2>6, <3>5 DEF BitsTold
      <3>6. CASE j = 4
        BY <2>2, <2>3, <2>5, <2>6, <3>6 DEF BitsTold
      <3>7. CASE j = 5
        BY <2>2, <2>3, <2>5, <2>6, <3>7 DEF BitsTold
      <3>8. CASE j = 6
        BY <2>2, <2>3, <2>5, <2>6, <3>8 DEF BitsTold
      <3>9. CASE j = 7
        BY <2>2, <2>3, <2>5, <2>6, <3>9 DEF BitsTold
      <3> QED
        BY <3>1, <3>2, <3>3, <3>4, <3>5, <3>6, <3>7, <3>8, <3>9
    <2>8. x \in Byte
      BY <2>6 DEF BitsTold
    <2> QED
      BY <2>1, <2>7, <2>8
  <1> HIDE DEF byte
  <1> QED
    BY <1>1, <1>2 DEF Bytes

(* The identifier bv stands at offset o of d. *)
IdentifierAt(d, o, bv) == \A k \in 1 .. FID_LEN : d[o + k] = BytesOf(bv)[k]

\* Link identifiers are read as they were written.
LEMMA IdentifierIsRead ==
  ASSUME FID_LEN \in Nat, NEW n \in Nat, NEW d \in Bytes(n), NEW o \in Nat, o + FID_LEN <= n,
         NEW bv \in SUBSET (0 .. 8 * FID_LEN - 1), IdentifierAt(d, o, bv)
  PROVE  {bit \in 0 .. 8 * FID_LEN - 1 : getBits8_ORLESS(d, 1, o + bit \div 8, bit % 8) = 1} = bv
  <1>1. ASSUME NEW bit \in 0 .. 8 * FID_LEN - 1
        PROVE  getBits8_ORLESS(d, 1, o + bit \div 8, bit % 8) = 1 <=> bit \in bv
    <2>1. /\ bit \div 8 \in Int /\ 0 <= bit \div 8 /\ bit \div 8 < FID_LEN
          /\ bit % 8 \in 0 .. 7 /\ 8 * (bit \div 8) + (bit % 8) = bit
      OBVIOUS
    <2>2. PICK i \in Int, j \in 0 .. 7 :
            i = bit \div 8 /\ j = bit % 8 /\ 0 <= i /\ i < FID_LEN /\ 8 * i + j = bit
      BY <2>1
    <2>3. o + i \in 0 .. n - 1 /\ i + 1 \in 1 .. FID_LEN /\ (o + i) + 1 = o + (i + 1) /\ (i + 1) - 1 = i
      BY <2>2
    <2>4. getBits8_ORLESS(d, 1, o + i, j) = (d[(o + i) + 1] \div 2^(7 - j)) % 2
      BY <2>3, ReadBit
    <2>5. d[(o + i) + 1] = BytesOf(bv)[i + 1]
      BY <2>3 DEF IdentifierAt
    <2>6. (BytesOf(bv)[i + 1] \div 2^(7 - j)) % 2 = 1 <=> 8 * ((i + 1) - 1) + j \in bv
      <3>1. bv \in SUBSET Int
        OBVIOUS
      <3> QED
        BY <2>3, <3>1, BytesOfBits
    <2>7. 8 * ((i + 1) - 1) + j = bit
      BY <2>2, <2>3
    <2>8. getBits8_ORLESS(d, 1, o + i, j) = 1 <=> bit \in bv
      BY <2>4, <2>5, <2>6, <2>7
    <2> QED
      BY <2>2, <2>8
  <1> QED
    BY <1>1

-----------------------------------------------------------------------------
(* The report of a node: a head and a record for every link.               *)

(* The status of a link. *)
IsStatus(q) ==
  DOMAIN q = {1, 10, 15} /\ q = [key \in DOMAIN q |-> q[key]] /\ \A key \in DOMAIN q : q[key] \in Word

\* The status of a link fits the items of a report.
LEMMA StatusFits ==
  ASSUME NEW q, IsStatus(q)
  PROVE  Fits(q, 3) /\ KeysTold(q, 3) /\ Cardinality(DOMAIN q) = 3
  <1>1. Keys(q) = <<1, 10, 15>> /\ Cardinality(DOMAIN q) = 3
    BY StatusKeys DEF IsStatus
  <1>2. \A k \in 1 .. 3 : k = 1 \/ k = 2 \/ k = 3
    OBVIOUS
  <1>4. \A k \in 1 .. 3 : Keys(q)[k] \in DOMAIN q /\ Keys(q)[k] \in Byte
    BY <1>1, <1>2 DEF IsStatus, Byte
  <1>5. Fits(q, 3)
    BY <1>1, <1>4 DEF Fits, IsStatus
  <1>6. DOMAIN q = {Keys(q)[k] : k \in 1 .. 3}
    <2>1. Keys(q)[1] = 1 /\ Keys(q)[2] = 10 /\ Keys(q)[3] = 15
      BY <1>1
    <2>2. 1 \in 1 .. 3 /\ 2 \in 1 .. 3 /\ 3 \in 1 .. 3
      OBVIOUS
    <2> QED
      BY <1>2, <2>1, <2>2 DEF IsStatus
  <1>7. \A j, k \in 1 .. 3 : Keys(q)[j] = Keys(q)[k] => j = k
    BY <1>1, <1>2
  <1> QED
    BY <1>1, <1>5, <1>6, <1>7 DEF KeysTold, IsStatus

(* What extend adds. *)
LEMMA Extended ==
  ASSUME NEW n \in Nat, NEW d \in Bytes(n), NEW m \in Nat
  PROVE  /\ extend(d, m) \in Bytes(n + m) /\ \A i \in 1 .. n : extend(d, m)[i] = d[i]
         /\ \A i \in 1 .. m : extend(d, m)[n + i] = 0
  <1> DEFINE z == [i \in 1 .. m |-> 0]
  <1>1. z \in Seq(Byte) /\ Len(z) = m
    BY DEF Byte
  <1>2. d \in Seq(Byte) /\ Len(d) = n
    BY DEF Bytes
  <1>7. \A i \in 1 .. m : z[i] = 0
    OBVIOUS
  <1> HIDE DEF z
  <1>3. /\ d \o z \in Seq(Byte) /\ Len(d \o z) = n + m
        /\ \A i \in 1 .. n + m : (d \o z)[i] = IF i <= n THEN d[i] ELSE z[i - n]
    BY <1>1, <1>2, ConcatProperties
  <1> DEFINE x == d \o z
  <1> HIDE DEF x
  <1>4. x \in [1 .. n + m -> Byte]
    <2>1. x \in Seq(Byte) /\ Len(x) = n + m
      BY <1>3 DEF x
    <2> QED
      BY <2>1
  <1>5. \A i \in 1 .. n : x[i] = d[i]
    <2>1. \A i \in 1 .. n : i \in 1 .. n + m /\ i <= n
      OBVIOUS
    <2> QED
      BY <1>3, <2>1 DEF x
  <1>6. ASSUME NEW i \in 1 .. m PROVE x[n + i] = 0
    <2>1. n + i \in 1 .. n + m /\ ~(n + i <= n) /\ (n + i) - n = i
      OBVIOUS
    <2> QED
      BY <1>7, <1>3, <2>1 DEF x
  <1> QED
    BY <1>4, <1>5, <1>6 DEF x, z, extend, Bytes

(* At offset o of d: the identifier bv and the status q of a link. *)
RecordAt(d, n, o, bv, q) ==
  /\ o + FID_LEN + 10 <= n /\ IdentifierAt(d, o, bv) /\ d[o + FID_LEN + 1] = 3
  /\ ItemsAt(d, n, o + FID_LEN + 1, q, 3)
(* x is report d, of n bytes, with that record after it. *)
LinkAppended(x, d, n, bv, q) ==
  /\ x \in Bytes(n + FID_LEN + 10) /\ RecordAt(x, n + FID_LEN + 10, n, bv, q)
  /\ x[3] = (d[3] + 1) % 256 /\ \A i \in 1 .. n : i # 3 => x[i] = d[i]

\* What appendLinkStatus does to a report.
LEMMA LinkIsAppended ==
  ASSUME FID_LEN \in Nat, PURSUIT_ID_LEN = 1, NEW n \in Nat, n >= 3, NEW d \in Bytes(n),
         NEW bv \in SUBSET Int, NEW q, IsStatus(q)
  PROVE  LinkAppended(appendLinkStatus(d, bv, q), d, n, bv, q)
  <1> DEFINE N == n + FID_LEN + 10
             a == n + FID_LEN
             w == BytesOf(bv)
             e0 == extend(d, FID_LEN + 1 + 3 * QoS_ITEM_SIZE)
             e1 == setBytes(e0, w, n, 0)
             e2 == Put(e1, a, 3)
             e3 == PutItems(e2, a + 1, q)
             e4 == setRepLen(e3, getLinksLen(d) + 1)
  <1>1. appendLinkStatus(d, bv, q) = e4
    <2> DEFINE U(m, l) == LET e == setBytes(extend(d, FID_LEN + 1 + m * QoS_ITEM_SIZE), w, l, 0)
                          IN  setRepLen(PutItems(Put(e, l + FID_LEN, m), l + FID_LEN + 1, q),
                                        getLinksLen(d) + 1)
    <2>1. appendLinkStatus(d, bv, q) = U(Cardinality(DOMAIN q), Len(d))
      BY Zenon DEF appendLinkStatus
    <2>2. U(3, n) = e4
      BY Zenon
    <2> HIDE DEF U, e4
    <2>3. Cardinality(DOMAIN q) = 3 /\ Len(d) = n
      BY StatusFits, BytesAre
    <2> QED
      BY <2>1, <2>2, <2>3
  <1>2. N \in Nat /\ a \in Nat /\ a + 10 = N /\ n <= a
    OBVIOUS
  <1>3. e0 \in Bytes(N) /\ \A i \in 1 .. n : e0[i] = d[i]
    <2>1. FID_LEN + 1 + 3 * QoS_ITEM_SIZE \in Nat /\ n + (FID_LEN + 1 + 3 * QoS_ITEM_SIZE) = N
      BY DEF QoS_ITEM_SIZE
    <2> DEFINE m == FID_LEN + 1 + 3 * QoS_ITEM_SIZE
    <2> HIDE DEF m
    <2>2. extend(d, m) \in Bytes(n + m) /\ \A i \in 1 .. n : extend(d, m)[i] = d[i]
      BY <2>1, Extended DEF m
    <2> QED
      BY <2>1, <2>2 DEF m
  <1> HIDE DEF e0
  <1>4. w \in Bytes(FID_LEN)
    BY BytesOfBits
  <1> HIDE DEF w
  <1>5. Overwritten(e1, e0, N, w, FID_LEN, n)
    <2>1. Len(w) = FID_LEN /\ Len(e0) = N /\ ~(Len(w) + n > Len(e0)) /\ n + FID_LEN <= N
      BY <1>2, <1>3, <1>4, BytesAre
    <2>2. e1 = SetEach(e0, w, n, 0)
      BY <2>1 DEF setBytes
    <2> HIDE DEF e1, N
    <2> QED
      BY <1>2, <1>3, <1>4, <2>1, <2>2, BytesAreSet
  <1> HIDE DEF e1, N, a
  <1>6. e2 \in Bytes(N) /\ \A i \in 1 .. N : e2[i] = IF i = a + 1 THEN 3 ELSE e1[i]
    <2>1. e1 \in Bytes(N) /\ a \in 0 .. N - 1 /\ 3 \in Byte
      BY <1>2, <1>5 DEF Overwritten, Byte
    <2> QED
      BY <1>2, <2>1, PutByte
  <1> HIDE DEF e2
  <1>7. ItemsWritten(e3, e2, N, a + 1, q, 3)
    <2>1. a + 1 \in Nat /\ (a + 1) + 3 * 3 <= N /\ 3 \in Nat
      BY <1>2
    <2> QED
      BY <1>2, <1>6, <2>1, StatusFits, ItemsAreSet
  <1> HIDE DEF e3
  <1>8. d[3] \in Byte /\ 3 \in 1 .. n
    <2>1. 3 \in 1 .. n
      OBVIOUS
    <2> QED
      BY <2>1, BytesAre
  <1>9. e4 \in Bytes(N) /\ \A i \in 1 .. N : e4[i] = IF i = 3 THEN (d[3] + 1) % 256 ELSE e3[i]
    <2>1. getLinksLen(d) + 1 = d[3] + 1
      BY DEF getLinksLen, At
    <2> DEFINE b == (d[3] + 1) % 256
    <2>2. b \in Byte
      BY <1>8 DEF Byte
    <2>3. e4 = Put(e3, 2, b)
      <3>1. PURSUIT_ID_LEN + 1 = 2
        OBVIOUS
      <3> QED BY <2>1, <3>1 DEF setRepLen
    <2> HIDE DEF b, e4
    <2>4. e3 \in Bytes(N) /\ 2 \in 0 .. N - 1 /\ 2 + 1 = 3
      BY <1>2, <1>7 DEF ItemsWritten
    <2>5. Put(e3, 2, b) \in Bytes(N) /\ \A i \in 1 .. N : Put(e3, 2, b)[i] = IF i = 2 + 1 THEN b ELSE e3[i]
      BY <1>2, <2>2, <2>4, PutByte
    <2> QED
      BY <2>3, <2>4, <2>5 DEF b
  <1> HIDE DEF e4
  <1>10. ASSUME NEW i \in 1 .. N, i <= a + 1 PROVE e3[i] = e2[i]
    BY <1>7, <1>10 DEF ItemsWritten
  <1>11. ASSUME NEW i \in 1 .. n, i # 3 PROVE e4[i] = d[i]
    <2>1. i \in 1 .. N /\ i <= a /\ i <= a + 1 /\ i # a + 1 /\ ~(n < i)
      BY <1>2
    <2>2. e4[i] = e3[i] /\ e3[i] = e2[i] /\ e2[i] = e1[i]
      BY <1>6, <1>9, <1>10, <1>11, <2>1
    <2>3. e1[i] = e0[i]
      BY <1>5, <2>1 DEF Overwritten
    <2> QED
      BY <1>3, <2>2, <2>3
  <1>12. e4[3] = (d[3] + 1) % 256
    <2>1. 3 \in 1 .. N
      BY <1>2
    <2> QED
      BY <1>9, <2>1
  <1>13. IdentifierAt(e4, n, bv)
    <2>1. ASSUME NEW k \in 1 .. FID_LEN PROVE e4[n + k] = w[k]
      <3> DEFINE i == n + k
      <3>1. /\ i \in 1 .. N /\ i <= a /\ i <= a + 1 /\ i # a + 1 /\ i # 3
            /\ n < i /\ i <= n + FID_LEN /\ i - n = k
        BY <1>2 DEF a
      <3> HIDE DEF i
      <3>2. e4[i] = e3[i] /\ e3[i] = e2[i] /\ e2[i] = e1[i]
        BY <1>6, <1>9, <1>10, <3>1
      <3>3. e1[i] = w[i - n]
        BY <1>5, <3>1 DEF Overwritten
      <3> QED
        BY <3>1, <3>2, <3>3 DEF i
    <2> QED
      BY <2>1 DEF IdentifierAt, w
  <1>14. e4[a + 1] = 3
    <2>1. a + 1 \in 1 .. N /\ a + 1 <= a + 1 /\ a + 1 # 3
      BY <1>2
    <2> QED
      BY <1>6, <1>9, <1>10, <2>1
  <1>15. ItemsAt(e4, N, a + 1, q, 3)
    <2>1. ASSUME NEW k \in 1 .. 3 PROVE ItemAt(e4, (a + 1) + 3 * (k - 1), Keys(q)[k], q[Keys(q)[k]])
      <3> DEFINE o == (a + 1) + 3 * (k - 1)
      <3>1. ItemAt(e3, o, Keys(q)[k], q[Keys(q)[k]])
        BY <1>7 DEF ItemsWritten
      <3>2. /\ o + 1 \in 1 .. N /\ o + 2 \in 1 .. N /\ o + 3 \in 1 .. N
            /\ o + 1 # 3 /\ o + 2 # 3 /\ o + 3 # 3
        BY <1>2
      <3> HIDE DEF o
      <3>3. ItemAt(e4, o, Keys(q)[k], q[Keys(q)[k]])
        BY <1>9, <3>1, <3>2 DEF ItemAt
      <3> QED
        BY <3>3 DEF o
    <2>2. (a + 1) + 3 * 3 <= N
      BY <1>2
    <2> QED
      BY <1>9, <2>1, <2>2 DEF ItemsAt
  <1> QED
    BY <1>1, <1>2, <1>9, <1>11, <1>12, <1>13, <1>14, <1>15 DEF LinkAppended, RecordAt, N, a

\* A finite set as a sequence: as many elements, and each of them.
LEMMA SeqOfSet ==
  ASSUME NEW S, IsFiniteSet(S)
  PROVE  /\ SetToSeq(S) \in [1 .. Cardinality(S) -> S]
         /\ S = {SetToSeq(S)[k] : k \in 1 .. Cardinality(S)}
  <1> DEFINE n == Cardinality(S)
             D == 1 .. n
             s == SetToSeq(S)
             R == {s[k] : k \in D}
  <1>1. n \in Nat /\ ExistsBijection(D, S)
    BY FS_CardinalityType
  <1>2. IsFiniteSet(D) /\ Cardinality(D) = n
    BY <1>1, FS_Interval
  <1> HIDE DEF n, D
  <1>3. \E f \in [D -> S] : IsInjective(f)
    BY <1>1 DEF ExistsBijection, Bijection, Injection, IsInjective
  <1>4. s = CHOOSE f \in [D -> S] : IsInjective(f)
    BY Zenon DEF SetToSeq, D, n
  <1> HIDE DEF s
  <1>5. s \in [D -> S] /\ IsInjective(s)
    BY <1>3, <1>4
  <1>6. s \in Surjection(D, R) /\ s \in Injection(D, R)
    BY <1>5 DEF Surjection, Injection, IsInjective
  <1>7. R \in SUBSET S
    BY <1>5
  <1> HIDE DEF R
  <1>8. Cardinality(R) = Cardinality(D)
    BY <1>2, <1>6, FS_Surjection
  <1>9. S = R
    BY <1>2, <1>7, <1>8, FS_Subset DEF n
  <1> QED
    BY <1>5, <1>9 DEF s, D, n, R

(* The offsets of c records in a report. *)
Offsets(o, c) ==
  /\ o \in [0 .. c -> Nat] /\ o[0] = 3
  /\ \A k \in 1 .. c : o[k] = o[k - 1] + FID_LEN + 10

\* There are such offsets.
LEMMA OffsetsExist ==
  ASSUME FID_LEN \in Nat, NEW c \in Nat
  PROVE  \E o : Offsets(o, c)
  <1> DEFINE F == [x \in Nat |-> x + FID_LEN + 10]
  <1>1. F \in [Nat -> Nat] /\ 3 \in Nat /\ \A x \in Nat : F[x] = x + FID_LEN + 10
    OBVIOUS
  <1> HIDE DEF F
  <1>2. PICK o \in [0 .. c -> Nat] : Iterates(o, c, 3, F)
    BY <1>1, Iteration
  <1>3. \A k \in 1 .. c : k - 1 \in 0 .. c
    OBVIOUS
  <1>4. Offsets(o, c)
    BY <1>1, <1>2, <1>3 DEF Iterates, Offsets
  <1> QED
    BY <1>4

\* They come after the head.
LEMMA OffsetsFrom ==
  ASSUME FID_LEN \in Nat, NEW c \in Nat, NEW o, Offsets(o, c)
  PROVE  \A k \in 0 .. c : o[k] \in Nat /\ o[k] >= 3
  <1> DEFINE S == {k \in 0 .. c : o[k] \in Nat /\ o[k] >= 3}
  <1>1. 0 \in S
    BY DEF Offsets
  <1>2. ASSUME NEW k \in 0 .. c - 1, k \in S PROVE k + 1 \in S
    <2>1. k + 1 \in 1 .. c /\ (k + 1) - 1 = k /\ k + 1 \in 0 .. c
      OBVIOUS
    <2>2. o[k + 1] = o[k] + FID_LEN + 10
      BY <2>1 DEF Offsets
    <2> QED
      BY <1>2, <2>1, <2>2
  <1> HIDE DEF S
  <1>3. \A k \in 0 .. c : k \in S
    BY <1>1, <1>2, UpTo
  <1> QED
    BY <1>3 DEF S

\* Where the topology manager looks for a record.
LEMMA LinkOffsetIs ==
  ASSUME FID_LEN \in Nat, PURSUIT_ID_LEN = 1, NEW c \in Nat, NEW o, Offsets(o, c), NEW d,
         \A k \in 1 .. c : d[o[k - 1] + FID_LEN + 1] = 3, NEW index \in 0 .. c
  PROVE  getLinkOffset(d, index) = o[index]
  <1> DEFINE next(list) == list + At(d, list) * QoS_ITEM_SIZE + 1
             Defines(g) == g = [i \in 0 .. index |-> IF i = 0 THEN LSM_HDR_LEN ELSE next(g[i - 1] + FID_LEN)]
  <1>1. getLinkOffset(d, index) = (CHOOSE g : Defines(g))[index]
    BY Zenon DEF getLinkOffset
  <1>2. LSM_HDR_LEN = 3
    BY DEF LSM_HDR_LEN
  <1>3. ASSUME NEW i \in 1 .. index PROVE next(o[i - 1] + FID_LEN) = o[i]
    <2>1. i \in 1 .. c /\ i - 1 \in 0 .. c
      OBVIOUS
    <2>2. o[i - 1] \in Nat /\ o[i] = o[i - 1] + FID_LEN + 10
      BY <2>1 DEF Offsets
    <2>3. At(d, o[i - 1] + FID_LEN) = 3
      BY <2>1 DEF At
    <2> QED
      BY <2>2, <2>3 DEF QoS_ITEM_SIZE
  <1> HIDE DEF next
  <1>4. \E g : Defines(g)
    <2> DEFINE g == [i \in 0 .. index |-> o[i]]
    <2>1. \A i \in 0 .. index : i # 0 => i \in 1 .. index /\ i - 1 \in 0 .. index
      OBVIOUS
    <2>2. \A i \in 0 .. index : g[i] = IF i = 0 THEN LSM_HDR_LEN ELSE next(g[i - 1] + FID_LEN)
      BY <1>2, <1>3, <2>1 DEF Offsets
    <2>3. Defines(g)
      BY <2>2
    <2> QED
      BY <2>3
  <1>5. PICK g : Defines(g) /\ getLinkOffset(d, index) = g[index]
    <2> HIDE DEF Defines
    <2> QED BY <1>1, <1>4
  <1>6. \A i \in 0 .. index : g[i] = IF i = 0 THEN LSM_HDR_LEN ELSE next(g[i - 1] + FID_LEN)
    BY <1>5
  <1> DEFINE S == {i \in 0 .. index : g[i] = o[i]}
  <1>7. 0 \in S
    BY <1>2, <1>6 DEF Offsets
  <1>8. ASSUME NEW i \in 0 .. index - 1, i \in S PROVE i + 1 \in S
    <2>1. i + 1 \in 1 .. index /\ (i + 1) - 1 = i /\ i + 1 \in 0 .. index /\ i + 1 # 0
      OBVIOUS
    <2>2. g[i + 1] = next(g[i] + FID_LEN) /\ g[i] = o[i]
      BY <1>6, <1>8, <2>1
    <2>3. next(o[i] + FID_LEN) = o[i + 1]
      BY <1>3, <2>1
    <2> QED
      BY <2>1, <2>2, <2>3
  <1>9. index \in S
    <2> HIDE DEF S
    <2>1. \A i \in 0 .. index : i \in S
      BY <1>7, <1>8, UpTo
    <2> QED
      BY <2>1
  <1> QED
    BY <1>5, <1>9

\* A record stays as it is when the report grows.
LEMMA RecordKept ==
  ASSUME FID_LEN \in Nat, NEW n \in Nat, NEW m \in Nat, n <= m, NEW d \in Bytes(n), NEW x \in Bytes(m),
         \A i \in 1 .. n : i # 3 => x[i] = d[i],
         NEW o \in Nat, o >= 3, NEW bv, NEW q, RecordAt(d, n, o, bv, q)
  PROVE  RecordAt(x, m, o, bv, q)
  <1>1. o + FID_LEN + 10 <= n /\ o + FID_LEN + 10 <= m
    BY DEF RecordAt
  <1>2. IdentifierAt(x, o, bv)
    <2>1. ASSUME NEW k \in 1 .. FID_LEN PROVE x[o + k] = BytesOf(bv)[k]
      <3>1. o + k \in 1 .. n /\ o + k # 3
        BY <1>1
      <3> QED
        BY <3>1 DEF RecordAt, IdentifierAt
    <2> QED
      BY <2>1 DEF IdentifierAt
  <1>3. x[o + FID_LEN + 1] = 3
    <2>1. o + FID_LEN + 1 \in 1 .. n /\ o + FID_LEN + 1 # 3
      BY <1>1
    <2> QED
      BY <2>1 DEF RecordAt
  <1> DEFINE a == o + FID_LEN + 1
  <1>4. ItemsAt(x, m, a, q, 3)
    <2>1. ASSUME NEW k \in 1 .. 3 PROVE ItemAt(x, a + 3 * (k - 1), Keys(q)[k], q[Keys(q)[k]])
      <3> DEFINE b == a + 3 * (k - 1)
      <3>1. ItemAt(d, b, Keys(q)[k], q[Keys(q)[k]])
        BY DEF RecordAt, ItemsAt
      <3>2. /\ b + 1 \in 1 .. n /\ b + 2 \in 1 .. n /\ b + 3 \in 1 .. n
            /\ b + 1 # 3 /\ b + 2 # 3 /\ b + 3 # 3
        BY <1>1
      <3> HIDE DEF b
      <3>3. ItemAt(x, b, Keys(q)[k], q[Keys(q)[k]])
        BY <3>1, <3>2 DEF ItemAt
      <3> QED
        BY <3>3 DEF b
    <2>2. a + 3 * 3 <= m
      BY <1>1
    <2> QED
      BY <2>1, <2>2 DEF ItemsAt
  <1> QED
    BY <1>1, <1>2, <1>3, <1>4 DEF RecordAt

\* What the topology manager reads of a record.
LEMMA RecordIsRead ==
  ASSUME FID_LEN \in Nat, NEW n \in Nat, NEW d \in Bytes(n), NEW o \in Nat,
         NEW bv \in SUBSET (0 .. 8 * FID_LEN - 1), NEW q, IsStatus(q), RecordAt(d, n, o, bv, q),
         NEW index, getLinkOffset(d, index) = o
  PROVE  getLidStr(d, index) = bv /\ getLinkStatus(d, index) = q
  <1>1. getLidStr(d, index) = bv
    <2>1. o + FID_LEN <= n /\ IdentifierAt(d, o, bv)
      BY DEF RecordAt
    <2>2. {bit \in 0 .. 8 * FID_LEN - 1 : getBits8_ORLESS(d, 1, o + bit \div 8, bit % 8) = 1} = bv
      BY <2>1, IdentifierIsRead
    <2> QED
      BY <2>2 DEF getLidStr
  <1>2. getStatusListLen(d, index) = 3
    BY DEF getStatusListLen, At, RecordAt
  <1>3. ItemsAt(d, n, o + FID_LEN + 1, q, 3) /\ KeysTold(q, 3) /\ o + FID_LEN + 1 \in Nat /\ 3 \in Nat
    BY StatusFits DEF RecordAt
  <1>4. GetItems(d, o + FID_LEN + 1, 3) = q
    BY <1>3, ItemsAreRead
  <1>5. getLinkStatus(d, index) = GetItems(d, o + FID_LEN + 1, 3)
    BY <1>2 DEF getLinkStatus
  <1> QED
    BY <1>1, <1>4, <1>5

\* The status of every link is one.
LEMMA StatusIsStatus ==
  ASSUME NEW l \in Link
  PROVE  IsStatus(Status(l)) /\ LID[l] \in SUBSET (0 .. 8 * FID_LEN - 1) /\ LID[l] \in SUBSET Int
  <1>1. confPrio[l] \in 0 .. 99
    BY QoSAssumption DEF MAX_PRIO
  <1>2. DOMAIN Status(l) = {1, 10, 15} /\ Status(l) = [key \in DOMAIN Status(l) |-> Status(l)[key]]
    BY DEF Status, QoS_CAPACITY_M, QoS_NETTYPE, PRIO
  <1>3. Status(l)[1] = 100 /\ Status(l)[10] = 1 /\ Status(l)[15] = confPrio[l]
    BY DEF Status, QoS_CAPACITY_M, QoS_NETTYPE, PRIO
  <1>4. \A key \in {1, 10, 15} : Status(l)[key] \in Word
    <2>1. \A p \in 0 .. 99 : p \in Word
      BY DEF Word
    <2>2. 100 \in Word /\ 1 \in Word
      BY DEF Word
    <2>3. /\ Status(l)[1] \in Word /\ Status(l)[10] \in Word /\ Status(l)[15] \in Word
      BY Zenon, <1>1, <1>3, <2>1, <2>2
    <2> QED
      BY Zenon, <2>3
  <1>5. LID[l] \in SUBSET Bit
    BY LinkAssumption
  <1>6. LID[l] \in SUBSET (0 .. 8 * FID_LEN - 1)
    BY <1>5, QoSAssumption
  <1>7. LID[l] \in SUBSET Int
    BY <1>6, QoSAssumption
  <1> QED
    BY <1>2, <1>4, <1>6, <1>7 DEF IsStatus

\* The head of a report.
LEMMA EmptyReport ==
  ASSUME NEW n \in Node
  PROVE  LET d == setNodeId(LSMPacket, <<n>>) IN d \in Bytes(3) /\ d[2] = n /\ d[3] = 0
  <1> DEFINE e0 == extend(<<>>, 3)
             e1 == Put(e0, 0, QoS_REPORT)
             e2 == setBytes(e1, <<n>>, 1, 0)
  <1>1. setNodeId(LSMPacket, <<n>>) = e2
    <2>1. LSM_HDR_LEN = 3
      BY QoSAssumption DEF LSM_HDR_LEN
    <2> QED
      BY <2>1 DEF setNodeId, LSMPacket
  <1>2. e0 \in Bytes(3) /\ e0[3] = 0
    <2>1. <<>> \in Bytes(0)
      BY DEF Bytes
    <2>2. 0 \in Nat /\ 3 \in Nat /\ 3 \in 1 .. 3 /\ 0 + 3 = 3
      OBVIOUS
    <2>3. extend(<<>>, 3) \in Bytes(0 + 3) /\ extend(<<>>, 3)[0 + 3] = 0
      BY Zenon, <2>1, <2>2, Extended
    <2> QED
      BY <2>2, <2>3
  <1> HIDE DEF e0
  <1>3. e1 \in Bytes(3) /\ e1[3] = 0
    <2>1. 0 \in 0 .. 3 - 1 /\ QoS_REPORT \in Byte /\ 3 \in Nat
      BY DEF QoS_REPORT, Byte
    <2> HIDE DEF e1
    <2>2. HasByte(e1, e0, 3, 0, QoS_REPORT)
      BY Zenon, <1>2, <2>1, ByteIsPut DEF e1
    <2>3. 3 \in 1 .. 3 /\ 3 # 0 + 1
      OBVIOUS
    <2> QED
      BY <1>2, <2>2, <2>3 DEF HasByte
  <1> HIDE DEF e1
  <1>4. <<n>> \in Bytes(1) /\ Len(<<n>>) = 1
    <2>1. n \in Byte
      BY QoSAssumption DEF Byte
    <2> QED
      BY <2>1 DEF Bytes
  <1> DEFINE w == <<n>>
  <1>5. w[1] = n
    OBVIOUS
  <1> HIDE DEF w
  <1>6. Overwritten(setBytes(e1, w, 1, 0), e1, 3, w, 1, 1)
    <2>1. ~(Len(w) + 1 > Len(e1))
      BY <1>3, <1>4, BytesAre DEF w
    <2>2. setBytes(e1, w, 1, 0) = SetEach(e1, w, 1, 0)
      BY <2>1 DEF setBytes
    <2>3. w \in Bytes(1) /\ 1 + 1 <= 3 /\ 1 \in Nat /\ 3 \in Nat
      BY <1>4 DEF w
    <2> QED
      BY <1>3, <2>2, <2>3, BytesAreSet
  <1> DEFINE d == setBytes(e1, w, 1, 0)
  <1> HIDE DEF d
  <1>7. /\ d \in Bytes(3)
        /\ \A i \in 1 .. 3 : d[i] = IF 1 < i /\ i <= 1 + 1 THEN w[i - 1] ELSE e1[i]
    BY <1>6 DEF Overwritten, d
  <1>8. d[2] = n /\ d[3] = 0
    <2>1. 2 \in 1 .. 3 /\ 1 < 2 /\ 2 <= 1 + 1 /\ 2 - 1 = 1 /\ 3 \in 1 .. 3 /\ ~(3 <= 1 + 1)
      OBVIOUS
    <2>2. d[2] = w[2 - 1]
      BY <1>7, <2>1
    <2>3. d[3] = e1[3]
      BY <1>7, <2>1
    <2> QED
      BY <1>3, <1>5, <2>1, <2>2, <2>3
  <1> QED
    BY <1>1, <1>7, <1>8 DEF d, w

(* Packets with a head, and the report d of node n with the first k links  *)
(* of s.                                                                   *)
Packets == UNION {Bytes(i) : i \in {j \in Nat : j >= 3}}
Reported(d, n, s, k, o) ==
  /\ d \in Bytes(o[k]) /\ d[2] = n /\ d[3] = k % 256
  /\ \A j \in 1 .. k : o[j] <= o[k] /\ RecordAt(d, o[k], o[j - 1], LID[s[j]], Status(s[j]))

\* The report with one more link.
LEMMA OneMoreLink ==
  ASSUME NEW c \in Nat, NEW o, Offsets(o, c), NEW s \in [1 .. c -> Link], NEW n,
         NEW k \in 0 .. c - 1, NEW d, Reported(d, n, s, k, o),
         NEW x, LinkAppended(x, d, o[k], LID[s[k + 1]], Status(s[k + 1]))
  PROVE  Reported(x, n, s, k + 1, o)
  <1> DEFINE N == o[k]
             M == o[k + 1]
  <1>1. k + 1 \in 1 .. c /\ (k + 1) - 1 = k /\ k \in 0 .. c /\ k + 1 \in 0 .. c
    OBVIOUS
  <1>2. FID_LEN \in Nat /\ N \in Nat /\ N >= 3 /\ M = N + FID_LEN + 10
    <2>1. FID_LEN \in Nat
      BY QoSAssumption
    <2>2. N \in Nat /\ N >= 3
      BY <1>1, <2>1, OffsetsFrom
    <2> QED
      BY <1>1, <2>1, <2>2 DEF Offsets
  <1>3. \A j \in 0 .. k : o[j] \in Nat /\ o[j] >= 3
    BY <1>2, OffsetsFrom
  <1> HIDE DEF N, M
  <1>4. /\ d \in Bytes(N) /\ d[2] = n /\ d[3] = k % 256
        /\ \A j \in 1 .. k : o[j] <= N /\ RecordAt(d, N, o[j - 1], LID[s[j]], Status(s[j]))
    BY DEF Reported, N
  <1>5. /\ x \in Bytes(M) /\ RecordAt(x, M, N, LID[s[k + 1]], Status(s[k + 1]))
        /\ x[3] = (d[3] + 1) % 256 /\ \A i \in 1 .. N : i # 3 => x[i] = d[i]
    BY <1>2 DEF LinkAppended, N
  <1>6. x[2] = n
    <2>1. 2 \in 1 .. N /\ 2 # 3
      BY <1>2
    <2> QED
      BY <1>4, <1>5, <2>1
  <1>7. x[3] = (k + 1) % 256
    <2>1. ((k % 256) + 1) % 256 = (k + 1) % 256
      OBVIOUS
    <2> QED
      BY <1>4, <1>5, <2>1
  <1>8. ASSUME NEW j \in 1 .. k + 1
        PROVE  o[j] <= M /\ RecordAt(x, M, o[j - 1], LID[s[j]], Status(s[j]))
    <2>1. CASE j = k + 1
      <3>1. o[j] = M /\ j - 1 = k /\ M <= M
        BY <1>2, <2>1 DEF M
      <3> QED
        BY <1>5, <2>1, <3>1 DEF N
    <2>2. CASE j # k + 1
      <3>1. j \in 1 .. k /\ j - 1 \in 0 .. k /\ j \in 0 .. k
        BY <2>2
      <3>2. o[j] <= N /\ RecordAt(d, N, o[j - 1], LID[s[j]], Status(s[j]))
        BY <1>4, <3>1
      <3>3. o[j] \in Nat /\ o[j - 1] \in Nat /\ o[j - 1] >= 3
        BY <1>3, <3>1
      <3>4. o[j] <= M /\ N <= M /\ M \in Nat
        BY <1>2, <3>2, <3>3
      <3> DEFINE b == o[j - 1]
                 bv == LID[s[j]]
                 q == Status(s[j])
      <3> HIDE DEF b, bv, q
      <3>5. RecordAt(x, M, b, bv, q)
        <4>1. b \in Nat /\ b >= 3 /\ RecordAt(d, N, b, bv, q)
          BY <3>2, <3>3 DEF b, bv, q
        <4>2. /\ FID_LEN \in Nat /\ N \in Nat /\ M \in Nat /\ N <= M /\ d \in Bytes(N) /\ x \in Bytes(M)
              /\ \A i \in 1 .. N : i # 3 => x[i] = d[i]
          BY <1>2, <1>4, <1>5, <3>4
        <4> QED
          BY Zenon, <4>1, <4>2, RecordKept
      <3> QED
        BY <3>4, <3>5 DEF b, bv, q
    <2> QED
      BY <2>1, <2>2
  <1> QED
    BY <1>5, <1>6, <1>7, <1>8 DEF Reported, M

(* The number of links of a node fits the byte that counts them. *)
FewLinks == \A n \in Node : Cardinality(fwTable(n)) < 256

\* The links of a node, in the order in which its monitor reports them.
LEMMA LinksInOrder ==
  ASSUME NEW n \in Node
  PROVE  /\ fwTable(n) \subseteq Link /\ Cardinality(fwTable(n)) \in Nat
         /\ SetToSeq(fwTable(n)) \in [1 .. Cardinality(fwTable(n)) -> fwTable(n)]
         /\ fwTable(n) = {SetToSeq(fwTable(n))[k] : k \in 1 .. Cardinality(fwTable(n))}
  <1>1. fwTable(n) \subseteq Link
    BY DEF fwTable
  <1>2. IsFiniteSet(fwTable(n))
    BY <1>1, QoSAssumption, FS_Subset
  <1> HIDE DEF fwTable
  <1> QED
    BY <1>1, <1>2, FS_CardinalityType, SeqOfSet

\* Packets grow by a link at a time.
LEMMA PacketsGrow ==
  ASSUME NEW d \in Packets, NEW l \in Link
  PROVE  /\ appendLinkStatus(d, LID[l], Status(l)) \in Packets
         /\ \A i \in Nat : i >= 3 /\ d \in Bytes(i) =>
              LinkAppended(appendLinkStatus(d, LID[l], Status(l)), d, i, LID[l], Status(l))
  <1> DEFINE x == appendLinkStatus(d, LID[l], Status(l))
  <1>1. ASSUME NEW i \in Nat, i >= 3, d \in Bytes(i)
        PROVE  LinkAppended(x, d, i, LID[l], Status(l)) /\ x \in Packets
    <2> DEFINE bv == LID[l]
               q == Status(l)
    <2>1. FID_LEN \in Nat /\ PURSUIT_ID_LEN = 1 /\ bv \in SUBSET Int /\ IsStatus(q)
      BY QoSAssumption, StatusIsStatus
    <2> HIDE DEF bv, q
    <2>2. LinkAppended(appendLinkStatus(d, bv, q), d, i, bv, q)
      BY Zenon, <1>1, <2>1, LinkIsAppended
    <2>3. appendLinkStatus(d, bv, q) \in Bytes(i + FID_LEN + 10) /\ i + FID_LEN + 10 \in Nat
          /\ i + FID_LEN + 10 >= 3
      BY <1>1, <2>1, <2>2 DEF LinkAppended
    <2>4. appendLinkStatus(d, bv, q) \in Packets
      BY <2>3 DEF Packets
    <2> QED
      BY <2>2, <2>4 DEF bv, q
  <1>2. PICK i \in Nat : i >= 3 /\ d \in Bytes(i)
    BY DEF Packets
  <1> QED
    BY <1>1, <1>2

\* The report of a node has a record for every link.
LEMMA ReportIsWritten ==
  ASSUME NEW n \in Node, NEW c, c = Cardinality(fwTable(n)), NEW o, Offsets(o, c)
  PROVE  Reported(ReportOf(n), n, SetToSeq(fwTable(n)), c, o)
  <1> DEFINE seq == SetToSeq(fwTable(n))
             D == 1 .. c
             base == setNodeId(LSMPacket, <<n>>)
             next(d, l) == appendLinkStatus(d, LID[l], Status(l))
             Defines(it) == it = [s \in SUBSET DOMAIN seq |->
                                    IF s = {} THEN base ELSE next(it[s \ {Max(s)}], seq[Max(s)])]
             F == [p \in D \X Packets |-> next(p[2], seq[p[1]])]
             pick == [s \in SUBSET D |-> Max(s)]
  <1>1. ReportOf(n) = (CHOOSE it : Defines(it))[DOMAIN seq]
    BY Zenon DEF ReportOf, FoldLeft, MapThenFoldSet
  <1>2. c \in Nat /\ seq \in [D -> Link] /\ DOMAIN seq = D
    BY LinksInOrder
  <1>3. PicksLast(pick, D) /\ \A s \in SUBSET D : pick[s] = Max(s)
    BY <1>2, LastIndex DEF PicksLast
  <1>4. ASSUME NEW d \in Packets, NEW k \in D PROVE next(d, seq[k]) \in Packets
    <2>1. seq[k] \in Link
      BY <1>2
    <2> HIDE DEF seq
    <2> QED
      BY <2>1, PacketsGrow
  <1>5. F \in [D \X Packets -> Packets] /\ \A k \in D, d \in Packets : F[<<k, d>>] = next(d, seq[k])
    <2> HIDE DEF next, D, seq
    <2> QED BY <1>4
  <1>6. IsFiniteSet(D)
    BY <1>2, FS_Interval
  <1>7. /\ base \in Packets
        /\ base \in Bytes(3) /\ base[2] = n /\ base[3] = 0
    <2>1. base \in Bytes(3) /\ base[2] = n /\ base[3] = 0
      BY EmptyReport
    <2> HIDE DEF base
    <2> QED
      BY <2>1 DEF Packets
  <1> HIDE DEF F, pick, next, seq, base, D
  <1>8. \E it : Defines(it)
    <2>1. \A s \in SUBSET D : s # {} => pick[s] \in s
      BY <1>3 DEF PicksLast
    <2>2. PICK it \in [SUBSET D -> Packets] : Recursion(it, D, base, F, pick)
      BY Zenon, <1>5, <1>6, <1>7, <2>1, SetRecursion
    <2>3. ASSUME NEW s \in SUBSET D, s # {} PROVE it[s] = next(it[s \ {Max(s)}], seq[Max(s)])
      <3>1. pick[s] = Max(s) /\ Max(s) \in D /\ s \ {Max(s)} \in SUBSET D
        BY <1>3, <2>1, <2>3
      <3>2. it[s] = F[<<pick[s], it[s \ {pick[s]}]>>]
        BY <2>2, <2>3 DEF Recursion
      <3>3. it[s \ {Max(s)}] \in Packets
        BY <2>2, <3>1
      <3> QED
        BY <1>5, <3>1, <3>2, <3>3
    <2>4. it[{}] = base
      BY <2>2 DEF Recursion
    <2>5. Defines(it)
      BY <1>2, <2>2, <2>3, <2>4
    <2> QED
      BY <2>5
  <1>9. PICK it : Defines(it) /\ ReportOf(n) = it[D]
    BY <1>1, <1>2, <1>8
  <1>10. TakesLast(it, D, Packets, base, F, pick)
    <2>1. it[{}] = base /\ \A s \in SUBSET D : s # {} => it[s] = next(it[s \ {Max(s)}], seq[Max(s)])
      BY <1>2, <1>9
    <2>2. \A s \in SUBSET D : s # {} => pick[s] = Max(s) /\ Max(s) \in D
      BY <1>3 DEF PicksLast
    <2> HIDE DEF Defines
    <2>3. ASSUME NEW s \in SUBSET D, s # {}, it[s \ {pick[s]}] \in Packets
          PROVE  it[s] = F[<<pick[s], it[s \ {pick[s]}]>>]
      <3>1. pick[s] = Max(s) /\ Max(s) \in D /\ it[s] = next(it[s \ {Max(s)}], seq[Max(s)])
        BY <2>1, <2>2, <2>3
      <3> QED
        BY <1>5, <2>3, <3>1
    <2> QED
      BY <2>1, <2>3 DEF TakesLast
  <1> HIDE DEF Defines
  <1>11. PICK st \in [0 .. c -> Packets] :
           /\ st[0] = base /\ st[c] = it[D]
           /\ \A k \in 1 .. c : st[k] = next(st[k - 1], seq[k])
    <2>1. UpToN(D, c) /\ \A k \in 1 .. c : k \in D /\ k - 1 \in 0 .. c
      BY <1>2 DEF UpToN, D
    <2>2. InSteps(it[D], c, Packets, base, F)
      BY <1>2, <1>3, <1>5, <1>7, <1>10, <2>1, FoldSteps
    <2>3. PICK st \in [0 .. c -> Packets] :
            st[0] = base /\ st[c] = it[D] /\ \A k \in 1 .. c : st[k] = F[<<k, st[k - 1]>>]
      BY <2>2 DEF InSteps
    <2>4. ASSUME NEW k \in 1 .. c PROVE st[k] = next(st[k - 1], seq[k])
      <3>1. k \in D /\ st[k - 1] \in Packets
        BY <2>1
      <3> QED
        BY <1>5, <2>3, <3>1
    <2> QED
      BY <2>3, <2>4
  <1> DEFINE S == {k \in 0 .. c : Reported(st[k], n, seq, k, o)}
  <1>12. 0 \in S
    <2>1. o[0] = 3 /\ 1 .. 0 = {} /\ 0 \in 0 .. c /\ 0 % 256 = 0
      BY <1>2 DEF Offsets
    <2> QED
      BY <1>7, <1>11, <2>1 DEF Reported
  <1>13. ASSUME NEW k \in 0 .. c - 1, k \in S PROVE k + 1 \in S
    <2> DEFINE d == st[k]
               l == seq[k + 1]
    <2>1. k + 1 \in 1 .. c /\ (k + 1) - 1 = k /\ k \in 0 .. c /\ k + 1 \in 0 .. c
      BY <1>2
    <2>2. l \in Link /\ seq \in [1 .. c -> Link]
      BY <1>2, <2>1 DEF D
    <2>3. Reported(d, n, seq, k, o) /\ d \in Packets /\ o[k] \in Nat /\ o[k] >= 3
      <3>1. FID_LEN \in Nat
        BY QoSAssumption
      <3> QED
        BY <1>2, <1>11, <1>13, <2>1, <3>1, OffsetsFrom
    <2>4. st[k + 1] = next(d, l)
      BY <1>11, <2>1
    <2> HIDE DEF d, l
    <2>5. LinkAppended(st[k + 1], d, o[k], LID[l], Status(l))
      BY <2>2, <2>3, <2>4, PacketsGrow DEF Reported, next
    <2>6. LinkAppended(st[k + 1], d, o[k], LID[seq[k + 1]], Status(seq[k + 1]))
      BY <2>5 DEF l
    <2>7. Reported(st[k + 1], n, seq, k + 1, o)
      BY <1>2, <2>2, <2>3, <2>6, OneMoreLink
    <2> QED
      BY <2>1, <2>7
  <1> HIDE DEF S
  <1>14. c \in S
    <2>1. \A k \in 0 .. c : k \in S
      BY <1>2, <1>12, <1>13, UpTo
    <2> QED
      BY <1>2, <2>1
  <1> QED
    BY <1>9, <1>11, <1>14 DEF S, seq

(* d is read as the report of node n. *)
ReadsAs(d, n) ==
  /\ getNodeId(d) = <<n>>
  /\ getLinksLen(d) = Cardinality(fwTable(n))
  /\ {<<getLidStr(d, k), getLinkStatus(d, k)>> : k \in 0 .. getLinksLen(d) - 1}
       = {<<LID[l], Status(l)>> : l \in fwTable(n)}

\* What the topology manager reads of link k.
LEMMA LinkIsRead ==
  ASSUME NEW n, NEW c \in Nat, NEW o, Offsets(o, c), NEW s \in [1 .. c -> Link], NEW d,
         Reported(d, n, s, c, o), NEW k \in 1 .. c
  PROVE  getLidStr(d, k - 1) = LID[s[k]] /\ getLinkStatus(d, k - 1) = Status(s[k])
  <1>1. FID_LEN \in Nat /\ PURSUIT_ID_LEN = 1
    BY QoSAssumption
  <1>2. \A j \in 0 .. c : o[j] \in Nat
    BY <1>1, OffsetsFrom
  <1>3. /\ d \in Bytes(o[c])
        /\ \A j \in 1 .. c : RecordAt(d, o[c], o[j - 1], LID[s[j]], Status(s[j]))
    BY DEF Reported
  <1>4. \A j \in 1 .. c : d[o[j - 1] + FID_LEN + 1] = 3
    BY <1>3 DEF RecordAt
  <1>5. k - 1 \in 0 .. c /\ c \in 0 .. c
    OBVIOUS
  <1>6. getLinkOffset(d, k - 1) = o[k - 1]
    BY <1>1, <1>4, <1>5, LinkOffsetIs
  <1> DEFINE N == o[c]
             b == o[k - 1]
             i == k - 1
             l == s[k]
             bv == LID[l]
             q == Status(l)
  <1>7. N \in Nat /\ b \in Nat /\ d \in Bytes(N) /\ RecordAt(d, N, b, bv, q) /\ getLinkOffset(d, i) = b
    BY <1>2, <1>3, <1>5, <1>6
  <1>8. bv \in SUBSET (0 .. 8 * FID_LEN - 1) /\ IsStatus(q)
    <2>1. l \in Link
      OBVIOUS
    <2> HIDE DEF l
    <2> QED
      BY <2>1, StatusIsStatus
  <1> HIDE DEF N, b, i, bv, q
  <1>9. getLidStr(d, i) = bv /\ getLinkStatus(d, i) = q
    BY <1>1, <1>7, <1>8, RecordIsRead
  <1> QED
    BY <1>9 DEF i, bv, q

\* A part of one element.
LEMMA OneElement ==
  ASSUME NEW S, NEW s \in Seq(S), NEW i \in Nat, 1 <= i, i <= Len(s)
  PROVE  SubSeq(s, i, i) = <<s[i]>>
  <1>1. s[i] \in S
    OBVIOUS
  <1> DEFINE x == SubSeq(s, i, i)
             y == <<s[i]>>
  <1>2. x \in Seq(S) /\ Len(x) = 1 /\ x[1] = s[i]
    <2>1. \A j \in i .. i : s[j] \in S
      BY <1>1
    <2>2. /\ x \in Seq(S) /\ Len(x) = IF i <= i THEN i - i + 1 ELSE 0
          /\ \A j \in 1 .. i - i + 1 : x[j] = s[i + j - 1]
      BY <2>1, SubSeqProperties
    <2> HIDE DEF x
    <2>3. 1 \in 1 .. i - i + 1 /\ i + 1 - 1 = i
      OBVIOUS
    <2>4. x[1] = s[i + 1 - 1]
      BY <2>2, <2>3
    <2> QED
      BY <2>2, <2>3, <2>4
  <1>3. y \in Seq(S) /\ Len(y) = 1 /\ y[1] = s[i]
    BY <1>1
  <1> HIDE DEF x, y
  <1>4. \A j \in 1 .. 1 : j = 1
    OBVIOUS
  <1>5. x = y
    <2>1. Len(x) = Len(y) /\ \A j \in 1 .. Len(x) : x[j] = y[j]
      BY <1>2, <1>3, <1>4
    <2> QED
      BY <1>2, <1>3, <2>1, SeqEqual
  <1> QED
    BY <1>5 DEF x, y

\* The report of a node is read as it was written.
LEMMA ReportIsRead ==
  ASSUME FewLinks, NEW n \in Node
  PROVE  ReadsAs(ReportTable[n], n)
  <1> DEFINE c == Cardinality(fwTable(n))
             s == SetToSeq(fwTable(n))
             d == ReportTable[n]
  <1>1. /\ c \in Nat /\ c < 256 /\ s \in [1 .. c -> Link]
        /\ fwTable(n) = {s[k] : k \in 1 .. c}
    BY LinksInOrder DEF FewLinks
  <1>2. PICK o : Offsets(o, c)
    BY <1>1, QoSAssumption, OffsetsExist
  <1>3. Reported(d, n, s, c, o)
    BY <1>2, ReportIsWritten DEF ReportTable
  <1> HIDE DEF d, s, c
  <1>4. d[2] = n /\ d[3] = c /\ d \in Bytes(o[c]) /\ o[c] \in Nat /\ o[c] >= 3
    <2>1. c % 256 = c /\ c \in 0 .. c
      BY <1>1
    <2>2. FID_LEN \in Nat
      BY QoSAssumption
    <2>3. o[c] \in Nat /\ o[c] >= 3
      BY <1>1, <1>2, <2>1, <2>2, OffsetsFrom
    <2> QED
      BY <1>3, <2>1, <2>3 DEF Reported
  <1>5. PURSUIT_ID_LEN = 1
    BY QoSAssumption
  <1>6. getLinksLen(d) = c
    <2>1. (1 + 1) + 1 = 3
      OBVIOUS
    <2> QED
      BY <1>4, <1>5, <2>1 DEF getLinksLen, At
  <1>7. getNodeId(d) = <<n>>
    <2>1. d \in Seq(Byte) /\ Len(d) = o[c]
      BY <1>4 DEF Bytes
    <2>2. getNodeId(d) = SubSeq(d, 2, 2)
      <3>1. getNodeId(d) = IF 1 + 1 > Len(d) THEN <<>> ELSE SubSeq(d, 1 + 1, 1 + 1)
        BY <1>5 DEF getNodeId, getStrBytes
      <3> QED
        BY <1>4, <2>1, <3>1
    <2>3. SubSeq(d, 2, 2) = <<d[2]>>
      BY <1>4, <2>1, OneElement
    <2> QED
      BY <1>4, <2>2, <2>3
  <1>8. ASSUME NEW k \in 1 .. c
        PROVE  getLidStr(d, k - 1) = LID[s[k]] /\ getLinkStatus(d, k - 1) = Status(s[k])
    BY <1>1, <1>2, <1>3, LinkIsRead
  <1> DEFINE read == {<<getLidStr(d, k), getLinkStatus(d, k)>> : k \in 0 .. c - 1}
             told == {<<LID[l], Status(l)>> : l \in fwTable(n)}
  <1>9. ASSUME NEW x \in read PROVE x \in told
    <2>1. PICK k \in 0 .. c - 1 : x = <<getLidStr(d, k), getLinkStatus(d, k)>>
      OBVIOUS
    <2>2. k + 1 \in 1 .. c /\ (k + 1) - 1 = k
      BY <1>1
    <2>3. x = <<LID[s[k + 1]], Status(s[k + 1])>>
      BY <1>8, <2>1, <2>2
    <2>4. s[k + 1] \in fwTable(n)
      BY <1>1, <2>2
    <2> QED
      BY <2>3, <2>4
  <1>10. ASSUME NEW x \in told PROVE x \in read
    <2>1. PICK l \in fwTable(n) : x = <<LID[l], Status(l)>>
      OBVIOUS
    <2>2. PICK k \in 1 .. c : l = s[k]
      BY <1>1
    <2>3. k - 1 \in 0 .. c - 1
      BY <1>1
    <2>4. x = <<getLidStr(d, k - 1), getLinkStatus(d, k - 1)>>
      BY <1>8, <2>1, <2>2
    <2> QED
      BY <2>3, <2>4
  <1>11. read = told
    BY <1>9, <1>10
  <1> QED
    BY <1>6, <1>7, <1>11 DEF ReadsAs, d, c

-----------------------------------------------------------------------------
(* The metadata of an item.                                                *)

(* A list of one priority. *)
OnePriority(q, prio) == q = [key \in {15} |-> prio]

\* A priority fits the items of the metadata.
LEMMA PriorityFits ==
  ASSUME NEW prio \in 0 .. 99, NEW q, OnePriority(q, prio)
  PROVE  Fits(q, 1) /\ KeysTold(q, 1) /\ Cardinality(DOMAIN q) = 1 /\ q[15] = prio
  <1>1. DOMAIN q = {15} /\ q[15] = prio /\ q = [key \in DOMAIN q |-> q[key]]
    BY DEF OnePriority
  <1>2. Keys(q) = <<15>> /\ Cardinality(DOMAIN q) = 1
    BY <1>1, MetadataKeys
  <1>3. \A k \in 1 .. 1 : k = 1
    OBVIOUS
  <1>4. Len(Keys(q)) = 1 /\ Keys(q)[1] = 15 /\ 15 \in Byte /\ 1 \in 1 .. 1
    BY <1>2 DEF Byte
  <1>5. prio \in Word
    BY DEF Word
  <1>6. Fits(q, 1)
    BY <1>1, <1>3, <1>4, <1>5 DEF Fits
  <1>7. KeysTold(q, 1)
    <2>1. {Keys(q)[k] : k \in 1 .. 1} = {15}
      BY <1>3, <1>4
    <2>2. \A j, k \in 1 .. 1 : Keys(q)[j] = Keys(q)[k] => j = k
      BY <1>3
    <2> QED
      BY <1>1, <2>1, <2>2 DEF KeysTold
  <1> QED
    BY <1>1, <1>2, <1>6, <1>7

\* The head of the metadata of item n.
LEMMA MetadataHead ==
  ASSUME NEW n \in Byte
  PROVE  LET d == setID(MetaDataPacket(2), <<0, n>>) IN d \in Bytes(5) /\ d[2] = 2 /\ d[4] = n
  <1> DEFINE e0 == extend(<<>>, 5)
             e1 == Put(e0, 0, QoS_METADATA)
             e2 == Put(e1, 1, 2)
             e3 == Put(e2, 1, 2)
             w == <<0, n>>
             e4 == setBytes(e3, w, 2, 0)
  <1>1. setID(MetaDataPacket(2), w) = e4
    <2>1. PURSUIT_ID_LEN = 1 /\ 2 * 1 + META_HDR_LEN = 5
      BY QoSAssumption DEF META_HDR_LEN
    <2>2. MetaDataPacket(2) = e2
      BY <2>1 DEF MetaDataPacket
    <2>3. Len(w) \div PURSUIT_ID_LEN = 2
      BY <2>1
    <2> QED
      BY <2>2, <2>3 DEF setID
  <1>2. 0 \in 0 .. 5 - 1 /\ 1 \in 0 .. 5 - 1 /\ QoS_METADATA \in Byte /\ 2 \in Byte /\ 0 \in Byte /\ 5 \in Nat
    BY DEF QoS_METADATA, Byte
  <1>3. e0 \in Bytes(5)
    <2>1. <<>> \in Bytes(0) /\ 0 \in Nat /\ 0 + 5 = 5
      BY DEF Bytes
    <2>2. extend(<<>>, 5) \in Bytes(0 + 5)
      BY Zenon, <1>2, <2>1, Extended
    <2> QED
      BY <2>1, <2>2
  <1> HIDE DEF e0
  <1>4. e1 \in Bytes(5)
    BY Zenon, <1>2, <1>3, PutByte
  <1> HIDE DEF e1
  <1>5. e2 \in Bytes(5)
    BY Zenon, <1>2, <1>4, PutByte
  <1> HIDE DEF e2
  <1>6. e3 \in Bytes(5) /\ \A i \in 1 .. 5 : e3[i] = IF i = 1 + 1 THEN 2 ELSE e2[i]
    <2>1. 1 \in 0 .. 5 - 1 /\ 2 \in Byte /\ 5 \in Nat
      BY <1>2
    <2> HIDE DEF e3
    <2>2. HasByte(e3, e2, 5, 1, 2)
      BY Zenon, <1>5, <2>1, ByteIsPut DEF e3
    <2> QED
      BY <2>2 DEF HasByte
  <1> HIDE DEF e3
  <1>7. w \in Bytes(2) /\ Len(w) = 2 /\ w[2] = n
    BY <1>2 DEF Bytes
  <1> HIDE DEF w
  <1>8. Overwritten(e4, e3, 5, w, 2, 2)
    <2>1. ~(Len(w) + 2 > Len(e3))
      BY <1>6, <1>7, BytesAre
    <2>2. e4 = SetEach(e3, w, 2, 0)
      BY <2>1 DEF setBytes
    <2>3. 2 + 2 <= 5 /\ 2 \in Nat
      OBVIOUS
    <2> QED
      BY <1>2, <1>6, <1>7, <2>2, <2>3, BytesAreSet
  <1> HIDE DEF e4
  <1>9. e4[2] = 2 /\ e4[4] = n
    <2>1. 2 \in 1 .. 5 /\ ~(2 < 2) /\ 1 + 1 = 2 /\ 4 \in 1 .. 5 /\ 2 < 4 /\ 4 <= 2 + 2 /\ 4 - 2 = 2
      OBVIOUS
    <2>2. e4[2] = e3[2] /\ e4[4] = w[4 - 2]
      BY <1>8, <2>1 DEF Overwritten
    <2> QED
      BY <1>6, <1>7, <2>1, <2>2
  <1>10. e4 \in Bytes(5)
    BY <1>8 DEF Overwritten
  <1> QED
    BY <1>1, <1>9, <1>10 DEF w

\* The metadata of an item is read as it was written.
LEMMA OneItemIsRead ==
  ASSUME NEW n \in Byte, NEW prio \in 0 .. 99
  PROVE  /\ getID_RAW(MetadataPacket(n, prio))[2] = n
         /\ getIIStatus(MetadataPacket(n, prio))[15] = prio
  <1> DEFINE q == [key \in {PRIO} |-> prio]
             d == setID(MetaDataPacket(2), <<0, n>>)
             e0 == extend(d, 1 * QoS_ITEM_SIZE)
             e1 == Put(e0, 4, 1)
             x == PutItems(e1, 5, q)
  <1>1. Fits(q, 1) /\ KeysTold(q, 1) /\ Cardinality(DOMAIN q) = 1 /\ q[15] = prio
    <2>1. OnePriority(q, prio)
      BY DEF OnePriority, PRIO
    <2> HIDE DEF q
    <2> QED
      BY <2>1, PriorityFits
  <1> HIDE DEF q
  <1>2. d \in Bytes(5) /\ d[2] = 2 /\ d[4] = n
    BY MetadataHead
  <1>3. MetadataPacket(n, prio) = appendIIStatus(d, q)
    BY Zenon DEF MetadataPacket, q
  <1> HIDE DEF d
  <1>4. PURSUIT_ID_LEN = 1
    BY QoSAssumption
  <1>5. MetadataPacket(n, prio) = x
    <2>1. META_HDR_LEN + getIDLen(d) * PURSUIT_ID_LEN - 1 = 4
      <3>1. getIDLen(d) = 2
        <4>1. 1 + 1 = 2
          OBVIOUS
        <4> QED
          BY <1>2, <4>1 DEF getIDLen, At
      <3> QED
        BY <1>4, <3>1 DEF META_HDR_LEN
    <2> DEFINE U(m, pos) == PutItems(Put(extend(d, m * QoS_ITEM_SIZE), pos, m), pos + 1, q)
    <2>2. appendIIStatus(d, q) = U(Cardinality(DOMAIN q), META_HDR_LEN + getIDLen(d) * PURSUIT_ID_LEN - 1)
      BY Zenon DEF appendIIStatus
    <2>3. U(1, 4) = x
      <3>1. 4 + 1 = 5
        OBVIOUS
      <3> QED
        BY <3>1
    <2> HIDE DEF U, x
    <2> QED
      BY <1>1, <1>3, <2>1, <2>2, <2>3
  <1>6. e0 \in Bytes(8) /\ \A i \in 1 .. 5 : e0[i] = d[i]
    <2>1. 1 * QoS_ITEM_SIZE = 3 /\ 3 \in Nat /\ 5 \in Nat /\ 5 + 3 = 8
      BY DEF QoS_ITEM_SIZE
    <2>2. extend(d, 3) \in Bytes(5 + 3) /\ \A i \in 1 .. 5 : extend(d, 3)[i] = d[i]
      BY Zenon, <1>2, <2>1, Extended
    <2> QED
      BY <2>1, <2>2
  <1> HIDE DEF e0
  <1>7. e1 \in Bytes(8) /\ \A i \in 1 .. 8 : e1[i] = IF i = 4 + 1 THEN 1 ELSE e0[i]
    <2>1. 4 \in 0 .. 8 - 1 /\ 1 \in Byte /\ 8 \in Nat
      BY DEF Byte
    <2> QED
      BY Zenon, <1>6, <2>1, PutByte
  <1> HIDE DEF e1
  <1>8. ItemsWritten(x, e1, 8, 5, q, 1)
    <2>1. 8 \in Nat /\ 5 \in Nat /\ 1 \in Nat /\ 5 + 3 * 1 <= 8
      OBVIOUS
    <2> QED
      BY Zenon, <1>1, <1>7, <2>1, ItemsAreSet
  <1> HIDE DEF x
  <1>9. x \in Bytes(8) /\ x[2] = 2 /\ x[4] = n /\ x[5] = 1
    <2>1. /\ 2 \in 1 .. 8 /\ 4 \in 1 .. 8 /\ 5 \in 1 .. 8 /\ 2 \in 1 .. 5 /\ 4 \in 1 .. 5
          /\ 2 <= 5 /\ 4 <= 5 /\ 5 <= 5 /\ 4 + 1 = 5 /\ 2 # 5 /\ 4 # 5
      OBVIOUS
    <2>2. x \in Bytes(8) /\ x[2] = e1[2] /\ x[4] = e1[4] /\ x[5] = e1[5]
      BY <1>8, <2>1 DEF ItemsWritten
    <2> QED
      BY <1>2, <1>6, <1>7, <2>1, <2>2
  <1>10. getIDLen(x) = 2
    <2>1. 1 + 1 = 2
      OBVIOUS
    <2> QED
      BY <1>9, <2>1 DEF getIDLen, At
  <1>11. getID_RAW(x)[2] = n
    <2>1. Len(x) = 8 /\ \A i \in 1 .. 8 : x[i] \in Byte
      <3>1. 8 \in Nat
        OBVIOUS
      <3> QED
        BY Zenon, <1>9, <3>1, BytesAre
    <2> DEFINE y == SubSeq(x, 3, 4)
    <2>2. getID_RAW(x) = y
      <3>1. getID_RAW(x) = IF 2 * 1 + 2 > Len(x) THEN <<>> ELSE SubSeq(x, 2 + 1, 2 + 2 * 1)
        BY <1>4, <1>10 DEF getID_RAW, getStrBytes
      <3>2. ~(2 * 1 + 2 > Len(x)) /\ 2 + 1 = 3 /\ 2 + 2 * 1 = 4
        BY <2>1
      <3> QED
        BY <3>1, <3>2
    <2>3. \A i \in 3 .. 4 : x[i] \in Byte
      <3>1. \A i \in 3 .. 4 : i \in 1 .. 8
        OBVIOUS
      <3> QED
        BY <2>1, <3>1
    <2>4. \A i \in 1 .. 4 - 3 + 1 : y[i] = x[3 + i - 1]
      BY <2>3, SubSeqProperties
    <2> HIDE DEF y
    <2>5. 2 \in 1 .. 4 - 3 + 1 /\ 3 + 2 - 1 = 4
      OBVIOUS
    <2>6. y[2] = x[3 + 2 - 1]
      BY <2>4, <2>5
    <2> QED
      BY <1>9, <2>2, <2>5, <2>6
  <1>12. getIIStatus(x) = q
    <2>1. 3 + 2 * 1 = 5 /\ 3 + 2 * 1 - 1 = 4 /\ 4 + 1 = 5
      OBVIOUS
    <2>2. getItemNum(x) = 1
      BY <1>4, <1>9, <1>10, <2>1 DEF getItemNum, META_HDR_LEN, At
    <2>3. getIIStatus(x) = GetItems(x, 5, 1)
      BY <1>4, <1>10, <2>1, <2>2 DEF getIIStatus, META_HDR_LEN
    <2>4. ItemsAt(x, 8, 5, q, 1)
      <3>1. 5 + 3 * 1 <= 8
        OBVIOUS
      <3> QED
        BY <1>8, <1>9, <3>1 DEF ItemsAt, ItemsWritten
    <2>5. 8 \in Nat /\ 5 \in Nat /\ 1 \in Nat
      OBVIOUS
    <2>6. GetItems(x, 5, 1) = q
      BY Zenon, <1>1, <2>4, <2>5, ItemsAreRead
    <2> QED
      BY <2>3, <2>6
  <1> QED
    BY <1>1, <1>5, <1>11, <1>12

\* Whatever the item and its priority, handleIIMetaData reads what sendMetaData wrote.
THEOREM MetadataIsRead == MetadataIsReadAsWritten
  <1>1. ASSUME NEW n \in 0 .. 255, NEW prio \in 0 .. MAX_PRIO - 1
        PROVE  /\ getID_RAW(MetadataPacket(n, prio))[2] = n
               /\ getIIStatus(MetadataPacket(n, prio))[PRIO] = prio
    <2>1. n \in Byte /\ prio \in 0 .. 99 /\ PRIO = 15
      BY DEF Byte, MAX_PRIO, PRIO
    <2> QED
      BY <2>1, OneItemIsRead
  <1> QED
    BY <1>1 DEF MetadataIsReadAsWritten

-----------------------------------------------------------------------------
(* The events on their way to the topology manager.                        *)

(* Events with metadata come from the provider, reports from a node. *)
Genuine(e) ==
  /\ e.type = "QoS_METADATA" => \E i \in Info : e.data = MetadataOf(i)
  /\ e.type = "LSM" => e.node \in Node /\ e.data = ReportTable[e.node]
GenuineEvents == \E S : tmQueue \in Seq(S) /\ \A e \in S : Genuine(e)

\* Events are appended to the queue and taken from its head.
LEMMA QueueSteps ==
  ASSUME GenuineEvents
  PROVE  /\ \A e : Genuine(e) /\ tmQueue' = Append(tmQueue, e) => GenuineEvents'
         /\ tmQueue # <<>> =>
              /\ Genuine(Head(tmQueue))
              /\ tmQueue' = Tail(tmQueue) => GenuineEvents'
  <1>1. PICK S : tmQueue \in Seq(S) /\ \A e \in S : Genuine(e)
    BY DEF GenuineEvents
  <1>2. ASSUME NEW e, Genuine(e), tmQueue' = Append(tmQueue, e) PROVE GenuineEvents'
    <2> DEFINE T == S \cup {e}
    <2>1. \A x \in T : Genuine(x)
      BY <1>1, <1>2
    <2>2. tmQueue \in Seq(T) /\ e \in T
      BY <1>1
    <2> HIDE DEF T
    <2>3. tmQueue' \in Seq(T)
      BY <1>2, <2>2
    <2> QED
      BY <2>1, <2>3 DEF GenuineEvents, Genuine
  <1>3. ASSUME tmQueue # <<>> PROVE Genuine(Head(tmQueue))
    <2>1. Head(tmQueue) \in S
      BY <1>1, <1>3
    <2> QED
      BY <1>1, <2>1
  <1>4. ASSUME tmQueue # <<>>, tmQueue' = Tail(tmQueue) PROVE GenuineEvents'
    <2>1. tmQueue' \in Seq(S)
      BY <1>1, <1>4
    <2> QED
      BY <1>1, <2>1 DEF GenuineEvents, Genuine
  <1> QED
    BY <1>2, <1>3, <1>4

\* Every event that is queued is genuine.
LEMMA EventsStayGenuine ==
  ASSUME GenuineEvents, [Next]_vars
  PROVE  GenuineEvents'
  <1>1. ASSUME Manager PROVE GenuineEvents'
    <2>1. tmQueue # <<>> /\ tmQueue' = Tail(tmQueue)
      BY <1>1, Zenon DEF Manager, HandleLSMUpdate, HandleMatch, HandleIIMetaData
    <2> QED
      BY <2>1, QueueSteps
  <1>2. ASSUME NEW n \in Node, Report(n) PROVE GenuineEvents'
    <2>1. tmQueue' = Append(tmQueue, NextReport(n))
      BY <1>2 DEF Report
    <2>2. Genuine(NextReport(n))
      BY DEF Genuine, NextReport
    <2> QED
      BY <2>1, <2>2, QueueSteps
  <1>3. ASSUME NEW i \in Info, RequestMatch(i) PROVE GenuineEvents'
    <2>1. PICK pubs \in Publishers, subs \in Subscribers :
            tmQueue' = Append(tmQueue, [type |-> "MATCH", item |-> i, pubs |-> pubs, subs |-> subs])
      BY <1>3 DEF RequestMatch
    <2>2. Genuine([type |-> "MATCH", item |-> i, pubs |-> pubs, subs |-> subs])
      BY DEF Genuine
    <2> QED
      BY <2>1, <2>2, QueueSteps
  <1>4. ASSUME NEW i \in Info, RequestMetaMatch(i) PROVE GenuineEvents'
    <2> DEFINE e == [type |-> "MATCH", item |-> Meta(i), pubs |-> {Provider}, subs |-> {TM}]
    <2>1. tmQueue' = Append(tmQueue, e)
      BY <1>4 DEF RequestMetaMatch
    <2>2. Genuine(e)
      BY DEF Genuine
    <2> HIDE DEF e
    <2> QED
      BY <2>1, <2>2, QueueSteps
  <1>5. ASSUME NEW i \in Info, ProvideMetadata(i) PROVE GenuineEvents'
    <2> DEFINE e == [type |-> "QoS_METADATA", data |-> MetadataOf(i)]
    <2>1. tmQueue' = Append(tmQueue, e) \/ UNCHANGED tmQueue
      BY <1>5 DEF ProvideMetadata
    <2>2. Genuine(e)
      BY DEF Genuine
    <2>3. UNCHANGED tmQueue => GenuineEvents'
      BY DEF GenuineEvents, Genuine
    <2> HIDE DEF e
    <2> QED
      BY <2>1, <2>2, <2>3, QueueSteps
  <1>6. UNCHANGED tmQueue => GenuineEvents'
    BY DEF GenuineEvents, Genuine
  <1>7. \/ Manager \/ \E n \in Node : Report(n)
        \/ \E i \in Info : RequestMatch(i) \/ RequestMetaMatch(i) \/ ProvideMetadata(i)
        \/ UNCHANGED tmQueue
    BY DEF Next, GetsLate, Expire, vars
  <1> QED
    BY <1>1, <1>2, <1>3, <1>4, <1>5, <1>6, <1>7

\* At first there are no events.
LEMMA NoEvents == Init => GenuineEvents
  <1> SUFFICES ASSUME Init PROVE GenuineEvents
    OBVIOUS
  <1>1. tmQueue \in Seq({}) /\ \A e \in {} : Genuine(e)
    BY DEF Init
  <1> QED
    BY <1>1 DEF GenuineEvents

\* Whatever links a node has, and whatever their identifiers and priorities:
\* the copy of the packet class in lib/qos reads what the one in src/tm_ext
\* wrote, as long as a byte can count the links (lsmpacket.cc, lsmpacket.cpp).
THEOREM ReportsReadAsWritten ==
  ASSUME FewLinks
  PROVE  Spec => []ReportsAreReadAsWritten
  <1>1. GenuineEvents => ReportsAreReadAsWritten
    <2> SUFFICES ASSUME GenuineEvents, tmQueue # <<>>, Head(tmQueue).type = "LSM"
                 PROVE  ReadsAs(Head(tmQueue).data, Head(tmQueue).node)
      BY DEF ReportsAreReadAsWritten, ReadsAs
    <2>1. Genuine(Head(tmQueue))
      BY QueueSteps
    <2> DEFINE e == Head(tmQueue)
    <2>2. e.node \in Node /\ e.data = ReportTable[e.node]
      BY <2>1 DEF Genuine
    <2> QED
      BY <2>2, ReportIsRead
  <1>2. GenuineEvents /\ [Next]_vars => GenuineEvents'
    BY EventsStayGenuine
  <1> QED
    BY <1>1, <1>2, NoEvents, PTL DEF Spec

-----------------------------------------------------------------------------
(* The priorities that become known and the planes.                        *)

(* Attributes of edges and planes that agree with the configuration. *)
Attributes == UNION {[S -> 0 .. MAX_PRIO - 1] : S \in SUBSET Link}
SetsOfPlanes == UNION {[S -> [Link -> Nat]] : S \in SUBSET (0 .. MAX_PRIO - 1)}
Agrees(s) ==
  /\ \A l \in DOMAIN s.attr : s.attr[l] = confPrio[l]
  /\ \A p \in DOMAIN s.planes, l \in DOMAIN s.attr : s.planes[p][l] = WeightOn(p, confPrio[l])
Right == {s \in [attr : Attributes, planes : SetsOfPlanes] : Agrees(s)}

(* Every link can be told by its identifier. *)
LinksAreTold == \A l, m \in Link : LID[l] = LID[m] => l = m

\* The priority of a link is in its status; its identifier is that of its edge.
LEMMA StatusOfLink ==
  ASSUME LinksAreTold, NEW l \in Link
  PROVE  Status(l)[PRIO] = confPrio[l] /\ confPrio[l] \in 0 .. MAX_PRIO - 1 /\ EdgeOf(LID[l]) = l
  <1>1. confPrio[l] \in 0 .. MAX_PRIO - 1
    BY QoSAssumption
  <1>2. Status(l)[PRIO] = confPrio[l]
    BY DEF Status, PRIO, QoS_CAPACITY_M, QoS_NETTYPE
  <1>3. (CHOOSE m \in Link : LID[m] = LID[l]) = l
    BY DEF LinksAreTold
  <1>4. EdgeOf(LID[l]) = l
    BY <1>3 DEF EdgeOf
  <1> QED
    BY <1>1, <1>2, <1>4

\* A function with one more value.
LEMMA OneMore ==
  ASSUME NEW S, NEW T, NEW f \in [S -> T], NEW x, NEW y \in T, NEW g,
         g = [z \in DOMAIN f \cup {x} |-> IF z = x THEN y ELSE f[z]]
  PROVE  /\ g \in [S \cup {x} -> T] /\ DOMAIN g = S \cup {x} /\ g[x] = y
         /\ \A z \in S \ {x} : g[z] = f[z]
  OBVIOUS

\* A weight on a plane is a number.
LEMMA WeightIsNumber ==
  ASSUME NEW plane \in 0 .. MAX_PRIO - 1, NEW prio \in 0 .. MAX_PRIO - 1
  PROVE  WeightOn(plane, prio) \in Nat
  BY DEF WeightOn, MAX_PRIO, UCHAR_MAX

\* The report of one link leaves attributes and planes right.
LEMMA LinkStateIsRight ==
  ASSUME LinksAreTold, NEW s \in Right, NEW l \in Link
  PROVE  updateLinkState(s, LID[l], Status(l)) \in Right
  <1> DEFINE c == confPrio[l]
             attr == [m \in DOMAIN s.attr \cup {l} |-> IF m = l THEN c ELSE s.attr[m]]
             new == [p \in DOMAIN s.planes \cup {c} |-> IF p = c THEN NewPlane(c, attr) ELSE s.planes[p]]
             planes == IF c \in DOMAIN s.planes THEN s.planes ELSE new
             set == SetOnPlanes(planes, l, c)
  <1>1. Status(l)[PRIO] = c /\ c \in 0 .. MAX_PRIO - 1 /\ EdgeOf(LID[l]) = l /\ c % 256 = c
    <2>1. Status(l)[PRIO] = c /\ c \in 0 .. MAX_PRIO - 1 /\ EdgeOf(LID[l]) = l
      BY StatusOfLink
    <2> HIDE DEF c
    <2> QED
      BY <2>1 DEF MAX_PRIO
  <1>2. updateLinkState(s, LID[l], Status(l)) = [attr |-> attr, planes |-> set]
    <2> DEFINE U(lp, k, prio) ==
                 LET a == [m \in DOMAIN s.attr \cup {k} |-> IF m = k THEN prio ELSE s.attr[m]]
                     q == IF lp \in DOMAIN s.planes THEN s.planes
                          ELSE [p \in DOMAIN s.planes \cup {lp} |->
                                  IF p = lp THEN NewPlane(lp, a) ELSE s.planes[p]]
                 IN  [attr |-> a, planes |-> SetOnPlanes(q, k, lp)]
               prio == Status(l)[PRIO]
    <2>1. updateLinkState(s, LID[l], Status(l)) = U(prio % 256, EdgeOf(LID[l]), prio)
      BY Zenon DEF updateLinkState
    <2>2. U(c, l, c) = [attr |-> attr, planes |-> set]
      BY Zenon
    <2> HIDE DEF U, prio
    <2>3. prio = c /\ prio % 256 = c /\ EdgeOf(LID[l]) = l
      BY <1>1 DEF prio
    <2> HIDE DEF c, attr, set, planes, new
    <2>4. U(prio % 256, EdgeOf(LID[l]), prio) = U(c, l, c)
      BY <2>3
    <2> QED
      BY <2>1, <2>2, <2>4
  <1> HIDE DEF c
  <1>3. PICK A \in SUBSET Link : s.attr \in [A -> 0 .. MAX_PRIO - 1]
    BY DEF Right, Attributes
  <1>4. PICK P \in SUBSET (0 .. MAX_PRIO - 1) : s.planes \in [P -> [Link -> Nat]]
    BY DEF Right, SetsOfPlanes
  <1>5. /\ \A m \in A : s.attr[m] = confPrio[m]
        /\ \A p \in P, m \in A : s.planes[p][m] = WeightOn(p, confPrio[m])
    BY <1>3, <1>4 DEF Right, Agrees
  <1>6. /\ attr \in [A \cup {l} -> 0 .. MAX_PRIO - 1] /\ DOMAIN attr = A \cup {l} /\ attr[l] = c
        /\ \A m \in A \ {l} : attr[m] = s.attr[m]
    BY <1>1, <1>3, OneMore
  <1> HIDE DEF attr
  <1>7. /\ NewPlane(c, attr) \in [Link -> Nat]
        /\ \A m \in A \ {l} : NewPlane(c, attr)[m] = WeightOn(c, confPrio[m])
    <2>1. \A m \in Link : (IF m \in DOMAIN attr THEN attr[m] ELSE 0) \in 0 .. MAX_PRIO - 1
      BY <1>6 DEF MAX_PRIO
    <2>2. \A m \in Link : WeightOn(c, IF m \in DOMAIN attr THEN attr[m] ELSE 0) \in Nat
      BY <1>1, <2>1, WeightIsNumber
    <2>3. \A m \in A \ {l} : m \in Link /\ m \in DOMAIN attr /\ attr[m] = confPrio[m]
      BY <1>3, <1>5, <1>6
    <2> QED
      BY <2>2, <2>3 DEF NewPlane
  <1>8. PICK Q \in SUBSET (0 .. MAX_PRIO - 1) :
          /\ planes \in [Q -> [Link -> Nat]]
          /\ \A p \in Q, m \in A \ {l} : planes[p][m] = WeightOn(p, confPrio[m])
    <2>1. CASE c \in DOMAIN s.planes
      BY <1>4, <1>5, <2>1
    <2>2. CASE c \notin DOMAIN s.planes
      <3>1. /\ new \in [P \cup {c} -> [Link -> Nat]] /\ new[c] = NewPlane(c, attr)
            /\ \A p \in P \ {c} : new[p] = s.planes[p]
        BY <1>4, <1>7, OneMore
      <3>2. P \cup {c} \in SUBSET (0 .. MAX_PRIO - 1) /\ planes = new
        BY <1>1, <1>4, <2>2
      <3> HIDE DEF new
      <3>3. \A p \in P \cup {c}, m \in A \ {l} : new[p][m] = WeightOn(p, confPrio[m])
        BY <1>5, <1>7, <3>1
      <3> QED
        BY <3>1, <3>2, <3>3
    <2> QED
      BY <2>1, <2>2
  <1> HIDE DEF planes
  <1>9. set = [p \in Q |-> [planes[p] EXCEPT ![l] = WeightOn(p, c)]]
    BY <1>8 DEF SetOnPlanes
  <1> HIDE DEF set
  <1>10. ASSUME NEW p \in Q
         PROVE  /\ set[p] \in [Link -> Nat] /\ set[p][l] = WeightOn(p, c)
                /\ \A m \in A \ {l} : set[p][m] = WeightOn(p, confPrio[m])
    <2>1. set[p] = [planes[p] EXCEPT ![l] = WeightOn(p, c)] /\ planes[p] \in [Link -> Nat]
      BY <1>8, <1>9
    <2>2. WeightOn(p, c) \in Nat
      BY <1>1, <1>8, WeightIsNumber
    <2>3. \A m \in Link \ {l} : set[p][m] = planes[p][m]
      BY <2>1
    <2> QED
      BY <1>3, <1>8, <2>1, <2>2, <2>3
  <1>11. set \in [Q -> [Link -> Nat]]
    BY <1>9, <1>10
  <1>12. attr \in Attributes /\ set \in SetsOfPlanes
    <2>1. A \cup {l} \in SUBSET Link
      BY <1>3
    <2> QED
      BY <1>6, <1>8, <1>11, <2>1 DEF Attributes, SetsOfPlanes
  <1> DEFINE n == [attr |-> attr, planes |-> set]
  <1>13. Agrees(n)
    <2>1. n.attr = attr /\ n.planes = set
      OBVIOUS
    <2> HIDE DEF n
    <2>2. \A m \in A \cup {l} : attr[m] = confPrio[m]
      BY <1>5, <1>6 DEF c
    <2>3. \A p \in Q, m \in A \cup {l} : set[p][m] = WeightOn(p, confPrio[m])
      BY <1>10 DEF c
    <2> QED
      BY <1>6, <1>11, <2>1, <2>2, <2>3 DEF Agrees
  <1> QED
    BY <1>2, <1>12, <1>13 DEF Right

(* Entry k of report d is about a link of the network. *)
IsAboutLink(d, k) ==
  \E l \in Link : getLidStr(d, k - 1) = LID[l] /\ getLinkStatus(d, k - 1) = Status(l)

\* A report leaves attributes and planes right, however many links it has.
LEMMA ReportIsRight ==
  ASSUME LinksAreTold, NEW d, NEW n \in Nat, getLinksLen(d) = n,
         \A k \in 1 .. n : IsAboutLink(d, k), NEW base \in Right
  PROVE  UpdateLinks(base, d) \in Right
  <1> DEFINE D == 1 .. n
             next(s, k) == updateLinkState(s, getLidStr(d, k - 1), getLinkStatus(d, k - 1))
             seq == [k \in 1 .. getLinksLen(d) |-> k]
             Defines(it) == it = [s \in SUBSET DOMAIN seq |->
                                    IF s = {} THEN base ELSE next(it[s \ {Max(s)}], seq[Max(s)])]
             F == [p \in D \X Right |-> next(p[2], p[1])]
             c == [s \in SUBSET D |-> Max(s)]
  <1>1. UpdateLinks(base, d) = (CHOOSE it : Defines(it))[DOMAIN seq]
    BY Zenon DEF UpdateLinks, FoldLeft, MapThenFoldSet
  <1>2. DOMAIN seq = D /\ \A k \in D : seq[k] = k
    OBVIOUS
  <1>3. \A s \in SUBSET D : s # {} => Max(s) \in s /\ c[s] = Max(s)
    BY LastIndex
  <1>4. ASSUME NEW s \in Right, NEW k \in D PROVE next(s, k) \in Right
    <2>1. PICK l \in Link : getLidStr(d, k - 1) = LID[l] /\ getLinkStatus(d, k - 1) = Status(l)
      BY DEF IsAboutLink
    <2> QED
      BY <2>1, LinkStateIsRight
  <1>5. F \in [D \X Right -> Right] /\ \A k \in D, s \in Right : F[<<k, s>>] = next(s, k)
    <2> HIDE DEF next, D
    <2> QED BY <1>4
  <1>6. IsFiniteSet(D)
    BY FS_Interval
  <1> HIDE DEF F, c, next, seq, D
  <1>7. \E it : Defines(it)
    <2>1. \A s \in SUBSET D : s # {} => c[s] \in s
      BY <1>3
    <2>2. PICK it \in [SUBSET D -> Right] : Recursion(it, D, base, F, c)
      BY Zenon, <1>5, <1>6, <2>1, SetRecursion
    <2>3. ASSUME NEW s \in SUBSET D, s # {} PROVE it[s] = next(it[s \ {Max(s)}], seq[Max(s)])
      <3>1. c[s] = Max(s) /\ Max(s) \in D /\ s \ {Max(s)} \in SUBSET D
        BY <1>3, <2>3
      <3>2. it[s] = F[<<c[s], it[s \ {c[s]}]>>]
        BY <2>2, <2>3 DEF Recursion
      <3>3. it[s \ {Max(s)}] \in Right
        BY <2>2, <3>1
      <3> QED
        BY <1>2, <1>5, <3>1, <3>2, <3>3
    <2>4. it[{}] = base
      BY <2>2 DEF Recursion
    <2>5. Defines(it)
      BY <1>2, <2>2, <2>3, <2>4
    <2> QED
      BY <2>5
  <1> DEFINE it == CHOOSE i : Defines(i)
  <1>8. Defines(it)
    BY <1>7
  <1> HIDE DEF it
  <1>9. it[{}] = base /\ \A s \in SUBSET D : s # {} => it[s] = next(it[s \ {Max(s)}], Max(s))
    <2>1. \A s \in SUBSET D : s # {} => Max(s) \in D /\ seq[Max(s)] = Max(s)
      BY <1>2, <1>3
    <2> QED
      BY <1>2, <1>8, <2>1
  <1> HIDE DEF Defines
  <1> DEFINE T == {s \in SUBSET D : it[s] \notin Right}
  <1>10. T = {}
    <2> SUFFICES ASSUME T # {} PROVE FALSE
      OBVIOUS
    <2>1. PICK m \in T : \A x \in m : m \ {x} \notin T
      BY <1>6, SmallestSet
    <2>2. m \in SUBSET D /\ it[m] \notin Right
      BY <2>1
    <2>3. m # {}
      <3> HIDE DEF T
      <3>1. it[{}] \in Right
        BY <1>9
      <3> QED
        BY Zenon, <2>2, <3>1
    <2>4. Max(m) \in m /\ it[m] = next(it[m \ {Max(m)}], Max(m))
      BY <1>3, <1>9, <2>2, <2>3
    <2>5. it[m \ {Max(m)}] \in Right
      BY <2>1, <2>2, <2>4
    <2> HIDE DEF T
    <2> QED
      BY <1>4, <2>2, <2>4, <2>5
  <1>11. it[D] \in Right
    BY <1>10
  <1> QED
    BY <1>1, <1>2, <1>11 DEF it

PlanesInv == [attr |-> QoS_PRIO, planes |-> qlwm] \in Right

\* What the topology manager reads in a report is about links of the network.
LEMMA ReadIsRight ==
  ASSUME LinksAreTold, ReportsAreReadAsWritten, PlanesInv, HandleLSMUpdate
  PROVE  PlanesInv'
  <1> DEFINE e == Head(tmQueue)
             d == e.data
             n == Cardinality(fwTable(e.node))
             base == [attr |-> QoS_PRIO, planes |-> qlwm]
  <1>1. /\ tmQueue # <<>> /\ e.type = "LSM"
        /\ QoS_PRIO' = UpdateLinks(base, d).attr /\ qlwm' = UpdateLinks(base, d).planes
    BY DEF HandleLSMUpdate
  <1>2. /\ getLinksLen(d) = n
        /\ {<<getLidStr(d, k), getLinkStatus(d, k)>> : k \in 0 .. getLinksLen(d) - 1}
             = {<<LID[l], Status(l)>> : l \in fwTable(e.node)}
    BY <1>1 DEF ReportsAreReadAsWritten
  <1>3. n \in Nat
    <2>1. IsFiniteSet(fwTable(e.node))
      BY QoSAssumption, FS_Subset DEF fwTable
    <2> QED
      BY <2>1, FS_CardinalityType
  <1> HIDE DEF n, d, e
  <1>4. ASSUME NEW k \in 1 .. n PROVE IsAboutLink(d, k)
    <2>1. k - 1 \in 0 .. getLinksLen(d) - 1
      BY <1>2, <1>3
    <2>2. <<getLidStr(d, k - 1), getLinkStatus(d, k - 1)>> \in {<<LID[l], Status(l)>> : l \in fwTable(e.node)}
      BY <1>2, <2>1
    <2> QED
      BY <2>2 DEF IsAboutLink, fwTable
  <1>5. UpdateLinks(base, d) \in Right
    BY <1>2, <1>3, <1>4, ReportIsRight DEF PlanesInv
  <1> HIDE DEF base
  <1>6. UpdateLinks(base, d) = [attr |-> UpdateLinks(base, d).attr, planes |-> UpdateLinks(base, d).planes]
    BY <1>5 DEF Right
  <1> QED
    BY <1>1, <1>5, <1>6 DEF PlanesInv

\* At first there are no planes.
LEMMA InitPlanes ==
    Init => PlanesInv
  <1> SUFFICES ASSUME Init PROVE PlanesInv
    OBVIOUS
  <1>1. QoS_PRIO = <<>> /\ qlwm = <<>> /\ DOMAIN <<>> = {}
    BY DEF Init
  <1>2. <<>> \in [{} -> 0 .. MAX_PRIO - 1] /\ <<>> \in [{} -> [Link -> Nat]]
    OBVIOUS
  <1>3. <<>> \in Attributes /\ <<>> \in SetsOfPlanes
    BY <1>2 DEF Attributes, SetsOfPlanes
  <1> QED
    BY <1>1, <1>3 DEF PlanesInv, Right, Agrees

\* Only reports change priorities and planes.
LEMMA NextPlanes ==
    ASSUME LinksAreTold
    PROVE  PlanesInv /\ ReportsAreReadAsWritten /\ [Next]_vars => PlanesInv'
  <1> SUFFICES ASSUME PlanesInv, ReportsAreReadAsWritten, [Next]_vars PROVE PlanesInv'
    OBVIOUS
  <1>1. HandleLSMUpdate \/ UNCHANGED <<QoS_PRIO, qlwm>>
    BY DEF Next, Manager, HandleMatch, HandleIIMetaData, GetsLate, Report, RequestMatch,
           RequestMetaMatch, ProvideMetadata, Expire, vars, cache
  <1> QED
    BY <1>1, ReadIsRight DEF PlanesInv

\* Whatever the order in which nodes report, the weights are right on every
\* plane (updateLinkState and createNewQoSLinkPrioMap), as long as links can be
\* told by their identifiers and a byte can count the links of a node.
THEOREM PlanesAlwaysAgree ==
  ASSUME LinksAreTold, FewLinks
  PROVE  Spec => []PlanesAgree
  <1>1. PlanesInv => PlanesAgree
    <2> SUFFICES ASSUME PlanesInv, NEW p \in DOMAIN qlwm, NEW l \in DOMAIN QoS_PRIO
                 PROVE  qlwm[p][l] = IF confPrio[l] > p THEN UCHAR_MAX ELSE MAX_PRIO - confPrio[l]
      BY DEF PlanesAgree
    <2> DEFINE s == [attr |-> QoS_PRIO, planes |-> qlwm]
    <2>1. s \in Right /\ s.attr = QoS_PRIO /\ s.planes = qlwm
      BY DEF PlanesInv
    <2> HIDE DEF s
    <2>2. qlwm[p][l] = WeightOn(p, confPrio[l])
      BY <2>1 DEF Right, Agrees
    <2>3. p \in 0 .. MAX_PRIO - 1 /\ l \in Link
      BY <2>1 DEF Right, Attributes, SetsOfPlanes
    <2>4. confPrio[l] \in Nat
      BY <2>3, QoSAssumption DEF MAX_PRIO
    <2> QED
      BY <2>2, <2>3, <2>4 DEF WeightOn
  <1> QED
    BY <1>1, InitPlanes, NextPlanes, ReportsReadAsWritten, PTL DEF Spec

-----------------------------------------------------------------------------
(* The priority that an item is matched with.                              *)

Known(m) == \A i \in Info \cap DOMAIN m : ~m[i].querying => m[i].prio = ItemPrio[i]

\* Less is known without some entries.
LEMMA WithoutKnows ==
  ASSUME NEW m, NEW n, NEW S, IsWithout(n, m, S), Known(m)
  PROVE  Known(n)
  BY DEF IsWithout, Known

\* SendQuery makes entries for the item, which is unknown, and its metadata.
LEMMA SendQueryKnows ==
  ASSUME NEW m, NEW s, Entries(m), Known(m), NEW i
  PROVE  Known(SendQuery([meta |-> m, subs |-> s], i).meta)
  <1> DEFINE meta == [querying |-> FALSE, old |-> FALSE, prio |-> 99]
             query == [querying |-> TRUE, old |-> FALSE, prio |-> DEFAULT_QOS_PRIO]
             n == With(m, Meta(i), meta)
             o == With(n, i, query)
  <1>1. SendQuery([meta |-> m, subs |-> s], i).meta = o
    BY DEF SendQuery, addMetaItem
  <1>2. Entry(meta) /\ Entry(query) /\ query.querying
    BY NewEntries
  <1> HIDE DEF meta, query
  <1>3. IsWith(n, m, Meta(i), meta)
    BY <1>2, WithIs
  <1>4. Entries(n)
    BY <1>3 DEF IsWith
  <1> HIDE DEF n
  <1>5. IsWith(o, n, i, query)
    BY <1>2, <1>4, WithIs
  <1> HIDE DEF o
  <1>6. ASSUME NEW k \in Info \cap DOMAIN o, ~o[k].querying PROVE o[k].prio = ItemPrio[k]
    <2>1. k # i /\ k # Meta(i)
      BY <1>2, <1>5, <1>6, MetaItems DEF IsWith
    <2>2. k \in DOMAIN m /\ o[k] = m[k]
      BY <1>3, <1>5, <2>1 DEF IsWith
    <2> QED
      BY <1>6, <2>2 DEF Known
  <1> QED
    BY <1>1, <1>6 DEF Known

\* An item is matched with its own priority or with the default.
LEMMA LookUpKnows ==
  ASSUME NEW m, NEW s, Entries(m), Known(m), NEW i
  PROVE  LET r == LookUp([meta |-> m, subs |-> s], i)
         IN  /\ Known(r.c.meta)
             /\ i \in Info => r.prio = DEFAULT_QOS_PRIO \/ r.prio = ItemPrio[i]
  <1> DEFINE c0 == [meta |-> m, subs |-> s]
             c1 == checkClean(c0, i)
             c2 == IF late THEN cleanAllExpired(c1) ELSE c1
             m1 == c1.meta
             m2 == c2.meta
             s1 == c1.subs
             old == {j \in DOMAIN m1 : m1[j].old}
  <1>1. /\ c1 = [meta |-> m1, subs |-> s1] /\ Entries(m1) /\ Known(m1)
        /\ i \in DOMAIN m1 => ~m1[i].old
    <2>1. CASE i \in DOMAIN m /\ m[i].old
      <3>1. c1 = [meta |-> Without(m, {i}), subs |-> s \ {j \in {i} : m[i].querying}]
        BY <2>1 DEF checkClean
      <3>2. IsWithout(Without(m, {i}), m, {i})
        BY WithoutIs
      <3>3. Entries(Without(m, {i})) /\ Known(Without(m, {i})) /\ i \notin DOMAIN Without(m, {i})
        BY <3>2, WithoutKnows DEF IsWithout
      <3> QED
        BY <3>1, <3>3
    <2>2. CASE ~(i \in DOMAIN m /\ m[i].old)
      <3>1. c1 = c0
        BY <2>2 DEF checkClean
      <3> QED
        BY <2>2, <3>1
    <2> QED
      BY <2>1, <2>2
  <1> HIDE DEF c1
  <1>2. Known(m2) /\ (i \in DOMAIN m1 => i \in DOMAIN m2)
    <2> DEFINE n == Without(m1, old)
    <2>1. cleanAllExpired(c1).meta = n
      BY DEF cleanAllExpired
    <2>2. i \notin old
      BY <1>1
    <2> HIDE DEF m1, old
    <2>3. IsWithout(n, m1, old)
      BY <1>1, WithoutIs
    <2> HIDE DEF n
    <2>4. Known(n) /\ (i \in DOMAIN m1 => i \in DOMAIN n)
      BY <1>1, <2>2, <2>3, WithoutKnows DEF IsWithout
    <2> QED
      BY <1>1, <2>1, <2>4 DEF m1
  <1>3. Known(SendQuery(c1, i).meta)
    <2> HIDE DEF m1, s1
    <2> QED
      BY <1>1, SendQueryKnows
  <1>4. LookUp(c0, i) =
          IF i \notin DOMAIN m1 THEN [c |-> SendQuery(c1, i), prio |-> DEFAULT_QOS_PRIO]
          ELSE [c |-> c2, prio |-> IF m2[i].querying THEN DEFAULT_QOS_PRIO ELSE m2[i].prio]
    BY DEF LookUp, c1
  <1>5. CASE i \notin DOMAIN m1
    BY <1>3, <1>4, <1>5
  <1>6. CASE i \in DOMAIN m1
    <2>1. LookUp(c0, i).c.meta = m2
      BY <1>4, <1>6
    <2>2. LookUp(c0, i).prio = IF m2[i].querying THEN DEFAULT_QOS_PRIO ELSE m2[i].prio
      BY <1>4, <1>6
    <2> HIDE DEF m2
    <2>3. i \in Info /\ ~m2[i].querying => m2[i].prio = ItemPrio[i]
      BY <1>2, <1>6 DEF Known
    <2> QED
      BY <1>2, <2>1, <2>2, <2>3
  <1> QED
    BY <1>5, <1>6

\* What is entered is the priority in the packet.
LEMMA UpdateKnows ==
  ASSUME NEW m, NEW s, Entries(m), Known(m), NEW i, NEW prio,
         i \in Info => prio = ItemPrio[i]
  PROVE  Known(update([meta |-> m, subs |-> s], i, prio).meta)
  <1> DEFINE e == [querying |-> FALSE, old |-> FALSE, prio |-> prio]
             n == With(m, i, e)
             o == Without(n, {Meta(i)})
             c == update([meta |-> m, subs |-> s], i, prio)
  <1>1. CASE i \notin DOMAIN m
    BY <1>1 DEF update
  <1>2. CASE i \in DOMAIN m
    <2>1. c.meta = o
      BY <1>2 DEF update
    <2>2. Entry(e) /\ e.prio = prio
      BY NewEntries
    <2> HIDE DEF e, c
    <2>3. IsWith(n, m, i, e)
      BY <2>2, WithIs
    <2>4. Entries(n)
      BY <2>3 DEF IsWith
    <2> HIDE DEF n
    <2>5. IsWithout(o, n, {Meta(i)})
      BY <2>4, WithoutIs
    <2> HIDE DEF o
    <2>6. Known(n)
      BY <2>2, <2>3 DEF IsWith, Known
    <2>7. Known(o)
      BY <2>5, <2>6, WithoutKnows
    <2> QED
      BY <2>1, <2>7 DEF c
  <1> QED
    BY <1>1, <1>2

\* getWeightKeyForIIPrio() does not go above the priority it is given.
LEMMA PlaneIsBelow ==
  ASSUME DOMAIN qlwm \subseteq Nat, NEW prio \in Nat
  PROVE  getWeightKeyForIIPrio(prio) \in 0 .. prio
  <1> DEFINE S == {p \in DOMAIN qlwm : p <= prio} \cup {0}
             R == {prio - p : p \in S}
  <1>1. S \subseteq 0 .. prio /\ S # {}
    OBVIOUS
  <1>2. R \subseteq Nat /\ R # {}
    BY <1>1
  <1>3. PICK r \in R : \A q \in R : r <= q
    BY <1>2, LeastElement
  <1>4. \A p \in S : prio - p \in R
    OBVIOUS
  <1>5. PICK x \in S : r = prio - x
    BY <1>3
  <1> HIDE DEF S, R
  <1>6. \A y \in S : x >= y
    <2> TAKE y \in S
    <2>1. r <= prio - y
      BY <1>3, <1>4
    <2> QED
      BY <1>1, <1>5, <2>1
  <1>7. Max(S) \in S
    BY <1>6 DEF Max
  <1> QED
    BY <1>1, <1>7 DEF getWeightKeyForIIPrio, S

(* What is known and used is what the provider published. *)
PrioInv ==
  /\ Tidy(ii_meta, subscribed) /\ Known(ii_meta) /\ GenuineEvents
  /\ Info \subseteq DOMAIN served /\ NeverAboveItsPriority

\* A match is answered on a plane at or below the item's priority.
LEMMA MatchStaysBelow ==
  ASSUME DOMAIN qlwm \subseteq Nat, PrioInv, HandleMatch
  PROVE  Known(ii_meta') /\ Info \subseteq DOMAIN served' /\ NeverAboveItsPriority'
  <1> DEFINE r == Head(tmQueue)
             found == LookUp(C, r.item)
             plane == getWeightKeyForIIPrio(found.prio)
  <1>1. /\ Known(found.c.meta)
        /\ r.item \in Info =>
             found.prio = DEFAULT_QOS_PRIO \/ found.prio = ItemPrio[r.item]
    <2>1. Entries(ii_meta) /\ Known(ii_meta)
      BY DEF PrioInv, Tidy
    <2> QED
      BY <2>1, LookUpKnows DEF C
  <1>2. \/ /\ ii_meta' = found.c.meta
           /\ served' = [served EXCEPT ![r.item] =
                [plane |-> plane, weighted |-> TRUE, known |-> DOMAIN QoS_PRIO]]
        \/ /\ ii_meta' = ii_meta
           /\ served' = [served EXCEPT ![r.item] = NotServed]
    BY DEF HandleMatch, SetCache
  <1>3. \A i \in Info : ItemPrio[i] \in Nat
    BY QoSAssumption DEF Info, MAX_PRIO
  <1>4. r.item \in Info => plane <= ItemPrio[r.item]
    <2> HIDE DEF found
    <2>1. r.item \in Info => found.prio \in Nat /\ found.prio <= ItemPrio[r.item]
      BY <1>1, <1>3 DEF DEFAULT_QOS_PRIO
    <2>2. r.item \in Info => plane \in 0 .. found.prio
      BY <2>1, PlaneIsBelow
    <2> HIDE DEF plane, r
    <2> QED
      BY <1>3, <2>1, <2>2
  <1>5. NotServed.plane = 0
    BY DEF NotServed
  <1>6. DOMAIN served' = DOMAIN served
    BY <1>2
  <1> HIDE DEF found, plane, r
  <1>7. ASSUME NEW i \in Info PROVE served'[i].plane <= ItemPrio[i]
    <2>1. CASE i = r.item
      BY <1>2, <1>3, <1>4, <1>5, <2>1 DEF PrioInv
    <2>2. CASE i # r.item
      <3>1. served'[i] = served[i]
        BY <1>2, <2>2 DEF PrioInv
      <3> QED
        BY <3>1 DEF PrioInv, NeverAboveItsPriority
    <2> QED
      BY <2>1, <2>2
  <1> QED
    BY <1>1, <1>2, <1>6, <1>7 DEF PrioInv, NeverAboveItsPriority

\* Only the metadata of the item itself changes what is known of it.
LEMMA MetadataIsKnown ==
  ASSUME PrioInv, HandleIIMetaData
  PROVE  Known(ii_meta')
  <1> DEFINE d == Head(tmQueue).data
             x == <<"info", getID_RAW(d)[2]>>
             p == getIIStatus(d)[PRIO]
  <1>1. ii_meta' = update(C, x, p).meta /\ Genuine(Head(tmQueue))
        /\ Head(tmQueue).type = "QoS_METADATA"
    BY QueueSteps DEF HandleIIMetaData, SetCache, PrioInv
  <1>2. PICK i \in Info : d = MetadataOf(i)
    BY <1>1 DEF Genuine
  <1>3. i = <<"info", i[2]>> /\ i[2] \in 0 .. 255 /\ ItemPrio[i] \in 0 .. MAX_PRIO - 1
    BY QoSAssumption DEF Info
  <1>4. getID_RAW(d)[2] = i[2] /\ p = ItemPrio[i]
    <2> DEFINE n == i[2]
               prio == ItemPrio[i]
    <2>1. d = MetadataPacket(n, prio) /\ n \in 0 .. 255 /\ prio \in 0 .. MAX_PRIO - 1
      BY <1>2, <1>3 DEF MetadataOf
    <2> HIDE DEF n, prio, d
    <2>2. getID_RAW(MetadataPacket(n, prio))[2] = n /\ getIIStatus(MetadataPacket(n, prio))[PRIO] = prio
      BY <2>1, MetadataIsRead DEF MetadataIsReadAsWritten
    <2> QED
      BY <2>1, <2>2 DEF n, prio
  <1>5. x = i
    BY <1>3, <1>4
  <1> HIDE DEF d, x, p
  <1>6. Entries(ii_meta) /\ Known(ii_meta)
    BY DEF PrioInv, Tidy
  <1> QED
    BY <1>1, <1>4, <1>5, <1>6, UpdateKnows DEF C

\* Time does not change what is known.
LEMMA ExpireKnows ==
  ASSUME PrioInv, NEW i, Expire(i)
  PROVE  Known(ii_meta')
  <1> DEFINE e == [ii_meta[i] EXCEPT !.old = TRUE]
  <1>1. i \in DOMAIN ii_meta /\ ii_meta' = [ii_meta EXCEPT ![i] = e]
    BY DEF Expire
  <1>2. e.querying = ii_meta[i].querying /\ e.prio = ii_meta[i].prio
    BY <1>1, Outlived DEF PrioInv, Tidy, Entries
  <1> HIDE DEF e
  <1>3. ASSUME NEW k \in Info \cap DOMAIN ii_meta'
        PROVE  /\ k \in DOMAIN ii_meta
               /\ ii_meta'[k].querying = ii_meta[k].querying /\ ii_meta'[k].prio = ii_meta[k].prio
    BY <1>1, <1>2
  <1> QED
    BY <1>3 DEF PrioInv, Known

\* Every step keeps to the priorities that were published.
LEMMA StepKeepsPriorities ==
  ASSUME DOMAIN qlwm \subseteq Nat, PrioInv, [Next]_vars
  PROVE  PrioInv'
  <1>1. Tidy(ii_meta', subscribed')
    BY StepIsTidy DEF PrioInv
  <1>2. GenuineEvents'
    BY EventsStayGenuine DEF PrioInv
  <1>3. Known(ii_meta') /\ Info \subseteq DOMAIN served' /\ NeverAboveItsPriority'
    <2>1. CASE HandleMatch
      BY <2>1, MatchStaysBelow
    <2>2. CASE HandleIIMetaData
      <3>1. Known(ii_meta')
        BY <2>2, MetadataIsKnown
      <3>2. served' = served
        BY <2>2 DEF HandleIIMetaData
      <3> QED
        BY <3>1, <3>2 DEF PrioInv, NeverAboveItsPriority
    <2>3. ASSUME NEW i, Expire(i)
          PROVE  Known(ii_meta') /\ Info \subseteq DOMAIN served' /\ NeverAboveItsPriority'
      <3>1. Known(ii_meta')
        BY <2>3, ExpireKnows
      <3>2. served' = served
        BY <2>3 DEF Expire
      <3> QED
        BY <3>1, <3>2 DEF PrioInv, NeverAboveItsPriority
    <2>4. CASE UNCHANGED <<ii_meta, served>>
      BY <2>4 DEF PrioInv, NeverAboveItsPriority, Known
    <2>5. HandleMatch \/ HandleIIMetaData \/ (\E i : Expire(i)) \/ UNCHANGED <<ii_meta, served>>
      BY DEF Next, Manager, HandleLSMUpdate, GetsLate, Report, RequestMatch, RequestMetaMatch,
             ProvideMetadata, vars, cache
    <2> QED
      BY <2>1, <2>2, <2>3, <2>4, <2>5
  <1> QED
    BY <1>1, <1>2, <1>3 DEF PrioInv

\* Whatever expires and whenever metadata arrives, no item is matched on a
\* plane above its own priority ("smaller than the II prio", tm_graph.hpp).
THEOREM ItemsStayBelow ==
  ASSUME LinksAreTold, FewLinks
  PROVE  Spec => []NeverAboveItsPriority
  <1>1. Init => PrioInv
    <2> SUFFICES ASSUME Init PROVE PrioInv
      OBVIOUS
    <2>1. Tidy(ii_meta, subscribed) /\ Known(ii_meta)
      BY DEF Init, Tidy, Entries, Known
    <2>2. GenuineEvents
      BY NoEvents
    <2>3. Info \subseteq DOMAIN served /\ \A i \in Info : served[i].plane = 0
      BY DEF Init, Item, NotServed
    <2>4. \A i \in Info : ItemPrio[i] \in Nat
      BY QoSAssumption DEF Info, MAX_PRIO
    <2> QED
      BY <2>1, <2>2, <2>3, <2>4 DEF PrioInv, NeverAboveItsPriority
  <1>2. PlanesInv /\ PrioInv /\ [Next]_vars => PrioInv'
    <2>1. PlanesInv => DOMAIN qlwm \subseteq Nat
      <3> DEFINE s == [attr |-> QoS_PRIO, planes |-> qlwm]
      <3> SUFFICES ASSUME s \in Right PROVE s.planes = qlwm /\ DOMAIN s.planes \subseteq Nat
        BY DEF PlanesInv
      <3>1. s.planes = qlwm
        OBVIOUS
      <3> HIDE DEF s
      <3> QED
        BY <3>1 DEF Right, SetsOfPlanes
    <2> QED
      BY <2>1, StepKeepsPriorities
  <1>3. PrioInv => NeverAboveItsPriority
    BY DEF PrioInv
  <1> QED
    BY <1>1, <1>2, <1>3, InitPlanes, NextPlanes, ReportsReadAsWritten, PTL DEF Spec

============================================================================
