------------------------------ MODULE PLAProofs ------------------------------
(***************************************************************************)
(* The circular window of libpla_check_sequence_number, for every window   *)
(* size, any number of verifying processes and whatever the network does;  *)
(* and what follows for the packets that are signed and the certificates   *)
(* that are kept in files.                                                 *)
(***************************************************************************)
EXTENDS PLA, SequenceTheorems, FiniteSetTheorems, TLAPS

-----------------------------------------------------------------------------
(* Remainders *)

\* A remainder is one, and a number is its quotient and its remainder.
LEMMA DivMod ==
  ASSUME NEW a \in Int, NEW W \in Nat \ {0}
  PROVE  /\ a \div W \in Int /\ a % W \in 0 .. W - 1
         /\ a = (a \div W) * W + (a % W)
  OBVIOUS

\* There is only one such remainder.
LEMMA OneRemainder ==
  ASSUME NEW W \in Nat \ {0}, NEW q \in Int, NEW r \in 0 .. W - 1,
         NEW p \in Int, NEW s \in 0 .. W - 1, q * W + r = p * W + s
  PROVE  r = s
  <1>1. CASE q = p
    BY <1>1
  <1>2. CASE q > p
    <2>1. q * W >= (p + 1) * W
      BY <1>2
    <2>2. (p + 1) * W = p * W + W
      OBVIOUS
    <2> QED
      BY <2>1, <2>2
  <1>3. CASE q < p
    <2>1. p * W >= (q + 1) * W
      BY <1>3
    <2>2. (q + 1) * W = q * W + W
      OBVIOUS
    <2> QED
      BY <2>1, <2>2
  <1> QED
    BY <1>1, <1>2, <1>3

\* Numbers that differ by a multiple have the same remainder.
LEMMA SameRemainder ==
  ASSUME NEW W \in Nat \ {0}, NEW a \in Int, NEW b \in Int, NEW m \in Int, a = b + m * W
  PROVE  a % W = b % W
  <1> DEFINE q == a \div W  r == a % W  p == b \div W  s == b % W
  <1>1. /\ q \in Int /\ r \in 0 .. W - 1 /\ a = q * W + r
        /\ p \in Int /\ s \in 0 .. W - 1 /\ b = p * W + s
    BY DivMod
  <1> HIDE DEF q, r, p, s
  <1>2. (p + m) * W = p * W + m * W /\ p + m \in Int
    BY <1>1
  <1>3. q * W + r = (p + m) * W + s
    BY <1>1, <1>2
  <1>4. r = s
    BY <1>1, <1>2, <1>3, OneRemainder
  <1> QED
    BY <1>4 DEF r, s

\* A remainder may be taken early.
LEMMA EarlyRemainder ==
  ASSUME NEW W \in Nat \ {0}, NEW a \in Int, NEW d \in Int
  PROVE  /\ ((a % W) + d) % W = (a + d) % W
         /\ (d - (a % W)) % W = (d - a) % W
  <1> DEFINE q == a \div W  r == a % W
  <1>1. q \in Int /\ r \in Int /\ a = q * W + r
    BY DivMod
  <1> HIDE DEF q, r
  <1>2. \A x, y \in Int : x = y + q * W => x % W = y % W
    BY <1>1, SameRemainder
  <1>3. (a + d) % W = (r + d) % W
    <2>1. a + d \in Int /\ r + d \in Int /\ a + d = (r + d) + q * W
      BY <1>1
    <2> QED
      BY <1>2, <2>1
  <1>4. (d - r) % W = (d - a) % W
    <2>1. d - r \in Int /\ d - a \in Int /\ d - r = (d - a) + q * W
      BY <1>1
    <2> QED
      BY <1>2, <2>1
  <1> QED
    BY <1>3, <1>4 DEF r

\* Within a window of W numbers no two have the same remainder.
LEMMA WindowInjective ==
  ASSUME NEW W \in Nat \ {0}, NEW a \in Int, NEW b \in Int, a % W = b % W,
         a - b < W, b - a < W
  PROVE  a = b
  <1> DEFINE q == a \div W  r == a % W  p == b \div W
  <1>1. q \in Int /\ r \in Int /\ p \in Int /\ a = q * W + r /\ b = p * W + r
    BY DivMod
  <1> HIDE DEF q, r, p
  <1>2. CASE q > p
    <2>1. q * W >= (p + 1) * W /\ (p + 1) * W = p * W + W
      BY <1>1, <1>2
    <2> QED
      BY <1>1, <2>1
  <1>3. CASE q < p
    <2>1. p * W >= (q + 1) * W /\ (q + 1) * W = q * W + W
      BY <1>1, <1>3
    <2> QED
      BY <1>1, <2>1
  <1> QED
    BY <1>1, <1>2, <1>3

\* What a remainder is of a number below W, and that it does not exceed what
\* is left of a larger one.
LEMMA SmallRemainder ==
  ASSUME NEW W \in Nat \ {0}, NEW a \in Nat
  PROVE  /\ a < W => a % W = a
         /\ a >= W => a % W <= a - W
  <1>1. a < W => a % W = a
    OBVIOUS
  <1>2. ASSUME a >= W PROVE a % W <= a - W
    <2> DEFINE b == a - W
    <2>0. b \in Nat /\ a = b + 1 * W
      BY <1>2
    <2> HIDE DEF b
    <2>1. a % W = b % W
      <3>0. a \in Int /\ b \in Int
        BY <2>0
      <3>1. \A m \in Int : a = b + m * W => a % W = b % W
        BY <3>0, SameRemainder
      <3>2. a = b + 1 * W /\ 1 \in Int
        BY <2>0
      <3> QED
        BY <3>1, <3>2, Zenon
    <2>2. b % W <= b
      <3>1. b < W => b % W = b
        BY <2>0
      <3>2. b % W \in 0 .. W - 1
        BY <2>0, DivMod
      <3> QED
        BY <2>0, <3>1, <3>2
    <2>3. a % W \in Int /\ b % W \in Int
      BY <2>0, DivMod
    <2> QED
      BY <2>0, <2>1, <2>2, <2>3
  <1> QED
    BY <1>1, <1>2

-----------------------------------------------------------------------------
(***************************************************************************)
(* The window.  GoodWindow(e, S): the entry e is right about the set S of  *)
(* numbers that passed.  Its index is low modulo the size, so that every   *)
(* number has a slot that does not depend on how far the window has come;  *)
(* a window that has moved has let its highest number pass.                *)
(***************************************************************************)
EntryType ==
  [low : Nat, index : 0 .. WindowSize - 1, window : [0 .. WindowSize - 1 -> {0, 1}]]
Right(e, S) ==
  /\ e \in EntryType
  /\ e.index = e.low % WindowSize
  /\ \A s \in Nat : InWindow(e, s) => (e.window[s % WindowSize] = 1 <=> s \in S)
  /\ \A s \in S : s \in Nat /\ s <= e.low + WindowSize - 1
GoodWindow(e, S) == Right(e, S) /\ (e.low > 0 => e.low + WindowSize - 1 \in S)

\* The slot of a number.
LEMMA SlotIs ==
  ASSUME NEW e \in EntryType, e.index = e.low % WindowSize, NEW s \in Nat
  PROVE  Slot(e, s) = s % WindowSize /\ Slot(e, s) \in 0 .. WindowSize - 1
  <1>1. WindowSize \in Nat \ {0} /\ e.low \in Int /\ s - e.low \in Int
    BY PLAAssumption DEF EntryType
  <1>2. ((e.low % WindowSize) + (s - e.low)) % WindowSize
          = (e.low + (s - e.low)) % WindowSize
    BY <1>1, EarlyRemainder
  <1>3. e.low + (s - e.low) = s
    BY <1>1
  <1>4. Slot(e, s) = s % WindowSize
    BY <1>2, <1>3 DEF Slot
  <1>5. s \in Int /\ s % WindowSize \in 0 .. WindowSize - 1
    BY SMTT(30), <1>1, DivMod
  <1> QED
    BY <1>4, <1>5

\* An entry that was never used.
LEMMA EmptyWindow == GoodWindow(Entry0, {})
  <1>1. WindowSize \in Nat \ {0}
    BY PLAAssumption
  <1>2. Entry0 \in EntryType
    BY <1>1 DEF Entry0, EntryType
  <1>3. 0 % WindowSize = 0
    BY <1>1, SmallRemainder
  <1>4. \A s \in Nat : s % WindowSize \in 0 .. WindowSize - 1
    BY <1>1, DivMod
  <1>5. /\ Entry0.low = 0 /\ Entry0.index = 0
        /\ \A s \in Nat : Entry0.window[s % WindowSize] = 0
    BY <1>4 DEF Entry0
  <1> QED
    BY <1>2, <1>3, <1>5 DEF Right, GoodWindow

\* A good window lets a number pass exactly if it has not passed and none
\* that is WindowSize or more ahead of it has.
LEMMA GoodWindowDecides ==
  ASSUME NEW e, NEW S, GoodWindow(e, S), NEW s \in Nat
  PROVE  SeqOK(e, s) <=> s \notin S /\ \A t \in S : t - s < WindowSize
  <1>1. WindowSize \in Nat \ {0} /\ e \in EntryType /\ e.low \in Nat
    BY PLAAssumption DEF Right, GoodWindow, EntryType
  <1>2. \A t \in S : t \in Nat /\ t <= e.low + WindowSize - 1
    BY DEF Right, GoodWindow
  <1>3. CASE s < e.low
    <2>1. e.low + WindowSize - 1 \in S
      BY <1>1, <1>3 DEF Right, GoodWindow
    <2>2. (e.low + WindowSize - 1) - s >= WindowSize
      BY <1>1, <1>3
    <2>3. ~(\A t \in S : t - s < WindowSize)
      BY <1>1, <2>1, <2>2
    <2> QED
      BY <1>1, <1>3, <2>3 DEF SeqOK
  <1>4. CASE InWindow(e, s)
    <2>1. e.window[s % WindowSize] = 1 <=> s \in S
      BY <1>4 DEF Right, GoodWindow
    <2>2. Slot(e, s) = s % WindowSize /\ e.window[Slot(e, s)] \in {0, 1}
      BY <1>1, SlotIs DEF Right, GoodWindow, EntryType
    <2>3. \A t \in S : t - s < WindowSize
      BY <1>1, <1>2, <1>4 DEF InWindow
    <2> QED
      BY <1>1, <1>4, <2>1, <2>2, <2>3 DEF SeqOK, InWindow
  <1>5. CASE s > e.low + WindowSize - 1
    <2>1. s \notin S /\ \A t \in S : t - s < WindowSize
      BY <1>1, <1>2, <1>5
    <2> QED
      BY <1>1, <1>5, <2>1 DEF SeqOK, InWindow
  <1> QED
    BY <1>1, <1>3, <1>4, <1>5 DEF InWindow

\* The numbers that have passed once s was checked.
Passed(e, S, s) == IF SeqOK(e, s) THEN S \cup {s} ELSE S

\* Marking a number within the window.
LEMMA MarkedIsGood ==
  ASSUME NEW e, NEW S, Right(e, S), NEW s \in Nat, InWindow(e, s)
  PROVE  Right(Marked(e, s), S \cup {s}) /\ Marked(e, s).low = e.low
  <1> DEFINE f == Marked(e, s)
  <1>1. WindowSize \in Nat \ {0} /\ e \in EntryType /\ e.low \in Nat
    BY PLAAssumption DEF Right, EntryType
  <1>2. Slot(e, s) = s % WindowSize /\ s % WindowSize \in 0 .. WindowSize - 1
    BY <1>1, SlotIs DEF Right
  <1>3. /\ f \in EntryType /\ f.low = e.low /\ f.index = e.index
        /\ f.window = [e.window EXCEPT ![s % WindowSize] = 1]
    BY <1>1, <1>2 DEF Marked, EntryType
  <1>4. ASSUME NEW t \in Nat, InWindow(f, t)
        PROVE  f.window[t % WindowSize] = 1 <=> t \in S \cup {s}
    <2>1. InWindow(e, t) /\ t % WindowSize \in 0 .. WindowSize - 1
      BY <1>1, <1>3, <1>4, DivMod DEF InWindow
    <2>2. CASE t = s
      BY <1>1, <1>2, <1>3, <2>2 DEF EntryType
    <2>3. CASE t # s
      <3>1. t % WindowSize # s % WindowSize
        <4>1. t \in Int /\ s \in Int /\ t - s < WindowSize /\ s - t < WindowSize
          BY <1>1, <2>1 DEF InWindow
        <4>2. t % WindowSize = s % WindowSize => t = s
          BY <1>1, <4>1, WindowInjective
        <4> QED
          BY <2>3, <4>2
      <3>2. f.window[t % WindowSize] = e.window[t % WindowSize]
        BY <1>1, <1>3, <2>1, <3>1 DEF EntryType
      <3> QED
        BY <2>1, <2>3, <3>2 DEF Right
    <2> QED
      BY <2>2, <2>3
  <1>5. \A t \in S \cup {s} : t \in Nat /\ t <= f.low + WindowSize - 1
    BY <1>3 DEF Right, InWindow
  <1>6. f.index = f.low % WindowSize
    BY <1>3 DEF Right
  <1> HIDE DEF f
  <1> QED
    BY <1>3, <1>4, <1>5, <1>6 DEF f, Right

\* A number ahead of the window: the window moves until it ends with it, and
\* forgets exactly the slots of the numbers that leave it.
LEMMA AdvancedIsGood ==
  ASSUME NEW e, NEW S, GoodWindow(e, S), NEW s \in Nat, s > e.low + WindowSize - 1
  PROVE  LET f == Advanced(e, s - (e.low + WindowSize - 1))
         IN  InWindow(f, s) /\ GoodWindow(Marked(f, s), S \cup {s})
  <1> DEFINE advance == s - (e.low + WindowSize - 1)
             f == Advanced(e, advance)
  <1>1. WindowSize \in Nat \ {0} /\ e \in EntryType /\ e.low \in Nat /\ e.low \in Int
    BY PLAAssumption DEF Right, GoodWindow, EntryType
  <1>2. /\ advance \in Nat \ {0} /\ advance \in Int /\ e.low + advance \in Int
        /\ e.low + advance = s - WindowSize + 1
    BY <1>1
  <1>3. /\ f.low = e.low + advance /\ f.index = (e.index + advance) % WindowSize
        /\ f.window = [i \in 0 .. WindowSize - 1 |->
                         IF (i - e.index) % WindowSize < advance THEN 0 ELSE e.window[i]]
    BY DEF Advanced
  <1> HIDE DEF advance, f
  <1>4. f.index = f.low % WindowSize /\ f.index \in 0 .. WindowSize - 1
    <2>1. e.index = e.low % WindowSize
      BY DEF Right, GoodWindow
    <2>2. ((e.low % WindowSize) + advance) % WindowSize = (e.low + advance) % WindowSize
      BY <1>1, <1>2, EarlyRemainder
    <2>3. (e.low + advance) % WindowSize \in 0 .. WindowSize - 1
      BY <1>1, <1>2, DivMod
    <2>4. f.index = (e.low + advance) % WindowSize
      BY <1>3, <2>1, <2>2, Zenon
    <2> QED
      BY <1>3, <2>3, <2>4, Zenon
  <1>5. f \in EntryType
    <2>1. f.low \in Nat /\ f.window \in [0 .. WindowSize - 1 -> {0, 1}]
      <3>1. e.window \in [0 .. WindowSize - 1 -> {0, 1}]
        BY <1>1 DEF EntryType
      <3>2. \A i \in 0 .. WindowSize - 1 : f.window[i] \in {0, 1}
        BY <1>3, <3>1, Zenon
      <3> QED
        BY <1>1, <1>2, <1>3, <3>2
    <2>2. f = [low |-> f.low, index |-> f.index, window |-> f.window]
      BY DEF f, Advanced
    <2> QED
      BY <1>4, <2>1, <2>2 DEF EntryType
  <1>6. ASSUME NEW t \in Nat, InWindow(f, t)
        PROVE  f.window[t % WindowSize] = 1 <=> t \in S
    <2>0. t \in Int
      OBVIOUS
    <2>1. t \in Int /\ t % WindowSize \in 0 .. WindowSize - 1
      BY <1>1, <2>0, DivMod
    <2>2. t - e.low \in Nat /\ t - e.low \in Int /\ advance <= t - e.low /\ t - e.low < advance + WindowSize
      <3>1. f.low <= t /\ t <= f.low + WindowSize - 1
        BY <1>6, Zenon DEF InWindow
      <3>2. e.low + advance <= t /\ t <= (e.low + advance) + WindowSize - 1
        BY <1>3, <3>1, Zenon
      <3> QED
        BY <1>1, <1>2, <2>0, <3>2
    <2>3. ((t % WindowSize) - e.index) % WindowSize = (t - e.low) % WindowSize
      <3>1. (t % WindowSize) + (- e.index) = (t % WindowSize) - e.index
        BY <1>1, <2>1 DEF EntryType
      <3>2. ((t % WindowSize) + (- e.index)) % WindowSize = (t + (- e.index)) % WindowSize
        <4>1. - e.index \in Int
          BY <1>1 DEF EntryType
        <4> QED
          BY <1>1, <2>1, <4>1, EarlyRemainder
      <3>3. t + (- e.index) = t - (e.low % WindowSize)
        BY <1>1 DEF Right, GoodWindow, EntryType
      <3>4. (t - (e.low % WindowSize)) % WindowSize = (t - e.low) % WindowSize
        BY <1>1, <2>1, EarlyRemainder
      <3> QED
        BY <3>1, <3>2, <3>3, <3>4
    <2>4. f.window[t % WindowSize] =
            IF (t - e.low) % WindowSize < advance THEN 0 ELSE e.window[t % WindowSize]
      <3>1. f.window[t % WindowSize] =
              IF ((t % WindowSize) - e.index) % WindowSize < advance THEN 0
              ELSE e.window[t % WindowSize]
        BY <1>3, <2>1, Zenon
      <3> QED
        BY <2>3, <3>1, Zenon
    <2>5. CASE t <= e.low + WindowSize - 1
      <3>1. (t - e.low) % WindowSize = t - e.low
        <4>1. t - e.low < WindowSize
          BY <1>1, <2>5
        <4> QED
          BY <1>1, <2>2, <4>1, SmallRemainder
      <3>2. f.window[t % WindowSize] = e.window[t % WindowSize]
        <4>1. ~((t - e.low) % WindowSize < advance)
          BY <1>2, <2>2, <3>1
        <4> QED
          BY <2>4, <4>1, Zenon
      <3>3. InWindow(e, t)
        BY <1>1, <1>2, <2>2, <2>5 DEF InWindow
      <3> QED
        BY <3>2, <3>3 DEF Right, GoodWindow
    <2>6. CASE t > e.low + WindowSize - 1
      <3>1. (t - e.low) % WindowSize < advance
        <4>1. t - e.low >= WindowSize
          BY <1>1, <2>6
        <4>2. (t - e.low) % WindowSize <= (t - e.low) - WindowSize
          BY <1>1, <2>2, <4>1, SmallRemainder
        <4>3. (t - e.low) % WindowSize \in Int
          <5>1. (t - e.low) % WindowSize \in 0 .. WindowSize - 1
            BY <1>1, <2>2, DivMod
          <5> QED
            BY <1>1, <5>1
        <4> QED
          BY <1>1, <1>2, <2>2, <4>2, <4>3
      <3>2. f.window[t % WindowSize] = 0
        BY <2>4, <3>1, Zenon
      <3>3. t \notin S
        BY <1>1, <2>6 DEF Right, GoodWindow
      <3> QED
        BY <3>2, <3>3
    <2> QED
      BY <1>1, <2>5, <2>6
  <1>7. f.low + WindowSize - 1 = s /\ InWindow(f, s)
    BY <1>1, <1>2, <1>3 DEF InWindow
  <1>8. \A t \in S : t \in Nat /\ t <= f.low + WindowSize - 1
    BY <1>1, <1>7 DEF Right, GoodWindow
  <1>9. Right(f, S)
    BY <1>4, <1>5, <1>6, <1>8 DEF Right
  <1>10. Right(Marked(f, s), S \cup {s}) /\ Marked(f, s).low = f.low
    BY <1>7, <1>9, MarkedIsGood
  <1>11. InWindow(f, s) /\ GoodWindow(Marked(f, s), S \cup {s})
    BY <1>7, <1>10 DEF GoodWindow
  <1> QED
    BY <1>11 DEF f, advance

\* libpla_check_sequence_number() keeps the window right, whatever number
\* comes: a late one, one within the window, new or not, or one ahead of it.
LEMMA CheckIsGood ==
  ASSUME NEW e, NEW S, GoodWindow(e, S), NEW s \in Nat
  PROVE  GoodWindow(check_sequence_number(e, s), Passed(e, S, s))
  <1>1. WindowSize \in Nat \ {0} /\ e \in EntryType /\ e.low \in Nat
    BY PLAAssumption DEF Right, GoodWindow, EntryType
  <1>2. CASE s < e.low
    <2>1. ~SeqOK(e, s)
      BY <1>1, <1>2 DEF SeqOK
    <2> QED
      BY <1>2, <2>1 DEF check_sequence_number, Passed
  <1>3. CASE ~(s < e.low) /\ InWindow(e, s)
    <2>1. Right(Marked(e, s), S \cup {s}) /\ Marked(e, s).low = e.low
      BY <1>3, MarkedIsGood DEF GoodWindow
    <2>2. GoodWindow(Marked(e, s), S \cup {s})
      BY <2>1 DEF GoodWindow
    <2>3. Passed(e, S, s) = S \cup {s}
      <3>1. CASE SeqOK(e, s)
        BY <3>1 DEF Passed
      <3>2. CASE ~SeqOK(e, s)
        <4>1. Slot(e, s) = s % WindowSize /\ e.window[Slot(e, s)] \in {0, 1}
          BY <1>1, SlotIs DEF Right, GoodWindow, EntryType
        <4>2. e.window[s % WindowSize] = 1
          BY <1>1, <1>3, <3>2, <4>1 DEF SeqOK
        <4>3. s \in S
          BY <1>3, <4>2 DEF Right, GoodWindow
        <4> QED
          BY <3>2, <4>3 DEF Passed
      <3> QED
        BY <3>1, <3>2
    <2> QED
      BY <1>3, <2>2, <2>3 DEF check_sequence_number
  <1>4. CASE ~(s < e.low) /\ ~InWindow(e, s)
    <2>1. s > e.low + WindowSize - 1
      BY <1>1, <1>4 DEF InWindow
    <2>2. GoodWindow(Marked(Advanced(e, s - (e.low + WindowSize - 1)), s), S \cup {s})
      BY <2>1, AdvancedIsGood
    <2>3. SeqOK(e, s)
      BY <1>1, <1>4 DEF SeqOK
    <2> QED
      BY <1>4, <2>2, <2>3 DEF check_sequence_number, Passed
  <1> QED
    BY <1>2, <1>3, <1>4

-----------------------------------------------------------------------------
(***************************************************************************)
(* The inductive invariant: headers carry natural numbers, from the list   *)
(* of certificates to the packets on their way, and every window is right  *)
(* about the numbers that passed.                                          *)
(***************************************************************************)
GoodItem(x) == "header" \in DOMAIN x /\ "seq" \in DOMAIN x.header /\ x.header.seq \in Nat
GoodCerts == \E S : certs \in Seq(S) /\ \A x \in S : GoodItem(x)
Listed == default = "listed" => certs # <<>>

GoodPacket(p) ==
  /\ {"to", "header"} \subseteq DOMAIN p
  /\ p.to \in Node \cup App
  /\ p.header # None => p.header.seq \in Nat
  /\ p.to \in App => p.header # None
GoodNet == \A p \in net : GoodPacket(p)

Numbers(n, k) == {s \in Nat : <<k, s>> \in seen[n]}
Windows ==
  /\ DOMAIN conn = Node \cup App /\ DOMAIN seen = Node \cup App
  /\ \A n \in Node \cup App :
       /\ \A m \in seen[n] : m = <<m[1], m[2]>> /\ m[2] \in Nat
       /\ \A k : GoodWindow(Connection(n, k), Numbers(n, k))

Inv == GoodCerts /\ Listed /\ GoodNet /\ Windows

\* Nothing has been signed, sent or seen.
LEMMA InitInv == Init => Inv
  <1> SUFFICES ASSUME Init PROVE Inv
    OBVIOUS
  <1>1. GoodCerts
    <2>1. <<>> \in Seq({}) /\ \A x \in {} : GoodItem(x)
      OBVIOUS
    <2>2. certs \in Seq({})
      BY <2>1 DEF Init
    <2> QED
      BY <2>1, <2>2 DEF GoodCerts
  <1>2. GoodNet
    BY DEF Init, GoodNet
  <1>3. Windows
    <2>1. ASSUME NEW n \in Node \cup App, NEW k
          PROVE  Connection(n, k) = Entry0 /\ Numbers(n, k) = {}
      BY DEF Init, Connection, Numbers
    <2> QED
      BY <2>1, EmptyWindow DEF Init, Windows
  <1>4. Listed
    BY DEF Init, Listed
  <1> QED
    BY <1>1, <1>2, <1>3, <1>4 DEF Inv

\* The links of a packet can be counted.
LEMMA LinksAreFinite ==
  ASSUME NEW links \in SUBSET DOMAIN FirstHops
  PROVE  Cardinality(links) \in Nat
  <1>1. DOMAIN FirstHops = 1 .. Len(FirstHops) /\ Len(FirstHops) \in Nat
    BY PLAAssumption
  <1>2. IsFiniteSet(1 .. Len(FirstHops))
    BY <1>1, FS_Interval
  <1>3. IsFiniteSet(links)
    BY <1>1, <1>2, FS_Subset, Zenon
  <1> QED
    BY <1>3, FS_CardinalityType

\* The items of the list begin with number 0 and are counted up.
LEMMA NextCerts == GoodCerts /\ Listed /\ [Next]_vars => GoodCerts'
  <1> SUFFICES ASSUME GoodCerts, Listed, [Next]_vars PROVE GoodCerts'
    OBVIOUS
  <1>0. PICK S : certs \in Seq(S) /\ \A x \in S : GoodItem(x)
    BY DEF GoodCerts
  <1>1. ASSUME NEW c, certs' = <<Item(c)>> \o certs PROVE GoodCerts'
    <2> DEFINE T == S \cup {Item(c)}
    <2>1. GoodItem(Item(c))
      BY DEF GoodItem, Item
    <2>2. \A x \in T : GoodItem(x)
      BY <1>0, <2>1
    <2>3. certs \in Seq(T) /\ <<Item(c)>> \in Seq(T)
      BY <1>0
    <2>4. certs' \in Seq(T)
      BY <1>1, <2>3, ConcatProperties
    <2> QED
      BY <2>2, <2>4 DEF GoodCerts
  <1>2. CASE libpla_init
    <2>1. GoodItem(Item(file["user"]))
      BY DEF GoodItem, Item
    <2>2. certs' \in Seq({Item(file["user"])})
      BY <1>2 DEF libpla_init
    <2> QED
      BY <2>1, <2>2 DEF GoodCerts
  <1>3. CASE libpla_cleanup
    <2>1. certs' \in Seq({}) /\ \A x \in {} : GoodItem(x)
      BY <1>3 DEF libpla_cleanup
    <2> QED
      BY <2>1 DEF GoodCerts
  <1>4. ASSUME NEW rid, NEW rho, libpla_delete_certificate(rid, rho) PROVE GoodCerts'
    <2>1. PICK i \in 1 .. Len(certs) :
            certs' = SubSeq(certs, 1, i - 1) \o SubSeq(certs, i + 1, Len(certs))
      BY <1>4 DEF libpla_delete_certificate
    <2>2. SubSeq(certs, 1, i - 1) \in Seq(S) /\ SubSeq(certs, i + 1, Len(certs)) \in Seq(S)
      BY <1>0, <2>1, SubSeqProperties
    <2>3. certs' \in Seq(S)
      BY <2>1, <2>2, ConcatProperties
    <2> QED
      BY <1>0, <2>3 DEF GoodCerts
  <1>5. ASSUME NEW i \in 1 .. Len(certs), NEW count \in Nat, Numbered(i, count)
        PROVE  GoodCerts'
    <2> DEFINE h == [certs[i].header EXCEPT !.seq = certs[i].header.seq + count]
               y == [certs[i] EXCEPT !.header = h]
               T == S \cup {y}
    <2>1. GoodItem(certs[i])
      BY <1>0
    <2>2. GoodItem(y)
      <3>1. "seq" \in DOMAIN h /\ h.seq = certs[i].header.seq + count
        BY <2>1 DEF GoodItem
      <3>2. y.header = h /\ "header" \in DOMAIN y
        BY <2>1 DEF GoodItem
      <3> QED
        BY <2>1, <3>1, <3>2 DEF GoodItem
    <2>3. certs' = [certs EXCEPT ![i] = y]
      BY <1>0, <1>5, <2>1 DEF Numbered, GoodItem
    <2> HIDE DEF y
    <2>4. certs \in Seq(T)
      BY <1>0
    <2>5. certs' \in Seq(T)
      BY <2>3, <2>4, ExceptSeq
    <2>6. \A x \in T : GoodItem(x)
      BY <1>0, <2>2
    <2> QED
      BY <2>5, <2>6 DEF GoodCerts
  <1>6. ASSUME NEW links \in SUBSET DOMAIN FirstHops, links # {}, PushSigned(links)
        PROVE  GoodCerts'
    <2>1. Cardinality(links) \in Nat
      BY LinksAreFinite
    <2>2. Len(certs) \in 1 .. Len(certs)
      BY <1>0, <1>6 DEF PushSigned, Listed
    <2>3. Numbered(Len(certs), Cardinality(links))
      BY <1>6 DEF PushSigned
    <2> QED
      BY <1>5, <2>1, <2>2, <2>3
  <1>7. ASSUME NEW i \in 1 .. Len(certs), NEW rid, NEW a, HeaderAdd(i, rid, a) PROVE GoodCerts'
    <2>1. Numbered(i, 1)
      BY <1>7 DEF HeaderAdd
    <2> QED
      BY <1>5, <2>1
  <1>8. CASE UNCHANGED certs
    BY <1>8 DEF GoodCerts
  <1>9. CASE Manage
    <2>1. CASE libpla_read_certificate
      BY <1>1, <2>1 DEF libpla_read_certificate
    <2>2. ASSUME NEW terms, NEW rid, NEW saved, libpla_create_certificate(terms, rid, saved)
          PROVE  GoodCerts'
      BY <1>1, <2>2 DEF libpla_create_certificate
    <2> QED
      BY <1>2, <1>3, <1>4, <1>9, <2>1, <2>2 DEF Manage
  <1>10. CASE Publish
    <2>1. ASSUME NEW l, PushUnsigned(l) PROVE GoodCerts'
      BY <1>8, <2>1 DEF PushUnsigned
    <2>2. \/ \E links \in SUBSET DOMAIN FirstHops : links # {} /\ PushSigned(links)
          \/ \E l : PushUnsigned(l)
          \/ \E i \in 1 .. Len(certs), rid \in Rid, a \in App : HeaderAdd(i, rid, a)
      BY <1>10 DEF Publish
    <2> QED
      BY <1>6, <1>7, <2>1, <2>2, Zenon
  <1>11. Manage \/ Publish \/ UNCHANGED certs
    BY DEF Next, Configure, ttp_create, id_sign, Deliver, Push, PlaReceive, Lose, Tick, Restart, vars
  <1> QED
    BY <1>8, <1>9, <1>10, <1>11

\* While libpla is initialized and the default certificate has not been
\* deleted, it is the last of the list.
LEMMA NextListed == GoodCerts /\ Listed /\ [Next]_vars => Listed'
  <1> SUFFICES ASSUME GoodCerts, Listed, [Next]_vars PROVE Listed'
    OBVIOUS
  <1>0. PICK S : certs \in Seq(S)
    BY DEF GoodCerts
  <1>1. ASSUME NEW c, certs' = <<Item(c)>> \o certs PROVE Listed'
    <2>1. certs' # <<>>
      <3>1. certs \in Seq(S \cup {Item(c)}) /\ <<Item(c)>> \in Seq(S \cup {Item(c)})
        BY <1>0
      <3>2. Len(certs') = 1 + Len(certs)
        BY <1>1, <3>1, ConcatProperties
      <3> QED
        BY <1>0, <3>2
    <2> QED
      BY <2>1 DEF Listed
  <1>2. CASE libpla_init
    BY <1>2 DEF libpla_init, Listed
  <1>3. CASE libpla_cleanup
    BY <1>3 DEF libpla_cleanup, Listed
  <1>4. ASSUME NEW rid, NEW rho, libpla_delete_certificate(rid, rho) PROVE Listed'
    <2>1. PICK i \in 1 .. Len(certs) :
            /\ certs' = SubSeq(certs, 1, i - 1) \o SubSeq(certs, i + 1, Len(certs))
            /\ default' = IF i = Len(certs) /\ default = "listed" THEN "freed" ELSE default
      BY <1>4 DEF libpla_delete_certificate
    <2>2. /\ SubSeq(certs, 1, i - 1) \in Seq(S) /\ SubSeq(certs, i + 1, Len(certs)) \in Seq(S)
          /\ i < Len(certs) => Len(SubSeq(certs, i + 1, Len(certs))) = Len(certs) - i
      <3>1. /\ \A j \in 1 .. i - 1 : certs[j] \in S
            /\ \A j \in i + 1 .. Len(certs) : certs[j] \in S
            /\ i + 1 \in Int /\ i - 1 \in Int /\ Len(certs) \in Int
        BY <1>0
      <3>2. /\ SubSeq(certs, i + 1, Len(certs)) \in Seq(S)
            /\ Len(SubSeq(certs, i + 1, Len(certs)))
                 = IF i + 1 <= Len(certs) THEN Len(certs) - (i + 1) + 1 ELSE 0
        BY <3>1, SubSeqProperties
      <3>3. SubSeq(certs, 1, i - 1) \in Seq(S)
        BY <3>1, SubSeqProperties
      <3> QED
        BY <3>1, <3>2, <3>3
    <2>3. i < Len(certs) => Len(certs') > 0
      <3> DEFINE before == SubSeq(certs, 1, i - 1)
                 after == SubSeq(certs, i + 1, Len(certs))
      <3>1. before \in Seq(S) /\ after \in Seq(S) /\ certs' = before \o after
        BY <2>1, <2>2
      <3>2. i < Len(certs) => Len(after) > 0
        <4>1. Len(certs) \in Nat /\ i \in Nat
          BY <1>0
        <4> QED
          BY <2>2, <4>1
      <3> HIDE DEF before, after
      <3>3. Len(certs') = Len(before) + Len(after)
        BY <3>1, ConcatProperties
      <3> QED
        BY <3>1, <3>2, <3>3
    <2>4. default' = "listed" => i < Len(certs)
      BY <1>0, <2>1
    <2> QED
      BY <2>3, <2>4 DEF Listed
  <1>5. ASSUME NEW i, NEW count, Numbered(i, count), UNCHANGED default PROVE Listed'
    <2>1. DOMAIN certs' = DOMAIN certs
      BY <1>5 DEF Numbered
    <2> QED
      BY <1>0, <1>5, <2>1 DEF Listed
  <1>6. CASE Manage
    <2>1. CASE libpla_read_certificate
      BY <1>1, <2>1 DEF libpla_read_certificate
    <2>2. ASSUME NEW terms, NEW rid, NEW saved, libpla_create_certificate(terms, rid, saved)
          PROVE  Listed'
      BY <1>1, <2>2 DEF libpla_create_certificate
    <2> QED
      BY <1>2, <1>3, <1>4, <1>6, <2>1, <2>2 DEF Manage
  <1>7. CASE UNCHANGED <<certs, default>>
    BY <1>7 DEF Listed
  <1>8. CASE Publish
    BY <1>5, <1>7, <1>8 DEF Publish, PushSigned, HeaderAdd, PushUnsigned
  <1>9. Manage \/ Publish \/ UNCHANGED <<certs, default>>
    BY DEF Next, Configure, ttp_create, id_sign, Deliver, Push, PlaReceive, Lose, Tick, Restart, vars
  <1> QED
    BY <1>6, <1>7, <1>8, <1>9

\* A signed packet carries a number and a header, and goes where it is sent.
LEMMA SignedIsGood ==
  ASSUME NEW x, GoodItem(x), NEW psirp, NEW to \in Node \cup App, NEW ahead \in Nat
  PROVE  GoodPacket(Signed(x, psirp, to, ahead))
  <1> DEFINE h == [x.header EXCEPT !.seq = @ + ahead, !.ts = now]
             p == Signed(x, psirp, to, ahead)
  <1>1. "seq" \in DOMAIN h /\ h.seq \in Nat
    BY DEF GoodItem
  <1>2. h # None
    <2>1. "seq" \notin DOMAIN None
      BY DEF None
    <2> QED
      BY <1>1, <2>1
  <1>3. p.header = h /\ p.to = to /\ {"to", "header"} \subseteq DOMAIN p
    BY DEF Signed
  <1> HIDE DEF h, p
  <1>4. GoodPacket(p)
    BY <1>1, <1>2, <1>3 DEF GoodPacket
  <1> QED
    BY <1>4 DEF p

\* What goes on is what was signed, or was unsigned from the start and stays
\* among the nodes.
LEMMA NextNet == GoodCerts /\ Listed /\ GoodNet /\ [Next]_vars => GoodNet'
  <1> SUFFICES ASSUME GoodCerts, Listed, GoodNet, [Next]_vars PROVE GoodNet'
    OBVIOUS
  <1>0. PICK S : certs \in Seq(S) /\ \A x \in S : GoodItem(x)
    BY DEF GoodCerts
  <1>1. ASSUME NEW ps, Send(ps), \A p \in ps : GoodPacket(p) PROVE GoodNet'
    BY <1>1 DEF Send, GoodNet, GoodPacket
  <1>2. ASSUME NEW links \in SUBSET DOMAIN FirstHops, PushSigned(links) PROVE GoodNet'
    <2>1. Len(certs) \in 1 .. Len(certs) /\ GoodItem(certs[Len(certs)])
      BY <1>0, <1>2 DEF PushSigned, Listed
    <2>2. ASSUME NEW l \in links
          PROVE  GoodPacket(Signed(certs[Len(certs)], NoRid, FirstHops[l],
                                   Cardinality({j \in links : j <= l})))
      <3>1. FirstHops[l] \in Node \cup App
        BY PLAAssumption
      <3>2. Cardinality({j \in links : j <= l}) \in Nat
        <4>1. {j \in links : j <= l} \in SUBSET DOMAIN FirstHops
          OBVIOUS
        <4> QED
          BY <4>1, LinksAreFinite
      <3> QED
        BY <2>1, <3>1, <3>2, SignedIsGood
    <2>3. Send({Signed(certs[Len(certs)], NoRid, FirstHops[l],
                       Cardinality({j \in links : j <= l})) : l \in links})
      BY <1>2 DEF PushSigned
    <2> QED
      BY <1>1, <2>2, <2>3
  <1>3. ASSUME NEW l \in DOMAIN FirstHops, PushUnsigned(l) PROVE GoodNet'
    <2>1. FirstHops[l] \in Node /\ FirstHops[l] \notin App
      BY PLAAssumption
    <2>2. GoodPacket(Unsigned(FirstHops[l]))
      BY <2>1 DEF GoodPacket, Unsigned
    <2> QED
      BY <1>1, <1>3, <2>2 DEF PushUnsigned
  <1>4. ASSUME NEW i \in 1 .. Len(certs), NEW rid, NEW a \in App, HeaderAdd(i, rid, a)
        PROVE  GoodNet'
    <2>1. GoodItem(certs[i])
      BY <1>0
    <2>2. GoodPacket(Signed(certs[i], rid, a, 1))
      BY <2>1, SignedIsGood
    <2> QED
      BY <1>1, <1>4, <2>2 DEF HeaderAdd
  <1>5. ASSUME NEW p \in net, NEW ps, Arrives(p, ps), \A q \in ps : GoodPacket(q) PROVE GoodNet'
    BY <1>5 DEF Arrives, GoodNet, GoodPacket
  <1>6. ASSUME NEW p \in net, NEW mode, Push(p, mode) PROVE GoodNet'
    <2>1. GoodPacket(p) /\ p.to \in Node
      BY <1>6 DEF GoodNet, Push
    <2>2. \A q \in Copies(p) : GoodPacket(q)
      <3>1. ASSUME NEW m \in Out[p.to] PROVE GoodPacket([p EXCEPT !.to = m])
        <4> DEFINE q == [p EXCEPT !.to = m]
        <4>1. m \in Node /\ m \notin App
          BY <2>1, PLAAssumption
        <4>2. q.to = m /\ q.header = p.header /\ {"to", "header"} \subseteq DOMAIN q
          BY <2>1 DEF GoodPacket
        <4> HIDE DEF q
        <4>3. GoodPacket(q)
          BY <2>1, <4>1, <4>2 DEF GoodPacket
        <4> QED
          BY <4>3 DEF q
      <3> QED
        BY <3>1 DEF Copies
    <2>3. Arrives(p, Copies(p)) \/ Arrives(p, {})
      BY <1>6 DEF Push
    <2> QED
      BY <1>5, <2>2, <2>3
  <1>7. ASSUME NEW p \in net, NEW exitEarly, PlaReceive(p, exitEarly) PROVE GoodNet'
    BY <1>5, <1>7 DEF PlaReceive
  <1>8. ASSUME NEW p \in net, Lose(p) PROVE GoodNet'
    BY <1>8 DEF Lose, GoodNet, GoodPacket
  <1>9. CASE UNCHANGED net
    BY <1>9 DEF GoodNet, GoodPacket
  <1>10. Publish \/ Deliver \/ UNCHANGED net
    BY DEF Next, Configure, ttp_create, id_sign, Manage, libpla_init, libpla_read_certificate,
           libpla_cleanup, libpla_create_certificate, libpla_delete_certificate, Tick, Restart, vars
  <1> QED
    BY <1>2, <1>3, <1>4, <1>6, <1>7, <1>8, <1>9, <1>10 DEF Publish, Deliver

\* One check at one process: its window of the packet's key follows, all
\* others stay.
LEMMA CheckedIsGood ==
  ASSUME Windows, NEW n \in Node \cup App, NEW h, h.seq \in Nat, Checked(n, h)
  PROVE  Windows'
  <1> DEFINE key == h.rho.key  s == h.seq
  <1>1. DOMAIN conn' = Node \cup App /\ DOMAIN seen' = Node \cup App
    BY DEF Windows, Checked
  <1>2. ASSUME NEW o \in Node \cup App, o # n
        PROVE  /\ \A m \in seen'[o] : m = <<m[1], m[2]>> /\ m[2] \in Nat
               /\ \A k : GoodWindow(Connection(o, k)', Numbers(o, k)')
    <2>1. conn'[o] = conn[o] /\ seen'[o] = seen[o]
      BY <1>2 DEF Windows, Checked
    <2>2. \A k : Connection(o, k)' = Connection(o, k) /\ Numbers(o, k)' = Numbers(o, k)
      BY <2>1 DEF Connection, Numbers
    <2> QED
      BY <2>1, <2>2 DEF Windows
  <1>3. seen'[n] = IF SeqOK(Connection(n, key), s) THEN seen[n] \cup {<<key, s>>} ELSE seen[n]
    BY DEF Windows, Checked, NumberOK
  <1>4. conn'[n] = [k \in DOMAIN conn[n] \cup {key} |->
                      IF k = key THEN check_sequence_number(Connection(n, k), s) ELSE conn[n][k]]
    BY DEF Windows, Checked
  <1>5. \A m \in seen'[n] : m = <<m[1], m[2]>> /\ m[2] \in Nat
    BY <1>3 DEF Windows
  <1>6. ASSUME NEW k PROVE GoodWindow(Connection(n, k)', Numbers(n, k)')
    <2>1. GoodWindow(Connection(n, k), Numbers(n, k))
      BY DEF Windows
    <2>2. CASE k = key
      <3>1. Connection(n, k)' = check_sequence_number(Connection(n, k), s)
        BY <1>4, <2>2 DEF Connection
      <3>2. Numbers(n, k)' = Passed(Connection(n, k), Numbers(n, k), s)
        BY <1>3, <2>2 DEF Numbers, Passed
      <3> QED
        BY <2>1, <3>1, <3>2, CheckIsGood
    <2>3. CASE k # key
      <3>1. Connection(n, k)' = Connection(n, k)
        BY <1>4, <2>3 DEF Connection
      <3>2. Numbers(n, k)' = Numbers(n, k)
        BY <1>3, <2>3 DEF Numbers
      <3> QED
        BY <2>1, <3>1, <3>2
    <2> QED
      BY <2>2, <2>3
  <1> QED
    BY <1>1, <1>2, <1>5, <1>6 DEF Windows

\* Packets arrive at one process at a time; a process that restarts begins
\* with empty windows and has seen nothing.
LEMMA NextWindows == GoodNet /\ Windows /\ [Next]_vars => Windows'
  <1> SUFFICES ASSUME GoodNet, Windows, [Next]_vars PROVE Windows'
    OBVIOUS
  <1>1. CASE UNCHANGED <<conn, seen>>
    BY <1>1 DEF Windows, Connection, Numbers
  <1>2. ASSUME NEW p \in net, NEW mode, Push(p, mode) PROVE Windows'
    <2>1. CASE UNCHANGED <<conn, seen>>
      BY <1>1, <2>1
    <2>2. CASE p.header # None /\ Checked(p.to, p.header)
      <3>1. p.to \in Node \cup App /\ p.header.seq \in Nat
        BY <2>2 DEF GoodNet, GoodPacket
      <3> QED
        BY <2>2, <3>1, CheckedIsGood
    <2> QED
      BY <1>2, <2>1, <2>2 DEF Push
  <1>3. ASSUME NEW p \in net, NEW exitEarly, PlaReceive(p, exitEarly) PROVE Windows'
    <2>1. p.to \in Node \cup App /\ p.header.seq \in Nat
      BY <1>3 DEF PlaReceive, GoodNet, GoodPacket
    <2>2. CASE UNCHANGED <<conn, seen>>
      BY <1>1, <2>2
    <2>3. CASE Checked(p.to, p.header)
      BY <2>1, <2>3, CheckedIsGood
    <2> QED
      BY <1>3, <2>2, <2>3 DEF PlaReceive
  <1>4. ASSUME NEW n \in Node \cup App, Restart(n) PROVE Windows'
    <2>1. DOMAIN conn' = Node \cup App /\ DOMAIN seen' = Node \cup App
      BY <1>4 DEF Windows, Restart
    <2>2. ASSUME NEW o \in Node \cup App, o # n
          PROVE  /\ \A m \in seen'[o] : m = <<m[1], m[2]>> /\ m[2] \in Nat
                 /\ \A k : GoodWindow(Connection(o, k)', Numbers(o, k)')
      <3>1. conn'[o] = conn[o] /\ seen'[o] = seen[o]
        BY <1>4, <2>2 DEF Windows, Restart
      <3>2. \A k : Connection(o, k)' = Connection(o, k) /\ Numbers(o, k)' = Numbers(o, k)
        BY <3>1 DEF Connection, Numbers
      <3> QED
        BY <3>1, <3>2 DEF Windows
    <2>3. conn'[n] = <<>> /\ seen'[n] = {}
      BY <1>4 DEF Windows, Restart
    <2>4. ASSUME NEW k PROVE Connection(n, k)' = Entry0 /\ Numbers(n, k)' = {}
      <3>1. k \notin DOMAIN conn'[n]
        BY <2>3
      <3> QED
        BY <2>3, <3>1 DEF Connection, Numbers, Entry0
    <2> QED
      BY <2>1, <2>2, <2>3, <2>4, EmptyWindow DEF Windows
  <1>5. \/ \E p \in net : \/ \E mode : Push(p, mode)
                         \/ \E exitEarly : PlaReceive(p, exitEarly)
        \/ \E n \in Node \cup App : Restart(n)
        \/ UNCHANGED <<conn, seen>>
    <2>1. Deliver \/ (\E n \in Node \cup App : Restart(n)) \/ UNCHANGED <<conn, seen>>
      BY DEF Next, Configure, ttp_create, id_sign, Manage, libpla_init, libpla_read_certificate,
             libpla_cleanup, libpla_create_certificate, libpla_delete_certificate, Tick,
             Publish, PushSigned, PushUnsigned, HeaderAdd, vars
    <2> QED
      BY <2>1 DEF Deliver, Lose
  <1> QED
    BY <1>1, <1>2, <1>3, <1>4, <1>5

-----------------------------------------------------------------------------
\* libpla_check_sequence_number() does what its comment says, for every size
\* of the window: whatever numbers arrive at a process, in whatever order and
\* however far apart, a number passes exactly if it has not passed since the
\* process started and none that is WindowSize or more ahead of it has.
THEOREM WindowDecides == Spec => []WindowIsExact
  <1>1. Inv /\ [Next]_vars => Inv'
    BY NextCerts, NextListed, NextNet, NextWindows DEF Inv
  <1>2. Inv => WindowIsExact
    <2> SUFFICES ASSUME Inv, NEW n \in Node \cup App, NEW k,
                        NEW s \in 1 .. bound.signed + 1
                 PROVE  SeqOK(Connection(n, k), s)
                          <=> /\ <<k, s>> \notin seen[n]
                              /\ \A m \in seen[n] : m[1] = k => m[2] - s < WindowSize
      BY DEF WindowIsExact
    <2>1. s \in Nat /\ GoodWindow(Connection(n, k), Numbers(n, k))
      BY DEF Inv, Windows
    <2>2. SeqOK(Connection(n, k), s)
            <=> s \notin Numbers(n, k) /\ \A t \in Numbers(n, k) : t - s < WindowSize
      BY <2>1, GoodWindowDecides
    <2>3. \A m \in seen[n] : m = <<m[1], m[2]>> /\ m[2] \in Nat
      BY DEF Inv, Windows
    <2>4. (\A t \in Numbers(n, k) : t - s < WindowSize)
            <=> \A m \in seen[n] : m[1] = k => m[2] - s < WindowSize
      BY <2>3 DEF Numbers
    <2>5. s \in Numbers(n, k) <=> <<k, s>> \in seen[n]
      BY <2>1 DEF Numbers
    <2> QED
      BY <2>2, <2>4, <2>5
  <1> QED
    BY <1>1, <1>2, InitInv, PTL DEF Spec
-----------------------------------------------------------------------------
(***************************************************************************)
(* Certificates and signatures.  What makes a header verify is that it is  *)
(* the one its key was issued with: the identity hash in the implicit      *)
(* certificate is that of the header's own fields, under the rid the       *)
(* certificate was asked for.  Files, the list of certificates and the     *)
(* packets on their way all hold such headers, the times of a file only    *)
(* where writing them down does not move them.                             *)
(***************************************************************************)
CertInfo ==
  [identity : Nat, rid : Rid \cup {NoRid}, rights : SUBSET Rights, deleg : SUBSET Rights,
   notBefore : Int, notAfter : Int]
InWinter(x) == x.notBefore \notin Summer /\ x.notAfter \notin Summer

\* No certificate is asked for with a validity time under daylight saving.
ValidInWinter == \A b \in Bounds : \A terms \in b.terms : InWinter(terms)

Counters ==
  /\ bound \in Bounds
  /\ now \in 0 .. bound.time
  /\ signed \in 0 .. bound.signed
  /\ issued \in Seq(CertInfo)

GenuineCert(c) ==
  /\ c.sigma \in Key
  /\ c.ci = issued[c.sigma]
  /\ c.rho = [key |-> c.sigma, by |-> c.issuer, id |-> calculate_id_hash(c.ci)]
  /\ c.sig = libpla_sign(c.sigma, cert_to_bin(c.issuer, c.rho, c.ci))
GenuineFiles ==
  /\ DOMAIN file = {"ttp", "user"}
  /\ \A f \in DOMAIN file : file[f] # None => GenuineCert(file[f])

HeaderFields ==
  {"type", "rho", "ttp", "identity", "notBefore", "notAfter", "rights", "deleg", "ts", "seq"}
GenuineHeader(h) ==
  LET k == h.rho.key
  IN  /\ DOMAIN h = HeaderFields
      /\ k \in Key
      /\ h.rho.by = h.ttp
      /\ h.rho.id = calculate_id_hash(issued[k])
      /\ HeaderIdHash(issued[k].rid, h) = calculate_id_hash(issued[k])
      /\ h.rights = issued[k].rights
      /\ h.type = IF issued[k].rid = NoRid THEN "PLA" ELSE "PLA_RID"
      /\ h.seq \in 0 .. signed
      /\ h.ts \in 0 .. now
GenuineItem(x) ==
  /\ DOMAIN x = {"rid", "sigma", "header"}
  /\ x.sigma = x.header.rho.key
  /\ GenuineHeader(x.header)
GenuineCerts == \A i \in 1 .. Len(certs) : GenuineItem(certs[i])

GenuinePacket(p) ==
  p.header # None =>
    /\ {"psirp", "header", "sig"} \subseteq DOMAIN p
    /\ GenuineHeader(p.header)
    /\ p.sig = libpla_sign(p.header.rho.key, <<p.psirp, p.header>>)
GenuineNet == \A p \in net : GenuinePacket(p)
NetFits == IsFiniteSet(net) /\ Cardinality(net) <= bound.net

SeenIsSigned ==
  \A n \in Node \cup App : \A m \in seen[n] : m[1] \in Key /\ m[2] <= signed
KnownKeys == \A n \in Node \cup App : DOMAIN conn[n] \subseteq Key

\* The links up to one of them are among them.
LEMMA LinksUpTo ==
  ASSUME NEW links \in SUBSET DOMAIN FirstHops, NEW l
  PROVE  /\ IsFiniteSet(links)
         /\ Cardinality({j \in links : j <= l}) \in Nat
         /\ Cardinality({j \in links : j <= l}) <= Cardinality(links)
  <1>1. DOMAIN FirstHops = 1 .. Len(FirstHops) /\ Len(FirstHops) \in Nat
    BY PLAAssumption
  <1>2. IsFiniteSet(1 .. Len(FirstHops))
    BY <1>1, FS_Interval
  <1>3. IsFiniteSet(links)
    BY <1>1, <1>2, FS_Subset, Zenon
  <1> DEFINE upto == {j \in links : j <= l}
  <1>4. upto \in SUBSET links
    OBVIOUS
  <1> HIDE DEF upto
  <1>5. IsFiniteSet(upto) /\ Cardinality(upto) <= Cardinality(links)
    BY <1>3, <1>4, FS_Subset
  <1> QED
    BY <1>3, <1>5, FS_CardinalityType DEF upto

\* What a certificate is asked for.
LEMMA AskedFor ==
  ASSUME Counters, NEW terms \in bound.terms, NEW rid \in bound.rids \cup {NoRid}
  PROVE  /\ Info(rid, terms) \in CertInfo
         /\ Info(NoRid, [terms EXCEPT !.rights = Rights]) \in CertInfo
         /\ ValidInWinter => /\ InWinter(Info(rid, terms))
                             /\ InWinter(Info(NoRid, [terms EXCEPT !.rights = Rights]))
  <1>1. terms \in Terms /\ rid \in Rid \cup {NoRid} /\ bound \in Bounds
    BY PLAAssumption DEF Counters, Limits
  <1>2. Info(rid, terms) \in CertInfo /\ Info(NoRid, [terms EXCEPT !.rights = Rights]) \in CertInfo
    BY <1>1 DEF Counters, Terms, CertInfo, Info, NextKey
  <1>3. ASSUME ValidInWinter
        PROVE  /\ InWinter(Info(rid, terms))
               /\ InWinter(Info(NoRid, [terms EXCEPT !.rights = Rights]))
    <2>1. InWinter(terms)
      BY <1>1, <1>3 DEF ValidInWinter
    <2> QED
      BY <1>1, <2>1 DEF InWinter, Info, Terms
  <1> QED
    BY <1>2, <1>3

\* Keys are drawn one after the other and keep what they were asked for.
LEMMA NextCounters ==
  ASSUME Inv, Counters, [Next]_vars
  PROVE  /\ Counters'
         /\ signed <= signed' /\ now <= now'
         /\ \A k \in Key : k \in Key' /\ issued'[k] = issued[k]
  <1>1. \A terms \in bound.terms, rid \in bound.rids \cup {NoRid} : Info(rid, terms) \in CertInfo
    BY AskedFor
  <1>2. \A terms \in bound.terms : Info(NoRid, [terms EXCEPT !.rights = Rights]) \in CertInfo
    <2>1. NoRid \in bound.rids \cup {NoRid}
      OBVIOUS
    <2> QED
      BY <2>1, AskedFor
  <1>3. ASSUME NEW ci \in CertInfo, issued' = Append(issued, ci)
        PROVE  issued' \in Seq(CertInfo) /\ \A k \in Key : k \in Key' /\ issued'[k] = issued[k]
    BY <1>3 DEF Counters, Key
  <1>4. bound' = bound
    BY DEF Next, Configure, ttp_create, id_sign, Manage, libpla_init, libpla_read_certificate,
           libpla_cleanup, libpla_create_certificate, libpla_delete_certificate, Tick, Restart,
           Publish, PushSigned, PushUnsigned, HeaderAdd, Deliver, Push, PlaReceive, Lose, vars
  <1>5. now' \in 0 .. bound.time /\ now <= now'
    <2>1. now \in Int /\ bound.time \in Int
      BY PLAAssumption DEF Counters, Limits
    <2>2. CASE Tick
      BY <2>1, <2>2 DEF Tick, Counters
    <2>3. Tick \/ UNCHANGED now
      BY DEF Next, Configure, ttp_create, id_sign, Manage, libpla_init, libpla_read_certificate,
             libpla_cleanup, libpla_create_certificate, libpla_delete_certificate, Restart,
             Publish, PushSigned, PushUnsigned, HeaderAdd, Deliver, Push, PlaReceive, Lose, vars
    <2> QED
      BY <2>1, <2>2, <2>3 DEF Counters
  <1>6. signed' \in 0 .. bound.signed /\ signed <= signed'
    <2>1. signed \in Nat /\ bound.signed \in Nat
      BY PLAAssumption DEF Counters, Limits
    <2>2. ASSUME NEW i, NEW count \in Nat, Numbered(i, count)
          PROVE  signed' \in 0 .. bound.signed /\ signed <= signed'
      BY <2>1, <2>2 DEF Numbered
    <2>3. CASE Publish
      <3>1. ASSUME NEW links \in SUBSET DOMAIN FirstHops, PushSigned(links)
            PROVE  signed' \in 0 .. bound.signed /\ signed <= signed'
        <4>1. Numbered(Len(certs), Cardinality(links))
          BY <3>1 DEF PushSigned
        <4> QED
          BY <2>2, <4>1, LinksAreFinite
      <3>2. ASSUME NEW i, NEW rid, NEW a, HeaderAdd(i, rid, a)
            PROVE  signed' \in 0 .. bound.signed /\ signed <= signed'
        BY <2>2, <3>2 DEF HeaderAdd
      <3>3. ASSUME NEW l, PushUnsigned(l)
            PROVE  signed' \in 0 .. bound.signed /\ signed <= signed'
        BY <2>1, <3>3 DEF PushUnsigned, Counters
      <3> QED
        BY <2>3, <3>1, <3>2, <3>3 DEF Publish
    <2>4. Publish \/ UNCHANGED signed
      BY DEF Next, Configure, ttp_create, id_sign, Manage, libpla_init, libpla_read_certificate,
             libpla_cleanup, libpla_create_certificate, libpla_delete_certificate, Tick, Restart,
             Deliver, Push, PlaReceive, Lose, vars
    <2> QED
      BY <2>1, <2>3, <2>4 DEF Counters
  <1>7. issued' \in Seq(CertInfo) /\ \A k \in Key : k \in Key' /\ issued'[k] = issued[k]
    <2>1. CASE UNCHANGED issued
      BY <2>1 DEF Counters, Key
    <2>2. ASSUME NEW terms \in bound.terms, ttp_create(terms)
          PROVE  \E ci \in CertInfo : issued' = Append(issued, ci)
      BY <1>2, <2>2 DEF ttp_create, Draws
    <2>3. ASSUME NEW signer, NEW terms \in bound.terms, NEW rid \in bound.rids \cup {NoRid},
                 id_sign(signer, terms, rid)
          PROVE  \E ci \in CertInfo : issued' = Append(issued, ci)
      BY <1>1, <2>3 DEF id_sign, Draws
    <2>4. ASSUME NEW terms \in bound.terms, NEW rid \in bound.rids \cup {NoRid}, NEW saved,
                 libpla_create_certificate(terms, rid, saved)
          PROVE  \E ci \in CertInfo : issued' = Append(issued, ci)
      BY <1>1, <2>4 DEF libpla_create_certificate, Draws
    <2>5. \/ Configure
          \/ \E terms \in bound.terms, rid \in bound.rids \cup {NoRid}, saved \in BOOLEAN :
               libpla_create_certificate(terms, rid, saved)
          \/ UNCHANGED issued
      BY DEF Next, Manage, libpla_init, libpla_read_certificate,
             libpla_cleanup, libpla_delete_certificate, Tick, Restart,
             Publish, PushSigned, PushUnsigned, HeaderAdd, Deliver, Push, PlaReceive, Lose, vars
    <2> QED
      BY <1>3, <2>1, <2>2, <2>3, <2>4, <2>5 DEF Configure
  <1> QED
    BY <1>4, <1>5, <1>6, <1>7 DEF Counters

\* A header that is what its key was issued with stays so.
LEMMA HeaderStays ==
  ASSUME Inv, Counters, [Next]_vars, NEW h, GenuineHeader(h)
  PROVE  GenuineHeader(h)'
  <1>1. /\ \A k \in Key : k \in Key' /\ issued'[k] = issued[k]
        /\ signed <= signed' /\ now <= now'
        /\ signed \in Int /\ now \in Int /\ signed' \in Int /\ now' \in Int
    BY NextCounters, PLAAssumption DEF Counters, Limits
  <1>2. h.seq \in 0 .. signed' /\ h.ts \in 0 .. now'
    BY <1>1 DEF GenuineHeader
  <1> QED
    BY <1>1, <1>2 DEF GenuineHeader, calculate_id_hash, HeaderIdHash

-----------------------------------------------------------------------------
\* A certificate that is issued is genuine: for a new key, whatever key issues it.
LEMMA NewIsGenuine ==
  ASSUME Counters, NEW ci \in CertInfo, issued' = Append(issued, ci), NEW ttp,
         NEW c, c = NewCertificate(ttp, ci)
  PROVE  GenuineCert(c)'
  <1>1. NextKey \in Key' /\ issued'[NextKey] = ci
    BY DEF Counters, Key, NextKey
  <1>2. /\ c.sigma = NextKey /\ c.ci = ci /\ c.issuer = ttp
        /\ c.rho = [key |-> NextKey, by |-> ttp, id |-> calculate_id_hash(ci)]
        /\ c.sig = libpla_sign(NextKey, cert_to_bin(ttp, c.rho, ci))
    BY DEF NewCertificate, create_key
  <1> HIDE DEF NextKey, Key
  <1> QED
    BY <1>1, <1>2 DEF GenuineCert

\* Written down and read again it is the same, if its times are.
LEMMA WrittenAsIs ==
  ASSUME NEW ttp, NEW ci \in CertInfo, InWinter(ci)
  PROVE  write_node_state(NewCertificate(ttp, ci)) = NewCertificate(ttp, ci)
  <1> DEFINE c == NewCertificate(ttp, ci)
  <1>1. TimesAsText(ci) = ci
    BY DEF InWinter, TimesAsText, Text, CertInfo
  <1>2. c.ci = ci /\ [c EXCEPT !.ci = c.ci] = c
    BY DEF NewCertificate
  <1>3. write_node_state(c) = [c EXCEPT !.ci = TimesAsText(c.ci)]
    BY DEF write_node_state
  <1> HIDE DEF c
  <1>4. write_node_state(c) = c
    BY <1>1, <1>2, <1>3
  <1> QED
    BY <1>4 DEF c

\* The item that stands for a genuine certificate is genuine.
LEMMA ItemIsGenuine == \A c : Counters /\ GenuineCert(c) => GenuineItem(Item(c))
  <1> SUFFICES ASSUME Counters, NEW c, GenuineCert(c)
               PROVE  GenuineItem(Item(c))
    OBVIOUS
  <1> DEFINE h == Item(c).header
  <1>1. /\ h.rho = c.rho /\ h.ttp = c.issuer /\ h.identity = c.ci.identity
        /\ h.notBefore = c.ci.notBefore /\ h.notAfter = c.ci.notAfter
        /\ h.rights = c.ci.rights /\ h.deleg = c.ci.deleg /\ h.ts = 0 /\ h.seq = 0
        /\ h.type = IF c.ci.rid = NoRid THEN "PLA" ELSE "PLA_RID"
        /\ Item(c).sigma = c.sigma
        /\ DOMAIN h = HeaderFields /\ DOMAIN Item(c) = {"rid", "sigma", "header"}
    BY DEF Item, HeaderFields
  <1>2. c.rho.key = c.sigma /\ c.rho.by = c.issuer /\ c.rho.id = calculate_id_hash(c.ci)
    BY DEF GenuineCert
  <1>3. 0 \in 0 .. signed /\ 0 \in 0 .. now
    BY PLAAssumption DEF Counters, Limits
  <1> HIDE DEF h
  <1>4. HeaderIdHash(c.ci.rid, h) = calculate_id_hash(c.ci)
    BY <1>1 DEF HeaderIdHash, calculate_id_hash
  <1>5. c.sigma \in Key /\ issued[c.sigma] = c.ci
    BY DEF GenuineCert
  <1>6. GenuineHeader(h)
    BY <1>1, <1>2, <1>3, <1>4, <1>5 DEF GenuineHeader
  <1> QED
    BY <1>1, <1>2, <1>6 DEF GenuineItem, h

LEMMA ItemIsGenuineNext == (\A c : Counters /\ GenuineCert(c) => GenuineItem(Item(c)))'
  BY ItemIsGenuine, PTL

\* A genuine certificate stays so.
LEMMA CertStays ==
  ASSUME Inv, Counters, [Next]_vars, NEW c, GenuineCert(c)
  PROVE  GenuineCert(c)'
  <1>1. \A k \in Key : k \in Key' /\ issued'[k] = issued[k]
    BY NextCounters
  <1> QED
    BY <1>1 DEF GenuineCert, calculate_id_hash, cert_to_bin, libpla_sign

\* Files hold certificates as they were issued.
LEMMA NextFiles ==
  ASSUME ValidInWinter, Inv, Counters, GenuineFiles, [Next]_vars
  PROVE  GenuineFiles'
  <1>1. ASSUME NEW f \in DOMAIN file, NEW ttp, NEW ci \in CertInfo, InWinter(ci),
               issued' = Append(issued, ci), Save(f, NewCertificate(ttp, ci))
        PROVE  GenuineFiles'
    <2>1. PICK c : c = NewCertificate(ttp, ci)
      OBVIOUS
    <2>2. file' = [file EXCEPT ![f] = c]
      BY <1>1, <2>1, WrittenAsIs DEF Save
    <2>3. GenuineCert(c)'
      BY <1>1, <2>1, NewIsGenuine
    <2>4. \A g \in DOMAIN file : file[g] # None => GenuineCert(file[g])
      BY DEF GenuineFiles
    <2>5. ASSUME NEW g \in DOMAIN file, file'[g] # None PROVE GenuineCert(file[g])'
      <3>1. PICK d : d = file'[g]
        OBVIOUS
      <3>2. d = c \/ (d = file[g] /\ d # None)
        BY <2>2, <2>5, <3>1
      <3>3. GenuineCert(d)'
        BY <2>3, <2>4, <3>2, CertStays
      <3> QED
        BY <3>1, <3>3 DEF GenuineCert
    <2>6. DOMAIN file' = DOMAIN file
      BY <2>2
    <2> QED
      BY <2>5, <2>6 DEF GenuineFiles
  <1>2. CASE UNCHANGED file
    <2>1. ASSUME NEW g \in DOMAIN file, file[g] # None PROVE GenuineCert(file[g])'
      <3>1. PICK d : d = file[g] /\ d = file'[g]
        BY <1>2
      <3>2. GenuineCert(d)'
        BY <2>1, <3>1, CertStays DEF GenuineFiles
      <3> QED
        BY <3>1, <3>2 DEF GenuineCert
    <2> QED
      BY <1>2, <2>1 DEF GenuineFiles
  <1>3. ASSUME NEW terms \in bound.terms, ttp_create(terms) PROVE GenuineFiles'
    <2>1. "ttp" \in DOMAIN file
      BY DEF GenuineFiles
    <2>2. NoRid \in bound.rids \cup {NoRid}
      OBVIOUS
    <2> QED
      BY <1>1, <1>3, <2>1, <2>2, AskedFor DEF ttp_create, Draws
  <1>4. ASSUME NEW signer, NEW terms \in bound.terms, NEW rid \in bound.rids \cup {NoRid},
               id_sign(signer, terms, rid)
        PROVE  GenuineFiles'
    <2>1. "user" \in DOMAIN file
      BY DEF GenuineFiles
    <2> QED
      BY <1>1, <1>4, <2>1, AskedFor DEF id_sign, Draws
  <1>5. ASSUME NEW terms \in bound.terms, NEW rid \in bound.rids \cup {NoRid}, NEW saved,
               libpla_create_certificate(terms, rid, saved)
        PROVE  GenuineFiles'
    <2>1. "user" \in DOMAIN file
      BY DEF GenuineFiles
    <2> QED
      BY <1>1, <1>2, <1>5, <2>1, AskedFor DEF libpla_create_certificate, Draws
  <1>6. \/ Configure
        \/ \E terms \in bound.terms, rid \in bound.rids \cup {NoRid}, saved \in BOOLEAN :
             libpla_create_certificate(terms, rid, saved)
        \/ UNCHANGED file
    BY DEF Next, Manage, libpla_init, libpla_read_certificate,
           libpla_cleanup, libpla_delete_certificate, Tick, Restart,
           Publish, PushSigned, PushUnsigned, HeaderAdd, Deliver, Push, PlaReceive, Lose, vars
  <1> QED
    BY <1>2, <1>3, <1>4, <1>5, <1>6 DEF Configure

\* A number and a time can be changed, and nothing else is.
LEMMA HeaderChanged ==
  ASSUME Inv, Counters, [Next]_vars, NEW h, GenuineHeader(h), NEW g, DOMAIN g = HeaderFields,
         \A f \in HeaderFields \ {"seq", "ts"} : g[f] = h[f],
         g.seq \in 0 .. signed', g.ts \in 0 .. now'
  PROVE  GenuineHeader(g)'
  <1>1. /\ g.rho = h.rho /\ g.ttp = h.ttp /\ g.identity = h.identity /\ g.notBefore = h.notBefore
        /\ g.notAfter = h.notAfter /\ g.rights = h.rights /\ g.deleg = h.deleg /\ g.type = h.type
    BY DEF HeaderFields
  <1>2. GenuineHeader(h)'
    BY HeaderStays
  <1> QED
    BY <1>1, <1>2 DEF GenuineHeader, HeaderIdHash

LEMMA ItemStays ==
  ASSUME Inv, Counters, [Next]_vars, NEW x, GenuineItem(x)
  PROVE  GenuineItem(x)'
  BY HeaderStays DEF GenuineItem

\* Whatever is done with the list, its items are genuine.
LEMMA NextGenuineCerts ==
  ASSUME ValidInWinter, Inv, Counters, GenuineFiles, GenuineCerts, [Next]_vars
  PROVE  GenuineCerts'
  <1>0. PICK S : certs \in Seq(S)
    BY DEF Inv, GoodCerts
  <1>1. PICK T : T = {certs[i] : i \in 1 .. Len(certs)}
    OBVIOUS
  <1>2. certs \in Seq(T) /\ \A x \in T : GenuineItem(x) /\ GenuineItem(x)'
    BY <1>0, <1>1, ItemStays DEF GenuineCerts
  <1>3. ASSUME NEW U, certs' \in Seq(U), \A x \in U : GenuineItem(x)' PROVE GenuineCerts'
    <2> SUFFICES ASSUME NEW i \in 1 .. Len(certs') PROVE GenuineItem(certs[i])'
      BY DEF GenuineCerts
    <2>1. PICK x : x = certs'[i] /\ x \in U
      BY <1>3
    <2>2. GenuineItem(x)'
      BY <1>3, <2>1
    <2> QED
      BY <2>1, <2>2 DEF GenuineItem, GenuineHeader
  <1>4. ASSUME NEW x, GenuineItem(x)', certs' = <<x>> \o certs PROVE GenuineCerts'
    <2>1. certs \in Seq(T \cup {x}) /\ <<x>> \in Seq(T \cup {x})
      BY <1>2
    <2>2. certs' \in Seq(T \cup {x})
      BY <1>4, <2>1, ConcatProperties
    <2> QED
      BY <1>2, <1>3, <1>4, <2>2
  <1>5. ASSUME file["user"] # None, UNCHANGED file
        PROVE  \E x : x = Item(file["user"]) /\ GenuineItem(x)'
    <2>1. PICK c : c = file["user"]
      OBVIOUS
    <2>2. GenuineCert(c)
      BY <1>5, <2>1 DEF GenuineFiles
    <2>3. PICK x : x = Item(c)
      OBVIOUS
    <2>4. GenuineItem(x)'
      BY <2>2, <2>3, ItemIsGenuine, ItemStays
    <2> QED
      BY <2>1, <2>3, <2>4
  <1>6. CASE libpla_init
    <2>1. PICK x : x = Item(file["user"]) /\ GenuineItem(x)'
      BY <1>5, <1>6 DEF libpla_init
    <2>2. certs' \in Seq({x})
      BY <1>6, <2>1 DEF libpla_init
    <2> QED
      BY <1>3, <2>1, <2>2
  <1>7. CASE libpla_read_certificate
    BY <1>4, <1>5, <1>7 DEF libpla_read_certificate
  <1>8. CASE libpla_cleanup
    <2>1. certs' \in Seq({})
      BY <1>8 DEF libpla_cleanup
    <2> QED
      BY <1>3, <2>1
  <1>9. ASSUME NEW rid, NEW rho, libpla_delete_certificate(rid, rho) PROVE GenuineCerts'
    <2>1. PICK i \in 1 .. Len(certs) :
            certs' = SubSeq(certs, 1, i - 1) \o SubSeq(certs, i + 1, Len(certs))
      BY <1>9 DEF libpla_delete_certificate
    <2>2. SubSeq(certs, 1, i - 1) \in Seq(T) /\ SubSeq(certs, i + 1, Len(certs)) \in Seq(T)
      BY <1>2, <2>1, SubSeqProperties
    <2>3. certs' \in Seq(T)
      BY <2>1, <2>2, ConcatProperties
    <2> QED
      BY <1>2, <1>3, <2>3
  <1>10. ASSUME NEW terms \in bound.terms, NEW rid \in bound.rids \cup {NoRid}, NEW saved,
                libpla_create_certificate(terms, rid, saved)
         PROVE  GenuineCerts'
    <2> DEFINE ttp == file["ttp"].sigma
    <2>1. PICK ci : ci = Info(rid, terms)
      OBVIOUS
    <2>2. PICK c : c = NewCertificate(ttp, ci)
      OBVIOUS
    <2>3. issued' = Append(issued, ci) /\ certs' = <<Item(c)>> \o certs
      BY <1>10, <2>1, <2>2 DEF libpla_create_certificate, Draws
    <2>4. GenuineCert(c)'
      BY <2>1, <2>2, <2>3, AskedFor, NewIsGenuine
    <2>5. Counters'
      BY NextCounters
    <2>6. GenuineItem(Item(c))'
      BY <2>4, <2>5, ItemIsGenuineNext
    <2> QED
      BY <1>4, <2>3, <2>6
  <1>11. ASSUME NEW i \in 1 .. Len(certs), NEW count \in Nat, Numbered(i, count)
         PROVE  GenuineCerts'
    <2>1. PICK x : x = certs[i] /\ x \in T
      BY <1>1
    <2>2. PICK g : g = [x.header EXCEPT !.seq = x.header.seq + count]
      OBVIOUS
    <2>3. PICK y : y = [x EXCEPT !.header = g]
      OBVIOUS
    <2>4. GenuineItem(x) /\ GenuineHeader(x.header) /\ GenuineItem(x)'
      BY <1>2, <2>1 DEF GenuineItem
    <2>5. /\ DOMAIN g = HeaderFields /\ \A f \in HeaderFields \ {"seq"} : g[f] = x.header[f]
          /\ g.seq = x.header.seq + count
      BY <2>2, <2>4 DEF GenuineHeader, HeaderFields
    <2>6. GenuineHeader(g)'
      <3>1. x.header.seq \in 0 .. signed /\ x.header.ts \in 0 .. now /\ signed \in Nat /\ now \in Nat
        BY <2>4, PLAAssumption DEF GenuineHeader, Counters, Limits
      <3>2. signed' = signed + count /\ now <= now' /\ now' \in Nat
        BY <1>11, NextCounters, PLAAssumption DEF Numbered, Counters, Limits
      <3>3. g.ts = x.header.ts
        BY <2>5 DEF HeaderFields
      <3>4. g.seq \in 0 .. signed' /\ g.ts \in 0 .. now'
        BY <2>5, <3>1, <3>2, <3>3
      <3> QED
        BY <2>4, <2>5, <3>4, HeaderChanged
    <2>7. GenuineItem(y)'
      <3>1. DOMAIN y = {"rid", "sigma", "header"} /\ y.sigma = x.sigma /\ y.header = g
        BY <2>3, <2>4 DEF GenuineItem
      <3>2. g.rho = x.header.rho
        BY <2>5 DEF HeaderFields
      <3> QED
        BY <2>4, <2>6, <3>1, <3>2 DEF GenuineItem
    <2>8. certs' = [certs EXCEPT ![i] = y]
      BY <1>0, <1>11, <2>1, <2>2, <2>3 DEF Numbered
    <2>9. certs' \in Seq(T \cup {y})
      <3>1. certs \in Seq(T \cup {y})
        BY <1>2
      <3> QED
        BY <2>8, <3>1, ExceptSeq
    <2> QED
      BY <1>2, <1>3, <2>7, <2>9
  <1>12. CASE UNCHANGED certs
    BY <1>2, <1>3, <1>12
  <1>13. CASE Manage
    BY <1>6, <1>7, <1>8, <1>9, <1>10, <1>13 DEF Manage
  <1>14. CASE Publish
    <2>1. ASSUME NEW links \in SUBSET DOMAIN FirstHops, PushSigned(links) PROVE GenuineCerts'
      <3>1. Cardinality(links) \in Nat
        BY LinksAreFinite
      <3>2. Len(certs) \in 1 .. Len(certs)
        BY <1>0, <2>1 DEF PushSigned, Inv, Listed
      <3>3. Numbered(Len(certs), Cardinality(links))
        BY <2>1 DEF PushSigned
      <3> QED
        BY <1>11, <3>1, <3>2, <3>3
    <2>2. ASSUME NEW i \in 1 .. Len(certs), NEW rid, NEW a, HeaderAdd(i, rid, a) PROVE GenuineCerts'
      BY <1>11, <2>2 DEF HeaderAdd
    <2>3. ASSUME NEW l, PushUnsigned(l) PROVE GenuineCerts'
      BY <1>12, <2>3 DEF PushUnsigned
    <2> QED
      BY <1>14, <2>1, <2>2, <2>3 DEF Publish
  <1>15. Manage \/ Publish \/ UNCHANGED certs
    BY DEF Next, Configure, ttp_create, id_sign, Deliver, Push, PlaReceive, Lose, Tick, Restart, vars
  <1> QED
    BY <1>12, <1>13, <1>14, <1>15

-----------------------------------------------------------------------------
LEMMA PacketStays ==
  ASSUME Inv, Counters, [Next]_vars, NEW p, GenuinePacket(p)
  PROVE  GenuinePacket(p)'
  BY HeaderStays DEF GenuinePacket

\* What is signed with a genuine item is a genuine packet: the header is
\* complete before it is hashed.
LEMMA SignedIsGenuine ==
  ASSUME Inv, Counters, [Next]_vars, NEW x, GenuineItem(x), NEW psirp, NEW to,
         NEW ahead \in Nat, NEW count \in Nat, ahead <= count, signed' = signed + count,
         NEW p, p = Signed(x, psirp, to, ahead)
  PROVE  GenuinePacket(p)'
  <1>1. PICK g : g = [x.header EXCEPT !.seq = x.header.seq + ahead, !.ts = now]
    OBVIOUS
  <1>2. GenuineHeader(x.header)
    BY DEF GenuineItem
  <1>3. /\ DOMAIN g = HeaderFields /\ \A f \in HeaderFields \ {"seq", "ts"} : g[f] = x.header[f]
        /\ g.seq = x.header.seq + ahead /\ g.ts = now /\ g.rho = x.header.rho
    BY <1>1, <1>2 DEF GenuineHeader, HeaderFields
  <1>4. x.header.seq \in 0 .. signed /\ signed \in Nat /\ now \in Nat /\ now' \in Nat /\ now <= now'
    BY <1>2, NextCounters, PLAAssumption DEF GenuineHeader, Counters, Limits
  <1>5. g.seq \in 0 .. signed' /\ g.ts \in 0 .. now'
    BY <1>3, <1>4
  <1>6. GenuineHeader(g)'
    BY <1>2, <1>3, <1>5, HeaderChanged
  <1>7. /\ p.header = g /\ p.psirp = psirp /\ p.sig = libpla_sign(x.sigma, <<psirp, g>>)
        /\ {"psirp", "header", "sig"} \subseteq DOMAIN p
    BY <1>1 DEF Signed
  <1>8. x.sigma = g.rho.key
    BY <1>3 DEF GenuineItem
  <1> QED
    BY <1>6, <1>7, <1>8 DEF GenuinePacket

\* The packets on their way are genuine.
LEMMA NextGenuineNet ==
  ASSUME Inv, Counters, GenuineCerts, GenuineNet, [Next]_vars
  PROVE  GenuineNet'
  <1>0. \A p \in net : GenuinePacket(p)'
    BY PacketStays DEF GenuineNet
  <1>1. PICK N : N = net'
    OBVIOUS
  <1>2. ASSUME \A p \in N : GenuinePacket(p)' PROVE GenuineNet'
    BY <1>1, <1>2 DEF GenuineNet, GenuinePacket
  <1>3. ASSUME NEW ps, N \subseteq net \cup ps, \A p \in ps : GenuinePacket(p)' PROVE GenuineNet'
    BY <1>0, <1>2, <1>3
  <1>4. ASSUME NEW links \in SUBSET DOMAIN FirstHops, PushSigned(links) PROVE GenuineNet'
    <2>1. PICK x : x = certs[Len(certs)]
      OBVIOUS
    <2>2. GenuineItem(x)
      <3>1. Len(certs) \in 1 .. Len(certs)
        BY <1>4 DEF PushSigned, Inv, Listed, GoodCerts
      <3> QED
        BY <2>1, <3>1 DEF GenuineCerts
    <2>3. PICK ps : ps = {Signed(x, NoRid, FirstHops[l],
                                 Cardinality({j \in links : j <= l})) : l \in links}
      OBVIOUS
    <2>4. N \subseteq net \cup ps
      BY <1>1, <1>4, <2>1, <2>3 DEF PushSigned, Send
    <2>5. signed' = signed + Cardinality(links) /\ Cardinality(links) \in Nat
      BY <1>4, LinksAreFinite DEF PushSigned, Numbered
    <2>6. ASSUME NEW p \in ps PROVE GenuinePacket(p)'
      <3>1. PICK l \in links : p = Signed(x, NoRid, FirstHops[l], Cardinality({j \in links : j <= l}))
        BY <2>3
      <3>2. PICK ahead : ahead = Cardinality({j \in links : j <= l})
        OBVIOUS
      <3>3. ahead \in Nat /\ ahead <= Cardinality(links)
        BY <3>2, LinksUpTo
      <3> QED
        BY <2>2, <2>5, <3>1, <3>2, <3>3, SignedIsGenuine
    <2> QED
      BY <1>3, <2>4, <2>6
  <1>5. ASSUME NEW i \in 1 .. Len(certs), NEW rid, NEW a, HeaderAdd(i, rid, a) PROVE GenuineNet'
    <2>1. PICK x : x = certs[i] /\ GenuineItem(x)
      BY DEF GenuineCerts
    <2>2. PICK p : p = Signed(x, rid, a, 1)
      OBVIOUS
    <2>3. N \subseteq net \cup {p} /\ signed' = signed + 1
      BY <1>1, <1>5, <2>1, <2>2 DEF HeaderAdd, Send, Numbered
    <2>4. GenuinePacket(p)'
      BY <2>1, <2>2, <2>3, SignedIsGenuine
    <2> QED
      BY <1>0, <1>2, <2>3, <2>4
  <1>6. ASSUME NEW l, PushUnsigned(l) PROVE GenuineNet'
    <2>1. PICK p : p = Unsigned(FirstHops[l])
      OBVIOUS
    <2>2. N \subseteq net \cup {p} /\ p.header = None
      BY <1>1, <1>6, <2>1 DEF PushUnsigned, Send, Unsigned
    <2>3. GenuinePacket(p)'
      BY <2>2 DEF GenuinePacket, None
    <2> QED
      BY <1>0, <1>2, <2>2, <2>3
  <1>7. ASSUME NEW p \in net, NEW mode, Push(p, mode) PROVE GenuineNet'
    <2>1. PICK ps : ps = Copies(p)
      OBVIOUS
    <2>2. N \subseteq net \cup ps
      BY <1>1, <1>7, <2>1 DEF Push, Arrives
    <2>3. ASSUME NEW q \in ps PROVE GenuinePacket(q)'
      <3>1. PICK m : q = [p EXCEPT !.to = m]
        BY <2>1, <2>3 DEF Copies
      <3>2. GenuinePacket(p)' /\ GoodPacket(p)
        BY <1>0 DEF Inv, GoodNet
      <3>3. q.header = p.header
        BY <3>1, <3>2 DEF GoodPacket
      <3>4. CASE p.header = None
        BY <3>3, <3>4 DEF GenuinePacket, None
      <3>5. CASE p.header # None
        <4>1. {"psirp", "header", "sig"} \subseteq DOMAIN p
          BY <3>2, <3>5 DEF GenuinePacket, None
        <4>2. q.psirp = p.psirp /\ q.sig = p.sig /\ {"psirp", "header", "sig"} \subseteq DOMAIN q
          BY <3>1, <4>1
        <4> QED
          BY <3>2, <3>3, <3>5, <4>2 DEF GenuinePacket, None
      <3> QED
        BY <3>4, <3>5
    <2> QED
      BY <1>3, <2>2, <2>3
  <1>8. CASE N \subseteq net
    BY <1>0, <1>2, <1>8
  <1>9. ASSUME NEW p \in net, NEW exitEarly, PlaReceive(p, exitEarly) PROVE GenuineNet'
    BY <1>1, <1>8, <1>9 DEF PlaReceive, Arrives
  <1>10. ASSUME NEW p \in net, Lose(p) PROVE GenuineNet'
    BY <1>1, <1>8, <1>10 DEF Lose
  <1>11. Publish \/ Deliver \/ UNCHANGED net
    BY DEF Next, Configure, ttp_create, id_sign, Manage, libpla_init, libpla_read_certificate,
           libpla_cleanup, libpla_create_certificate, libpla_delete_certificate, Tick, Restart, vars
  <1> QED
    BY <1>1, <1>4, <1>5, <1>6, <1>7, <1>8, <1>9, <1>10, <1>11 DEF Publish, Deliver

\* The values of a function on a finite set are finite in number.
LEMMA ValuesAreFinite ==
  ASSUME NEW S, IsFiniteSet(S), NEW f, DOMAIN f = S, NEW T, T = {f[x] : x \in S}, f \in [S -> T]
  PROVE  IsFiniteSet(T)
  <1>1. f \in Surjection(S, T)
    BY DEF Surjection
  <1> QED
    BY <1>1, FS_Surjection, Zenon

\* There are never more packets on their way than the bound says.
LEMMA NextFits ==
  ASSUME Inv, Counters, NetFits, [Next]_vars
  PROVE  NetFits'
  <1>0. bound' = bound /\ bound.net \in Nat
    <2>1. bound' = bound
      BY DEF Next, Configure, ttp_create, id_sign, Manage, libpla_init, libpla_read_certificate,
             libpla_cleanup, libpla_create_certificate, libpla_delete_certificate, Tick, Restart,
             Publish, PushSigned, PushUnsigned, HeaderAdd, Deliver, Push, PlaReceive, Lose, vars
    <2> QED
      BY <2>1, PLAAssumption DEF Counters, Limits
  <1>1. ASSUME NEW ps, IsFiniteSet(ps), Send(ps) PROVE NetFits'
    <2>1. IsFiniteSet(net \cup ps)
      BY <1>1, FS_Union DEF NetFits
    <2> QED
      BY <1>0, <1>1, <2>1 DEF NetFits, Send
  <1>2. ASSUME NEW p, NEW ps, IsFiniteSet(ps), Arrives(p, ps) PROVE NetFits'
    <2>1. PICK left \in {net, net \ {p}} :
            Cardinality(left \cup ps) <= bound.net /\ net' = left \cup ps
      BY <1>2 DEF Arrives
    <2>2. IsFiniteSet(left)
      <3>1. IsFiniteSet(net) /\ left \in SUBSET net
        BY <2>1 DEF NetFits
      <3> QED
        BY <3>1, FS_Subset
    <2>3. IsFiniteSet(left \cup ps)
      BY <1>2, <2>2, FS_Union
    <2> QED
      BY <1>0, <2>1, <2>3 DEF NetFits
  <1>3. ASSUME NEW links \in SUBSET DOMAIN FirstHops, PushSigned(links) PROVE NetFits'
    <2> DEFINE Packet(l) == Signed(certs[Len(certs)], NoRid, FirstHops[l],
                                   Cardinality({j \in links : j <= l}))
    <2>1. Send({Packet(l) : l \in links})
      BY <1>3 DEF PushSigned
    <2>2. IsFiniteSet(links)
      BY LinksUpTo
    <2> DEFINE f == [l \in links |-> Packet(l)]
    <2> HIDE DEF Packet
    <2>3. IsFiniteSet({Packet(l) : l \in links})
      <3>1. /\ DOMAIN f = links /\ {Packet(l) : l \in links} = {f[l] : l \in links}
            /\ f \in [links -> {Packet(l) : l \in links}]
        OBVIOUS
      <3> HIDE DEF f
      <3> QED
        BY <2>2, <3>1, ValuesAreFinite
    <2> QED
      BY <1>1, <2>1, <2>3
  <1>4. ASSUME NEW i, NEW rid, NEW a, HeaderAdd(i, rid, a) PROVE NetFits'
    BY <1>1, <1>4, FS_Singleton DEF HeaderAdd
  <1>5. ASSUME NEW l, PushUnsigned(l) PROVE NetFits'
    BY <1>1, <1>5, FS_Singleton DEF PushUnsigned
  <1>6. ASSUME NEW p \in net, NEW mode, Push(p, mode) PROVE NetFits'
    <2>1. IsFiniteSet(Copies(p))
      <3>1. IsFiniteSet(Out[p.to])
        BY <1>6, PLAAssumption, FS_Subset DEF Push
      <3> DEFINE Copy(m) == [p EXCEPT !.to = m]
      <3>2. Copies(p) = {Copy(m) : m \in Out[p.to]}
        BY DEF Copies
      <3> DEFINE f == [m \in Out[p.to] |-> Copy(m)]
      <3> HIDE DEF Copy
      <3>3. IsFiniteSet({Copy(m) : m \in Out[p.to]})
        <4>1. /\ DOMAIN f = Out[p.to] /\ {Copy(m) : m \in Out[p.to]} = {f[m] : m \in Out[p.to]}
              /\ f \in [Out[p.to] -> {Copy(m) : m \in Out[p.to]}]
          OBVIOUS
        <4> HIDE DEF f
        <4> QED
          BY <3>1, <4>1, ValuesAreFinite
      <3> QED
        BY <3>2, <3>3
    <2>2. Arrives(p, Copies(p)) \/ Arrives(p, {})
      BY <1>6 DEF Push
    <2> QED
      BY <1>2, <2>1, <2>2, FS_EmptySet
  <1>7. ASSUME NEW p \in net, NEW exitEarly, PlaReceive(p, exitEarly) PROVE NetFits'
    BY <1>2, <1>7, FS_EmptySet DEF PlaReceive
  <1>8. ASSUME NEW p \in net, Lose(p) PROVE NetFits'
    <2>1. IsFiniteSet(net) /\ net' \in SUBSET net
      BY <1>8 DEF NetFits, Lose
    <2>2. IsFiniteSet(net') /\ Cardinality(net') <= Cardinality(net)
      BY <2>1, FS_Subset
    <2>3. Cardinality(net') \in Nat /\ Cardinality(net) \in Nat
      BY <2>1, <2>2, FS_CardinalityType
    <2> QED
      BY <1>0, <2>2, <2>3 DEF NetFits
  <1>9. CASE UNCHANGED net
    BY <1>0, <1>9 DEF NetFits
  <1>10. Publish \/ Deliver \/ UNCHANGED net
    BY DEF Next, Configure, ttp_create, id_sign, Manage, libpla_init, libpla_read_certificate,
           libpla_cleanup, libpla_create_certificate, libpla_delete_certificate, Tick, Restart, vars
  <1> QED
    BY <1>3, <1>4, <1>5, <1>6, <1>7, <1>8, <1>9, <1>10 DEF Publish, Deliver

\* What passes a window has been signed, for a key that has been drawn.
LEMMA NextSeen ==
  ASSUME Inv, Counters, GenuineNet, SeenIsSigned, KnownKeys, [Next]_vars
  PROVE  SeenIsSigned' /\ KnownKeys'
  <1>0. /\ \A k \in Key : k \in Key'
        /\ signed <= signed' /\ signed \in Nat /\ signed' \in Nat
        /\ \A n \in Node \cup App : \A m \in seen[n] : m[2] \in Nat
        /\ DOMAIN conn = Node \cup App /\ DOMAIN seen = Node \cup App
    <2>1. \A k \in Key : k \in Key'
      BY NextCounters
    <2>2. signed <= signed' /\ signed \in Nat /\ signed' \in Nat
      <3>1. bound.signed \in Nat /\ bound'.signed \in Nat
        BY NextCounters, PLAAssumption DEF Counters, Limits
      <3>2. signed <= signed' /\ signed \in 0 .. bound.signed /\ signed' \in 0 .. bound'.signed
        BY NextCounters DEF Counters
      <3> QED
        BY <3>1, <3>2
    <2>3. Windows
      BY DEF Inv
    <2>4. /\ \A n \in Node \cup App : \A m \in seen[n] : m[2] \in Nat
          /\ DOMAIN conn = Node \cup App /\ DOMAIN seen = Node \cup App
      BY <2>3 DEF Windows
    <2> QED
      BY <2>1, <2>2, <2>4
  <1>1. CASE UNCHANGED <<conn, seen>>
    BY <1>0, <1>1 DEF SeenIsSigned, KnownKeys
  <1>2. ASSUME NEW p \in net, p.header # None, p.to \in Node \cup App, Checked(p.to, p.header)
        PROVE  SeenIsSigned' /\ KnownKeys'
    <2>1. p.header.rho.key \in Key /\ p.header.seq \in Nat /\ p.header.seq <= signed
      <3>1. GenuineHeader(p.header)
        BY <1>2 DEF GenuineNet, GenuinePacket
      <3>2. p.header.seq \in 0 .. signed /\ p.header.rho.key \in Key
        BY <3>1 DEF GenuineHeader
      <3> QED
        BY <1>0, <3>2
    <2>2. \A n \in Node \cup App : \A m \in seen'[n] :
            m \in seen[n] \/ m = <<p.header.rho.key, p.header.seq>>
      BY <1>0, <1>2 DEF Checked
    <2>3. \A n \in Node \cup App : DOMAIN conn'[n] \subseteq DOMAIN conn[n] \cup {p.header.rho.key}
      BY <1>0, <1>2 DEF Checked
    <2>4. SeenIsSigned'
      BY <1>0, <2>1, <2>2 DEF SeenIsSigned
    <2>5. KnownKeys'
      BY <1>0, <2>1, <2>3 DEF KnownKeys
    <2> QED
      BY <2>4, <2>5
  <1>3. ASSUME NEW p \in net, NEW mode, Push(p, mode) PROVE SeenIsSigned' /\ KnownKeys'
    BY <1>1, <1>2, <1>3 DEF Push
  <1>4. ASSUME NEW p \in net, NEW exitEarly, PlaReceive(p, exitEarly)
        PROVE  SeenIsSigned' /\ KnownKeys'
    <2>1. p.header # None /\ p.to \in Node \cup App
      BY <1>4 DEF PlaReceive, Inv, GoodNet, GoodPacket
    <2> QED
      BY <1>1, <1>2, <1>4, <2>1 DEF PlaReceive
  <1>5. ASSUME NEW n \in Node \cup App, Restart(n) PROVE SeenIsSigned' /\ KnownKeys'
    <2>1. /\ seen'[n] = {} /\ conn'[n] = <<>>
          /\ \A o \in Node \cup App : o # n => seen'[o] = seen[o] /\ conn'[o] = conn[o]
      BY <1>0, <1>5 DEF Restart
    <2> QED
      BY <1>0, <2>1 DEF SeenIsSigned, KnownKeys
  <1>6. Deliver \/ (\E n \in Node \cup App : Restart(n)) \/ UNCHANGED <<conn, seen>>
    BY DEF Next, Configure, ttp_create, id_sign, Manage, libpla_init, libpla_read_certificate,
           libpla_cleanup, libpla_create_certificate, libpla_delete_certificate, Tick,
           Publish, PushSigned, PushUnsigned, HeaderAdd, vars
  <1>7. ASSUME NEW p \in net, Lose(p) PROVE SeenIsSigned' /\ KnownKeys'
    BY <1>1, <1>7 DEF Lose
  <1> QED
    BY <1>1, <1>3, <1>4, <1>5, <1>6, <1>7 DEF Deliver

\* There are no certificates before libpla is initialized.
Unlisted == default \in {"none", "listed", "freed"} /\ (default = "none" => certs = <<>>)

LEMMA NextUnlisted == Unlisted /\ [Next]_vars => Unlisted'
  <1> SUFFICES ASSUME Unlisted, [Next]_vars PROVE Unlisted'
    OBVIOUS
  <1>1. CASE default' # "none" /\ default' \in {"none", "listed", "freed"}
    BY <1>1 DEF Unlisted
  <1>2. CASE UNCHANGED <<certs, default>>
    BY <1>2 DEF Unlisted
  <1>3. ASSUME NEW rid, NEW rho, libpla_delete_certificate(rid, rho) PROVE Unlisted'
    <2>1. \E i \in 1 .. Len(certs) :
            default' = IF i = Len(certs) /\ default = "listed" THEN "freed" ELSE default
      BY <1>3 DEF libpla_delete_certificate
    <2>2. default # "none"
      BY <2>1 DEF Unlisted
    <2> QED
      BY <1>1, <2>1, <2>2 DEF Unlisted
  <1>4. CASE Manage
    <2>1. CASE libpla_cleanup
      BY <2>1 DEF libpla_cleanup, Unlisted
    <2>2. CASE libpla_init \/ libpla_read_certificate
      BY <1>1, <2>2 DEF libpla_init, libpla_read_certificate, Unlisted
    <2>3. ASSUME NEW terms, NEW rid, NEW saved, libpla_create_certificate(terms, rid, saved)
          PROVE  Unlisted'
      BY <1>1, <2>3 DEF libpla_create_certificate, Unlisted
    <2> QED
      BY <1>3, <1>4, <2>1, <2>2, <2>3 DEF Manage
  <1>5. CASE Publish
    <2>1. ASSUME NEW links, PushSigned(links) PROVE Unlisted'
      BY <1>1, <2>1 DEF PushSigned, Unlisted
    <2>2. ASSUME NEW i \in 1 .. Len(certs), NEW rid, NEW a, HeaderAdd(i, rid, a) PROVE Unlisted'
      <3>1. default # "none"
        BY DEF Unlisted
      <3> QED
        BY <1>1, <2>2, <3>1 DEF HeaderAdd, Unlisted
    <2>3. ASSUME NEW l, PushUnsigned(l) PROVE Unlisted'
      BY <1>2, <2>3 DEF PushUnsigned
    <2> QED
      BY <1>5, <2>1, <2>2, <2>3 DEF Publish
  <1>6. Manage \/ Publish \/ UNCHANGED <<certs, default>>
    BY DEF Next, Configure, ttp_create, id_sign, Deliver, Push, PlaReceive, Lose, Tick, Restart, vars
  <1> QED
    BY <1>2, <1>4, <1>5, <1>6

\* All of it together.
Genuine ==
  /\ Inv /\ Counters /\ GenuineFiles /\ GenuineCerts /\ GenuineNet /\ NetFits
  /\ SeenIsSigned /\ KnownKeys /\ Unlisted

LEMMA InitGenuine == Init => Genuine
  <1> SUFFICES ASSUME Init PROVE Genuine
    OBVIOUS
  <1>1. Inv
    BY InitInv
  <1>2. bound \in Limits /\ bound.time \in Nat /\ bound.signed \in Nat /\ bound.net \in Nat
    BY PLAAssumption DEF Init, Limits
  <1>3. Counters
    BY <1>2 DEF Init, Counters
  <1>4. GenuineFiles /\ GenuineCerts /\ GenuineNet
    BY DEF Init, GenuineFiles, GenuineCerts, GenuineNet
  <1>5. NetFits
    BY <1>2, FS_EmptySet DEF Init, NetFits
  <1>6. SeenIsSigned /\ KnownKeys /\ Unlisted
    BY DEF Init, SeenIsSigned, KnownKeys, Unlisted
  <1> QED
    BY <1>1, <1>3, <1>4, <1>5, <1>6 DEF Genuine

LEMMA NextGenuine == ValidInWinter /\ Genuine /\ [Next]_vars => Genuine'
  <1> SUFFICES ASSUME ValidInWinter, Genuine, [Next]_vars PROVE Genuine'
    OBVIOUS
  <1>1. /\ Inv /\ Counters /\ GenuineFiles /\ GenuineCerts /\ GenuineNet /\ NetFits
        /\ SeenIsSigned /\ KnownKeys /\ Unlisted
    BY DEF Genuine
  <1>2. Inv'
    BY <1>1, NextCerts, NextListed, NextNet, NextWindows DEF Inv
  <1>3. Counters'
    BY <1>1, NextCounters
  <1>4. GenuineFiles'
    BY <1>1, NextFiles
  <1>5. GenuineCerts'
    BY <1>1, NextGenuineCerts
  <1>6. GenuineNet'
    BY <1>1, NextGenuineNet
  <1>7. NetFits'
    BY <1>1, NextFits
  <1>8. SeenIsSigned' /\ KnownKeys'
    BY <1>1, NextSeen
  <1>9. Unlisted'
    BY <1>1, NextUnlisted
  <1> QED
    BY <1>2, <1>3, <1>4, <1>5, <1>6, <1>7, <1>8, <1>9 DEF Genuine

\* The windows stay within the numbers that were signed.
LEMMA TypesFollow == Genuine => TypeOK
  <1> SUFFICES ASSUME Genuine PROVE TypeOK
    OBVIOUS
  <1>1. ASSUME NEW n \in Node \cup App, NEW k \in DOMAIN conn[n]
        PROVE  conn[n][k] \in [low : 0 .. bound.signed, index : 0 .. WindowSize - 1,
                               window : [0 .. WindowSize - 1 -> {0, 1}]]
    <2> DEFINE e == conn[n][k]
    <2>1. GoodWindow(e, Numbers(n, k))
      BY <1>1 DEF Genuine, Inv, Windows, Connection
    <2> HIDE DEF e
    <2>2. e \in EntryType /\ e.low \in Nat /\ WindowSize \in Nat \ {0}
      BY <2>1, PLAAssumption DEF GoodWindow, Right, EntryType
    <2>3. signed \in 0 .. bound.signed /\ bound.signed \in Nat
      BY PLAAssumption DEF Genuine, Counters, Limits
    <2>4. \A s \in Numbers(n, k) : s <= signed
      <3> SUFFICES ASSUME NEW s \in Nat, <<k, s>> \in seen[n] PROVE s <= signed
        BY DEF Numbers
      <3>1. <<k, s>>[2] <= signed
        BY Zenon DEF Genuine, SeenIsSigned
      <3> QED
        BY <3>1
    <2>5. e.low > 0 => e.low + WindowSize - 1 \in Numbers(n, k)
      BY <2>1 DEF GoodWindow
    <2>6. e.low \in 0 .. bound.signed
      BY <2>2, <2>3, <2>4, <2>5
    <2>7. e \in [low : 0 .. bound.signed, index : 0 .. WindowSize - 1,
                 window : [0 .. WindowSize - 1 -> {0, 1}]]
      BY <2>2, <2>6 DEF EntryType
    <2> QED
      BY <2>7 DEF e
  <1>2. default = "listed" => certs # <<>>
    BY DEF Genuine, Inv, Listed
  <1>3. /\ now \in 0 .. bound.time
        /\ default \in {"none", "listed", "freed"}
        /\ default = "none" => certs = <<>>
        /\ \A n \in Node \cup App : DOMAIN conn[n] \subseteq Key
        /\ Cardinality(net) <= bound.net
    BY DEF Genuine, Counters, Unlisted, KnownKeys, NetFits
  <1> QED
    BY <1>1, <1>2, <1>3 DEF TypeOK

\* A genuine packet's signature verifies under the rid of its certificate and
\* under no other.
LEMMA SignatureDecides ==
  ASSUME NEW p, p.header # None, GenuinePacket(p), NEW rid
  PROVE  SignatureOK(p, rid) <=> rid = issued[p.header.rho.key].rid
  <1> DEFINE h == p.header
             ci == issued[h.rho.key]
  <1>1. /\ h.rho.by = h.ttp
        /\ h.rho.id = calculate_id_hash(ci)
        /\ HeaderIdHash(ci.rid, h) = calculate_id_hash(ci)
        /\ p.sig = libpla_sign(h.rho.key, <<p.psirp, h>>)
    BY DEF GenuinePacket, GenuineHeader
  <1>2. p.sig.key = h.rho.key /\ p.sig.over = <<p.psirp, h>>
    BY <1>1 DEF libpla_sign
  <1>3. SignatureOK(p, rid) <=> h.rho.id = HeaderIdHash(rid, h)
    BY <1>1, <1>2 DEF SignatureOK, libpla_verify
  <1>4. HeaderIdHash(ci.rid, h) = HeaderIdHash(rid, h) <=> rid = ci.rid
    BY DEF HeaderIdHash
  <1> QED
    BY <1>1, <1>3, <1>4

LEMMA PacketsFollow == Genuine => SignedPacketsVerify /\ RidIsBound
  <1> SUFFICES ASSUME Genuine PROVE SignedPacketsVerify /\ RidIsBound
    OBVIOUS
  <1>1. ASSUME NEW p \in net, p.header # None,
               now - p.header.ts <= TimestampDiff,
               {"control", "traffic"} \subseteq issued[p.header.rho.key].rights,
               issued[p.header.rho.key].rid = NoRid,
               <<p.header.rho.key, p.header.seq>> \notin seen[p.to],
               \A t \in p.header.seq .. bound.signed :
                 <<p.header.rho.key, t>> \in seen[p.to] => t - p.header.seq < WindowSize
        PROVE  full_verify(p.to, p)
    <2> DEFINE h == p.header
               k == h.rho.key
               s == h.seq
    <2>1. GenuinePacket(p) /\ GenuineHeader(h) /\ p.to \in Node \cup App
      BY <1>1 DEF Genuine, GenuineNet, GenuinePacket, Inv, GoodNet, GoodPacket
    <2>2. /\ h.rights = issued[k].rights
          /\ h.seq \in 0 .. signed
          /\ h.ts \in 0 .. now
      BY <2>1 DEF GenuineHeader
    <2>3. signed \in Nat /\ signed <= bound.signed /\ bound.signed \in Nat /\ now \in Nat
      BY PLAAssumption DEF Genuine, Counters, Limits
    <2>4. TimestampOK(h)
      BY <1>1, <2>2, <2>3 DEF TimestampOK, Distance
    <2>5. RightsOK(h)
      BY <1>1, <2>2 DEF RightsOK
    <2>6. SignatureOK(p, NoRid)
      BY <1>1, <2>1, SignatureDecides
    <2>7. NumberOK(p.to, h)
      <3>1. s \in Nat /\ GoodWindow(Connection(p.to, k), Numbers(p.to, k))
        BY <2>1, <2>2, <2>3 DEF Genuine, Inv, Windows
      <3>2. s \notin Numbers(p.to, k)
        BY <1>1 DEF Numbers
      <3>3. \A t \in Numbers(p.to, k) : t - s < WindowSize
        <4> SUFFICES ASSUME NEW t \in Nat, <<k, t>> \in seen[p.to] PROVE t - s < WindowSize
          BY DEF Numbers
        <4>1. <<k, t>>[2] <= signed
          BY <2>1, Zenon DEF Genuine, SeenIsSigned
        <4>2. WindowSize \in Nat \ {0}
          BY PLAAssumption
        <4>3. CASE t < s
          BY <3>1, <4>2, <4>3
        <4>4. CASE t >= s
          <5>1. t \in s .. bound.signed
            BY <2>3, <3>1, <4>1, <4>4
          <5> QED
            BY <1>1, <5>1
        <4> QED
          BY <3>1, <4>3, <4>4
      <3> HIDE DEF h, k, s
      <3>4. SeqOK(Connection(p.to, k), s)
        BY <3>1, <3>2, <3>3, GoodWindowDecides
      <3> QED
        BY <3>4 DEF NumberOK, k, s
    <2> QED
      BY <2>4, <2>5, <2>6, <2>7 DEF full_verify, lightweight_verify
  <1>2. ASSUME NEW p \in net, p.to \in App
        PROVE  "signature" \in pla_receive(p.to, p, GivenRid(p))
                 <=> issued[p.header.rho.key].rid \in {NoRid, p.psirp}
    <2> DEFINE rid == issued[p.header.rho.key].rid
    <2>1. GenuinePacket(p) /\ p.header # None
      BY <1>2 DEF Genuine, GenuineNet, Inv, GoodNet, GoodPacket
    <2>2. "signature" \in pla_receive(p.to, p, GivenRid(p)) <=> SignatureOK(p, GivenRid(p))
      BY DEF pla_receive
    <2>3. SignatureOK(p, GivenRid(p)) <=> GivenRid(p) = rid
      BY <2>1, SignatureDecides
    <2>4. p.header.type = IF rid = NoRid THEN "PLA" ELSE "PLA_RID"
      BY <2>1 DEF GenuinePacket, GenuineHeader
    <2> HIDE DEF rid
    <2>5. GivenRid(p) = rid <=> rid \in {NoRid, p.psirp}
      BY <2>4 DEF GivenRid
    <2> QED
      BY <2>2, <2>3, <2>5 DEF rid
  <1>3. SignedPacketsVerify
    BY <1>1 DEF SignedPacketsVerify
  <1>4. RidIsBound
    BY <1>2 DEF RidIsBound
  <1> QED
    BY <1>3, <1>4

LEMMA CertificatesFollow == Genuine => CertificatesVerify
  <1> SUFFICES ASSUME Genuine, NEW f \in DOMAIN file, file[f] # None,
                      issued[file[f].sigma].notBefore < now, now < issued[file[f].sigma].notAfter
               PROVE  cert_verify(file[f])
    BY DEF CertificatesVerify
  <1> DEFINE c == file[f]
  <1>1. GenuineCert(c)
    BY DEF Genuine, GenuineFiles
  <1> HIDE DEF c
  <1>2. /\ c.ci = issued[c.sigma] /\ c.sigma \in Key
        /\ c.rho = [key |-> c.sigma, by |-> c.issuer, id |-> calculate_id_hash(c.ci)]
        /\ c.sig = libpla_sign(c.sigma, cert_to_bin(c.issuer, c.rho, c.ci))
    BY <1>1 DEF GenuineCert
  <1>3. libpla_verify(c.sig, c.rho, c.issuer, cert_to_bin(c.issuer, c.rho, c.ci),
                      calculate_id_hash(c.ci))
    BY <1>2 DEF libpla_verify, libpla_sign
  <1>4. c.ci \in CertInfo /\ now \in Int
    BY <1>2, PLAAssumption DEF Genuine, Counters, Limits, Key
  <1>5. c.ci.notBefore <= now /\ now <= c.ci.notAfter
    BY <1>2, <1>4 DEF CertInfo, c
  <1> QED
    BY <1>3, <1>5 DEF cert_verify, c

LEMMA GenuineInvariant ==
  ASSUME ValidInWinter
  PROVE  Spec => []Genuine
  <1>1. Genuine /\ [Next]_vars => Genuine'
    BY NextGenuine
  <1> QED
    BY <1>1, InitGenuine, PTL DEF Spec

\* What libpla signs, the PLA element and the applications accept, while its
\* timestamp and its number are good and under the rid its certificate is tied
\* to and no other: for every size of the window, any certificates created,
\* issued by others, written, read and deleted, and whatever the network does.
\* No validity time is under daylight saving, where the files do not keep it.
THEOREM SignedIsAccepted ==
  ASSUME ValidInWinter
  PROVE  Spec => []PacketsVerify
  <1>1. Genuine => PacketsVerify
    BY TypesFollow, PacketsFollow DEF PacketsVerify
  <1> QED
    BY <1>1, GenuineInvariant, PTL

\* A certificate in its file verifies while it is valid, on the same condition.
THEOREM FilesVerify ==
  ASSUME ValidInWinter
  PROVE  Spec => []CertificatesVerify
  BY CertificatesFollow, GenuineInvariant, PTL

==============================================================================
