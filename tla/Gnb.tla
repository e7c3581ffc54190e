------------------------------- MODULE Gnb -------------------------------
(***************************************************************************)
(* Arithmetic of GF(2^DEGREE) in a Gaussian normal basis of type T, as     *)
(* src/addons/libpla/src/gnb.c implements it.                              *)
(*                                                                         *)
(* A field element is the set of the indices of its coefficients that are  *)
(* one, so adding is symmetric difference and squaring a rotation.  The    *)
(* rotation by several places works on machine words in the code, with     *)
(* MARGIN unused bits at the end of the last one; it is modelled on words, *)
(* a word being the set of its one bits, bit 0 the most significant.       *)
(***************************************************************************)
EXTENDS Integers, FiniteSets, Sequences, TLC

CONSTANTS DEGREE, T, W, Rule

P == T * DEGREE + 1
MARGIN == (W - (DEGREE % W)) % W
NUMWORDS == (DEGREE + MARGIN) \div W

(* An unused bit is needed by elem_rrotate and by the loop of              *)
(* elem_rrotate_n, which otherwise never ends; an even T makes the padding *)
(* of R cancel, and gnb_multiply names four columns of R.  The three       *)
(* degrees of gnb.h, all of type 4, satisfy this.                          *)
ASSUME GnbAssumption ==
  /\ DEGREE \in Nat \ {0} /\ T \in Nat \ {0} /\ W \in Nat \ {0}
  /\ MARGIN > 0 /\ T % 2 = 0 /\ T >= 4

Index == 0 .. DEGREE - 1
Elem == SUBSET Index

gnb_zero == {}
gnb_one == Index

elem_getcoef(a, i) == IF i \in a THEN 1 ELSE 0
elem_to_int(a) ==
  LET sum[i \in -1 .. DEGREE - 1] ==
        IF i < 0 THEN 0 ELSE sum[i - 1] + elem_getcoef(a, i) * 2^i
  IN  sum[DEGREE - 1]

gnb_add(a, b) == (a \ b) \cup (b \ a)
elem_rrotate(a) == {(i + 1) % DEGREE : i \in a}
gnb_square(a) == elem_rrotate(a)

-----------------------------------------------------------------------------
(* The multiplication rule (gnb_init).                                     *)

(* Functions joined with an empty one are tables to TLC, computed once. *)
Tabulated(f) == f @@ <<>>

gnb_modpow(b, e, m) ==
  LET loop[n \in 0 .. e, x \in 0 .. m] ==
        IF n = 0 THEN 1
        ELSE (loop[n \div 2, (x * x) % m] * (IF n % 2 = 1 THEN x ELSE 1)) % m
  IN  loop[e, b]

gnb_compute_order(g) ==
  LET order[b \in 0 .. P - 1, j \in 1 .. P] ==
        IF b > 1 THEN order[g * b % P, j + 1] ELSE j
  IN  order[g, 1]

(* What the random g of gnb_get_u may lead to. *)
gnb_get_u ==
  {gnb_modpow(g, gnb_compute_order(g) \div T, P) :
     g \in {h \in 2 .. P - 1 : gnb_compute_order(h) % T = 0}}

(* F[n] is the i with n = 2^i u^j, for some j below T. *)
F(u) ==
  [n \in 1 .. P - 1 |->
     CHOOSE i \in Index :
       \E j \in 0 .. T - 1 : (gnb_modpow(2, i, P) * gnb_modpow(u, j, P)) % P = n]

M(f) ==
  [r \in Index |->
     {c \in Index : Cardinality({i \in 1 .. P - 2 : f[P - i] = r /\ f[i + 1] = c}) % 2 = 1}]

(* Row i of R: the columns of the ones in ascending order, then zeros. *)
R(f) ==
  LET rows == Tabulated(M(f))
  IN  [i \in Index |->
         [k \in 1 .. T |->
            IF \E c \in rows[i] : Cardinality({d \in rows[i] : d <= c}) = k
            THEN CHOOSE c \in rows[i] : Cardinality({d \in rows[i] : d <= c}) = k
            ELSE 0]]

(* Rule is the R that gnb_init leaves behind. *)
gnb_init == {R(Tabulated(F(u))) : u \in gnb_get_u}
ASSUME RuleAssumption == Rule \in gnb_init

(* For row i of R the sum of the rotations of b it names: t is in it when  *)
(* an odd number of the columns R[i][k], rotated by t, are in b.  The code *)
(* writes the four terms out, whatever T is.                               *)
RowSum(b, i) ==
  {t \in Index : Cardinality({k \in 1 .. 4 : (Rule[i][k] + t) % DEGREE \in b}) % 2 = 1}

RowSums == Tabulated([p \in Elem \X (Index \ {0}) |-> RowSum(p[1], p[2])])

\* Mutant: row 0 is left out.
OffByOne_Product(a, b) ==
  {t \in Index :
     Cardinality({i \in Index \ {0} : (i + t) % DEGREE \in a /\ t \in RowSums[b, i]}) % 2 = 1}

(* gnb_multiply: row 0 of M has its only one in column 1. *)
Product(a, b) ==
  {t \in Index :
     (Cardinality({i \in Index \ {0} : (i + t) % DEGREE \in a /\ t \in RowSums[b, i]})
      + elem_getcoef(a, t) * elem_getcoef(b, (t + 1) % DEGREE)) % 2 = 1}

ProductTable == Tabulated([a \in Elem |-> Tabulated([b \in Elem |-> Product(a, b)])])
gnb_multiply(a, b) == ProductTable[a][b]

-----------------------------------------------------------------------------
(* Machine words. *)

Word == SUBSET (0 .. W - 1)
ShiftRight(w, k) == {b \in k .. W - 1 : b - k \in w}
ShiftLeft(w, k) == {b \in 0 .. W - 1 - k : b + k \in w}

Words(a) == [j \in 0 .. NUMWORDS - 1 |-> {b \in 0 .. W - 1 : j * W + b \in a}]
Coefficients(v) == {i \in 0 .. NUMWORDS * W - 1 : i % W \in v[i \div W]}

elem_chomp(v) == [v EXCEPT ![NUMWORDS - 1] = @ \cap (0 .. W - 1 - MARGIN)]

elem_reverse_words(v, s, n) ==
  [i \in DOMAIN v |-> IF i \in s .. s + n - 1 THEN v[s + n - 1 - (i - s)] ELSE v[i]]

elem_rotate_words(v, k) ==
  IF k = 0 THEN v
  ELSE elem_reverse_words(
         elem_reverse_words(elem_reverse_words(v, 0, k), k, NUMWORDS - k), 0, NUMWORDS)

(* Words from the last to the first, each taking bits of its predecessor.  *)
(* The words 0 .. n - 1 are changed; the predecessor of word 0 is the last *)
(* one as it was before.                                                   *)
CloseGap(v, n) ==
  elem_chomp(
    [i \in DOMAIN v |->
       IF i < n
       THEN ShiftRight(v[i], MARGIN)
              \cup ShiftLeft(v[(i - 1 + NUMWORDS) % NUMWORDS], W - MARGIN)
       ELSE v[i]])

(* offset is at most MARGIN: the last word moves first, and what it pushed *)
(* into the margin goes to the front.                                      *)
ShiftAll(v, offset) ==
  LET w == [i \in DOMAIN v |->
              ShiftRight(v[i], offset)
                \cup IF i = 0 THEN {} ELSE ShiftLeft(v[i - 1], W - offset)]
  IN  elem_chomp([w EXCEPT ![0] = @ \cup ShiftLeft(w[NUMWORDS - 1], W - MARGIN)])

RECURSIVE ShiftWithin(_, _)
ShiftWithin(v, offset) ==
  LET step == IF offset > MARGIN THEN MARGIN ELSE offset
  IN  IF offset = 0 THEN v ELSE ShiftWithin(ShiftAll(v, step), offset - step)

\* Mutant: the gap that the unused bits leave is not closed.
NoGap_elem_rrotate_n(v, offset) ==
  LET n == offset % DEGREE
  IN  ShiftWithin(elem_rotate_words(v, (NUMWORDS - n \div W) % NUMWORDS), n % W)

elem_rrotate_n(v, offset) ==
  LET n == offset % DEGREE
  IN  ShiftWithin(
        IF n < W THEN v
        ELSE CloseGap(elem_rotate_words(v, NUMWORDS - n \div W), n \div W), n % W)

-----------------------------------------------------------------------------
(* gnb_inverse: b^(2^DEGREE - 2) by the binary digits of DEGREE - 1, from  *)
(* the second most significant one on.                                     *)

Doubled(eta, k) == gnb_multiply(Coefficients(elem_rrotate_n(Words(eta), k)), eta)
WithDigit(eta, digit, b) == IF digit = 1 THEN gnb_multiply(gnb_square(eta), b) ELSE eta

gnb_inverse(b) ==
  LET m == DEGREE - 1
      top == CHOOSE r \in 0 .. m : 2^r <= m /\ m < 2^(r + 1)
      loop[i \in 0 .. top] ==
        IF i = top THEN [eta |-> b, k |-> 1]
        ELSE LET prev == loop[i + 1]
                 digit == (m \div 2^i) % 2
             IN  [eta |-> WithDigit(Doubled(prev.eta, prev.k), digit, b), k |-> 2 * prev.k + digit]
  IN  gnb_square(loop[0].eta)

InverseTable == Tabulated([b \in Elem |-> gnb_inverse(b)])
=============================================================================
