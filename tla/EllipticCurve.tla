--------------------------- MODULE EllipticCurve ---------------------------
(***************************************************************************)
(* The elliptic curve part of libpla (src/addons/libpla/src/ec.c): the     *)
(* Koblitz curve y^2 + xy = x^3 + x^2 + 1 over GF(2^DEGREE), its group law *)
(* in affine and in Lopez-Dahab coordinates, three ways of scalar          *)
(* multiplication, point compression, and the signatures built on them.    *)
(*                                                                         *)
(* The code is run on small fields: DEGREE, W, T and the precision C of    *)
(* the approximate division are parameters.  A fraction with denominator   *)
(* 2^C is its numerator.  The hash function (OpenSSL) is any function, the *)
(* random numbers are arguments, and multiplying in hardware is left out.  *)
(***************************************************************************)
EXTENDS Gnb

CONSTANTS C, Hash(_, _), G

infinity == <<gnb_zero, gnb_zero>>
(* ec_init copies gnb_one into its first coordinate before gnb_init has    *)
(* set gnb_one, so it is zero.                                             *)
infinity_ld == <<gnb_zero, gnb_zero, gnb_zero>>

Inv(b) == InverseTable[b]
Sum3(a, b, c) == gnb_add(a, gnb_add(b, c))

(* ec_is_point_on_curve compares the two sides of the equation. *)
OnCurve(x, y) ==
  gnb_add(gnb_multiply(x, y), gnb_square(y))
    = Sum3(gnb_multiply(gnb_square(x), x), gnb_square(x), gnb_one)
Curve == {p \in Elem \X Elem : OnCurve(p[1], p[2])} \cup {infinity}

(* The third point on the line through p1 with this slope. *)
ThirdPoint(slope, dx, p1) ==
  LET x == gnb_add(Sum3(gnb_one, slope, gnb_square(slope)), dx)
  IN  <<x, Sum3(gnb_multiply(gnb_add(p1[1], x), slope), x, p1[2])>>

\* Mutant: equal points are not doubled.
NeverDoubles_ec_add(p0, p1) ==
  LET dx == gnb_add(p0[1], p1[1])
  IN  CASE p0 = infinity -> p1
        [] p1 = infinity -> p0
        [] OTHER -> ThirdPoint(gnb_multiply(Inv(dx), gnb_add(p0[2], p1[2])), dx, p1)

(* Points with the same x are doubled, whatever their y. *)
ec_add(p0, p1) ==
  LET dx == gnb_add(p0[1], p1[1])
      slope == IF dx # gnb_zero THEN gnb_multiply(Inv(dx), gnb_add(p0[2], p1[2]))
               ELSE gnb_add(p1[1], gnb_multiply(p1[2], Inv(p1[1])))
  IN  IF p0 = infinity THEN p1
      ELSE IF p1 = infinity THEN p0
      ELSE IF dx = gnb_zero /\ p1[1] = gnb_zero THEN infinity
      ELSE ThirdPoint(slope, dx, p1)

Negative(p) == <<p[1], gnb_add(p[1], p[2])>>
ec_sub(p0, p1) == ec_add(p0, Negative(p1))

-----------------------------------------------------------------------------
(* Lopez-Dahab coordinates: x = X/Z, y = Y/Z^2. *)

\* Mutant: both coordinates are divided by Z.
Linear_ScaledBy(p, z) == <<gnb_multiply(p[1], z), gnb_multiply(p[2], z)>>

ScaledBy(p, z) == <<gnb_multiply(p[1], z), gnb_multiply(p[2], gnb_square(z))>>
ec_normalize(p) == ScaledBy(p, Inv(p[3]))

(* t2 is still X^2 where the multiplication by b was commented out. *)
ec_double_ld(p) ==
  LET t2 == gnb_square(p[1])
      z == gnb_multiply(gnb_square(p[3]), t2)
      x == gnb_add(gnb_square(t2), t2)
      t1 == Sum3(gnb_square(p[2]), z, t2)
  IN  IF p = infinity_ld THEN infinity_ld
      ELSE <<x, gnb_add(gnb_multiply(x, t1), gnb_multiply(t2, z)), z>>

(* q is affine, that is q[3] = gnb_one, or infinity. *)
ec_add_ld(p, q) ==
  LET z2 == gnb_square(p[3])
      a == gnb_add(p[1], gnb_multiply(p[3], q[1]))
      b == gnb_add(p[2], gnb_multiply(z2, q[2]))
      c == gnb_multiply(p[3], a)
      z == gnb_square(c)
      d == gnb_multiply(c, b)
      x == Sum3(gnb_multiply(gnb_square(a), gnb_add(c, z2)), gnb_square(b), d)
      e == gnb_add(gnb_multiply(q[1], z), x)
  IN  IF q = infinity_ld THEN p
      ELSE IF p = infinity_ld THEN q
      ELSE IF a = gnb_zero THEN IF b = gnb_zero THEN ec_double_ld(q) ELSE infinity_ld
      ELSE <<x, gnb_add(gnb_multiply(gnb_add(d, z), e),
                        gnb_multiply(gnb_square(z), gnb_add(q[1], q[2]))), z>>

Negative_ld(q) == <<q[1], gnb_add(q[1], q[2]), q[3]>>
ec_sub_ld(p, q) == ec_add_ld(p, Negative_ld(q))

-----------------------------------------------------------------------------
(* Arithmetic in Z[tau] (Solinas). *)

U[i \in 0 .. DEGREE + 3] == IF i < 2 THEN i ELSE U[i - 1] - 2 * U[i - 2]
V[i \in 0 .. DEGREE + 3] == IF i < 2 THEN 2 - i ELSE V[i - 1] - 2 * V[i - 2]

s0 == (1 - U[DEGREE + 2]) \div 2
s1 == -((1 - U[DEGREE + 1]) \div 2)
Vm == V[DEGREE]
order == (2^DEGREE + 1 - Vm) \div 2

(* The integer next to n / d. *)
tau_round1(n, d) == (2 * n + d) \div (2 * d)

tau_round(l0, l1) ==
  LET one == 2^C
      f0 == tau_round1(l0, one)
      f1 == tau_round1(l1, one)
      eta0 == l0 - f0 * one
      eta1 == l1 - f1 * one
      eta == 2 * eta0 + eta1
      above == IF eta >= one THEN IF eta0 - 3 * eta1 < -one THEN <<0, 1>> ELSE <<1, 0>>
               ELSE IF eta0 + 4 * eta1 >= 2 * one THEN <<0, 1>> ELSE <<0, 0>>
      h == IF eta < -one THEN IF eta0 - 3 * eta1 >= one THEN <<above[1], -1>> ELSE <<-1, above[2]>>
           ELSE IF eta0 + 4 * eta1 < -2 * one THEN <<above[1], -1>> ELSE above
  IN  <<f0 + h[1], f1 + h[2]>>

tau_approx_div(n, si) ==
  LET K == (DEGREE + 5) \div 2 + C
      g == si * (n \div 2^(DEGREE - K - 1))
  IN  tau_round1(g + Vm * (g \div 2^DEGREE), 2^(K - C))

tau_red_mod(n) ==
  LET q == tau_round(tau_approx_div(n, s0), tau_approx_div(n, s1))
  IN  <<n - (s0 + s1) * q[1] - 2 * s1 * q[2], s1 * q[1] - s0 * q[2]>>

RECURSIVE TauLoop(_, _, _, _)
TauLoop(q, p, r0, r1) ==
  LET u == IF r0 % 2 = 0 THEN 0 ELSE 2 - ((r0 - 2 * r1) % 4)
      half == (r0 - u) \div 2
  IN  IF r0 = 0 /\ r1 = 0 THEN q
      ELSE TauLoop(IF u = 0 THEN q ELSE ec_add_ld(q, IF u = 1 THEN p ELSE Negative_ld(p)),
                   <<gnb_square(p[1]), gnb_square(p[2]), gnb_square(p[3])>>,
                   r1 + half, -half)

ec_multiply_tau(p0, k) ==
  LET r == tau_red_mod(k) IN TauLoop(infinity_ld, <<p0[1], p0[2], gnb_one>>, r[1], r[2])

\* Mutant: the point is not negated with the scalar.
KeepsSign_ec_multiply(p0, ko) ==
  LET k == ko % order
  IN  ec_normalize(ec_multiply_tau(p0, IF k > order \div 2 THEN order - k ELSE k))

ec_multiply(p0, ko) ==
  LET k == ko % order
      large == k > order \div 2
  IN  ec_normalize(ec_multiply_tau(IF large THEN Negative(p0) ELSE p0,
                                   IF large THEN order - k ELSE k))

RECURSIVE ec_multiply_binary(_, _)
ec_multiply_binary(p0, k) ==
  IF k = 0 THEN infinity
  ELSE LET q == ec_multiply_binary(p0, k \div 2)
           d == ec_add(q, q)
       IN  IF k % 2 = 1 THEN ec_add(d, p0) ELSE d

RECURSIVE AddSubLoop(_, _, _)
AddSubLoop(q, p, c) ==
  LET u == IF c % 2 = 0 THEN 0 ELSE 2 - (c % 4)
      sum == CASE u = 1 -> ec_add(q, p) [] u = -1 -> ec_sub(q, p) [] OTHER -> q
  IN  IF c <= 0 THEN q ELSE AddSubLoop(sum, ec_add(p, p), (c - u) \div 2)
ec_multiply_addsub(p0, k) == AddSubLoop(infinity, p0, k)

-----------------------------------------------------------------------------
(* Points from x coordinates (P1363 A.4.7, A.11.2, A.12.9). *)

(* z with z^2 + z = beta and z_0 = 0; zero also when there is none. *)
ec_solve_quad(beta) ==
  LET z == {i \in 1 .. DEGREE - 1 : Cardinality({j \in 1 .. i : j \in beta}) % 2 = 1}
  IN  IF gnb_add(gnb_square(z), z) = beta THEN z ELSE gnb_zero

Alpha(x) == Sum3(gnb_multiply(gnb_square(x), x), gnb_square(x), gnb_one)
Beta(x) == gnb_multiply(Inv(gnb_square(x)), Alpha(x))

ec_compress_point(p) == elem_getcoef(gnb_multiply(Inv(p[1]), p[2]), 0)

\* Mutant: always the first of the two solutions.
IgnoresBit_ec_decompress_point(x, y) == <<x, gnb_multiply(ec_solve_quad(Beta(x)), x)>>

ec_decompress_point(x, y) ==
  LET z == ec_solve_quad(Beta(x))
  IN  <<x, gnb_multiply(IF elem_getcoef(z, 0) # y THEN gnb_add(z, gnb_one) ELSE z, x)>>

\* Mutant: the root of another x is taken.
TakesZero_ec_random_point ==
  {<<x, gnb_multiply(z, x)>> : x \in Elem \ {gnb_zero}, z \in {ec_solve_quad(Beta(y)) : y \in Elem}}

(* Every point the random choices of x and of the bit mu can lead to. *)
ec_random_point ==
  LET xs == {x \in Elem \ {gnb_zero} : Alpha(x) # gnb_zero /\ ec_solve_quad(Beta(x)) # gnb_zero}
  IN  {<<x, gnb_multiply(ec_solve_quad(Beta(x)), x)>> : x \in xs}
        \cup {<<x, gnb_multiply(gnb_add(ec_solve_quad(Beta(x)), gnb_one), x)>> : x \in xs}

ec_random_point_largeorder == {ec_add(p, p) : p \in ec_random_point} \ {infinity}

(* The base point is a table of ec_init. *)
ASSUME BasePointAssumption == G \in Elem \X Elem

-----------------------------------------------------------------------------
(* Keys and signatures.  s, u and k are what mpz_urandomm returned, f the  *)
(* hash of a message as an integer, hid the hash of an identity as a field *)
(* element.                                                                *)

Scalar == 1 .. order - 1
ec_keygen(s) == ec_multiply(G, s)
ModInverse(a) == CHOOSE b \in 0 .. order - 1 : (a * b) % order = 1

ec_sign_nr(s, f, u) ==
  LET c == (elem_to_int(ec_keygen(u)[1]) + f) % order IN [c |-> c, d |-> (u - s * c) % order]

ec_verify_nr(f, cd, w) ==
  LET p == ec_add(ec_multiply(G, cd.d), ec_multiply(w, cd.c))
  IN  (cd.c - elem_to_int(p[1])) % order = f

ec_sign_dsa(s, f, u) ==
  LET c == elem_to_int(ec_keygen(u)[1]) % order
  IN  [c |-> c, d |-> (ModInverse(u) * (f + s * c)) % order]

ec_verify_dsa(f, cd, w) ==
  LET h == ModInverse(cd.d)
      p == ec_add(ec_multiply(G, (f * h) % order), ec_multiply(w, (cd.c * h) % order))
  IN  cd.c = elem_to_int(p[1]) % order

(* The implicit certificate <<rho, b>> and the private key it belongs to. *)
Certified(r, k, kT, hid, ttp) ==
  LET rho == gnb_add(hid, r[1])
  IN  [rho |-> rho, b |-> ec_compress_point(r),
       private |-> (k + ((kT - elem_to_int(rho) * ttp) % order)) % order]
ec_create_key(k, kT, hid, ttp) ==
  Certified(ec_add(ec_keygen(k), ec_keygen(kT)), k, kT, hid, ttp)

ec_sign_self(m, sigma, k) ==
  LET r == Hash(m, ec_keygen(k)[1])
  IN  [r |-> r, s |-> (k - (r % order) * sigma) % order]

\* Mutant: the trusted party's part is added.
AddsKey_ec_verify_self(sig, cert, m, hid, y) ==
  LET eta == ec_add(ec_decompress_point(gnb_add(cert.rho, hid), cert.b),
                    ec_multiply(y, elem_to_int(cert.rho) % order))
  IN  sig.r = Hash(m, ec_add(ec_multiply(G, sig.s), ec_multiply(eta, sig.r % order))[1])

(* eta is the signer's public key; y is the trusted party's. *)
ec_verify_self(sig, cert, m, hid, y) ==
  LET eta == ec_sub(ec_decompress_point(gnb_add(cert.rho, hid), cert.b),
                    ec_multiply(y, elem_to_int(cert.rho) % order))
  IN  sig.r = Hash(m, ec_add(ec_multiply(G, sig.s), ec_multiply(eta, sig.r % order))[1])
=============================================================================
