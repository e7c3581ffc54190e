-------------------------- MODULE MCEllipticCurve --------------------------
(***************************************************************************)
(* Every operation of gnb.c and ec.c on a curve over GF(2^7), compared     *)
(* with a reference.  A state is one call, with its arguments and its      *)
(* result; a key is created, used to sign and the signature verified in    *)
(* three calls.                                                            *)
(***************************************************************************)
EXTENDS EllipticCurve

CONSTANTS Nonces, Messages, Identities, TrustedKey

VARIABLE call

MCIdentities == {{1, 4}, {0, 2, 3}}
MCHash(m, v) == (11 * m + 5 * elem_to_int(v) + 3) % 256

MCRule ==
  0 :> <<1, 0, 0, 0>> @@ 1 :> <<0, 2, 5, 6>> @@ 2 :> <<1, 3, 4, 5>> @@ 3 :> <<2, 5, 0, 0>>
  @@ 4 :> <<2, 6, 0, 0>> @@ 5 :> <<1, 2, 3, 6>> @@ 6 :> <<1, 4, 5, 6>>
MCG == <<{0, 1, 3}, {2, 4, 5}>>

(* The whole group, as multiples of a point that generates it. *)
GroupOrder == 2 * order
Generator == <<{0, 1}, {5, 6}>>
Times[k \in 0 .. GroupOrder - 1] ==
  IF k = 0 THEN infinity ELSE ec_add(Times[k - 1], Generator)
Multiple == Tabulated(Times)
GeneratesCurve == {Multiple[k] : k \in DOMAIN Multiple} = Curve
BasePointIsGood == G \in ec_random_point_largeorder
BasePoint == CHOOSE i \in 0 .. GroupOrder - 1 : Multiple[i] = G
TimesG(k) == Multiple[(k * BasePoint) % GroupOrder]

TimesTheta(a, t) == gnb_multiply(a, {t})
PublicKey == ec_keygen(TrustedKey)

NoCall == call = [op |-> "none"]

Called(op, args, result) ==
  call' = [op |-> op, args |-> args, result |-> result]

Multiply ==
  \E a, b \in Elem :
    Cardinality(a) <= 2 /\ Called("multiply", <<a, b>>, gnb_multiply(a, b))
Invert == \E a \in Elem : Called("invert", <<a>>, gnb_inverse(a))
Rotate ==
  \E a \in Elem, n \in 0 .. 2 * DEGREE :
    Called("rotate", <<a, n>>, Coefficients(elem_rrotate_n(Words(a), n)))
Add ==
  \E i, j \in 0 .. GroupOrder - 1 :
    /\ i % 3 = 0
    /\ Called("add", <<i, j>>, ec_add(Multiple[i], Multiple[j]))
Projective(p, z) == <<gnb_multiply(p[1], z), gnb_multiply(p[2], gnb_square(z)), z>>
SumAndDifference(p, q) == <<ec_normalize(ec_add_ld(p, q)), ec_normalize(ec_sub_ld(p, q))>>
AddProjective ==
  \E i, j \in 1 .. GroupOrder - 1, z \in {gnb_one, {0}, {1, 3}} :
    /\ i % 4 = 2
    /\ Called("add_ld", <<i, j>>,
              SumAndDifference(Projective(Multiple[i], z), Projective(Multiple[j], gnb_one)))
ScalarMultiply ==
  \E k \in 0 .. order - 1 :
    Called("times", <<k>>,
           <<ec_multiply(G, k), ec_multiply_binary(G, k), ec_multiply_addsub(G, k)>>)
Compress ==
  \E p \in {q \in Curve : q[1] # gnb_zero} :
    Called("compress", p, ec_decompress_point(p[1], ec_compress_point(p)))
RandomPoint ==
  \/ \E p \in ec_random_point : Called("random", <<>>, p)
  \/ \E p \in ec_random_point_largeorder : Called("largeorder", <<>>, p)

SignPlain ==
  \E s, u \in Nonces, f \in Messages :
    \/ Called("nr", <<s, f>>, ec_sign_nr(s, f, u))
    \/ Called("dsa", <<s, f>>, ec_sign_dsa(s, f, u))

(* Signatures whose c or d is zero are drawn again. *)
VerifyPlain ==
  \/ /\ call.op = "nr" /\ call.result.c # 0
     /\ Called("signature", call.args,
               ec_verify_nr(call.args[2], call.result, ec_keygen(call.args[1])))
  \/ /\ call.op = "dsa" /\ call.result.c # 0 /\ call.result.d # 0
     /\ Called("signature", call.args,
               ec_verify_dsa(call.args[2], call.result, ec_keygen(call.args[1])))

CreateKey ==
  \E k, kT \in Nonces, hid \in Identities :
    Called("key", <<k, kT, hid>>, ec_create_key(k, kT, hid, TrustedKey))
Sign ==
  /\ call.op = "key"
  /\ \E k \in Nonces, m \in Messages :
       call' = [op |-> "signed", args |-> <<call.args, call.result, m>>,
                result |-> ec_sign_self(m, call.result.private, k)]
Verify ==
  /\ call.op = "signed"
  /\ call' = [op |-> "verified", args |-> call.args,
              result |-> ec_verify_self(call.result, call.args[2], call.args[3],
                                        call.args[1][3], PublicKey)]

Calls ==
  \/ /\ call.op = "none"
     /\ \/ Multiply \/ Invert \/ Rotate \/ Add \/ AddProjective \/ ScalarMultiply
        \/ Compress \/ RandomPoint \/ SignPlain \/ CreateKey
  \/ VerifyPlain \/ Sign \/ Verify

-----------------------------------------------------------------------------
(* The product of gnb_multiply is that of a field: linear in each argument *)
(* and commutative, squaring is the rotation, gnb_one is neutral,          *)
(* multiplying by basis elements associates, and gnb_inverse inverts.      *)
FieldLaws ==
  /\ call.op = "multiply" =>
       LET a == call.args[1]
           b == call.args[2]
           c == call.result
       IN  /\ c = gnb_multiply(b, a)
           /\ a = b => c = gnb_square(a)
           /\ b = gnb_one => c = a
           /\ \A t \in Index :
                /\ gnb_add(c, TimesTheta(a, t)) = gnb_multiply(a, gnb_add(b, {t}))
                /\ TimesTheta(c, t) = gnb_multiply(a, TimesTheta(b, t))
  /\ call.op = "invert" /\ call.args[1] # gnb_zero =>
       gnb_multiply(call.args[1], call.result) = gnb_one

(* Rotating by n places on machine words, the unused bits of the last one  *)
(* included, is n single rotations.                                        *)
RotationsCompose ==
  call.op = "rotate" =>
    call.result = {(i + call.args[2]) % DEGREE : i \in call.args[1]}

(* ec_add is the addition of the cyclic group of the curve's points, but   *)
(* for a point and its negative; the base point can have been drawn by     *)
(* ec_random_point_largeorder.                                             *)
AdditionIsTheGroups ==
  /\ GeneratesCurve /\ BasePointIsGood
  /\ call.op = "add" /\ (call.args[1] + call.args[2]) % GroupOrder # 0 =>
       /\ call.result = Multiple[(call.args[1] + call.args[2]) % GroupOrder]
       /\ call.result \in Curve

(* The projective addition agrees with it, whatever the Z of the first     *)
(* point, but where it doubles; and a point minus itself is infinity.      *)
ProjectiveAgrees ==
  call.op = "add_ld" =>
    LET i == call.args[1]
        j == call.args[2]
    IN  /\ i # j => call.result[1] = Multiple[(i + j) % GroupOrder]
        /\ (i + j) % GroupOrder # 0 =>
             call.result[2] = Multiple[(i - j) % GroupOrder]

(* The tau-adic multiplication, with its approximate division, and the two *)
(* others compute k times the base point.                                  *)
MultiplicationsAgree ==
  call.op = "times" => \A i \in 1 .. 3 : call.result[i] = TimesG(call.args[1])

(* A point is recovered from its x and its compression bit. *)
CompressionRoundTrips == call.op = "compress" => call.result = call.args

(* Points drawn at random are on the curve, and those of large order are   *)
(* in the subgroup of the base point.                                      *)
RandomPointsAreGood ==
  /\ call.op = "random" => call.result \in Curve \ {infinity}
  /\ call.op = "largeorder" =>
       /\ call.result \in {TimesG(k) : k \in Scalar}
       /\ ec_multiply(call.result, order) = infinity

(* A signature made with a key verifies: Nyberg-Rueppel, DSA, and the      *)
(* signature of PLA with the key extracted from the implicit certificate.  *)
(* The sums that ec_add gets wrong are left out: shares of the key that    *)
(* cancel, and the private key zero.                                       *)
SignaturesVerify ==
  /\ call.op = "signature" => call.result
  /\ call.op = "verified" =>
       LET shares == call.args[1]
       IN  (shares[1] + shares[2]) % order # 0 /\ call.args[2].private # 0 => call.result

(* Together: the operations on words and coordinates are those of the      *)
(* field, of the curve and of its group, up to the signatures.             *)
CurveLaws ==
  /\ FieldLaws /\ RotationsCompose
  /\ AdditionIsTheGroups /\ ProjectiveAgrees /\ MultiplicationsAgree
  /\ CompressionRoundTrips /\ RandomPointsAreGood /\ SignaturesVerify
=============================================================================
