------------------------------- MODULE Hints -------------------------------
(***************************************************************************)
(* The hinTS threshold signature scheme of hints.rs over a small prime     *)
(* field.  The universe has n slots: parties sit at 0 .. n-2 and slot n-1  *)
(* is reserved.                                                            *)
(*                                                                         *)
(* The secret point tau of the CRS is unknown to everyone, so an identity  *)
(* between commitments says what it says for every tau: a group element is *)
(* its exponent as a function of tau, tabulated at Taus, which has more    *)
(* points than the degree of any polynomial here.  Pairing multiplies the  *)
(* exponents, and a public key, constant in tau, is its scalar.  The       *)
(* points H(m) are independent of each other, so an element they span is   *)
(* its coefficient at each message.  Challenges are random: transcripts    *)
(* give the same ones exactly if they are equal, a merged relation holds   *)
(* exactly if each part does, and an opening is accepted exactly if the    *)
(* claim is the committed polynomial's.                                    *)
(***************************************************************************)
EXTENDS Integers, FiniteSets, FiniteSetsExt, Functions

CONSTANTS
    Prime,      \* the order of the scalar field
    n,          \* the size of the universe, a power of two
    Omega,      \* the n-th root of unity the evaluation domain is made of
    Taus,       \* the points an exponent is tabulated at
    CrsPowers,  \* how many powers of tau the CRS holds in each group
    Messages    \* what may be signed

F == 0 .. Prime - 1
Slots == 0 .. n - 1
Reserved == n - 1

FSum(f) == SumFunction(f) % Prime
Inv == [a \in F \ {0} |-> CHOOSE b \in F : (a * b) % Prime = 1]
Div(a, b) == (a * Inv[b]) % Prime

(***************************************************************************)
(* utils.rs: the domain, its vanishing and Lagrange polynomials            *)
(***************************************************************************)
is_n_valid == n > 1 /\ \E k \in 1 .. n : n = 2^k

Powers[i \in Slots] == IF i = 0 THEN 1 ELSE (Powers[i - 1] * Omega) % Prime

\* x^n - 1 at each tau
compute_vanishing_poly == [t \in Taus |-> (t^n - 1) % Prime]

lagrange_poly ==
    [i \in Slots |-> [t \in Taus |->
        Div(Div(Powers[i], n) * compute_vanishing_poly[t], (t - Powers[i]) % Prime)]]

\* L_i(0), the same for every i
LagrangeAtZero == Inv[n]

\* the commitment to the polynomial with these values on the domain
Commit(evals) ==
    [t \in Taus |-> FSum([i \in Slots |-> evals[i] * lagrange_poly[i][t]])]

\* f(x / omega)
poly_domain_mult(f) == [t \in Taus |-> f[Div(t, Omega)]]

Scale(c, f) == [t \in Taus |-> (c * f[t]) % Prime]
Total(elements) ==
    [t \in Taus |-> FSum([i \in DOMAIN elements |-> elements[i][t]])]

crs_supports == n < CrsPowers

(***************************************************************************)
(* Hints: what a party publishes about its secret for its slot             *)
(***************************************************************************)
\* the quotient by Z of L_i L_j, or of L_i^2 - L_i on the diagonal
QzFactor ==
    [i, j \in Slots |-> [t \in Taus |->
        Div((lagrange_poly[i][t] * lagrange_poly[j][t]
                - (IF i = j THEN lagrange_poly[i][t] ELSE 0)) % Prime,
            compute_vanishing_poly[t])]]

\* L_i(x) - L_i(0), and its quotient by x
QxMulTau(i) == [t \in Taus |-> (lagrange_poly[i][t] - LagrangeAtZero) % Prime]
QxFactor(i) == [t \in Taus |-> Div(QxMulTau(i)[t], t)]

HintsAssumption ==
    /\ Prime \in Nat /\ Prime > n /\ \A a \in 2 .. Prime - 1 : Prime % a # 0
    /\ n \in Nat \ {0} /\ CrsPowers \in Nat
    /\ Omega \in F /\ Cardinality({Powers[i] : i \in Slots}) = n
    /\ (Powers[Reserved] * Omega) % Prime = 1
    /\ Taus \subseteq F \ {0}
    /\ Taus \cap {Powers[i] : i \in Slots} = {}
    /\ \A t \in Taus : Div(t, Omega) \in Taus
    /\ Cardinality(Taus) > 2 * (n - 1)
    /\ lagrange_poly \in [Slots -> [Taus -> F]]
    /\ compute_vanishing_poly \in [Taus -> F \ {0}]
    /\ QzFactor \in [Slots \X Slots -> [Taus -> F]]

ASSUME HintsAssumption

\* The proof of knowledge is the secret: only its holder can make it.
hint_gen(i, sk) ==
    IF ~ is_n_valid \/ i >= n \/ ~ crs_supports THEN {} ELSE
    {[i |-> i, n |-> n, pk |-> sk, pok |-> sk,
      skl_1 |-> Scale(sk, lagrange_poly[i]),
      skl_2 |-> Scale(sk, lagrange_poly[i]),
      qz |-> [j \in Slots |-> Scale(sk, QzFactor[i, j])],
      qx |-> Scale(sk, QxFactor(i)),
      qx_mul_tau |-> Scale(sk, QxMulTau(i))]}

IsZero(f) == \A t \in Taus : f[t] = 0

verify_hint(i, hint) ==
    /\ is_n_valid /\ i < n /\ crs_supports
    /\ hint.i = i /\ hint.n = n
    /\ hint.pk # 0 /\ ~ IsZero(hint.skl_1) /\ ~ IsZero(hint.skl_2)
    /\ ~ IsZero(hint.qx) /\ ~ IsZero(hint.qx_mul_tau)
    /\ \A j \in Slots : ~ IsZero(hint.qz[j])
    /\ hint.pk = hint.pok
    /\ hint.skl_1 = Scale(hint.pk, lagrange_poly[i])
    /\ hint.skl_2 = Scale(hint.pk, lagrange_poly[i])
    /\ \A j \in Slots : hint.qz[j] = Scale(hint.pk, QzFactor[i, j])
    /\ hint.qx = Scale(hint.pk, QxFactor(i))
    /\ hint.qx_mul_tau = Scale(hint.pk, QxMulTau(i))

(***************************************************************************)
(* Preprocessing: the keys of a network, from the hints of its parties     *)
(***************************************************************************)
preprocess_qz_contributions(epks) ==
    [i \in Slots |-> Total([j \in Slots |-> epks[j].qz[i]])]

KeysOf(weights, epks) ==
    [vk |-> [n |-> n, total_weight |-> FSum(weights),
             w |-> Commit(weights),
             sk |-> Total([i \in Slots |-> epks[i].skl_2])],
     ak |-> [n |-> n, weights |-> weights,
             pks |-> [i \in Slots |-> epks[i].pk],
             qz |-> preprocess_qz_contributions(epks),
             qx |-> [i \in Slots |-> epks[i].qx],
             qx_mul_tau |-> [i \in Slots |-> epks[i].qx_mul_tau]]]

\* info maps a party to its weight and hint; a slot without a party gets
\* weight zero and the hint of the zero secret
preprocess(info) ==
    IF \/ ~ is_n_valid
       \/ Cardinality(DOMAIN info) + 1 > n
       \/ \E i \in DOMAIN info : i >= n - 1
       \/ ~ crs_supports
       \/ \E i \in DOMAIN info : ~ verify_hint(i, info[i].hint)
    THEN {}
    ELSE {KeysOf([i \in Slots |-> IF i \in DOMAIN info THEN info[i].weight ELSE 0],
                 [i \in Slots |-> IF i \in DOMAIN info THEN info[i].hint
                                  ELSE CHOOSE h \in hint_gen(i, 0) : TRUE])}

(***************************************************************************)
(* Partial signatures                                                      *)
(***************************************************************************)
hash_to_g2(msg, c) == [m \in Messages |-> IF m = msg THEN c ELSE 0]

sign(msg, sk) == hash_to_g2(msg, sk)

NoSignature == [m \in Messages |-> 0]

\* e(pk, H(m)) = e(g, sig)
SignedBy(pk, msg, sig) == sig = hash_to_g2(msg, pk)

partial_verify(msg, ak, id, sig) ==
    /\ is_n_valid
    /\ id < n - 1
    /\ ak.pks[id] # 0 /\ sig # NoSignature
    /\ SignedBy(ak.pks[id], msg, sig)

(***************************************************************************)
(* Aggregation                                                             *)
(***************************************************************************)
\* A mutant: each sum leaves its own slot out, as in the paper.
running_sumsExclusive(weights, bitmap) ==
    [i \in Slots |-> FSum([j \in 0 .. i - 1 |-> bitmap[j] * weights[j]])]

running_sums(weights, bitmap) ==
    [i \in Slots |-> FSum([j \in 0 .. i |-> bitmap[j] * weights[j]])]

inner_product(elements, bitmap) ==
    Total([i \in {j \in Slots : bitmap[j] = 1} |-> elements[i]])

assemble_witness(ak, sigs) ==
    LET signed == [i \in Slots |-> IF i \in DOMAIN sigs THEN 1 ELSE 0]
        agg_weight == FSum([i \in Slots |-> signed[i] * ak.weights[i]])
        bitmap == [signed EXCEPT ![Reserved] = 1]
    IN  [bitmap |-> bitmap,
         agg_weight |-> agg_weight,
         parsum |-> running_sums([ak.weights EXCEPT ![Reserved] = (- agg_weight) % Prime],
                                 bitmap),
         agg_pk |-> Div(FSum([i \in Slots |-> bitmap[i] * ak.pks[i]]), n),
         agg_sig |-> [m \in Messages |->
                        Div(FSum([i \in DOMAIN sigs |-> sigs[i][m]]), n)],
         qz |-> inner_product(ak.qz, bitmap),
         qx |-> inner_product(ak.qx, bitmap),
         qx_mul_tau |-> inner_product(ak.qx_mul_tau, bitmap)]

\* P1 .. P4 at a point, from the values there of ParSum, ParSum one slot
\* back, W, L_{n-1} and B
Relations(ps, ps_back, w, agg_weight, l, b) ==
    << (ps - ps_back - (w - agg_weight * l) * b) % Prime,
       (b * b - b) % Prime,
       (l * ps) % Prime,
       (l * (b - 1)) % Prime >>

RelationsOver(ps, w, agg_weight, b) ==
    [t \in Taus |-> Relations(ps[t], poly_domain_mult(ps)[t], w[t], agg_weight,
                              lagrange_poly[Reserved][t], b[t])]

\* the relations vanish on the domain, so Z divides their merge
Exact(ak, wit) ==
    \A i \in Slots :
        Relations(wit.parsum[i], wit.parsum[(i - 1) % n], ak.weights[i], wit.agg_weight,
                  IF i = Reserved THEN 1 ELSE 0, wit.bitmap[i]) = <<0, 0, 0, 0>>

\* A mutant: the transcript does not absorb the verification key.
derive_challengesUnbound(vk) == <<>>

\* What the transcript absorbs besides the signature's own elements: two
\* derivations from one signature agree exactly if this does.
derive_challenges(vk) == <<vk>>

\* The claims opened at the challenge: w is W's, which the signature does
\* not commit to; the others are those of the commitments.
prove(ak, vk, wit) ==
    LET b == Commit(wit.bitmap)
        ps == Commit(wit.parsum)
        w == Commit(ak.weights)
        rel == RelationsOver(ps, w, wit.agg_weight, b)
        pi == [agg_pk |-> wit.agg_pk, agg_weight |-> wit.agg_weight,
               agg_sig |-> wit.agg_sig, b |-> b, parsum |-> ps,
               qx |-> wit.qx, qz |-> wit.qz, qx_mul_tau |-> wit.qx_mul_tau,
               q_mrg |-> [t \in Taus |-> [k \in 1 .. 4 |->
                            Div(rel[t][k], compute_vanishing_poly[t])]]]
    IN  [claims |-> [w |-> w, at |-> derive_challenges(vk)], sig |-> pi]

aggregate(ak, vk, sigs) ==
    IF ~ crs_supports \/ ~ is_n_valid \/ \E i \in DOMAIN sigs : i > n - 2 THEN {}
    ELSE LET wit == assemble_witness(ak, sigs)
         IN  IF Exact(ak, wit) THEN {prove(ak, vk, wit)} ELSE {}

(***************************************************************************)
(* Verification                                                            *)
(***************************************************************************)
\* A mutant: the pairing equation is checked for some message.
bls_checkAnyMessage(msg, pi) ==
    \E m \in Messages : SignedBy(pi.agg_pk, m, pi.agg_sig)

bls_check(msg, pi) == SignedBy(pi.agg_pk, msg, pi.agg_sig)

merged_relation_check(pi, w) ==
    LET rel == RelationsOver(pi.parsum, w, pi.agg_weight, pi.b)
    IN  \A t \in Taus : \A k \in 1 .. 4 :
            rel[t][k] = (pi.q_mrg[t][k] * compute_vanishing_poly[t]) % Prime

opening_check(vk, pi, claims) ==
    claims.at = derive_challenges(vk) /\ claims.w = vk.w

sumcheck_check(vk, pi) ==
    \A t \in Taus :
        (pi.b[t] * vk.sk[t]) % Prime
            = (pi.qz[t] * compute_vanishing_poly[t] + pi.qx[t] * t + pi.agg_pk) % Prime

degree_check(pi) == \A t \in Taus : (pi.qx[t] * t) % Prime = pi.qx_mul_tau[t]

verify(msg, vk, signature, numerator, denominator) ==
    LET pi == signature.sig
    IN  /\ is_n_valid
        /\ pi.agg_pk # 0 /\ pi.agg_sig # NoSignature
        /\ (denominator * pi.agg_weight) % Prime > (numerator * vk.total_weight) % Prime
        /\ bls_check(msg, pi)
        /\ merged_relation_check(pi, signature.claims.w)
        /\ opening_check(vk, pi, signature.claims)
        /\ sumcheck_check(vk, pi)
        /\ degree_check(pi)
=============================================================================
