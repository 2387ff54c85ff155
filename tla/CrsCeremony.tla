---------------------------- MODULE CrsCeremony ----------------------------
(***************************************************************************)
(* The powers-of-tau ceremony that makes the hinTS reference string:       *)
(* PowersOfTauProtocol (setup.rs) behind initCRS, updateCRS, verifyCRS and *)
(* pruneCRS (jni_crs.rs, HintsLibraryBridge.java).                         *)
(*                                                                         *)
(* The library keeps no state.  A coordinator, external code, holds the    *)
(* current CRS and adopts what verifyCRS accepts; contributors fetch it,   *)
(* add their secret, and publish.  By then the CRS may have moved on, and  *)
(* what is delivered may be damaged or carry another contribution's proof. *)
(*                                                                         *)
(* A group element is its exponent in a small prime field, and a pairing   *)
(* multiplies exponents.  Challenges are random: an equation between two   *)
(* polynomials in them holds exactly if their coefficients agree.  A call  *)
(* returns {} for null or Err and {value} otherwise.                       *)
(***************************************************************************)
EXTENDS Lists

CONSTANTS
    Prime,             \* the order of the groups
    MAX_SIGNERS_NUM,   \* 63 in HintsLibraryBridge
    SignersNums,       \* the sizes callers ask for
    Contributors,
    Seeds,             \* <<r, z>>: what a seed expands to
    MaxContributions   \* bound: contributions published

F == 0 .. Prime - 1

ASSUME CeremonyAssumption ==
    /\ Prime \in Nat \ {0, 1}
    /\ \A a, b \in F \ {0} : (a * b) % Prime # 0    \* it is prime
    /\ MAX_SIGNERS_NUM \in Nat
    /\ SignersNums \subseteq Int
    /\ Seeds \subseteq F \X F
    /\ MaxContributions \in Nat

VARIABLES
    crs,            \* the coordinator's current CRS
    held,           \* [Contributors -> SUBSET CRS]: what each fetched last, if anything
    contributions,  \* [crs, proof, r]: everything published, with its secret
    factors         \* history: the secrets of the contributions adopted, in order

vars == <<crs, held, contributions, factors>>

-----------------------------------------------------------------------------
\* A scalar times a point, and a pairing of two points, on their exponents.
Mul(a, b) == (a * b) % Prime

\* t^0, t^1, ...
Pow(t) ==
    LET p[i \in 0 .. MAX_SIGNERS_NUM + 1] == IF i = 0 THEN 1 ELSE Mul(t, p[i - 1])
    IN  p

\* Two towers of powers, indexed from 0; index 0 holds the generator.
TowerLen(tower) == Cardinality(DOMAIN tower)
PowersOf(t, degree) == [i \in 0 .. degree |-> Pow(t)[i]]

\* Bytes that are no serialized CRS.
Unreadable == [g |-> <<>>, h |-> <<>>]
deserialize_jbyte_array(bytes) == {c \in {bytes} : c # Unreadable}

\* validate_crs_tower_lengths returns Ok.
validate_crs_tower_lengths(prev, next) ==
    /\ TowerLen(prev.g) >= 3
    /\ TowerLen(prev.g) = TowerLen(next.g)
    /\ TowerLen(prev.h) = TowerLen(next.h)
    /\ TowerLen(prev.g) = TowerLen(prev.h)

\* PowersOfTauProtocol::init: tau = 1.
init(degree) == [g |-> [i \in 0 .. degree |-> 1], h |-> [i \in 0 .. degree |-> 1]]

\* A mutant: the slice ends before new_degree.
PruneExclusive(c, new_degree) ==
    IF validate_crs_tower_lengths(c, c) /\ new_degree < TowerLen(c.g)
    THEN {[g |-> [i \in 0 .. new_degree - 1 |-> c.g[i]],
           h |-> [i \in 0 .. new_degree - 1 |-> c.h[i]]]}
    ELSE {}

prune_crs(c, new_degree) ==
    IF validate_crs_tower_lengths(c, c) /\ new_degree < TowerLen(c.g)
    THEN {[g |-> [i \in 0 .. new_degree |-> c.g[i]],
           h |-> [i \in 0 .. new_degree |-> c.h[i]]]}
    ELSE {}

\* random_oracle: the challenge is its transcript.
random_oracle(prev_p1, next_p1, p1_mul_z) == <<prev_p1, next_p1, p1_mul_z>>

\* schnorr_nizk: the response z + e * r is kept as its two coefficients next
\* to the challenge e.
schnorr_nizk(prev_p1, next_p1, r, z) ==
    LET p1_mul_z == Mul(prev_p1, z)
    IN  [p1_mul_z |-> p1_mul_z, z |-> z, r |-> r,
         e |-> random_oracle(prev_p1, next_p1, p1_mul_z)]

\* A mutant: the second tower is left as it was.
ContributeToOneTower(c, r, z) ==
    IF validate_crs_tower_lengths(c, c)
    THEN LET next == [c EXCEPT !.g = [i \in DOMAIN @ |-> Mul(@[i], Pow(r)[i])]]
         IN  {[crs |-> next, proof |-> schnorr_nizk(c.g[1], next.g[1], r, z), r |-> r]}
    ELSE {}

\* PowersOfTauProtocol::contribute.
contribute(c, r, z) ==
    IF validate_crs_tower_lengths(c, c)
    THEN LET next == [g |-> [i \in DOMAIN c.g |-> Mul(c.g[i], Pow(r)[i])],
                      h |-> [i \in DOMAIN c.h |-> Mul(c.h[i], Pow(r)[i])]]
         IN  {[crs |-> next, proof |-> schnorr_nizk(c.g[1], next.g[1], r, z), r |-> r]}
    ELSE {}

\* prev_p1 * (z + e' r) = p1_mul_z + e * next_p1, coefficient by coefficient.
check1(prev_p1, next_p1, proof) ==
    LET e == random_oracle(prev_p1, next_p1, proof.p1_mul_z)
    IN  /\ Mul(prev_p1, proof.z) = proof.p1_mul_z
        /\ IF e = proof.e
           THEN Mul(prev_p1, proof.r) = next_p1
           ELSE Mul(prev_p1, proof.r) = 0 /\ next_p1 = 0

\* A mutant, which is what _check2_unoptimized computes: neighbours only.
Check2OfNeighbours(c) ==
    \A i \in 0 .. TowerLen(c.g) - 2 :
        Mul(c.g[i + 1], c.h[i]) = Mul(c.g[i], c.h[i + 1])

\* The coefficient of rho1^i rho2^j on both sides of the pairing equation.
check2(c) ==
    \A i, j \in 0 .. TowerLen(c.g) - 2 :
        Mul(c.g[i + 1], c.h[j]) = Mul(c.g[i], c.h[j + 1])

check3(c) == c.g[0] = 1 /\ c.h[0] = 1 /\ c.g[1] # 0 /\ c.h[1] # 0

verify_contribution(prev, next, proof) ==
    /\ validate_crs_tower_lengths(prev, next)
    /\ check1(prev.g[1], next.g[1], proof)
    /\ check2(next)
    /\ check3(next)

-----------------------------------------------------------------------------
\* The native entry points: null or false when an argument cannot be read.
initCRSImpl(signersNum) == {init(signersNum)}

updateCRSImpl(prevCRS, seed) ==
    UNION {contribute(prev, seed[1], seed[2]) : prev \in deserialize_jbyte_array(prevCRS)}

verifyCRSImpl(prevCRS, nextCRS, contributionProof) ==
    \E prev \in deserialize_jbyte_array(prevCRS), next \in deserialize_jbyte_array(nextCRS) :
        verify_contribution(prev, next, contributionProof)

pruneCRSImpl(prevCRS, signersNum) ==
    UNION {prune_crs(prev, signersNum) : prev \in deserialize_jbyte_array(prevCRS)}

initCRS(signersNum) ==
    IF signersNum >= 1 /\ signersNum <= MAX_SIGNERS_NUM + 1
    THEN initCRSImpl(signersNum)
    ELSE {}

pruneCRS(prevCRS, signersNum) ==
    IF signersNum >= 1 /\ signersNum <= MAX_SIGNERS_NUM + 1
    THEN pruneCRSImpl(prevCRS, signersNum)
    ELSE {}

\* updateCRS and verifyCRS check that their arrays are there and not empty, and
\* that the seed has 32 bytes, before they call the native side; so it is here.
updateCRS(prevCRS, seed) == updateCRSImpl(prevCRS, seed)

verifyCRS(prevCRS, nextCRS, contributionProof) ==
    verifyCRSImpl(prevCRS, nextCRS, contributionProof)

-----------------------------------------------------------------------------
\* Element i of one tower damaged, or of both alike: its maker got it wrong.
DamagedAt(c, i, v) ==
    LET g == [c.g EXCEPT ![i] = v]
        h == [c.h EXCEPT ![i] = v]
    IN  {[g |-> g, h |-> c.h], [g |-> c.g, h |-> h], [g |-> g, h |-> h]}

\* What may become of a CRS on its way: it is unreadable, a tower is cut
\* short, or an element is damaged.
Damaged(c) ==
    {Unreadable, [g |-> c.g, h |-> [i \in 0 .. TowerLen(c.g) - 2 |-> c.h[i]]]}
    \cup UNION {UNION {DamagedAt(c, i, v) : v \in F} : i \in DOMAIN c.g}

\* What the coordinator may be handed: perhaps damaged, perhaps with the proof
\* of another contribution.
Delivered ==
    {[crs |-> c, by |-> q] : c \in UNION {Damaged(p.crs) : p \in contributions},
                             q \in contributions}

Init ==
    /\ crs \in UNION {initCRS(k) : k \in SignersNums}
    /\ held = [a \in Contributors |-> {}]
    /\ contributions = {}
    /\ factors = <<>>

Fetch(a) ==
    /\ held' = [held EXCEPT ![a] = {crs}]
    /\ UNCHANGED <<crs, contributions, factors>>

\* updateCRS on the CRS fetched last.
Contribute(a) ==
    /\ Cardinality(contributions) < MaxContributions
    /\ \E c \in held[a], seed \in Seeds : \E made \in updateCRS(c, seed) :
          contributions' = contributions \cup {made}
    /\ held' = [held EXCEPT ![a] = {}]
    /\ UNCHANGED <<crs, factors>>

\* The coordinator adopts a CRS that verifyCRS accepts on top of its own.
Adopt ==
    /\ \E d \in Delivered :
        /\ verifyCRS(crs, d.crs, d.by.proof)
        /\ crs' = d.crs
        /\ factors' = Append(factors, d.by.r)
    /\ UNCHANGED <<held, contributions>>

Prune(k) ==
    /\ crs' \in pruneCRS(crs, k)
    /\ UNCHANGED <<held, contributions, factors>>

Next ==
    \/ \E a \in Contributors : Fetch(a) \/ Contribute(a)
    \/ Adopt
    \/ \E k \in SignersNums : Prune(k)

Spec == Init /\ [][Next]_vars

-----------------------------------------------------------------------------
Degree == TowerLen(crs.g) - 1

\* The product of the secrets adopted.
Tau == FoldLeft(Mul, 1, factors)

\* Whatever was delivered, stale, damaged or with another's proof, the current
\* CRS is the two towers of powers of one tau, and tau is the product of the
\* secrets whose proofs were accepted, none of them zero: no contributor's
\* secret is lost, and nobody else's is in it.
TauIsTheProductOfSecrets ==
    /\ crs = [g |-> PowersOf(Tau, Degree), h |-> PowersOf(Tau, Degree)]
    /\ Tau # 0

\* A contribution to the current CRS, by anyone whose secret is not zero,
\* verifies, however often the CRS was updated and pruned before.
FreshContributionsVerify ==
    Degree >= 2 =>
        \A seed \in Seeds :
            /\ updateCRS(crs, seed) # {}
            /\ \A made \in updateCRS(crs, seed) :
                  verifyCRS(crs, made.crs, made.proof) <=> seed[1] # 0

\* A ceremony can be checked at the size a network uses: pruning both sides of
\* an accepted contribution leaves it accepted, and pruning before or after a
\* contribution gives the same CRS.
PruningCommutes ==
    \A k \in (SignersNums \cap 2 .. Degree) : \A small \in pruneCRS(crs, k) :
        /\ \A seed \in Seeds : \A made \in updateCRS(crs, seed) :
              {m.crs : m \in updateCRS(small, seed)} = pruneCRS(made.crs, k)
        /\ \A d \in Delivered :
              verifyCRS(crs, d.crs, d.by.proof) =>
                 \E next \in pruneCRS(d.crs, k) : verifyCRS(small, next, d.by.proof)
=============================================================================
