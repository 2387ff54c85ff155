---------------------------- MODULE HintsNetwork ----------------------------
(***************************************************************************)
(* A network that uses hinTS through HintsLibraryBridge.java and           *)
(* jni_hints.rs: it preprocesses the hints of its parties into keys, again *)
(* whenever weights or secrets change, so that keys of several rosters are *)
(* about; parties sign; an aggregator combines whatever partial signatures *)
(* it holds, filed under whatever party it takes them to be from, with any *)
(* aggregation key and any verification key; anyone verifies the result.   *)
(***************************************************************************)
EXTENDS Hints, Sequences

CONSTANTS
    Rosters,    \* the arrays preprocess may be called with: a sequence of
                \* [party, weight, sk, slot], the hint made with sk for slot
    Signings,   \* the pairs of a secret and a message that may get signed
    Fractions,  \* the thresholds, as <<numerator, denominator>>
    MaxSum,     \* MAX_SUM_OF_WEIGHTS
    MaxSigners, \* MAX_SIGNERS_NUM
    MaxFiled,   \* bound: how many partial signatures a call is given
    MaxKeys,    \* bound: how many rosters get preprocessed
    MaxCalls    \* bound: how many calls of aggregateSignatures are remembered

VARIABLES
    keys,       \* the results of preprocess, with the roster they are for
    partials,   \* the partial signatures made
    calls       \* the calls of aggregateSignatures: keys, map and result

vars == <<keys, partials, calls>>

Secrets == {s.sk : s \in Signings}
            \cup UNION {{roster[e].sk : e \in DOMAIN roster} : roster \in Rosters}

\* Products of a weight and a part of a fraction do not reach the order of
\* the field, and no few secrets add up to what others do: both hold of the
\* 255-bit field and of random secrets.
NetworkAssumption ==
    /\ \A f \in Fractions : f[1] > 0 /\ f[2] > 0 /\ f[1] * MaxSum < Prime /\ f[2] * MaxSum < Prime
    /\ Secrets \subseteq F \ {0}
    /\ \A k \in 1 .. n - 1 : \A f \in [1 .. k -> Secrets] : \A S \in SUBSET Secrets :
            FSum(f) = SumSet(S) % Prime => (Range(f) = S /\ Cardinality(S) = k)

ASSUME NetworkAssumption

-----------------------------------------------------------------------------
validateCRS == n > 0 /\ n <= MaxSigners + 1 /\ (n = 1 \/ is_n_valid) /\ CrsPowers >= n + 1

\* a CRS for a larger universe also serves a smaller one
inferNFromCRSLength == CrsPowers - 1

validatePartyId(id, size) == size <= MaxSigners + 1 /\ id >= 0 /\ id < size - 1

validateWeightsSum(roster) ==
    SumFunction([e \in DOMAIN roster |-> roster[e].weight]) <= MaxSum

\* Inserting the entries of the arrays into a map one by one: a later entry
\* for a party replaces an earlier one.
MapOf(roster) ==
    [p \in {roster[e].party : e \in DOMAIN roster} |->
        roster[Max({e \in DOMAIN roster : roster[e].party = p})]]

computeHints(slot, sk) ==
    IF validateCRS /\ validatePartyId(slot, n) THEN hint_gen(slot, sk) ELSE {}

\* HintsLibraryBridge.preprocess and preprocessImpl; {} is null
preprocessed(roster) ==
    IF \/ ~ validateCRS \/ ~ validateWeightsSum(roster) \/ Len(roster) >= n
       \/ \E e \in DOMAIN roster :
            ~ validatePartyId(roster[e].party, n)
                \/ computeHints(roster[e].slot, roster[e].sk) = {}
    THEN {}
    ELSE preprocess([p \in DOMAIN MapOf(roster) |->
            [weight |-> MapOf(roster)[p].weight % Prime,
             hint |-> CHOOSE h \in computeHints(MapOf(roster)[p].slot, MapOf(roster)[p].sk) : TRUE]])

verifyBls(sig, msg, ak, id) ==
    id >= 0 /\ id < MaxSigners /\ partial_verify(msg, ak, id, sig)

aggregated(ak, vk, sigs) ==
    IF DOMAIN sigs = {} \/ \E i \in DOMAIN sigs : ~ validatePartyId(i, inferNFromCRSLength)
    THEN {}
    ELSE aggregate(ak, vk, sigs)

verifyAggregate(signature, msg, vk, fraction) ==
    fraction[1] > 0 /\ fraction[2] > 0 /\ verify(msg, vk, signature, fraction[1], fraction[2])

-----------------------------------------------------------------------------
Init == keys = {} /\ partials = {} /\ calls = {}

Preprocess(roster) ==
    /\ Cardinality(keys) < MaxKeys
    /\ \E k \in preprocessed(roster) :
            keys' = keys \cup {[roster |-> roster, vk |-> k.vk, ak |-> k.ak]}
    /\ UNCHANGED <<partials, calls>>

SignBls(s) ==
    /\ partials' = partials \cup {sign(s.msg, s.sk)}
    /\ UNCHANGED <<keys, calls>>

AggregateSignatures(a, v, sigs) ==
    /\ Cardinality(calls) < MaxCalls
    /\ calls' = calls \cup {[a |-> a.roster, v |-> v.roster, sigs |-> sigs,
                             result |-> aggregated(a.ak, v.vk, sigs)]}
    /\ UNCHANGED <<keys, partials>>

Next ==
    \/ \E roster \in Rosters : Preprocess(roster)
    \/ \E s \in Signings : SignBls(s)
    \/ \E a, v \in keys : \E S \in SUBSET Slots : \E sigs \in [S -> partials] :
            Cardinality(S) <= MaxFiled /\ AggregateSignatures(a, v, sigs)

Spec == Init /\ [][Next]_vars

-----------------------------------------------------------------------------
\* What the roster itself says, in plain arithmetic
WeightOf(roster, S) ==
    SumFunctionOnSet([p \in DOMAIN MapOf(roster) |-> MapOf(roster)[p].weight],
                     S \cap DOMAIN MapOf(roster))
TotalOf(roster) == WeightOf(roster, DOMAIN MapOf(roster))
Exceeds(roster, S, f) == f[2] * WeightOf(roster, S) > f[1] * TotalOf(roster)

\* Partial signatures that each pass verifyBls for the party they are filed
\* under always aggregate, and the result verifies for a threshold exactly
\* if the weight of those parties strictly exceeds it: aggregate never
\* refuses them and never yields a signature that cannot verify
\* (hints.rs:713-754).
VerifiedPartialsAggregate ==
    \A c \in calls, k \in keys, m \in Messages :
        (/\ c.a = k.roster /\ c.v = k.roster /\ DOMAIN c.sigs # {}
         /\ \A i \in DOMAIN c.sigs : verifyBls(c.sigs[i], m, k.ak, i))
        => /\ c.result # {}
           /\ \A r \in c.result : \A f \in Fractions :
                verifyAggregate(r, m, k.vk, f) <=> Exceeds(k.roster, DOMAIN c.sigs, f)

\* Whatever went into an aggregate, it verifies for a message and a
\* threshold only if parties of that verification key's own roster signed
\* that very message with the secrets registered there, and their weight
\* there strictly exceeds the threshold (hints.rs:756-804).
AcceptedWeightSigned ==
    \A c \in calls, k \in keys, m \in Messages, f \in Fractions :
        (\E r \in c.result : verifyAggregate(r, m, k.vk, f))
        => Exceeds(k.roster,
                   {p \in DOMAIN MapOf(k.roster) : sign(m, MapOf(k.roster)[p].sk) \in partials},
                   f)

\* Keys of different rosters do not combine: a signature made with the
\* aggregation key of one roster, or for the verification key of one, is
\* rejected under the key of another, even if they differ in a party that
\* took no part (test_mismatched_keys_do_not_verify, hints.rs:2235-2253).
MismatchedKeysDoNotVerify ==
    \A c \in calls, k \in keys, m \in Messages, f \in Fractions :
        (\E r \in c.result : verifyAggregate(r, m, k.vk, f))
        => c.a = k.roster /\ c.v = k.roster
=============================================================================
