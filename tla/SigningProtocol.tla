-------------------------- MODULE SigningProtocol --------------------------
(***************************************************************************)
(* The three-round Schnorr multisignature of nova-wraps: signing_protocol  *)
(* and verify_signature (wraps.rs) over Multisig (schnorr.rs).             *)
(*                                                                         *)
(* The library is stateless: each call gets the seed and the messages of   *)
(* earlier rounds from its caller.  The caller is external code; here an   *)
(* instance is one caller's run of the rounds.  It calls a round again     *)
(* until it succeeds, and hands to R3 the round-1 list it handed to R2.    *)
(* Everything ever sent stays in pool, so a call may be given messages     *)
(* that are late, repeated, out of order or from another session.          *)
(*                                                                         *)
(* Nonces are symbolic: a nonce is the pair it is derived from, a sum of   *)
(* nonce points is a bag, and a response k + x * e is the pair k, x next   *)
(* to the challenge e it answers.  A result is {} for Err, {value} for Ok. *)
(***************************************************************************)
EXTENDS AddressBook, TLC

CONSTANTS
    Book,       \* the address book of the committee
    Sessions,   \* [msg, bits, routed]: a message and the bitvector that signs
                \* it; routed if lists only hold its messages, in subset order
    Instances,  \* [signer, session, entropy]: a seat's run of the rounds
    Crowds      \* sets of instances that run; the others never start

\* Callers use fresh entropy for every instance: no two instances of a seat
\* share both entropy and message.
ASSUME SigningAssumption ==
    /\ Book \in Seq(AddressBookEntry)
    /\ \A s \in Sessions : s.bits \subseteq Seats /\ s.routed \in BOOLEAN
    /\ \A i \in Instances : i.session \in Sessions /\ i.signer \in DOMAIN Book
    /\ \A i, j \in Instances :
          i.signer = j.signer /\ i.entropy = j.entropy /\ i.session.msg = j.session.msg
             => i = j
    /\ \A crowd \in Crowds : crowd \subseteq Instances

VARIABLES
    phase,    \* [Instances -> 0 .. 3]: the rounds the instance has completed,
              \* or Absent
    held,     \* [Instances -> list]: the round-1 messages it used in R2
    pool,     \* every message sent so far
    outputs   \* [session, sig]: every ProtocolOutput

vars == <<phase, held, pool, outputs>>

-----------------------------------------------------------------------------
\* A mutant: the nonce forgets the message.
NonceFromEntropyOnly(seed, msg) == <<seed>>

\* Multisig::nonce, and the point and commitment made from it.
nonce(seed, msg) == <<seed, msg>>

\* aggregate_key of a list of nonce points.
SumOfNonces(nonces) ==
    [n \in ToSet(nonces) |-> Cardinality({i \in DOMAIN nonces : nonces[i] = n})]
NoncesOf(list) == [i \in DOMAIN list |-> list[i].nonce]

\* Every opening matches the commitment at its own position.
OpensAll(r1, r2) == \A i \in DOMAIN r2 : r2[i].nonce = r1[i].nonce

\* A mutant: keys that cancel to the identity are accepted.
ChallengeForCancelledKeys(msg, keys, r1, r2) ==
    IF OpensAll(r1, r2)
    THEN {[joint |-> aggregate_key(keys), r |-> SumOfNonces(NoncesOf(r2)), msg |-> msg]}
    ELSE {}

\* Multisig::challenge.
challenge(msg, keys, r1, r2) ==
    IF /\ Len(keys) > 0
       /\ Len(r1) = Len(keys)
       /\ Len(r2) = Len(keys)
       /\ OpensAll(r1, r2)
       /\ ~IsIdentity(aggregate_key(keys))
    THEN {[joint |-> aggregate_key(keys), r |-> SumOfNonces(NoncesOf(r2)), msg |-> msg]}
    ELSE {}

\* A mutant: R3 answers without finding its own nonce at its own position.
AnswersForAnyone(seed, msg, sk, keys, r2) == \E i \in DOMAIN keys : keys[i] = sk

\* A mutant: R3 looks for itself at the head of the list only.
AnswersForTheFirst(seed, msg, sk, keys, r2) ==
    keys[1] = sk /\ r2[1].nonce = nonce(seed, msg)

\* The signer's key is in the subset and round 2 shows its nonce there.
AnswersForItself(seed, msg, sk, keys, r2) ==
    \E i \in DOMAIN keys : keys[i] = sk /\ r2[i].nonce = nonce(seed, msg)

\* Multisig::round3: k + sk * e.
round3(seed, msg, sk, keys, r1, r2) ==
    {[e |-> e, nonce |-> nonce(seed, msg), x |-> sk] :
        e \in {c \in challenge(msg, keys, r1, r2) :
                  AnswersForItself(seed, msg, sk, keys, r2)}}

\* A mutant: shares are only matched by challenge.
ShareAnswers(share, e, pk, r) == share.e = e

\* s * G - e * pk is the nonce point of the share's own signer.
ShareVerifies(share, e, pk, r) == share.e = e /\ share.x = pk /\ share.nonce = r

\* Multisig::aggregate: the shares add up to one Schnorr signature.
aggregate(msg, keys, r1, r2, r3) ==
    {[e |-> e,
      k |-> SumOfNonces(NoncesOf(r3)),
      x |-> aggregate_key([i \in DOMAIN r3 |-> r3[i].x])] :
        e \in {c \in challenge(msg, keys, r1, r2) :
                  /\ Len(r3) = Len(keys)
                  /\ \A i \in DOMAIN r3 : ShareVerifies(r3[i], c, keys[i], r2[i].nonce)}}

\* Schnorr::verify: s * G - e * joint is hashed again.
SchnorrVerify(joint, msg, sig) ==
    sig.x = joint /\ sig.e = [joint |-> joint, r |-> sig.k, msg |-> msg]

-----------------------------------------------------------------------------
\* The message counts validate_signing_phase asks for.
ExpectedCounts(round, n) ==
    [R1 |-> <<0, 0, 0>>, R2 |-> <<n, 0, 0>>,
     R3 |-> <<n, n, 0>>, Aggregate |-> <<n, n, n>>][round]

\* decode_round_messages: every message carries the tag of its list.
Tagged(list, round) == \A i \in DOMAIN list : list[i].round = round

\* The keys and seats a session's bitvector names, in book order.
Keys    == [s \in Sessions |-> signing_subset(Book, s.bits)]
SeatsOf == [s \in Sessions |-> SortSeq(SetToSeq(s.bits), <)]

\* The checks every phase of signing_protocol makes of the book and bitvector.
AcceptsBitvector == [s \in Sessions |->
    /\ verify_address_book(Book)
    /\ ~SelectsOutside(Book, s.bits)
    /\ ~SelectsSentinel(Book, s.bits)]

\* And of the messages of earlier rounds.
AcceptsInputs(round, s, r1, r2, r3) ==
    /\ AcceptsBitvector[s]
    /\ round = "R1" \/ Keys[s] # <<>>
    /\ <<Len(r1), Len(r2), Len(r3)>> = ExpectedCounts(round, Len(Keys[s]))
    /\ Tagged(r1, 1) /\ Tagged(r2, 2) /\ Tagged(r3, 3)

\* R2 finds its own commitment somewhere in the round-1 list.
OwnCommitmentPresent(seed, msg, r1) == \E i \in DOMAIN r1 : r1[i].nonce = nonce(seed, msg)

\* signing_protocol: the payload of the message or output of one phase.
signing_protocol(round, seed, s, sk, r1, r2, r3) ==
    IF ~AcceptsInputs(round, s, r1, r2, r3) THEN {}
    ELSE CASE round = "R1" -> {[nonce |-> nonce(seed, s.msg)]}
           [] round = "R2" -> IF OwnCommitmentPresent(seed, s.msg, r1)
                              THEN {[nonce |-> nonce(seed, s.msg)]}
                              ELSE {}
           [] round = "R3" -> round3(seed, s.msg, sk, Keys[s], r1, r2)
           [] round = "Aggregate" -> aggregate(s.msg, Keys[s], r1, r2, r3)

\* verify_signature returns Ok(true).
verify_signature(ab, msg, bits, sig) ==
    /\ SubsetMayRotate(ab, bits)
    /\ SchnorrVerify(aggregate_key(signing_subset(pad_address_book(ab), bits)), msg, sig)

-----------------------------------------------------------------------------
\* The lists of one round's messages a caller may put together.
Lists(session, round) ==
    LET n    == Len(Keys[session])
        sent == {m \in pool : m.round = round}
    IN  IF session.routed
        THEN {l \in [1 .. n -> {m \in sent : m.from.session = session}] :
                 \A i \in 1 .. n : l[i].from.signer = SeatsOf[session][i]}
        ELSE [1 .. n -> sent]

\* The message of a round: who sent it, with its payload.
NonceMessage(round, i, body) == [round |-> round, from |-> i, nonce |-> body.nonce]
ShareMessage(i, body) ==
    [round |-> 3, from |-> i, nonce |-> body.nonce, e |-> body.e, x |-> body.x]

Absent == 4

Init ==
    /\ \E crowd \in Crowds : phase = [i \in Instances |-> IF i \in crowd THEN 0 ELSE Absent]
    /\ held = [i \in Instances |-> <<>>]
    /\ pool = {}
    /\ outputs = {}

\* The secret key of a seat is the residue of its public key.
Call(round, i, r1, r2) ==
    signing_protocol(round, i.entropy, i.session, Book[i.signer].pk, r1, r2, <<>>)

R1(i) ==
    /\ phase[i] = 0
    /\ \E body \in Call("R1", i, <<>>, <<>>) : pool' = pool \cup {NonceMessage(1, i, body)}
    /\ phase' = [phase EXCEPT ![i] = 1]
    /\ UNCHANGED <<held, outputs>>

R2(i) ==
    /\ phase[i] = 1
    /\ \E r1 \in Lists(i.session, 1) :
        /\ \E body \in Call("R2", i, r1, <<>>) : pool' = pool \cup {NonceMessage(2, i, body)}
        /\ held' = [held EXCEPT ![i] = r1]
    /\ phase' = [phase EXCEPT ![i] = 2]
    /\ UNCHANGED outputs

R3(i) ==
    /\ phase[i] = 2
    /\ \E r2 \in Lists(i.session, 2) :
        \E body \in Call("R3", i, held[i], r2) : pool' = pool \cup {ShareMessage(i, body)}
    /\ phase' = [phase EXCEPT ![i] = 3]
    /\ UNCHANGED <<held, outputs>>

Aggregate(s) ==
    /\ \E r1 \in Lists(s, 1), r2 \in Lists(s, 2), r3 \in Lists(s, 3) :
        \E sig \in signing_protocol("Aggregate", <<>>, s, Identity, r1, r2, r3) :
            outputs' = outputs \cup {[session |-> s, sig |-> sig]}
    /\ UNCHANGED <<phase, held, pool>>

Next ==
    \/ \E i \in Instances : R1(i) \/ R2(i) \/ R3(i)
    \/ \E s \in Sessions : Aggregate(s)

Spec == Init /\ [][Next]_vars

\* A caller that gets its session's messages repeats a round until the library
\* accepts it.
Fairness ==
    /\ \A i \in {j \in Instances : j.session.routed} :
          WF_vars(R1(i)) /\ WF_vars(R2(i)) /\ WF_vars(R3(i))
    /\ \A s \in {t \in Sessions : t.routed} : WF_vars(Aggregate(s))

FairSpec == Spec /\ Fairness

-----------------------------------------------------------------------------
Shares == {m \in pool : m.round = 3}

\* Aggregate never hands out a signature that verify_signature refuses later,
\* except for want of weight, which the protocol leaves to the verifier.
AggregateVerifies ==
    \A o \in outputs :
        LET tally == subset_weight(pad_address_book(Book), o.session.bits)
        IN  verify_signature(Book, o.session.msg, o.session.bits, o.sig)
                <=> meets_threshold(tally.signing, tally.total)

\* A nonce answers for one challenge only, also when a caller reuses entropy
\* for another message: two answers would give the signing key away.
NonceAnswersOneChallenge ==
    \A m, n \in Shares : m.nonce = n.nonce /\ m.x = n.x => m.e = n.e

\* A share answers exactly the nonces its signer held commitments for when it
\* revealed its own, with its own at its key's position: nobody picks a nonce
\* after seeing another, whatever messages a caller is handed, and the
\* aggregator finds the share where it looks for it.
SharesAnswerCommittedNonces ==
    \A m \in Shares :
        /\ m.e.r = SumOfNonces(NoncesOf(held[m.from]))
        /\ \E i \in DOMAIN held[m.from] :
              /\ Keys[m.from.session][i] = m.x
              /\ held[m.from][i].nonce = m.nonce

\* The rounds implement Endorsement: a share is consent to its message, and
\* an output is a signature of the keys its bitvector selects.
Consenting == INSTANCE Endorsement WITH
    Members    <- {e.pk : e \in ToSet(Book)},
    Messages   <- {s.msg : s \in Sessions},
    consents   <- {<<m.x, m.e.msg>> : m \in Shares},
    signatures <- {[signers |-> ToSet(Keys[o.session]), msg |-> o.sig.e.msg] : o \in outputs}
ImplementsEndorsement == Consenting!EndorsementSpec

\* Every session whose bitvector the library accepts and whose keys do not
\* cancel ends with an output, when each of its members runs one instance and
\* gets the session's messages in order.
CanComplete(s) ==
    /\ s.routed
    /\ \A seat \in s.bits : \E i \in Instances :
          i.session = s /\ i.signer = seat /\ phase[i] # Absent
    /\ ~SelectsOutside(Book, s.bits) /\ ~SelectsSentinel(Book, s.bits)
    /\ ~IsIdentity(aggregate_key(Keys[s]))
SessionsComplete ==
    \A s \in Sessions : CanComplete(s) ~> \E o \in outputs : o.session = s
=============================================================================
