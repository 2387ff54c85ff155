----------------------- MODULE SigningProtocolProofs -----------------------
(***************************************************************************)
(* The safety of the signing protocol for every committee, every set of    *)
(* sessions and instances, and whatever lists their callers put together.  *)
(***************************************************************************)
EXTENDS SigningProtocol, AddressBookProofs, TLAPS

\* A share answers its own session's challenge, over the commitments that its
\* sender held, and its sender has finished.
ShareFits(m) ==
    /\ phase[m.from] = 3
    /\ m.nonce = nonce(m.from.entropy, m.from.session.msg)
    /\ m.x = Book[m.from.signer].pk
    /\ m.e.msg = m.from.session.msg
    /\ m.e.r = SumOfNonces(NoncesOf(held[m.from]))
    /\ ~IsIdentity(m.x) /\ verify_address_book(Book)
    /\ \E i \in DOMAIN held[m.from] :
          Keys[m.from.session][i] = m.x /\ held[m.from][i].nonce = m.nonce

\* An output is a signature of its session's keys, which do not cancel.
OutputFits(o) ==
    /\ o.session \in Sessions
    /\ AcceptsBitvector[o.session]
    /\ Keys[o.session] # <<>>
    /\ ~IsIdentity(aggregate_key(Keys[o.session]))
    /\ SchnorrVerify(aggregate_key(Keys[o.session]), o.session.msg, o.sig)

\* The inductive invariant.
IInv ==
    /\ DOMAIN phase = Instances /\ DOMAIN held = Instances
    /\ \A i \in Instances : held[i] \in Seq(pool)
    /\ \A m \in pool : m.from \in Instances
    /\ \A m \in Shares : ShareFits(m)
    /\ \A m, n \in Shares : m.from = n.from => m = n
    /\ \A o \in outputs : OutputFits(o)

-----------------------------------------------------------------------------
\* The keys of a session are keys of the book, and none is the identity.
LEMMA KeysOfSession ==
    ASSUME NEW s \in Sessions
    PROVE  /\ Keys[s] = signing_subset(Book, s.bits)
           /\ Keys[s] \in Seq({e.pk : e \in ToSet(Book)} \ {Identity})
           /\ Len(Keys[s]) \in Nat
<1> DEFINE n == Len(Book)
           P == SelectedPks(n, Book, s.bits)
<1>1. n \in Nat /\ DOMAIN Book = 1 .. n /\ Book \in [1 .. n -> AddressBookEntry]
  BY SigningAssumption
<1>2. PICK q \in [0 .. n -> Seq(P)] : IsSubsetRun(q, n, Book, s.bits)
  BY <1>1, SigningSubset
<1>3. Keys[s] = signing_subset(Book, s.bits)
  BY DEF Keys
<1>4. Keys[s] \in Seq(P)
  BY <1>1, <1>2, <1>3 DEF IsSubsetRun
<1>5. P \subseteq {e.pk : e \in ToSet(Book)} \ {Identity}
  BY <1>1 DEF SelectedPks, ToSet, IsIdentity
<1> HIDE DEF P
<1> QED
  BY <1>3, <1>4, <1>5

\* A list that a caller hands to a round of a session has one message, sent in
\* that round, for each of its keys.
LEMMA ListsOfRound ==
    ASSUME NEW s \in Sessions, NEW round, NEW list \in Lists(s, round)
    PROVE  /\ list \in [1 .. Len(Keys[s]) -> {m \in pool : m.round = round}]
           /\ list \in Seq(pool)
           /\ Len(list) = Len(Keys[s])
           /\ DOMAIN list = 1 .. Len(Keys[s])
<1> DEFINE sent == {m \in pool : m.round = round}
           n == Len(Keys[s])
<1>1. n \in Nat
  BY KeysOfSession
<1>2. list \in [1 .. n -> sent]
  BY DEF Lists
<1> HIDE DEF n
<1>3. list \in [1 .. n -> pool]
  BY <1>2
<1> QED
  BY <1>1, <1>2, <1>3 DEF n

\* What Multisig::challenge establishes when it succeeds.
Challenged(c, msg, keys, r1, r2) ==
    /\ keys # <<>>
    /\ DOMAIN r1 = DOMAIN keys /\ DOMAIN r2 = DOMAIN keys
    /\ \A i \in DOMAIN r2 : r2[i].nonce = r1[i].nonce
    /\ NoncesOf(r2) = NoncesOf(r1)
    /\ ~IsIdentity(aggregate_key(keys))
    /\ c = [joint |-> aggregate_key(keys), r |-> SumOfNonces(NoncesOf(r2)), msg |-> msg]

\* It establishes this for lists of any messages of the pool.
LEMMA ChallengeFacts ==
    ASSUME NEW s \in Sessions, NEW msg, NEW r1 \in Seq(pool), NEW r2 \in Seq(pool),
           NEW c \in challenge(msg, Keys[s], r1, r2)
    PROVE  Challenged(c, msg, Keys[s], r1, r2)
<1> DEFINE keys == Keys[s]
<1>1. Len(keys) \in Nat /\ DOMAIN keys = 1 .. Len(keys)
  BY KeysOfSession
<1>2. /\ Len(keys) > 0 /\ Len(r1) = Len(keys) /\ Len(r2) = Len(keys)
      /\ OpensAll(r1, r2) /\ ~IsIdentity(aggregate_key(keys))
      /\ c = [joint |-> aggregate_key(keys), r |-> SumOfNonces(NoncesOf(r2)), msg |-> msg]
  BY DEF challenge
<1> HIDE DEF keys
<1>3. DOMAIN r1 = DOMAIN keys /\ DOMAIN r2 = DOMAIN keys
  BY <1>1, <1>2
<1>4. \A i \in DOMAIN r2 : r2[i].nonce = r1[i].nonce
  BY <1>2 DEF OpensAll
<1>5. NoncesOf(r2) = NoncesOf(r1)
  BY <1>3, <1>4 DEF NoncesOf
<1>6. keys # <<>>
  BY <1>2
<1> QED
  BY <1>2, <1>3, <1>4, <1>5, <1>6 DEF keys, Challenged

\* What a call for round 3 that succeeds returns: an answer of the caller's own
\* key and nonce, over the list it held, at the position of its key.
LEMMA Round3Facts ==
    ASSUME IInv, NEW i \in Instances, NEW r2 \in Lists(i.session, 2),
           NEW body \in Call("R3", i, held[i], r2)
    PROVE  /\ verify_address_book(Book)
           /\ body.nonce = nonce(i.entropy, i.session.msg)
           /\ body.x = Book[i.signer].pk /\ ~IsIdentity(body.x)
           /\ body.e.msg = i.session.msg
           /\ body.e.r = SumOfNonces(NoncesOf(held[i]))
           /\ \E j \in DOMAIN held[i] :
                 Keys[i.session][j] = body.x /\ held[i][j].nonce = body.nonce
<1> DEFINE s == i.session
           sk == Book[i.signer].pk
<1>1. s \in Sessions /\ held[i] \in Seq(pool) /\ r2 \in Seq(pool)
  BY SigningAssumption, ListsOfRound DEF IInv
<1>2. /\ AcceptsInputs("R3", s, held[i], r2, <<>>)
      /\ body \in round3(i.entropy, s.msg, sk, Keys[s], held[i], r2)
  BY DEF Call, signing_protocol
<1>3. verify_address_book(Book)
  BY <1>1, <1>2 DEF AcceptsInputs, AcceptsBitvector
<1>4. PICK e \in challenge(s.msg, Keys[s], held[i], r2) :
         /\ AnswersForItself(i.entropy, s.msg, sk, Keys[s], r2)
         /\ body = [e |-> e, nonce |-> nonce(i.entropy, s.msg), x |-> sk]
  BY <1>2 DEF round3
<1>5. /\ DOMAIN held[i] = DOMAIN Keys[s] /\ DOMAIN r2 = DOMAIN Keys[s]
      /\ \A j \in DOMAIN r2 : r2[j].nonce = held[i][j].nonce
      /\ NoncesOf(r2) = NoncesOf(held[i])
      /\ e = [joint |-> aggregate_key(Keys[s]), r |-> SumOfNonces(NoncesOf(r2)), msg |-> s.msg]
  <2>1. Challenged(e, s.msg, Keys[s], held[i], r2)
    BY <1>1, ChallengeFacts
  <2> QED
    BY <2>1 DEF Challenged
<1>6. PICK j \in DOMAIN Keys[s] : Keys[s][j] = sk /\ r2[j].nonce = nonce(i.entropy, s.msg)
  BY <1>4 DEF AnswersForItself
<1>7. ~IsIdentity(sk)
  <2>1. Keys[s] \in Seq({e2.pk : e2 \in ToSet(Book)} \ {Identity})
    BY <1>1, KeysOfSession
  <2>2. Keys[s][j] # Identity
    BY <1>6, <2>1
  <2> QED
    BY <1>6, <2>2 DEF IsIdentity
<1> QED
  BY <1>3, <1>4, <1>5, <1>6, <1>7

\* What Aggregate establishes when it succeeds: every key of the session has a
\* share of its own in the pool, and the sum verifies.
LEMMA AggregateFacts ==
    ASSUME NEW s \in Sessions,
           NEW r1 \in Lists(s, 1), NEW r2 \in Lists(s, 2), NEW r3 \in Lists(s, 3),
           NEW sig \in signing_protocol("Aggregate", <<>>, s, Identity, r1, r2, r3)
    PROVE  /\ OutputFits([session |-> s, sig |-> sig])
           /\ sig.e.msg = s.msg
           /\ \A pk \in ToSet(Keys[s]) : \E m \in Shares : m.x = pk /\ m.e.msg = s.msg
<1> DEFINE keys == Keys[s]
           xs == [i \in DOMAIN r3 |-> r3[i].x]
<1>1. /\ r1 \in Seq(pool) /\ r2 \in Seq(pool)
      /\ r3 \in [1 .. Len(keys) -> {m \in pool : m.round = 3}] /\ DOMAIN r3 = 1 .. Len(keys)
  BY ListsOfRound
<1>2. DOMAIN keys = 1 .. Len(keys) /\ keys \in [1 .. Len(keys) -> PublicKey]
  <2>1. keys \in Seq({e.pk : e \in ToSet(Book)} \ {Identity})
    BY KeysOfSession
  <2>2. {e.pk : e \in ToSet(Book)} \ {Identity} \subseteq PublicKey
    <3>1. ToSet(Book) \subseteq AddressBookEntry
      BY SigningAssumption DEF ToSet
    <3> QED
      BY <3>1 DEF AddressBookEntry
  <2> QED
    BY <2>1, <2>2
<1>3. AcceptsBitvector[s] /\ sig \in aggregate(s.msg, keys, r1, r2, r3)
  BY DEF signing_protocol, AcceptsInputs
<1>4. PICK c \in challenge(s.msg, keys, r1, r2) :
         /\ \A i \in DOMAIN r3 : ShareVerifies(r3[i], c, keys[i], r2[i].nonce)
         /\ sig = [e |-> c, k |-> SumOfNonces(NoncesOf(r3)), x |-> aggregate_key(xs)]
  BY <1>3 DEF aggregate
<1>5. /\ keys # <<>> /\ DOMAIN r2 = DOMAIN keys
      /\ ~IsIdentity(aggregate_key(keys))
      /\ c = [joint |-> aggregate_key(keys), r |-> SumOfNonces(NoncesOf(r2)), msg |-> s.msg]
  <2>1. Challenged(c, s.msg, Keys[s], r1, r2)
    BY <1>1, ChallengeFacts
  <2> QED
    BY <2>1 DEF Challenged
<1> HIDE DEF keys
<1>6. \A i \in DOMAIN r3 : r3[i].e = c /\ r3[i].x = keys[i] /\ r3[i].nonce = r2[i].nonce
  BY <1>4 DEF ShareVerifies
<1>7. xs = keys
  BY <1>1, <1>2, <1>6
<1>8. NoncesOf(r3) = NoncesOf(r2)
  BY <1>1, <1>2, <1>5, <1>6 DEF NoncesOf
<1> HIDE DEF xs
<1>9. /\ sig.e = [joint |-> aggregate_key(keys), r |-> sig.k, msg |-> s.msg]
      /\ sig.x = aggregate_key(keys) /\ sig.e.msg = s.msg
  BY <1>4, <1>5, <1>7, <1>8
<1>10. OutputFits([session |-> s, sig |-> sig])
  BY <1>3, <1>5, <1>9 DEF OutputFits, SchnorrVerify, keys
<1>11. ASSUME NEW pk \in ToSet(keys) PROVE \E m \in Shares : m.x = pk /\ m.e.msg = s.msg
  <2>1. PICK i \in 1 .. Len(keys) : pk = keys[i]
    BY <1>2 DEF ToSet
  <2>2. r3[i] \in Shares /\ r3[i].x = pk /\ r3[i].e.msg = s.msg
    BY <1>1, <1>5, <1>6, <2>1 DEF Shares
  <2> QED
    BY <2>2
<1> QED
  BY <1>9, <1>10, <1>11 DEF keys

-----------------------------------------------------------------------------
\* The commitments an instance holds never change once it has sent a share,
\* so a step that adds no share keeps what is known of shares.
LEMMA SharesPersist ==
    ASSUME IInv, Shares' = Shares, pool \subseteq pool', outputs' = outputs,
           DOMAIN phase' = Instances, DOMAIN held' = Instances,
           \A m \in pool' : m.from \in Instances,
           \A i \in Instances : phase[i] = 3 => phase'[i] = 3 /\ held'[i] = held[i],
           \A i \in Instances : held'[i] = held[i] \/ held'[i] \in Seq(pool')
    PROVE  IInv'
<1>1. \A i \in Instances : held'[i] \in Seq(pool')
  BY DEF IInv
<1>2. ASSUME NEW m \in Shares PROVE ShareFits(m)'
  <2>1. ShareFits(m) /\ m.from \in Instances
    BY DEF IInv, Shares
  <2>2. phase'[m.from] = 3 /\ held'[m.from] = held[m.from]
    BY <2>1 DEF ShareFits
  <2> QED
    BY <2>1, <2>2 DEF ShareFits
<1>3. \A o \in outputs : OutputFits(o)'
  BY DEF IInv, OutputFits
<1> QED
  BY <1>1, <1>2, <1>3 DEF IInv

\* A nonce message of round 1 or 2 leaves the shares alone.
LEMMA NonceMessageIsNoShare ==
    ASSUME NEW round \in 1 .. 2, NEW i \in Instances, NEW body, \A m \in pool : m.from \in Instances,
           pool' = pool \cup {NonceMessage(round, i, body)}
    PROVE  Shares' = Shares /\ \A m \in pool' : m.from \in Instances
<1>1. NonceMessage(round, i, body).round = round /\ NonceMessage(round, i, body).from = i
  BY DEF NonceMessage
<1> QED
  BY <1>1 DEF Shares

\* IInv is inductive.
LEMMA InvariantStep ==
    ASSUME IInv, [Next]_vars
    PROVE  IInv'
<1>0. /\ DOMAIN phase = Instances /\ DOMAIN held = Instances
      /\ \A m \in pool : m.from \in Instances
  BY DEF IInv
<1>1. CASE UNCHANGED vars
  <2>1. phase' = phase /\ held' = held /\ pool' = pool /\ outputs' = outputs
    BY <1>1 DEF vars
  <2>2. Shares' = Shares
    BY <2>1 DEF Shares
  <2> QED
    BY <1>0, <2>1, <2>2, SharesPersist
<1>2. ASSUME NEW i \in Instances, R1(i) PROVE IInv'
  <2>1. PICK body : pool' = pool \cup {NonceMessage(1, i, body)}
    BY <1>2 DEF R1
  <2>2. phase[i] = 0 /\ phase' = [phase EXCEPT ![i] = 1] /\ held' = held /\ outputs' = outputs
    BY <1>2 DEF R1
  <2>3. Shares' = Shares /\ \A m \in pool' : m.from \in Instances
    BY <1>0, <2>1, NonceMessageIsNoShare
  <2>4. pool \subseteq pool'
    BY <2>1
  <2>5. \A j \in Instances : phase[j] = 3 => phase'[j] = 3
    BY <1>0, <2>2
  <2> QED
    BY <1>0, <2>2, <2>3, <2>4, <2>5, SharesPersist
<1>3. ASSUME NEW i \in Instances, R2(i) PROVE IInv'
  <2>1. PICK r1 \in Lists(i.session, 1) :
           /\ \E body \in Call("R2", i, r1, <<>>) : pool' = pool \cup {NonceMessage(2, i, body)}
           /\ held' = [held EXCEPT ![i] = r1]
    BY <1>3 DEF R2
  <2>2. PICK body : pool' = pool \cup {NonceMessage(2, i, body)}
    BY <2>1
  <2>3. phase[i] = 1 /\ phase' = [phase EXCEPT ![i] = 2] /\ outputs' = outputs
    BY <1>3 DEF R2
  <2>4. Shares' = Shares /\ \A m \in pool' : m.from \in Instances
    BY <1>0, <2>2, NonceMessageIsNoShare
  <2>5. pool \subseteq pool'
    BY <2>2
  <2>6. r1 \in Seq(pool)
    BY SigningAssumption, ListsOfRound
  <2>7. r1 \in Seq(pool')
    BY <2>5, <2>6
  <2>8. \A j \in Instances : phase[j] = 3 => phase'[j] = 3 /\ held'[j] = held[j]
    BY <1>0, <2>1, <2>3
  <2>9. \A j \in Instances : held'[j] = held[j] \/ held'[j] \in Seq(pool')
    BY <1>0, <2>1, <2>7
  <2> QED
    BY <1>0, <2>1, <2>3, <2>4, <2>5, <2>8, <2>9, SharesPersist
<1>4. ASSUME NEW i \in Instances, R3(i) PROVE IInv'
  <2>1. PICK r2 \in Lists(i.session, 2) :
           \E body \in Call("R3", i, held[i], r2) : pool' = pool \cup {ShareMessage(i, body)}
    BY <1>4 DEF R3
  <2>2. PICK body \in Call("R3", i, held[i], r2) : pool' = pool \cup {ShareMessage(i, body)}
    BY <2>1
  <2>3. phase[i] = 2 /\ phase' = [phase EXCEPT ![i] = 3] /\ held' = held /\ outputs' = outputs
    BY <1>4 DEF R3
  <2> DEFINE share == ShareMessage(i, body)
  <2>4. /\ share.round = 3 /\ share.from = i /\ share.nonce = body.nonce
        /\ share.e = body.e /\ share.x = body.x
    BY DEF ShareMessage
  <2> HIDE DEF share
  <2>5. Shares' = Shares \cup {share}
    BY <2>2, <2>4 DEF Shares, share
  <2>6. phase' [i] = 3 /\ \A j \in Instances : phase[j] = 3 => phase'[j] = 3 /\ j # i
    BY <1>0, <2>3
  <2>7. ShareFits(share)'
    BY <2>1, <2>3, <2>4, <2>6, Round3Facts DEF ShareFits
  <2>8. ASSUME NEW m \in Shares PROVE ShareFits(m)' /\ m.from # i
    <3>1. ShareFits(m) /\ m.from \in Instances
      BY DEF IInv, Shares
    <3>2. phase'[m.from] = 3 /\ m.from # i
      BY <2>6, <3>1 DEF ShareFits
    <3> QED
      BY <2>3, <3>1, <3>2 DEF ShareFits
  <2>9. \A m, n \in Shares' : m.from = n.from => m = n
    BY <2>4, <2>5, <2>8 DEF IInv
  <2>10. \A m \in Shares' : ShareFits(m)'
    BY <2>5, <2>7, <2>8
  <2>11. \A m \in pool' : m.from \in Instances
    BY <1>0, <2>2, <2>4 DEF share
  <2>12. \A j \in Instances : held'[j] \in Seq(pool')
    <3>1. pool \subseteq pool'
      BY <2>2
    <3> QED
      BY <2>3, <3>1 DEF IInv
  <2>13. \A o \in outputs' : OutputFits(o)'
    BY <2>3 DEF IInv, OutputFits
  <2>14. DOMAIN phase' = Instances /\ DOMAIN held' = Instances
    BY <1>0, <2>3
  <2> QED
    BY <2>9, <2>10, <2>11, <2>12, <2>13, <2>14 DEF IInv
<1>5. ASSUME NEW s \in Sessions, Aggregate(s) PROVE IInv'
  <2>1. PICK r1 \in Lists(s, 1), r2 \in Lists(s, 2), r3 \in Lists(s, 3) :
           \E sig \in signing_protocol("Aggregate", <<>>, s, Identity, r1, r2, r3) :
              outputs' = outputs \cup {[session |-> s, sig |-> sig]}
    BY <1>5 DEF Aggregate
  <2>2. PICK sig \in signing_protocol("Aggregate", <<>>, s, Identity, r1, r2, r3) :
           outputs' = outputs \cup {[session |-> s, sig |-> sig]}
    BY <2>1
  <2>3. phase' = phase /\ held' = held /\ pool' = pool
    BY <1>5 DEF Aggregate
  <2>4. OutputFits([session |-> s, sig |-> sig])
    BY AggregateFacts
  <2>5. \A o \in outputs' : OutputFits(o)
    BY <2>2, <2>4 DEF IInv
  <2>6. Shares' = Shares
    BY <2>3 DEF Shares
  <2>7. \A m \in Shares : ShareFits(m)'
    BY <2>3 DEF IInv, ShareFits
  <2>8. \A o \in outputs' : OutputFits(o)'
    BY <2>5 DEF OutputFits
  <2> QED
    BY <2>3, <2>6, <2>7, <2>8 DEF IInv
<1> QED
  BY <1>1, <1>2, <1>3, <1>4, <1>5 DEF Next

\* So it holds whatever lists the callers are handed.
LEMMA InvariantHolds == Spec => []IInv
<1>1. Init => IInv
  BY DEF Init, IInv, Shares
<1>2. IInv /\ [Next]_vars => IInv'
  BY InvariantStep
<1> QED
  BY <1>1, <1>2, PTL DEF Spec

-----------------------------------------------------------------------------
\* Equal nonces of one key were derived by one instance, and an instance
\* releases one share: no nonce ever answers two challenges.
THEOREM NoncesAnswerOnce == Spec => []NonceAnswersOneChallenge
<1>1. ASSUME IInv PROVE NonceAnswersOneChallenge
  <2> SUFFICES ASSUME NEW m \in Shares, NEW n \in Shares, m.nonce = n.nonce, m.x = n.x
               PROVE  m = n
    BY DEF NonceAnswersOneChallenge
  <2>1. ShareFits(m) /\ ShareFits(n) /\ m.from \in Instances /\ n.from \in Instances
    BY <1>1 DEF IInv, Shares
  <2>2. m.from.entropy = n.from.entropy /\ m.from.session.msg = n.from.session.msg
    <3>1. /\ m.nonce = <<m.from.entropy, m.from.session.msg>>
          /\ n.nonce = <<n.from.entropy, n.from.session.msg>>
      BY <2>1, Zenon DEF ShareFits, nonce
    <3>2. <<m.from.entropy, m.from.session.msg>> = <<n.from.entropy, n.from.session.msg>>
      BY <3>1, Zenon
    <3> QED
      BY <3>2
  <2>3. m.from.signer \in DOMAIN Book /\ n.from.signer \in DOMAIN Book
    BY <2>1, SigningAssumption
  <2>4. Book \in Seq(AddressBookEntry) /\ verify_address_book(Book)
    BY <2>1, SigningAssumption DEF ShareFits
  <2>5. m.from.signer = n.from.signer
    BY <2>1, <2>3, <2>4, ValidBooksDistinct DEF ShareFits
  <2>6. m.from = n.from
    BY <2>1, <2>2, <2>5, SigningAssumption
  <2> QED
    BY <1>1, <2>6 DEF IInv
<1> QED
  BY <1>1, InvariantHolds, PTL

\* A share answers exactly the nonces its sender held commitments for.
THEOREM SharesAreCommitted == Spec => []SharesAnswerCommittedNonces
<1>1. IInv => SharesAnswerCommittedNonces
  BY DEF IInv, ShareFits, SharesAnswerCommittedNonces
<1> QED
  BY <1>1, InvariantHolds, PTL

\* verify_signature accepts an output as soon as its signers carry the
\* majority: the book has been validated, so their weights can be summed up,
\* and padding changes neither the subset nor its joint key.
THEOREM OutputsVerify == Spec => []AggregateVerifies
<1>1. ASSUME IInv PROVE AggregateVerifies
  <2> SUFFICES ASSUME NEW o \in outputs
               PROVE  LET tally == subset_weight(pad_address_book(Book), o.session.bits)
                      IN  verify_signature(Book, o.session.msg, o.session.bits, o.sig)
                             <=> meets_threshold(tally.signing, tally.total)
    BY Zenon DEF AggregateVerifies
  <2> DEFINE s == o.session
             padded == pad_address_book(Book)
  <2>1. OutputFits(o)
    BY <1>1 DEF IInv
  <2>2. s \in Sessions /\ Keys[s] = signing_subset(Book, s.bits)
    BY <2>1, KeysOfSession DEF OutputFits
  <2>3. verify_address_book(Book) /\ ~SelectsOutside(Book, s.bits) /\ ~SelectsSentinel(Book, s.bits)
    BY <2>1, <2>2 DEF OutputFits, AcceptsBitvector
  <2>4. Book \in Seq(AddressBookEntry) /\ Len(Book) <= MAX_AB_SIZE
    BY <2>3, SigningAssumption DEF verify_address_book
  <2>5. signing_subset(padded, s.bits) = Keys[s]
    BY <2>2, <2>4, SubsetOfPadded
  <2>6. subset_weight(padded, s.bits).ok
    BY <2>3, <2>4, ValidBooksTally
  <2>7. /\ Keys[s] # <<>> /\ ~IsIdentity(aggregate_key(Keys[s]))
        /\ SchnorrVerify(aggregate_key(Keys[s]), s.msg, o.sig)
    BY <2>1 DEF OutputFits
  <2> HIDE DEF s
  <2> QED
    BY <2>3, <2>5, <2>6, <2>7 DEF verify_signature, SubsetMayRotate, s
<1> QED
  BY <1>1, InvariantHolds, PTL

\* What the share of an instance and the output of a session stand for in
\* Endorsement.
ConsentOf(m) == <<m.x, m.e.msg>>
Consents == {ConsentOf(m) : m \in Shares}
SignatureOf(o) == [signers |-> ToSet(Keys[o.session]), msg |-> o.sig.e.msg]
SignaturesOf == {SignatureOf(o) : o \in outputs}

\* The rounds implement Endorsement: rounds 1 and 2 are invisible, round 3 is
\* consent, and Aggregate endorses keys that have all consented.
THEOREM SigningRefines == Spec => ImplementsEndorsement
<1>1. Init => Consenting!EndorsementInit
  BY DEF Init, Consenting!EndorsementInit, Shares
<1>2. ASSUME IInv, [Next]_vars PROVE [Consenting!EndorsementNext]_(Consenting!endorsementVars)
  <2>0. \A m \in pool : m.from \in Instances
    BY <1>2 DEF IInv
  <2>1. ASSUME Shares' = Shares, outputs' = outputs
        PROVE  UNCHANGED Consenting!endorsementVars
    BY <2>1 DEF Consenting!endorsementVars
  <2>2. CASE UNCHANGED vars
    <3>1. Shares' = Shares /\ outputs' = outputs
      BY <2>2 DEF vars, Shares
    <3> QED
      BY <2>1, <3>1
  <2>3. ASSUME NEW i \in Instances, R1(i) PROVE UNCHANGED Consenting!endorsementVars
    <3>1. PICK body : pool' = pool \cup {NonceMessage(1, i, body)}
      BY <2>3 DEF R1
    <3>2. Shares' = Shares /\ outputs' = outputs
      BY <2>0, <2>3, <3>1, NonceMessageIsNoShare DEF R1
    <3> QED
      BY <2>1, <3>2
  <2>4. ASSUME NEW i \in Instances, R2(i) PROVE UNCHANGED Consenting!endorsementVars
    <3>1. PICK body : pool' = pool \cup {NonceMessage(2, i, body)}
      BY <2>4 DEF R2
    <3>2. Shares' = Shares /\ outputs' = outputs
      BY <2>0, <2>4, <3>1, NonceMessageIsNoShare DEF R2
    <3> QED
      BY <2>1, <3>2
  <2>5. ASSUME NEW i \in Instances, R3(i) PROVE Consenting!EndorsementNext
    <3>1. PICK r2 \in Lists(i.session, 2) :
             \E body \in Call("R3", i, held[i], r2) : pool' = pool \cup {ShareMessage(i, body)}
      BY <2>5 DEF R3
    <3>2. PICK body \in Call("R3", i, held[i], r2) : pool' = pool \cup {ShareMessage(i, body)}
      BY <3>1
    <3> DEFINE share == ShareMessage(i, body)
               msg == i.session.msg
    <3>3. share.round = 3 /\ share.e = body.e /\ share.x = body.x
      BY DEF ShareMessage
    <3> HIDE DEF share
    <3>4. Shares' = Shares \cup {share}
      BY <3>2, <3>3 DEF Shares, share
    <3>5. body.x = Book[i.signer].pk /\ body.e.msg = msg
      BY <1>2, <3>1, Round3Facts
    <3>6. ConsentOf(share) = <<body.x, msg>>
      BY <3>3, <3>5 DEF ConsentOf
    <3>7. Consents' = Consents \cup {<<body.x, msg>>}
      <4>1. Consents' = {ConsentOf(m) : m \in Shares'}
        BY DEF Consents, ConsentOf
      <4> QED
        BY <3>4, <3>6, <4>1 DEF Consents
    <3>8. SignaturesOf' = SignaturesOf
      BY <2>5 DEF R3, SignaturesOf, SignatureOf
    <3>9. body.x \in {e.pk : e \in ToSet(Book)} /\ msg \in {s.msg : s \in Sessions}
      BY <3>5, SigningAssumption DEF ToSet
    <3>10. Consenting!Consent(body.x, msg)
      BY <3>7, <3>8 DEF Consenting!Consent, Consents, ConsentOf, SignaturesOf, SignatureOf
    <3> QED
      BY <3>9, <3>10 DEF Consenting!EndorsementNext
  <2>6. ASSUME NEW s \in Sessions, Aggregate(s) PROVE Consenting!EndorsementNext
    <3>1. PICK r1 \in Lists(s, 1), r2 \in Lists(s, 2), r3 \in Lists(s, 3) :
             \E sig \in signing_protocol("Aggregate", <<>>, s, Identity, r1, r2, r3) :
                outputs' = outputs \cup {[session |-> s, sig |-> sig]}
      BY <2>6 DEF Aggregate
    <3>2. PICK sig \in signing_protocol("Aggregate", <<>>, s, Identity, r1, r2, r3) :
             outputs' = outputs \cup {[session |-> s, sig |-> sig]}
      BY <3>1
    <3> DEFINE signers == ToSet(Keys[s])
               o == [session |-> s, sig |-> sig]
    <3>3. /\ OutputFits(o) /\ sig.e.msg = s.msg
          /\ \A pk \in signers : \E m \in Shares : m.x = pk /\ m.e.msg = s.msg
      BY AggregateFacts
    <3>4. Consents' = Consents
      BY <2>6 DEF Aggregate, Shares, Consents, ConsentOf
    <3>5. SignaturesOf' = SignaturesOf \cup {[signers |-> signers, msg |-> s.msg]}
      <4>1. SignatureOf(o) = [signers |-> signers, msg |-> s.msg]
        BY <3>3 DEF SignatureOf
      <4>2. SignaturesOf' = {SignatureOf(x) : x \in outputs'}
        BY DEF SignaturesOf, SignatureOf
      <4> HIDE DEF o
      <4> QED
        BY <3>2, <4>1, <4>2 DEF SignaturesOf, o
    <3>6. \A pk \in signers : <<pk, s.msg>> \in Consents
      BY <3>3 DEF Consents, ConsentOf
    <3>7. signers # {} /\ signers \in SUBSET {e.pk : e \in ToSet(Book)}
      <4>1. Keys[s] \in Seq({e.pk : e \in ToSet(Book)} \ {Identity}) /\ Keys[s] # <<>>
        BY <3>3, KeysOfSession DEF OutputFits
      <4> DEFINE Pks == {e.pk : e \in ToSet(Book)}
                 keys == Keys[s]
      <4> HIDE DEF Pks, keys
      <4>2. keys \in Seq(Pks \ {Identity}) /\ keys # <<>>
        BY <4>1 DEF Pks, keys
      <4>3. 1 \in DOMAIN keys /\ \A i \in DOMAIN keys : keys[i] \in Pks
        BY <4>2
      <4>4. ToSet(keys) # {} /\ ToSet(keys) \in SUBSET Pks
        BY <4>3 DEF ToSet
      <4> QED
        BY <4>4 DEF Pks, keys
    <3>8. Consenting!Endorse(signers, s.msg)
      BY <3>4, <3>5, <3>6, <3>7
         DEF Consenting!Endorse, Consents, ConsentOf, SignaturesOf, SignatureOf
    <3> QED
      BY <3>7, <3>8 DEF Consenting!EndorsementNext
  <2> QED
    BY <1>2, <2>2, <2>3, <2>4, <2>5, <2>6 DEF Next
<1> QED
  BY <1>1, <1>2, InvariantHolds, PTL DEF Spec, ImplementsEndorsement, Consenting!EndorsementSpec
=============================================================================
