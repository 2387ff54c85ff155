---------------------------- MODULE AddressBook ----------------------------
(***************************************************************************)
(* The address book of WRAPS and the pure rules every entry point of       *)
(* nova-wraps applies to it: validation, padding, commitment, the signing  *)
(* subset, the weight sums and the strict-majority threshold (wraps.rs),   *)
(* with the group arithmetic they rest on (schnorr.rs).                    *)
(*                                                                         *)
(* The group is written additively with generator 1, so a public key       *)
(* sk * G is the residue sk modulo Order and the identity is 0.  Hashes    *)
(* are collision free: a hash is its preimage.  A proof of knowledge is    *)
(* the secret it was made with.  A padded bitvector is the set of seats it *)
(* selects.                                                                *)
(***************************************************************************)
EXTENDS Lists

CONSTANTS
    MAX_AB_SIZE,  \* seats of a padded book (64 in constants.rs)
    MaxWeight,    \* u64::MAX, the largest weight and the largest total
    Order         \* the order of the group the keys live in

ASSUME AddressBookAssumption ==
    /\ MAX_AB_SIZE \in Nat \ {0}
    /\ MaxWeight \in Nat \ {0}
    /\ Order \in Nat \ {0, 1}

PublicKey == 0 .. Order - 1
Weight    == 0 .. MaxWeight
Seats     == 1 .. MAX_AB_SIZE

\* SchnorrPublicKey's infinity flag.
Identity == 0
IsIdentity(pk) == pk = Identity

\* (node id, (public key, proof of knowledge), weight)
AddressBookEntry ==
    [node : Int, pk : PublicKey, pok : PublicKey, weight : Weight]

\* The attested sentinel key, and the empty seat a book is padded with.
padding_entry ==
    [node |-> -1, pk |-> Identity, pok |-> Identity, weight |-> 0]

\* Schnorr::verify_knowledge: the proof answers for the secret of this key.
verify_knowledge(pk, pok) == pok = pk

(***************************************************************************)
(* verify_address_book, one entry of its all() loop at a time.             *)
(***************************************************************************)
VerifyStart == [ok |-> TRUE, seen |-> {}, total |-> 0]

\* A mutant: a total that may exceed u64::MAX.
VerifyStepNoOverflowCheck(acc, entry) ==
    IF ~acc.ok \/ IsIdentity(entry.pk) THEN acc
    ELSE [ok    |-> /\ entry.pk \notin acc.seen
                    /\ verify_knowledge(entry.pk, entry.pok),
          seen  |-> acc.seen \cup {entry.pk},
          total |-> acc.total + entry.weight]

VerifyStep(acc, entry) ==
    IF ~acc.ok \/ IsIdentity(entry.pk) THEN acc
    ELSE [ok    |-> /\ entry.pk \notin acc.seen
                    /\ acc.total + entry.weight <= MaxWeight
                    /\ verify_knowledge(entry.pk, entry.pok),
          seen  |-> acc.seen \cup {entry.pk},
          total |-> acc.total + entry.weight]

verify_address_book(ab) ==
    /\ Len(ab) <= MAX_AB_SIZE
    /\ FoldLeft(VerifyStep, VerifyStart, ab).ok

\* pad_address_book, for a book of at most MAX_AB_SIZE entries.
pad_address_book(ab) ==
    [i \in Seats |-> IF i <= Len(ab) THEN ab[i] ELSE padding_entry]

\* H(ab): node id, key and weight of every seat, in order; never the proof.
hash_address_book(ab) ==
    [i \in DOMAIN ab |-> <<ab[i].node, ab[i].pk, ab[i].weight>>]

\* Every entry point validates and pads before it hashes.
compute_addressbook_hash(ab) == hash_address_book(pad_address_book(ab))

\* pad_bitvector, for a caller's bitvector of at most MAX_AB_SIZE bits.
pad_bitvector(bits) == {i \in Seats : i <= Len(bits) /\ bits[i]}

\* A padded bitvector selects a seat past the end of the unpadded book.
SelectsOutside(ab, bits) == \E i \in bits : i > Len(ab)

\* reject_sentinel_signers returns an error.
SelectsSentinel(ab, bits) ==
    \E i \in bits : i <= Len(ab) /\ IsIdentity(ab[i].pk)

\* The nonidentity keys a bitvector names, in address-book order.
signing_subset(ab, bits) ==
    LET add(keys, i) == IF i \in bits /\ ~IsIdentity(ab[i].pk)
                        THEN Append(keys, ab[i].pk)
                        ELSE keys
    IN  FoldLeftDomain(add, <<>>, ab)

\* Multisig::aggregate_key of a nonempty list of keys.
aggregate_key(keys) == FoldLeft(LAMBDA a, pk : (a + pk) % Order, Identity, keys)

(***************************************************************************)
(* subset_weight, one seat of its try_fold at a time.  ok = FALSE is None. *)
(***************************************************************************)
\* What it has summed up, and whether the sums still fit.
Tally == [ok : BOOLEAN, signing : Weight, total : Weight]
TallyStart == [ok |-> TRUE, signing |-> 0, total |-> 0]

\* A mutant: an empty seat keeps the weight its entry lists.
EffectiveWeightAsListed(entry) == entry.weight

EffectiveWeight(entry) == IF IsIdentity(entry.pk) THEN 0 ELSE entry.weight

\* A mutant: a sum that does not fit is kept.
TallyStepUnchecked(acc, entry, signed) ==
    LET effective == EffectiveWeight(entry)
    IN  [acc EXCEPT !.total = @ + effective,
                    !.signing = IF signed THEN @ + effective ELSE @]

TallyStep(acc, entry, signed) ==
    LET effective == EffectiveWeight(entry)
        total     == acc.total + effective
        signing   == IF signed THEN acc.signing + effective ELSE acc.signing
    IN  IF acc.ok /\ total <= MaxWeight /\ signing <= MaxWeight
        THEN [ok |-> TRUE, signing |-> signing, total |-> total]
        ELSE [acc EXCEPT !.ok = FALSE]

subset_weight(ab, bits) ==
    LET start == [TallyStart EXCEPT !.ok = Len(ab) <= MAX_AB_SIZE]
    IN  FoldLeftDomain(LAMBDA acc, i : TallyStep(acc, ab[i], i \in bits), start, ab)

\* A mutant: a tie is enough.
TieIsEnough(signing, total) == signing <= total /\ signing >= total \div 2

\* Strictly more than half, without doubling a value that could overflow.
meets_threshold(signing, total) == signing <= total /\ signing > total \div 2

\* What verify_signature asks of a book and a bitvector before it looks at the
\* signature: Ok(false) and the sentinel's Err are both a refusal.
SubsetMayRotate(ab, bits) ==
    LET padded       == pad_address_book(ab)
        tally        == subset_weight(padded, bits)
        participants == signing_subset(padded, bits)
    IN  /\ verify_address_book(ab)
        /\ ~SelectsOutside(ab, bits)
        /\ ~SelectsSentinel(ab, bits)
        /\ tally.ok /\ meets_threshold(tally.signing, tally.total)
        /\ participants # <<>>
        /\ ~IsIdentity(aggregate_key(participants))
=============================================================================
