---------------------------- MODULE SyncAggregate ----------------------------
(***************************************************************************)
(* The aggregate signature of an Ethereum sync committee (jni_eth.rs,      *)
(* EthereumBlsBridge.java), with the points a caller decompresses first    *)
(* (jni_blst.rs).                                                          *)
(*                                                                         *)
(* A point is its discrete logarithm in a group of prime order, or         *)
(* OffSubgroup; a signature is a point for a message.  An encoding is a    *)
(* sequence of base field elements, each the name of a coordinate with a   *)
(* padding and the bits above the field modulus.                           *)
(***************************************************************************)
EXTENDS Lists

CONSTANTS
    Q,           \* the order of the groups
    Committees,  \* sequences of secret keys; a key may sit in several seats
    Messages

ASSUME SyncAssumption ==
    /\ Q \in Nat \ {0, 1}
    /\ Committees \subseteq Seq(1 .. Q - 1)

VARIABLES
    committee, absent, signed, message, signedMessage,  \* what the caller has;
                                                        \* absent lists seats in any order
    fault,      \* the array the caller gets wrong, and how
    phase,      \* "start", "arrays", "loop", "done"
    arrays,     \* the encodings: the aggregate, the absent keys, the signature
    validated,  \* validateG1Eip2537PublicKeys on the keys
    signers,    \* the aggregate less the keys taken off so far
    next,       \* the absent key that is taken off next
    verdict,    \* what verifySyncAggregate returns
    refused     \* where it returned false

inputs == <<committee, absent, signed, message, signedMessage, fault>>
syncVars == <<inputs, phase, arrays, validated, signers, next, verdict, refused>>

-----------------------------------------------------------------------------
(* blst, as this code uses it.                                             *)
OffSubgroup == -1
Point(g, log) == [g |-> g, log |-> log]
Points(g) == {Point(g, log) : log \in {OffSubgroup} \cup 0 .. Q - 1}

blst_add_or_double(a, b) == (a + b) % Q
blst_cneg(a) == (Q - a) % Q

\* Coordinates in the order of EIP-2537; the identity is all zeros.
Coordinates(p) ==
    LET names == IF p.g = 1 THEN <<"x", "y">> ELSE <<"x.c0", "x.c1", "y.c0", "y.c1">>
    IN  [i \in DOMAIN names |-> IF p.log = 0 THEN <<"zero", 0>> ELSE <<names[i], p.log>>]

Element(fp) == [pad |-> FALSE, high |-> FALSE, fp |-> fp]

\* The order in which blst reads them.
ZCashOrder(g) == IF g = 1 THEN <<1, 2>> ELSE <<2, 1, 4, 3>>

\* The point that was serialized, if any: high bits of the first element are
\* flags, of the others they are beyond the modulus.
blst_deserialize(g, serialized) ==
    {p \in Points(g) :
        \A i \in DOMAIN serialized : serialized[i] = Element(Coordinates(p)[ZCashOrder(g)[i]])}

-----------------------------------------------------------------------------
(* Encoding and decoding; {} is null or None.                              *)
to_eip2537(p) == [i \in DOMAIN Coordinates(p) |-> Element(Coordinates(p)[i])]

decompress(p) == IF p.log = OffSubgroup THEN {} ELSE {to_eip2537(p)}

eip2537_to_zcash(encoded, order) ==
    IF \/ Len(encoded) # Len(order)
       \/ \A i \in DOMAIN encoded : encoded[i] = Element(<<"zero", 0>>)
       \/ \E i \in DOMAIN encoded : encoded[i].pad
       \/ encoded[order[1]].high
    THEN {}
    ELSE {[i \in DOMAIN order |-> encoded[order[i]]]}

g1_from_eip2537(encoded) ==
    {p \in UNION {blst_deserialize(1, s) : s \in eip2537_to_zcash(encoded, <<1, 2>>)} :
        p.log # OffSubgroup}

g2_from_eip2537(encoded) ==
    {p \in UNION {blst_deserialize(2, s) : s \in eip2537_to_zcash(encoded, <<2, 1, 4, 3>>)} :
        p.log # OffSubgroup}

\* A null array has no elements.
Null == <<>>
HasLength(array, length) == array # Null /\ Len(array) = length
allHaveLength(list, length) == \A i \in DOMAIN list : HasLength(list[i], length)

\* A mutant: only the lengths are looked at.
validateLengths(keys) == keys # <<>> /\ allHaveLength(keys, 2)

validateG1Eip2537PublicKeys(keys) ==
    /\ keys # <<>> /\ allHaveLength(keys, 2)
    /\ \A i \in DOMAIN keys : g1_from_eip2537(keys[i]) # {}

-----------------------------------------------------------------------------
(* The caller: it has points decompressed, and may get one array wrong.    *)
Seats == DOMAIN committee
SumOf(keys, seats) ==
    FoldLeftDomain(LAMBDA sum, i : IF i \in seats THEN blst_add_or_double(sum, keys[i]) ELSE sum,
                   0, keys)
KeyOf(seats) == SumOf(committee, seats)

Faults == {"none", "null", "short", "padded", "flags", "high", "mixed", "offSubgroup", "identity"}
Wrong(array, g, how) ==
    CASE how = "none" -> array
      [] how = "null" -> Null
      [] how = "short" -> Tail(array)
      [] how = "padded" -> [array EXCEPT ![Len(array)].pad = TRUE]
      [] how = "flags" -> [array EXCEPT ![ZCashOrder(g)[1]].high = TRUE]
      [] how = "high" -> [array EXCEPT ![Len(array)].high = TRUE]
      [] how = "mixed" -> [array EXCEPT ![1] = array[2]]
      [] how = "offSubgroup" -> to_eip2537(Point(g, OffSubgroup))
      [] how = "identity" -> to_eip2537(Point(g, 0))

SyncInit ==
    /\ committee \in Committees
    /\ \E n \in 0 .. Len(committee) : absent \in Injection(1 .. n, Seats)
    /\ signed \in SUBSET Seats
    /\ message \in Messages /\ signedMessage \in Messages
    /\ fault \in {[of |-> of, how |-> how] : of \in {"aggregate", "absent", "signature"}, how \in Faults}
    /\ phase = "start" /\ arrays = [aggregate |-> Null, absent |-> <<>>, signature |-> Null]
    /\ validated = FALSE /\ signers = 0 /\ next = 1 /\ verdict = FALSE /\ refused = "no"

\* A point as it is sent.  The first absent key stands for any.
Sent(g, log, of, i) ==
    LET array == CHOOSE a \in decompress(Point(g, log)) : TRUE
    IN  IF fault.of = of /\ i = 1 THEN Wrong(array, g, fault.how) ELSE array

Prepare ==
    /\ phase = "start"
    /\ arrays' = [aggregate |-> Sent(1, KeyOf(Seats), "aggregate", 1),
                  absent |-> [i \in DOMAIN absent |-> Sent(1, committee[absent[i]], "absent", i)],
                  signature |-> Sent(2, KeyOf(signed), "signature", 1)]
    /\ phase' = "arrays"
    /\ UNCHANGED <<inputs, validated, signers, next, verdict, refused>>

\* It may have the keys validated.
Validate ==
    /\ phase = "arrays" /\ ~validated
    /\ validated' = validateG1Eip2537PublicKeys(<<arrays.aggregate>> \o arrays.absent)
    /\ validated'
    /\ UNCHANGED <<inputs, phase, arrays, signers, next, verdict, refused>>

-----------------------------------------------------------------------------
(* verifySyncAggregate.                                                    *)
Refuse(why) ==
    /\ phase' = "done" /\ verdict' = FALSE /\ refused' = why
    /\ UNCHANGED <<inputs, arrays, validated, signers, next>>

\* The bridge's checks (a null list or message is refused like a null array), and
\* the points that are decoded before the loop.
Verify ==
    /\ phase = "arrays"
    /\ IF \/ ~HasLength(arrays.aggregate, 2) \/ ~allHaveLength(arrays.absent, 2)
          \/ ~HasLength(arrays.signature, 4)
       THEN Refuse("arguments")
       ELSE IF g1_from_eip2537(arrays.aggregate) = {} THEN Refuse("aggregate")
       ELSE IF g2_from_eip2537(arrays.signature) = {} THEN Refuse("signature")
       ELSE /\ \E p \in g1_from_eip2537(arrays.aggregate) : signers' = p.log
            /\ phase' = "loop"
            /\ UNCHANGED <<inputs, arrays, validated, next, verdict, refused>>

\* A mutant: the key is added, as it is not negated.
AddKey ==
    /\ phase = "loop" /\ next <= Len(arrays.absent)
    /\ \E p \in g1_from_eip2537(arrays.absent[next]) : signers' = blst_add_or_double(signers, p.log)
    /\ next' = next + 1
    /\ UNCHANGED <<inputs, phase, arrays, validated, verdict, refused>>

\* One iteration.
TakeOff ==
    /\ phase = "loop" /\ next <= Len(arrays.absent)
    /\ LET key == g1_from_eip2537(arrays.absent[next])
       IN  IF key = {} THEN Refuse("absent")
           ELSE /\ \E p \in key : signers' = blst_add_or_double(signers, blst_cneg(p.log))
                /\ next' = next + 1
                /\ UNCHANGED <<inputs, phase, arrays, validated, verdict, refused>>

\* e(signers, H(message)) = e(g1, signature): the signature was made for this
\* message, with the key of the signers.
verify_signers ==
    /\ phase = "loop" /\ next > Len(arrays.absent)
    /\ IF signers = 0 THEN Refuse("identity")
       ELSE /\ verdict' = \E p \in g2_from_eip2537(arrays.signature) :
                             p.log = signers /\ message = signedMessage
            /\ refused' = IF verdict' THEN "no" ELSE "pairing"
            /\ phase' = "done"
            /\ UNCHANGED <<inputs, arrays, validated, signers, next>>

SyncNext == Prepare \/ Validate \/ Verify \/ TakeOff \/ verify_signers

SyncSpec == SyncInit /\ [][SyncNext]_syncVars

-----------------------------------------------------------------------------
Signers == Seats \ ToSet(absent)
Untouched == fault.how = "none" \/ (fault.of = "absent" /\ absent = <<>>)

\* The verdict is that of FastAggregateVerify over the seats that are not
\* absent, in whatever order the absent keys come and whether or not partial
\* sums meet the identity or each other: the signature was made for the message
\* with the sum of exactly those keys, and neither it nor the committee's is
\* the identity.
VerdictIsFastAggregateVerify ==
    phase = "done" =>
        (verdict <=> /\ Untouched
                     /\ KeyOf(Seats) # 0 /\ KeyOf(Signers) # 0
                     /\ KeyOf(signed) = KeyOf(Signers)
                     /\ message = signedMessage)

\* Keys that were validated are not refused later on, and arrays that come from
\* decompression as they are are refused only for the identity.
ValidatedKeysAreTaken ==
    phase = "done" =>
        /\ validated => /\ refused \notin {"aggregate", "absent"}
                        /\ refused = "arguments" => fault.of = "signature"
        /\ Untouched => /\ refused \notin {"arguments", "absent"}
                        /\ refused = "aggregate" => KeyOf(Seats) = 0
                        /\ refused = "signature" => KeyOf(signed) = 0
=============================================================================
