-------------------------------- MODULE Oid --------------------------------
(***************************************************************************)
(* OID.emit (OID.java): the components of an object identifier, each       *)
(* checked and packed into septets, and what X.690 says of them.           *)
(*                                                                         *)
(* Components may be larger than any machine integer: a number is the      *)
(* sequence of its bytes, most significant first and without leading       *)
(* zeros, as in the magnitude of a BigInteger.  The text they are parsed   *)
(* from is left out; a component that does not parse is Junk.              *)
(***************************************************************************)
EXTENDS Integers, Sequences, FiniteSetsExt, Bitwise

CONSTANT MAXIMUM_OID_SIZE  \* 4096 in the code

ASSUME OidAssumption == MAXIMUM_OID_SIZE \in Nat

Junk == [sign |-> 0, mag |-> <<>>]
Number(sign, mag) == [sign |-> sign, mag |-> mag]

-----------------------------------------------------------------------------
\* A number as an integer, if it is less than 2^16.
IsSmall(mag) == Len(mag) <= 2
Small(mag) == IF mag = <<>> THEN 0
              ELSE IF Len(mag) = 1 THEN mag[1] ELSE 256 * mag[1] + mag[2]

\* BigInteger.add of a number up to 80: the carry runs through the bytes that
\* are 255.
Carries(mag, n, i) ==
    mag[Len(mag)] + n > 255 /\ \A j \in i + 1 .. Len(mag) - 1 : mag[j] = 255
Plus(mag, n) ==
    IF n = 0 THEN mag
    ELSE IF mag = <<>> THEN <<n>>
    ELSE LET low == [mag EXCEPT ![Len(mag)] = (@ + n) % 256]
             sum == [i \in DOMAIN mag |->
                       IF i < Len(mag) /\ Carries(mag, n, i) THEN (mag[i] + 1) % 256 ELSE low[i]]
         IN  IF Carries(mag, n, 0) THEN <<1>> \o sum ELSE sum

\* BigInteger.toByteArray: a zero byte keeps the sign bit clear.
toByteArray(mag) == IF mag = <<>> \/ mag[1] >= 128 THEN <<0>> \o mag ELSE mag

\* MSB mask, MSB shift left, LSB mask, LSB shift right.
MASK ==
    << <<0, 0, 127, 0>>, <<63, 1, 128, 7>>, <<31, 2, 192, 6>>, <<15, 3, 224, 5>>,
       <<7, 4, 240, 4>>, <<3, 5, 248, 3>>, <<1, 6, 252, 2>>, <<0, 7, 254, 1>> >>

\* The septet at a septet pointer; lsbIndex counts from 0.
lsbIndex(b, sp) == Len(b) - (sp * 7) \div 8 - 1
Septet(b, sp) ==
    LET mask == MASK[(sp % 7) + 1]
        lsb  == lsbIndex(b, sp)
    IN  (b[lsb + 1] & mask[3]) \div 2 ^ mask[4]
            + (IF lsb >= 1 THEN (b[lsb] & mask[1]) * 2 ^ mask[2] ELSE 0)

\* pack7Oid: {} if it reads before the start of the array.
pack7Oid(mag) ==
    LET b    == toByteArray(mag)
        top  == (Len(b) * 8) \div 7
        lead == {sp \in 0 .. top : Septet(b, sp) # 0}
        last == Max(lead)
    IN  IF mag = <<>> THEN {<<0>>}
        ELSE IF lsbIndex(b, top) < 0 THEN {}
        ELSE IF lead = {} THEN {<<>>}
        ELSE {[i \in 1 .. last + 1 |->
                 LET sp == last + 1 - i IN Septet(b, sp) + (IF sp > 0 THEN 128 ELSE 0)]}

\* A mutant: the second component of 0.x and 1.x is not bounded.
checkSecondComponentSign(f, c) == c.sign # -1

checkFirstComponent(c) == c.sign # -1 /\ IsSmall(c.mag) /\ Small(c.mag) <= 2
checkSecondComponent(f, c) ==
    c.sign # -1 /\ (f # 2 => IsSmall(c.mag) /\ Small(c.mag) <= 39)
checkOtherComponent(c) == c.sign # -1

\* One iteration of the loop of emit: what component k adds to the septets, {}
\* if it is refused.  The first is only remembered; the second has 40 times the
\* first added to it.
Component(oid, k) ==
    LET c     == oid[k]
        first == Small(oid[1].mag)
    IN  IF c = Junk THEN {}
        ELSE IF k = 1 THEN IF checkFirstComponent(c) THEN {<<>>} ELSE {}
        ELSE IF k = 2
        THEN IF checkSecondComponent(first, c) THEN pack7Oid(Plus(c.mag, 40 * first)) ELSE {}
        ELSE IF checkOtherComponent(c) THEN pack7Oid(c.mag) ELSE {}

\* emit: {} if it throws.
emit(oid) ==
    LET tmp[k \in 0 .. Len(oid)] ==
            IF k = 0 THEN {<<>>}
            ELSE {t \in {s \o septets : s \in tmp[k - 1], septets \in Component(oid, k)} :
                     Len(t) <= MAXIMUM_OID_SIZE}
    IN  IF Len(oid) >= 2 THEN tmp[Len(oid)] ELSE {}

-----------------------------------------------------------------------------
(* X.690, 8.19: each subidentifier in as few septets as its bits need, all  *)
(* but the last with bit 8 set.                                            *)
Bit(mag, i) == IF i \div 8 >= Len(mag) THEN 0 ELSE (mag[Len(mag) - i \div 8] \div 2 ^ (i % 8)) % 2
Bits(mag) == 8 * (Len(mag) - 1) + CHOOSE n \in 1 .. 8 : 2 ^ (n - 1) <= mag[1] /\ mag[1] < 2 ^ n
Subidentifier(mag) ==
    LET n == IF mag = <<>> THEN 1 ELSE (Bits(mag) + 6) \div 7
        septet(k) == MapThenSumSet(LAMBDA i : Bit(mag, 7 * k + i) * 2 ^ i, 0 .. 6)
    IN  [i \in 1 .. n |-> septet(n - i) + (IF i < n THEN 128 ELSE 0)]

\* The number that component k >= 2 stands for in the encoding.
Packed(oid, k) == IF k = 2 THEN Plus(oid[2].mag, 40 * Small(oid[1].mag)) ELSE oid[k].mag

Subidentifiers(oid) ==
    LET sub[k \in 1 .. Len(oid)] ==
            IF k = 1 THEN <<>> ELSE sub[k - 1] \o Subidentifier(Packed(oid, k))
    IN  sub[Len(oid)]

FirstIsArc(oid) == IsSmall(oid[1].mag) /\ Small(oid[1].mag) <= 2

IsOid(oid) ==
    /\ Len(oid) >= 2
    /\ \A i \in DOMAIN oid : oid[i] # Junk /\ oid[i].sign # -1
    /\ FirstIsArc(oid)
    /\ Small(oid[1].mag) < 2 => IsSmall(oid[2].mag) /\ Small(oid[2].mag) <= 39
    /\ Len(Subidentifiers(oid)) <= MAXIMUM_OID_SIZE

\* Septets 0 to 6 have rows of MASK of their own, and a number has no others if
\* it takes at most six bytes with its sign bit: 47 bits.  With septet 7, % 7
\* starts again at the first row, one septet early.
WithinMask(oid) ==
    FirstIsArc(oid) =>
        \A k \in 2 .. Len(oid) : Packed(oid, k) = <<>> \/ Bits(Packed(oid, k)) <= 47
=============================================================================
