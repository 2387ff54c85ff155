----------------------------- MODULE X509Signer -----------------------------
(***************************************************************************)
(* X509CertificateSigner.sign and the models it encodes: the certificate   *)
(* is encoded, the bytes are signed, and both are encoded on the same      *)
(* stream once it is reset.                                                *)
(***************************************************************************)
EXTENDS DerEncoder, FiniteSets

CONSTANTS
    Infos,         \* the certificates that are signed
    SignatureSize  \* bytes of a signature

ASSUME SignerAssumption == SignatureSize \in Nat

-----------------------------------------------------------------------------
(* The models.  Contents are given as runs.                                *)
DerString(v, n) == Value(TAG_UTF_8_STRING, Content(v, n))
Integer(n) == Value(TAG_INTEGER, <<Run(7, n)>>)
True == Value(TAG_BOOLEAN, <<Byte(255)>>)

AVA(oid, value) == Boxed(TAG_SEQUENCE, <<oid, value>>)
DN(rdns) == Boxed(TAG_SEQUENCE, rdns)

\* A moment is its year: two digits of it before 2050, four from then on.
putInstant(year) ==
    IF year < 2050 THEN Value(TAG_UTC_TIME, <<Byte(year % 100), Run(0, 12)>>)
    ELSE Value(TAG_GENERALIZED_TIME, <<Byte(year), Run(0, 14)>>)
Interval(from, to) == Boxed(TAG_SEQUENCE, <<putInstant(from), putInstant(to)>>)

SignatureAlgorithm(oid, needsNullParam) ==
    Boxed(TAG_SEQUENCE, IF needsNullParam THEN <<oid, Value(TAG_NULL, <<>>)>> ELSE <<oid>>)

\* A path length is a size in bytes, 0 if there is none.
BasicConstraints(cA, pathLen) ==
    Boxed(TAG_SEQUENCE, IF ~cA THEN <<>> ELSE IF pathLen = 0 THEN <<True>> ELSE <<True, Integer(pathLen)>>)
Extension(oid, critical, object) ==
    Boxed(TAG_SEQUENCE,
          <<oid>> \o (IF critical THEN <<True>> ELSE <<>>) \o <<wrap(TAG_OCTET_STRING, object)>>)
Extensions(list) == Boxed(TAG_SEQUENCE, list)

Version3 == wrap(TAG_TBS_CERTIFICATE, Value(TAG_INTEGER, <<Byte(2)>>))

\* The extensions are <<>> if they are null, and <<list>> otherwise.
X509CertificateInfo(info) ==
    Boxed(TAG_SEQUENCE,
          <<Version3, Integer(info.serial), info.algorithm, DN(info.ca),
            Interval(info.from, info.to), DN(info.name), Encoded(<<Run(9, info.key)>>)>>
          \o [i \in DOMAIN info.extensions |->
                 wrap(EXTENSIONS_TAG, Extensions(info.extensions[i]))])

\* putBitString: a byte 0 says that no bit is padding.
BitString(n) == Value(TAG_BIT_STRING, <<Byte(0), Run(5, n)>>)

SignedX509Certificate(rawCert, algorithm) ==
    Boxed(TAG_SEQUENCE, <<Encoded(rawCert), algorithm, BitString(SignatureSize)>>)

-----------------------------------------------------------------------------
VARIABLES
    info,     \* what is signed
    phase,    \* "info", "signed", "done", "thrown"
    rawCert,  \* the bytes that are signed
    failed    \* the JDK made no signature, or refused the certificate

vars == <<encoderVars, info, phase, rawCert, failed>>

Init ==
    /\ info \in Infos
    /\ phase = "info" /\ rawCert = <<>> /\ failed = FALSE
    /\ todo = <<Encode(X509CertificateInfo(info))>>
    /\ streams = <<NewStream>> /\ taken = <<>> /\ emitted = 0

Step ==
    /\ phase \in {"info", "signed"}
    /\ EncoderStep
    /\ UNCHANGED <<info, phase, rawCert, failed>>

Throw ==
    /\ phase \in {"info", "signed"}
    /\ EncoderThrows
    /\ phase' = "thrown"
    /\ UNCHANGED <<encoderVars, info, rawCert, failed>>

\* The certificate is encoded: sign it, reset the stream and encode both.
Sign ==
    /\ phase = "info" /\ todo = <<>>
    /\ rawCert' = os.out
    /\ phase' = "signed"
    /\ Write([os EXCEPT !.out = <<>>])
    /\ todo' = <<Encode(SignedX509Certificate(os.out, info.algorithm))>>
    /\ UNCHANGED <<info, taken, emitted, failed>>

SignFails ==
    /\ phase = "info" /\ todo = <<>>
    /\ phase' = "thrown" /\ failed' = TRUE
    /\ UNCHANGED <<encoderVars, info, rawCert>>

\* The parser of the JDK is external: it may refuse any certificate.
Parse ==
    /\ phase = "signed" /\ todo = <<>>
    /\ phase' = "done"
    /\ UNCHANGED <<encoderVars, info, rawCert, failed>>

ParseFails ==
    /\ phase = "signed" /\ todo = <<>>
    /\ phase' = "thrown" /\ failed' = TRUE
    /\ UNCHANGED <<encoderVars, info, rawCert>>

Next == Step \/ Throw \/ Sign \/ SignFails \/ Parse \/ ParseFails

Spec == Init /\ [][Next]_vars

-----------------------------------------------------------------------------
(* X.690: a length in the fewest octets, boxes around the encodings of     *)
(* their parts, and the parts of a set in ascending order of theirs.       *)
LengthOctets(n) ==
    LET k == CHOOSE k \in 1 .. 4 : n \div 256 ^ (k - 1) < 256 /\ (k = 1 \/ n >= 256 ^ (k - 1))
        digits == [i \in 1 .. k |-> Byte((n \div 256 ^ (k - i)) % 256)]
    IN  IF n < 128 THEN digits ELSE <<Byte(128 + k)>> \o digits

TLV(tag, content) == <<Byte(tag)>> \o LengthOctets(Size(content)) \o content

\* Octet by octet, the shorter one padded with 0.
Below(a, b) ==
    LET n == IF Len(a) < Len(b) THEN Len(b) ELSE Len(a)
        octet(s, i) == IF i <= Len(s) THEN s[i] ELSE 0
    IN  \E i \in 1 .. n : /\ octet(a, i) < octet(b, i)
                          /\ \A j \in 1 .. i - 1 : octet(a, j) = octet(b, j)

Ascending(encodings) ==
    LET bytes == [i \in DOMAIN encodings |-> Bytes(encodings[i])]
        below(i) == {j \in DOMAIN encodings : Below(bytes[j], bytes[i]) \/ (bytes[j] = bytes[i] /\ j < i)}
        at(k) == CHOOSE i \in DOMAIN encodings : Cardinality(below(i)) = k - 1
    IN  FlattenSeq([k \in DOMAIN encodings |-> encodings[at(k)]])

RECURSIVE Der(_)
Der(m) ==
    LET parts == <<>> \o [i \in DOMAIN m.parts |-> Der(m.parts[i])]
    IN  CASE m.kind = "encoded" -> m.content
          [] m.kind = "value" -> TLV(m.tag, m.content)
          [] m.kind = "boxed" -> TLV(m.tag, FlattenSeq(parts))
          [] m.kind = "rdn" -> TLV(m.tag, Ascending(parts))
          [] m.kind = "oid" -> TLV(m.tag, Runs(Subidentifiers(m.content)))

\* The values in a model, each with the number of boxes it is in.
RECURSIVE Values(_, _)
Values(m, boxes) ==
    LET parts == <<>> \o [i \in DOMAIN m.parts |-> Values(m.parts[i], boxes + 1)]
    IN  IF m.kind \in {"boxed", "rdn"} THEN FlattenSeq(parts) ELSE <<Run(m, boxes)>>

\* The identifiers in a model.
Ids(m) ==
    LET values == Values(m, 0)
    IN  {values[i].v.content : i \in {j \in DOMAIN values : values[j].v.kind = "oid"}}

Asked == X509CertificateInfo(info)
Encodable == \A oid \in Ids(Asked) : IsOid(oid)
InMaskRange == \A oid \in Ids(Asked) : WithinMask(oid)

\* What has been written is the beginning of the encoding X.690 asks for, and
\* when encoding ends it is all of it, with no measurement open.
AsX690 ==
    LET target == IF phase = "info" THEN Asked
                  ELSE SignedX509Certificate(Der(Asked), info.algorithm)
    IN  /\ IsPrefix(streams[1].out, Der(target))
        /\ todo = <<>> => /\ streams[1].out = Der(target)
                         /\ Len(streams) = 1 /\ ~isMeasuringLength(os)

\* While no identifier has a component of more than 47 bits, what is written is
\* what X.690 asks for: every length that was measured is that of what is then
\* written, every identifier has its septets, and the certificate around the
\* signature holds what was asked for.
WritesDer == phase # "thrown" /\ Encodable /\ InMaskRange => AsX690

\* While no identifier has a component of more than 47 bits, sign throws only if
\* one is malformed or does not fit, or the JDK makes no signature or refuses the
\* certificate; and it always throws if one is malformed or does not fit.
RefusesOnlyTheUnencodable ==
    InMaskRange => /\ phase = "thrown" => failed \/ ~Encodable
                   /\ phase \in {"signed", "done"} => Encodable

\* "We only need %7 combinations, and then the pattern repeats" (OID.java:70):
\* the masks serve components of any size, so that whatever has an encoding is
\* encoded, and as X.690 asks.
PatternRepeats == Encodable => IF phase = "thrown" THEN failed ELSE AsX690

\* All in all, values are emitted at most as often as if each were emitted twice
\* for each box around it, and twice more: the work does not double with every
\* level of nesting.
PassesAreFew ==
    LET values == Values(Asked, 0)
    IN  phase = "info" => emitted <= 2 * (Size(values) + Len(values))
=============================================================================
