---------------------------- MODULE MCX509Signer ----------------------------
(***************************************************************************)
(* Certificates with names, keys and extensions around the sizes at which  *)
(* a length takes another octet, and identifiers whose components are at   *)
(* the edges of septets and bytes, on both sides of the 47 bits that the   *)
(* rows of MASK serve.                                                     *)
(***************************************************************************)
EXTENDS X509Signer

\* Identifiers.
N(i) == Number(1, IF i = 0 THEN <<>> ELSE IF i < 256 THEN <<i>> ELSE <<i \div 256, i % 256>>)
Attribute(i) == OID(<<N(2), N(5), N(4), N(i)>>)
ExtensionId(i) == OID(<<N(2), N(5), N(29), N(i)>>)
RsaId == OID(<<N(1), N(2), N(840), Number(1, <<1, 187, 141>>), N(1), N(1), N(11)>>)
EcId  == OID(<<N(1), N(2), N(840), N(10045), N(4), N(3), N(2)>>)

\* A number of k bytes.
Wide(lead, rest, k) == Number(1, <<lead>> \o [i \in 1 .. k - 1 |-> rest])
Edges == <<0, 1, 127, 128, 255>>

\* Components of 1 to 6 bytes and at most 47 bits, and a second one that carries
\* into its first byte.
EdgeIds(lead) ==
    [i \in DOMAIN Edges |->
        OID(<<N(2)>> \o [k \in 1 .. (IF lead < 128 THEN 6 ELSE 5) |-> Wide(lead, Edges[i], k)])]
    \o [i \in DOMAIN Edges |-> OID(<<N(2), Wide(lead, Edges[i], 5)>>)]

\* Components of 48 bits and more, up to 9 bytes, and a second one that only has
\* 48 bits once 80 is added to it.
WideIds ==
    {<<N(2), N(5), Wide(lead, rest, k)>> : lead \in {128, 255}, rest \in {0, 255}, k \in 6 .. 9}
        \cup {<<N(2), N(5), Wide(lead, rest, k)>> : lead \in {1, 127}, rest \in {0, 255}, k \in 7 .. 9}
        \cup {<<N(2), Wide(127, 255, 6)>>}

\* Around the limits of the first two components, and of the size.
OfSeptets(n) == <<N(2), N(47)>> \o [i \in 1 .. n - 1 |-> N(127)]
LimitIds ==
    {<<N(f), N(s), N(0)>> : f \in 0 .. 3, s \in {0, 39, 40, 47, 48, 175, 176}}
        \cup {<<a, b>> : a, b \in {N(1), Junk, Number(-1, <<1>>), N(256)}}
        \cup {<<N(2), N(5), Number(-1, <<1>>)>>, <<N(1)>>, <<N(2), N(100), N(200), Junk>>,
              OfSeptets(MAXIMUM_OID_SIZE), OfSeptets(MAXIMUM_OID_SIZE + 1)}

Rsa == SignatureAlgorithm(RsaId, TRUE)
Ec == SignatureAlgorithm(EcId, FALSE)

Name(n) == <<RDN(<<AVA(Attribute(3), DerString(65, n))>>)>>
\* Several attributes in one RDN, not in order; two of them are the same.
MultiName ==
    <<RDN(<<AVA(Attribute(6), DerString(65, 2)), AVA(Attribute(3), DerString(200, 1)),
            AVA(Attribute(3), DerString(65, 1)), AVA(Attribute(3), DerString(65, 1))>>),
      RDN(<<AVA(Attribute(3), DerString(65, 12)), AVA(Attribute(2), DerString(66, 0))>>)>>

Basic(cA, len) == Extension(ExtensionId(19), TRUE, BasicConstraints(cA, len))
Alternatives(n) == Extension(ExtensionId(17), FALSE, DerString(70, n))

Info(name, ca, key, serial, algorithm, extensions, from, to) ==
    [name |-> name, ca |-> ca, key |-> key, serial |-> serial, algorithm |-> algorithm,
     extensions |-> extensions, from |-> from, to |-> to]

\* A certificate whose contents have a given size.
WithKey(k) == Info(Name(3), Name(3), k, 1, Rsa, <<<<Basic(TRUE, 0)>>>>, 2049, 2050)
OfSize(n) == WithKey(n - Size(Der(X509CertificateInfo(WithKey(1000)))) + 1004)

\* Identifiers at work in a certificate that is otherwise the same.
SignedWith(oid) ==
    Info(Name(1), Name(1), 44, 8, SignatureAlgorithm(OID(oid), FALSE), <<>>, 1999, 2000)
WideInfos == {SignedWith(oid) : oid \in WideIds}

MCInfos ==
    {Info(Name(n), Name(1), 1, 8, Ec, <<>>, 2025, 2049) : n \in {0, 113, 114, 117, 118, 121, 122, 127, 128}}
        \cup {OfSize(n) : n \in {255, 256, 65535, 65536, 2 ^ 24 - 1, 2 ^ 24}}
        \cup {Info(MultiName, Name(1), 91, 20, Rsa, <<<<Basic(c, l), Alternatives(n)>>>>, 1950, 9999) :
                 c \in BOOLEAN, l \in 0 .. 1, n \in {0, 125, 126}}
        \cup {LET ids == EdgeIds(lead)
              IN  Info(Name(1), Name(1), 44, 8, Ec,
                       <<[i \in DOMAIN ids |-> Extension(ids[i], FALSE, DerString(70, 1))]>>, 2000, 2051) :
                 lead \in {1, 127, 128, 255}}
        \cup {SignedWith(oid) : oid \in LimitIds} \cup WideInfos
        \cup {Info(Name(1), Name(1), 44, 8, Ec, <<<<>>>>, 1999, 2000)}
        \cup {Info(<<RDN(<<AVA(Attribute(3), DerString(65, 1)), AVA(OID(<<Junk>>), DerString(65, 1))>>)>>,
                   Name(1), 44, 8, Rsa, <<>>, 1999, 2000)}
=============================================================================
