------------------------- MODULE MCSigningProtocol -------------------------
(***************************************************************************)
(* Two crowds over one committee, which has three members whose keys       *)
(* cancel when all of them sign, and an empty seat.                        *)
(***************************************************************************)
EXTENDS SigningProtocol

Entry(node, pk, weight) == [node |-> node, pk |-> pk, pok |-> pk, weight |-> weight]
MCBook == <<Entry(1, 5, 2), Entry(2, 8, 1), Entry(3, 0, 3), Entry(4, 9, 1)>>

Session(msg, bits, routed) == [msg |-> msg, bits |-> bits, routed |-> routed]
Instance(signer, session, entropy) ==
    [signer |-> signer, session |-> session, entropy |-> entropy]

\* Messages of all sessions mix.  Seat 2 restarts once and uses its first seed
\* again for another message.
Pair   == Session("m1", {1, 2}, FALSE)
Alone  == Session("m2", {2}, FALSE)
Vacant == Session("m1", {2, 3}, FALSE)
Mixed ==
    {Instance(1, Pair, <<"a">>), Instance(2, Pair, <<"b">>), Instance(2, Pair, <<"c">>),
     Instance(2, Alone, <<"b">>), Instance(2, Vacant, <<"d">>)}

\* Messages are routed, to one instance for each member of each session.
RoutedSessions ==
    {Session("m1", {1, 2}, TRUE), Session("m2", {2}, TRUE), Session("m1", {1, 2, 4}, TRUE)}
Routed ==
    UNION {{Instance(seat, s, <<seat, s>>) : seat \in s.bits} : s \in RoutedSessions}

MCSessions == {Pair, Alone, Vacant} \cup RoutedSessions
MCInstances == Mixed \cup Routed
MCCrowds == {Mixed, Routed}
=============================================================================
