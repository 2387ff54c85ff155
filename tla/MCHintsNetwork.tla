--------------------------- MODULE MCHintsNetwork ---------------------------
(* A small instance of HintsNetwork: three parties in a universe of four.  *)
EXTENDS HintsNetwork

CONSTANTS m1, m2

MCTaus == {2, 20, 99, 81, 3, 30, 98, 71}

Entry(party, weight, sk, slot) ==
    [party |-> party, weight |-> weight, sk |-> sk, slot |-> slot]

\* A roster; one in which party 0 has a new secret; one of two parties with
\* other weights, in which party 1 is listed twice; and two that preprocess
\* refuses: a hint made for another slot, and weights that overflow.
MCRosters ==
    { <<Entry(0, 2, 1, 0), Entry(1, 1, 4, 1), Entry(2, 1, 16, 2)>>,
      <<Entry(0, 2, 64, 0), Entry(1, 1, 4, 1), Entry(2, 1, 16, 2)>>,
      <<Entry(0, 1, 1, 0), Entry(1, 7, 16, 1), Entry(1, 3, 4, 1)>>,
      <<Entry(0, 2, 1, 0), Entry(1, 1, 4, 2)>>,
      <<Entry(0, 8, 1, 0), Entry(1, 8, 4, 1)>> }

MCSignings ==
    {[sk |-> sk, msg |-> m1] : sk \in {1, 4, 16, 64}} \cup {[sk |-> 4, msg |-> m2]}

MCFractions == {<<1, 2>>, <<1, 3>>, <<2, 3>>}
=============================================================================
