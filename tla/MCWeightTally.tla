--------------------------- MODULE MCWeightTally ---------------------------
(***************************************************************************)
(* Books of three seats with 2-bit weights: empty seats that list weight,  *)
(* repeated keys, a proof made for another key, and totals that overflow.  *)
(***************************************************************************)
EXTENDS WeightTally

Seat(pk, pok, weight) == [node |-> 0, pk |-> pk, pok |-> pok, weight |-> weight]

MCEntryChoices ==
    {Seat(0, 0, w) : w \in {0, 2}} \cup {Seat(1, 1, w) : w \in 0 .. 3}
        \cup {Seat(2, 2, w) : w \in 0 .. 3} \cup {Seat(3, 3, 1), Seat(3, 1, 1)}
=============================================================================
