-------------------------- MODULE MCRotationChain --------------------------
(***************************************************************************)
(* Two books over three members: in the first any two of three carry the   *)
(* majority, in the second, which leaves a seat empty, one member does.    *)
(***************************************************************************)
EXTENDS RotationChain, TLC

CONSTANTS A, B

Entry(node, pk, weight) == [node |-> node, pk |-> pk, pok |-> pk, weight |-> weight]
MCBooks == {A, B}
MCContents == [b \in MCBooks |->
    IF b = A THEN <<Entry(1, 1, 1), Entry(2, 2, 1), Entry(3, 4, 1)>>
             ELSE <<Entry(3, 4, 2), Entry(2, 2, 1)>>]

\* The specification never tells one hints key from another.
Symmetry == Permutations(HintsKeys)
=============================================================================
