-------------------------------- MODULE Lists --------------------------------
(***************************************************************************)
(* The few operators on lists that the models and their proofs share, with *)
(* the names and meaning they have in SequencesExt.  That module extends   *)
(* Bags, whose version for the prover puts two libraries of theorems       *)
(* before every proof obligation; these rest on Folds and FiniteSetsExt    *)
(* alone.                                                                  *)
(***************************************************************************)
EXTENDS Integers, Sequences, FiniteSets, Folds, Functions, FiniteSetsExt

\* The elements of a list.
ToSet(s) == {s[i] : i \in DOMAIN s}

\* A set in some order, each element once.
SetToSeq(S) == CHOOSE s \in [1 .. Cardinality(S) -> S] : IsInjective(s)

\* The last element first.
Reverse(s) == [i \in 1 .. Len(s) |-> s[Len(s) - i + 1]]

\* A loop over a list: base, then one step of op for each element in order.
FoldLeft(op(_, _), base, s) ==
    MapThenFoldSet(LAMBDA v, acc : op(acc, v), base, LAMBDA i : s[i], LAMBDA I : Max(I), DOMAIN s)

\* The same over the positions of a list.
FoldLeftDomain(op(_, _), base, s) == FoldLeft(op, base, [i \in DOMAIN s |-> i])

\* A list without the first of the elements that equal v, if there is one.
RemoveFirst(s, v) ==
    LET at == {i \in DOMAIN s : s[i] = v}
    IN  IF at = {} THEN s
        ELSE SubSeq(s, 1, Min(at) - 1) \o SubSeq(s, Min(at) + 1, Len(s))
=============================================================================
