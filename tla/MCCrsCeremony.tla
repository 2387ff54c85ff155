--------------------------- MODULE MCCrsCeremony ---------------------------
(***************************************************************************)
(* Two contributors and up to three contributions to a CRS of degree two   *)
(* or three, one of which may have drawn the secret zero.  No product of   *)
(* the secrets repeats.                                                    *)
(***************************************************************************)
EXTENDS CrsCeremony, TLC

MCSeeds == {<<0, 1>>, <<2, 1>>, <<4, 5>>}
Symmetry == Permutations(Contributors)
=============================================================================
