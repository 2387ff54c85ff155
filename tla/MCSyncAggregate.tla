--------------------------- MODULE MCSyncAggregate ---------------------------
(***************************************************************************)
(* Committees of up to four seats, some with a key in two seats, some whose *)
(* keys or part of them sum to the identity.                               *)
(***************************************************************************)
EXTENDS SyncAggregate

MCCommittees == {<<1, 2, 1>>, <<2, 3, 4>>, <<1, 1, 3, 3>>, <<1, 4, 2>>, <<4, 1>>}
=============================================================================
