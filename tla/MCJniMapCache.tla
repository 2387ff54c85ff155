--------------------------- MODULE MCJniMapCache ---------------------------
(***************************************************************************)
(* A cache for two keys out of three, with a fourth that is malformed.     *)
(***************************************************************************)
EXTENDS JniMapCache
=============================================================================
