--------------------------- MODULE MCWrapsBridge ---------------------------
(***************************************************************************)
(* Calls of WRAPSLibraryBridge with the sizes of the code: books around    *)
(* the limits of 63 and 64 seats, and up to two mistakes in a call.        *)
(***************************************************************************)
EXTENDS WrapsBridge

MCLengths == {Null, 0, 1, 2, 63, 64, 65}
=============================================================================
