-------------------------- MODULE MCNativeLoading --------------------------
(***************************************************************************)
(* Two threads, the two bridges that share the library hints and the one   *)
(* of wraps, and two failures.                                             *)
(***************************************************************************)
EXTENDS NativeLoading

CONSTANTS hintsBridge, ethBridge, wrapsBridge, hints, wraps

MCBridges == {hintsBridge, ethBridge, wrapsBridge}
MCLibraries == {hints, wraps}
MCLibraryOf == [b \in MCBridges |-> IF b = wrapsBridge THEN wraps ELSE hints]
=============================================================================
