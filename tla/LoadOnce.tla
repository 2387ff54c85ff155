------------------------------ MODULE LoadOnce ------------------------------
(***************************************************************************)
(* What SingletonLoader promises: "It ensures that the library is loaded   *)
(* only once. It is thread-safe."  A library is loaded at most once, while *)
(* somebody is asking for it, and stays loaded; a call returns its         *)
(* instance only when the library is loaded, and may throw before it is.   *)
(***************************************************************************)
CONSTANTS Threads, Bridges, LibraryOf

VARIABLES
    bridge,   \* [Threads -> Bridges]: the bridge a thread asked for last
    outcome,  \* [Threads -> {"none", "running", "instance", "thrown"}]
    loaded    \* libraries loaded into the process

vars == <<bridge, outcome, loaded>>

Init ==
    /\ bridge \in [Threads -> Bridges]
    /\ outcome = [t \in Threads |-> "none"]
    /\ loaded = {}

Call(t, b) ==
    /\ outcome[t] # "running"
    /\ bridge' = [bridge EXCEPT ![t] = b]
    /\ outcome' = [outcome EXCEPT ![t] = "running"]
    /\ UNCHANGED loaded

Load(t) ==
    /\ outcome[t] = "running"
    /\ LibraryOf[bridge[t]] \notin loaded
    /\ loaded' = loaded \cup {LibraryOf[bridge[t]]}
    /\ UNCHANGED <<bridge, outcome>>

Return(t) ==
    /\ outcome[t] = "running"
    /\ LibraryOf[bridge[t]] \in loaded
    /\ outcome' = [outcome EXCEPT ![t] = "instance"]
    /\ UNCHANGED <<bridge, loaded>>

Throw(t) ==
    /\ outcome[t] = "running"
    /\ LibraryOf[bridge[t]] \notin loaded
    /\ outcome' = [outcome EXCEPT ![t] = "thrown"]
    /\ UNCHANGED <<bridge, loaded>>

Next ==
    \E t \in Threads :
        (\E b \in Bridges : Call(t, b)) \/ Load(t) \/ Return(t) \/ Throw(t)

Spec == Init /\ [][Next]_vars
=============================================================================
