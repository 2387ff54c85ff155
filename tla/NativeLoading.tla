--------------------------- MODULE NativeLoading ---------------------------
(***************************************************************************)
(* Loading native libraries: SingletonLoader.getInstance over              *)
(* NativeLibrary.install, NativeBinary.extract and ResourceFile.extract.   *)
(*                                                                         *)
(* Every bridge class has a loader with its own monitor and its own flag,  *)
(* and two bridges share the library "hints".  The cache of extracted      *)
(* paths, and its monitor, are shared by all of them.  An extraction       *)
(* leaves a directory and a file on disk, which the JVM deletes when it    *)
(* exits, last registered first.  Every step may fail; the next call then  *)
(* starts over.                                                            *)
(***************************************************************************)
EXTENDS Lists

CONSTANTS
    Threads,
    Bridges,
    Libraries,
    LibraryOf,    \* [Bridges -> Libraries]
    MaxFailures   \* bound: failures

ASSUME LoadingAssumption ==
    /\ Bridges # {}
    /\ LibraryOf \in [Bridges -> Libraries]
    /\ MaxFailures \in Nat

VARIABLES
    pc, bridge, outcome,  \* per thread: where it is, which bridge, how its call ended
    monitor,              \* [Bridges -> SUBSET Threads]: who is in synchronized (this)
    libraryLoaded,        \* [Bridges -> BOOLEAN]
    cacheLock,            \* who is in synchronized (pathCache)
    pathCache,            \* library -> its path, the number of the extraction that made it
    linked,               \* [Libraries -> Nat]: successful System.load calls
    attempt,              \* number of the latest extraction
    disk, onExit,         \* what is on disk; what deleteOnExit registered, in order
    failures, jvm

loading == <<pc, bridge, outcome, monitor, libraryLoaded, cacheLock, pathCache, linked>>
files == <<attempt, disk, onExit>>
vars == <<loading, files, failures, jvm>>

Library(t) == LibraryOf[bridge[t]]
Extracting == {"mkdir", "copy", "secure", "link"}
Inside == Extracting \cup {"install", "loaded"}

Init ==
    /\ pc = [t \in Threads |-> "idle"]
    /\ bridge = [t \in Threads |-> CHOOSE b \in Bridges : TRUE]
    /\ outcome = [t \in Threads |-> "none"]
    /\ monitor = [b \in Bridges |-> {}]
    /\ libraryLoaded = [b \in Bridges |-> FALSE]
    /\ cacheLock = {}
    /\ pathCache = <<>>
    /\ linked = [n \in Libraries |-> 0]
    /\ attempt = 0 /\ disk = {} /\ onExit = <<>>
    /\ failures = 0
    /\ jvm = "up"

-----------------------------------------------------------------------------
Goto(t, label) == pc' = [pc EXCEPT ![t] = label]

Finish(t, how) ==
    /\ Goto(t, "idle")
    /\ outcome' = [outcome EXCEPT ![t] = how]

Leave(t) == monitor' = [monitor EXCEPT ![bridge[t]] = @ \ {t}]

Call(t, b) ==
    /\ pc[t] = "idle"
    /\ bridge' = [bridge EXCEPT ![t] = b]
    /\ outcome' = [outcome EXCEPT ![t] = "running"]
    /\ Goto(t, "check")
    /\ UNCHANGED <<monitor, libraryLoaded, cacheLock, pathCache, linked, files, failures>>

\* getInstance: the check outside the monitor.
Check(t) ==
    /\ pc[t] = "check"
    /\ IF libraryLoaded[bridge[t]]
       THEN Finish(t, "instance")
       ELSE Goto(t, "monitor") /\ UNCHANGED outcome
    /\ UNCHANGED <<bridge, monitor, libraryLoaded, cacheLock, pathCache, linked, files, failures>>

\* A mutant: the flag is set before the library is installed.
EnterAndSetFlag(t) ==
    /\ pc[t] = "monitor"
    /\ monitor[bridge[t]] = {}
    /\ monitor' = [monitor EXCEPT ![bridge[t]] = {t}]
    /\ libraryLoaded' = [libraryLoaded EXCEPT ![bridge[t]] = TRUE]
    /\ Goto(t, "install")
    /\ UNCHANGED <<bridge, outcome, cacheLock, pathCache, linked, files, failures>>

\* getInstance: the monitor, and the check inside it.
Enter(t) ==
    /\ pc[t] = "monitor"
    /\ monitor[bridge[t]] = {}
    /\ IF libraryLoaded[bridge[t]]
       THEN Finish(t, "instance") /\ UNCHANGED monitor
       ELSE /\ monitor' = [monitor EXCEPT ![bridge[t]] = {t}]
            /\ Goto(t, "install")
            /\ UNCHANGED outcome
    /\ UNCHANGED <<bridge, libraryLoaded, cacheLock, pathCache, linked, files, failures>>

\* A mutant: extract does not look at what is cached.
ExtractAgain(t) ==
    /\ pc[t] = "install"
    /\ cacheLock = {}
    /\ cacheLock' = {t} /\ Goto(t, "mkdir")
    /\ UNCHANGED <<bridge, outcome, monitor, libraryLoaded, pathCache, linked, files, failures>>

\* NativeBinary.extract: the cache's monitor, and the look-up.  The check before
\* them, that the package of the library is open, always passes for a bridge: its
\* static initializer opens it (addOpens) before the first call can be made.
Extract(t) ==
    /\ pc[t] = "install"
    /\ cacheLock = {}
    /\ IF Library(t) \in DOMAIN pathCache
       THEN Goto(t, "loaded") /\ UNCHANGED cacheLock
       ELSE Goto(t, "mkdir") /\ cacheLock' = {t}
    /\ UNCHANGED <<bridge, outcome, monitor, libraryLoaded, pathCache, linked, files, failures>>

Dir(n) == <<"dir", n>>
File(n) == <<"file", n>>

\* ResourceFile.createTempDirectory.
MakeDirectory(t) ==
    /\ pc[t] = "mkdir"
    /\ attempt' = attempt + 1
    /\ disk' = disk \cup {Dir(attempt')}
    /\ onExit' = Append(onExit, Dir(attempt'))
    /\ Goto(t, "copy")
    /\ UNCHANGED <<bridge, outcome, monitor, libraryLoaded, cacheLock, pathCache, linked, failures>>

\* ResourceFile.extract: Files.copy.
Copy(t) ==
    /\ pc[t] = "copy"
    /\ disk' = disk \cup {File(attempt)}
    /\ Goto(t, "secure")
    /\ UNCHANGED <<attempt, onExit>>
    /\ UNCHANGED <<bridge, outcome, monitor, libraryLoaded, cacheLock, pathCache, linked, failures>>

\* A mutant: the file is registered before the directory it is in.
SecureAsFirst(t) ==
    /\ pc[t] = "secure"
    /\ onExit' = <<File(attempt)>> \o onExit
    /\ Goto(t, "link")
    /\ UNCHANGED <<attempt, disk>>
    /\ UNCHANGED <<bridge, outcome, monitor, libraryLoaded, cacheLock, pathCache, linked, failures>>

\* ResourceFile.extract: setPermissions and deleteOnExit.
Secure(t) ==
    /\ pc[t] = "secure"
    /\ onExit' = Append(onExit, File(attempt))
    /\ Goto(t, "link")
    /\ UNCHANGED <<attempt, disk>>
    /\ UNCHANGED <<bridge, outcome, monitor, libraryLoaded, cacheLock, pathCache, linked, failures>>

\* NativeLibrary.postExtract, and computeIfAbsent keeps the path.
Link(t) ==
    /\ pc[t] = "link"
    /\ linked' = [linked EXCEPT ![Library(t)] = @ + 1]
    /\ pathCache' = [n \in DOMAIN pathCache \cup {Library(t)} |->
                        IF n = Library(t) THEN attempt ELSE pathCache[n]]
    /\ cacheLock' = {}
    /\ Goto(t, "loaded")
    /\ UNCHANGED <<bridge, outcome, monitor, libraryLoaded, files, failures>>

\* getInstance: the flag is set and the monitor left.
SetLoaded(t) ==
    /\ pc[t] = "loaded"
    /\ libraryLoaded' = [libraryLoaded EXCEPT ![bridge[t]] = TRUE]
    /\ Leave(t)
    /\ Finish(t, "instance")
    /\ UNCHANGED <<bridge, cacheLock, pathCache, linked, files, failures>>

\* A mutant: the path cache's monitor is not released.
FailHoldingTheCache(t) ==
    /\ pc[t] \in Extracting
    /\ failures < MaxFailures
    /\ failures' = failures + 1
    /\ Leave(t)
    /\ Finish(t, "thrown")
    /\ UNCHANGED <<bridge, libraryLoaded, cacheLock, pathCache, linked, files>>

\* An exception leaves both monitors and the call; the cache is not changed.
\* A copy may fail after it has written some of the file, and a directory may
\* have been made that could not be given its permissions.
Fail(t) ==
    /\ pc[t] \in Extracting
    /\ failures < MaxFailures
    /\ failures' = failures + 1
    /\ \/ /\ pc[t] = "mkdir"
          /\ attempt' = attempt + 1
          /\ disk' \in {disk, disk \cup {Dir(attempt')}}
       \/ /\ pc[t] = "copy"
          /\ disk' \in {disk, disk \cup {File(attempt)}}
          /\ UNCHANGED attempt
       \/ /\ pc[t] \in {"secure", "link"}
          /\ UNCHANGED <<attempt, disk>>
    /\ cacheLock' = {}
    /\ Leave(t)
    /\ Finish(t, "thrown")
    /\ UNCHANGED <<bridge, libraryLoaded, pathCache, linked, onExit>>

\* File.delete does not delete a directory that is not empty.
DeleteOne(there, path) ==
    IF path[1] = "dir" /\ File(path[2]) \in there THEN there ELSE there \ {path}

DeletedOnExit == FoldLeft(DeleteOne, disk, Reverse(onExit))

\* The JVM exits, perhaps in the middle of a call, and runs deleteOnExit.
Exit ==
    /\ jvm' = "exited"
    /\ disk' = DeletedOnExit
    /\ UNCHANGED <<loading, attempt, onExit, failures>>

Step(t) ==
    \/ Check(t) \/ Enter(t) \/ Extract(t)
    \/ MakeDirectory(t) \/ Copy(t) \/ Secure(t) \/ Link(t)
    \/ SetLoaded(t) \/ Fail(t)

Next ==
    /\ jvm = "up"
    /\ \/ /\ \E t \in Threads : Step(t) \/ \E b \in Bridges : Call(t, b)
          /\ UNCHANGED jvm
       \/ Exit

Spec == Init /\ [][Next]_vars

\* A thread that can go on does.  Monitors are not fair.
FairSpec == Spec /\ \A t \in Threads : WF_vars(jvm = "up" /\ Step(t) /\ UNCHANGED jvm)

-----------------------------------------------------------------------------
Labels == {"idle", "check", "monitor"} \cup Inside

\* The types of the state, on which the proofs rest.
TypeOK ==
    /\ pc \in [Threads -> Labels]
    /\ bridge \in [Threads -> Bridges]
    /\ outcome \in [Threads -> {"none", "running", "instance", "thrown"}]
    /\ monitor \in [Bridges -> SUBSET Threads]
    /\ libraryLoaded \in [Bridges -> BOOLEAN]
    /\ cacheLock \in SUBSET Threads
    /\ DOMAIN pathCache \in SUBSET Libraries
    /\ linked \in [Libraries -> Nat]
    /\ attempt \in Nat /\ failures \in 0 .. MaxFailures
    /\ jvm \in {"up", "exited"}

\* "It ensures that the library is loaded only once" (SingletonLoader.java:9):
\* however many threads, bridges and failed attempts there are, System.load
\* succeeds at most once per library.
LoadedOnce == \A n \in Libraries : linked[n] <= 1

\* Whoever holds an instance can call its native methods: a call that returned,
\* and a flag that is set, mean that the bridge's own library is linked.
InstanceMeansLinked ==
    /\ \A t \in Threads : outcome[t] = "instance" => linked[Library(t)] = 1
    /\ \A b \in Bridges : libraryLoaded[b] => linked[LibraryOf[b]] = 1

\* getInstance implements what SingletonLoader promises.
Promise == INSTANCE LoadOnce WITH loaded <- {n \in Libraries : linked[n] > 0}
ImplementsLoadOnce == Promise!Spec

\* Why both hold: whoever extracts holds the path cache's monitor, found its
\* library missing there, and the cache has exactly the libraries that are linked.
CacheIsWhatIsLinked ==
    /\ \A t \in Threads : outcome[t] = "running" <=> pc[t] # "idle"
    /\ \A t \in Threads : pc[t] \in Extracting <=> t \in cacheLock
    /\ \A t, u \in cacheLock : t = u
    /\ \A n \in Libraries : linked[n] = IF n \in DOMAIN pathCache THEN 1 ELSE 0
    /\ \A t \in Threads : pc[t] \in Extracting => Library(t) \notin DOMAIN pathCache
    /\ \A t \in Threads : pc[t] = "loaded" => Library(t) \in DOMAIN pathCache
    /\ \A t \in Threads : outcome[t] = "instance" => Library(t) \in DOMAIN pathCache
    /\ \A b \in Bridges : libraryLoaded[b] => LibraryOf[b] \in DOMAIN pathCache

\* What an exit leaves on disk belongs to an extraction that failed or was
\* under way: a library that was loaded leaves nothing behind, and if nothing
\* failed and nobody was extracting, nothing is left at all.
LoadedLibrariesAreCleanedUp ==
    jvm = "exited" =>
        /\ \A n \in DOMAIN pathCache : {Dir(pathCache[n]), File(pathCache[n])} \cap disk = {}
        /\ \/ failures > 0
           \/ \E t \in Threads : pc[t] \in Extracting
           \/ disk = {}

\* Every call of getInstance comes back, by itself or because the JVM exits:
\* threads that wait for a loader's monitor and for the path cache's never wait
\* for each other, and a failed load releases both.
EveryCallReturns ==
    \A t \in Threads : outcome[t] = "running" ~> outcome[t] # "running" \/ jvm = "exited"
=============================================================================
