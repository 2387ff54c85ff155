-------------------------- MODULE SharedStateProofs --------------------------
(***************************************************************************)
(* The state that the threads of a JVM share.                              *)
(*                                                                         *)
(* The native libraries, for any number of threads, bridges, libraries and *)
(* failures: a library is linked at most once, an instance means that its  *)
(* library is linked, getInstance implements LoadOnce, and an exit of the  *)
(* JVM leaves nothing of a library that was loaded.  The argument needs    *)
(* the path cache's monitor and nothing of the loaders' own monitors:      *)
(* those only keep the threads of one bridge from queueing for the cache.  *)
(*                                                                         *)
(* The cache of deserialized values, for any number of threads, calls and  *)
(* keys, and of any size.                                                  *)
(***************************************************************************)
EXTENDS NativeLoading, JniMapCache, FoldTheorems, TLAPS

IInv == TypeOK /\ CacheIsWhatIsLinked

\* The invariant holds before the first call.
LEMMA InitInvariant == Init => IInv
  BY LoadingAssumption
  DEF Init, IInv, TypeOK, CacheIsWhatIsLinked, Extracting, Inside, Labels, Library

\* Every step of a thread in getInstance preserves the invariant.
LEMMA StepInvariant ==
  ASSUME NEW t \in Threads, IInv, Step(t), jvm \in {"up", "exited"}, UNCHANGED jvm
  PROVE  IInv'
<1> USE LoadingAssumption DEF IInv, TypeOK, CacheIsWhatIsLinked, Extracting, Inside,
        Labels, Library, Goto, Finish, Leave, files
<1>1. CASE Check(t)
  BY <1>1 DEF Check
<1>2. CASE Enter(t)
  BY <1>2 DEF Enter
<1>3. CASE Extract(t)
  BY <1>3 DEF Extract
<1>4. CASE MakeDirectory(t)
  BY <1>4 DEF MakeDirectory
<1>5. CASE Copy(t)
  BY <1>5 DEF Copy
<1>6. CASE Secure(t)
  BY <1>6 DEF Secure
<1>7. CASE Link(t)
  BY <1>7 DEF Link
<1>8. CASE SetLoaded(t)
  BY <1>8 DEF SetLoaded
<1>9. CASE Fail(t)
  BY <1>9 DEF Fail
<1> QED
  BY <1>1, <1>2, <1>3, <1>4, <1>5, <1>6, <1>7, <1>8, <1>9 DEF Step

\* A call and an exit of the JVM preserve it, and so does everything else.
LEMMA NextInvariant == IInv /\ [Next]_vars => IInv'
<1> SUFFICES ASSUME IInv, [Next]_vars PROVE IInv'
  OBVIOUS
<1>1. CASE UNCHANGED vars
  BY <1>1 DEF IInv, TypeOK, CacheIsWhatIsLinked, Library, vars, loading, files
<1>2. ASSUME NEW t \in Threads, Step(t), UNCHANGED jvm PROVE IInv'
  BY <1>2, StepInvariant DEF IInv, TypeOK
<1>3. ASSUME NEW t \in Threads, NEW b \in Bridges, Call(t, b), UNCHANGED jvm PROVE IInv'
  BY <1>3, LoadingAssumption
  DEF Call, IInv, TypeOK, CacheIsWhatIsLinked, Extracting, Inside, Labels, Library, Goto, files
<1>4. CASE Exit
  BY <1>4 DEF Exit, IInv, TypeOK, CacheIsWhatIsLinked, Library, loading
<1> QED
  BY <1>1, <1>2, <1>3, <1>4 DEF Next

\* The inductive invariant: the path cache, guarded by its monitor, has exactly
\* the libraries that are linked.
THEOREM LoadingInvariant == Spec => [](TypeOK /\ CacheIsWhatIsLinked)
<1>1. Init => IInv
  BY InitInvariant
<1>2. IInv /\ [Next]_vars => IInv'
  BY NextInvariant
<1> QED
  BY <1>1, <1>2, PTL DEF Spec, IInv

\* System.load succeeds at most once per library, whichever bridges ask for it.
THEOREM LibrariesAreLoadedOnce == Spec => []LoadedOnce
<1>1. TypeOK /\ CacheIsWhatIsLinked => LoadedOnce
  BY DEF TypeOK, CacheIsWhatIsLinked, LoadedOnce
<1> QED
  BY <1>1, LoadingInvariant, PTL

\* getInstance returns only when the bridge's library is linked.
THEOREM InstancesAreLinked == Spec => []InstanceMeansLinked
<1>1. TypeOK /\ CacheIsWhatIsLinked => InstanceMeansLinked
  BY LoadingAssumption DEF TypeOK, CacheIsWhatIsLinked, InstanceMeansLinked, Library
<1> QED
  BY <1>1, LoadingInvariant, PTL

-----------------------------------------------------------------------------
\* Every step of a thread in getInstance is a step of LoadOnce or changes
\* nothing LoadOnce can see.
LEMMA StepRefines ==
  ASSUME NEW t \in Threads, IInv, Step(t)
  PROVE  Promise!Next \/ UNCHANGED Promise!vars
<1> USE LoadingAssumption DEF IInv, TypeOK, CacheIsWhatIsLinked, Extracting, Inside,
        Library, Goto, Finish, Leave, Promise!vars
<1>1. CASE UNCHANGED <<bridge, outcome, linked>>
  BY <1>1
<1>2. ASSUME Check(t) \/ Enter(t) \/ SetLoaded(t), outcome' # outcome
      PROVE  Promise!Return(t)
  BY <1>2 DEF Check, Enter, SetLoaded, Promise!Return
<1>3. ASSUME Link(t) PROVE Promise!Load(t)
  BY <1>3 DEF Link, Promise!Load
<1>4. ASSUME Fail(t) PROVE Promise!Throw(t)
  BY <1>4 DEF Fail, Promise!Throw
<1>5. Check(t) \/ Enter(t) \/ SetLoaded(t) => UNCHANGED <<bridge, linked>>
  BY DEF Check, Enter, SetLoaded
<1>6. Extract(t) \/ MakeDirectory(t) \/ Copy(t) \/ Secure(t)
        => UNCHANGED <<bridge, outcome, linked>>
  BY DEF Extract, MakeDirectory, Copy, Secure
<1> QED
  BY <1>1, <1>2, <1>3, <1>4, <1>5, <1>6 DEF Step, Promise!Next

\* getInstance, with its two monitors, its cache and its failures, implements
\* a loader that loads each library once.
THEOREM LoadingImplementsLoadOnce == Spec => ImplementsLoadOnce
<1>1. Init => Promise!Init
  BY LoadingAssumption DEF Init, Promise!Init
<1>2. IInv /\ [Next]_vars => [Promise!Next]_(Promise!vars)
  <2> SUFFICES ASSUME IInv, [Next]_vars PROVE Promise!Next \/ UNCHANGED Promise!vars
    OBVIOUS
  <2>1. CASE UNCHANGED vars
    BY <2>1 DEF vars, loading, Promise!vars
  <2>2. ASSUME NEW t \in Threads, Step(t) PROVE Promise!Next \/ UNCHANGED Promise!vars
    BY <2>2, StepRefines
  <2>3. ASSUME NEW t \in Threads, NEW b \in Bridges, Call(t, b) PROVE Promise!Call(t, b)
    BY <2>3 DEF Call, Promise!Call, IInv, TypeOK, CacheIsWhatIsLinked
  <2>4. CASE Exit
    BY <2>4 DEF Exit, loading, Promise!vars
  <2> QED
    BY <2>1, <2>2, <2>3, <2>4 DEF Next, Promise!Next
<1> QED
  BY <1>1, <1>2, LoadingInvariant, PTL DEF Spec, ImplementsLoadOnce, Promise!Spec, IInv

-----------------------------------------------------------------------------
\* w is a run of the deletions in the order of list, which start from the paths d.
IsDeletion(w, n, d, list) ==
    /\ w[0] = d
    /\ \A i \in 1 .. n : w[i] = DeleteOne(w[i - 1], list[i])
    /\ w[n] = FoldLeft(DeleteOne, d, list)

\* The deletions of an exit, one after the other.
LEMMA DeleteLoop ==
  ASSUME NEW n \in Nat, NEW d, NEW list, DOMAIN list = 1 .. n
  PROVE  \E w \in [0 .. n -> SUBSET d] : IsDeletion(w, n, d, list)
<1> DEFINE V == SUBSET d
           op(there, path) == DeleteOne(there, path)
           step == [x \in V \X (1 .. n) |-> op(x[1], list[x[2]])]
           Rec(g) == g = [s \in SUBSET DOMAIN list |->
                             IF s = {} THEN d ELSE op(g[s \ {Max(s)}], list[Max(s)])]
           g == CHOOSE h : Rec(h)
<1>1. FoldLeft(DeleteOne, d, list) = g[DOMAIN list]
  BY Zenon DEF FoldLeft, MapThenFoldSet
<1>2. d \in V
  OBVIOUS
<1>3. ASSUME NEW there \in V, NEW path PROVE op(there, path) \in V
  BY DEF DeleteOne
<1> HIDE DEF op, V
<1>4. step \in [V \X (1 .. n) -> V]
  BY <1>3
<1>5. PICK f \in [SUBSET (1 .. n) -> V] : IsFold(f, n, d, step)
  <2> HIDE DEF step
  <2> QED
    BY <1>2, <1>4, FoldExists
<1>6. Rec(f)
  <2>1. f[{}] = d
    BY <1>5 DEF IsFold
  <2>2. ASSUME NEW s \in SUBSET (1 .. n), s # {} PROVE f[s] = op(f[s \ {Max(s)}], list[Max(s)])
    <3>1. Max(s) \in 1 .. n /\ f[s \ {Max(s)}] \in V
      BY <2>2, MaxProperties
    <3>2. f[s] = step[<<f[s \ {Max(s)}], Max(s)>>]
      BY <1>5, <2>2 DEF IsFold
    <3> QED
      BY <3>1, <3>2
  <2> QED
    BY <2>1, <2>2
<1>7. Rec(g)
  <2> HIDE DEF Rec
  <2> QED
    BY <1>6
<1> HIDE DEF g
<1>8. IsPartialFold(g, n, V, d, step)
  <2>1. g[{}] = d
    BY <1>7
  <2>2. ASSUME NEW s \in SUBSET (1 .. n), s # {}, g[s \ {Max(s)}] \in V
        PROVE  g[s] = step[<<g[s \ {Max(s)}], Max(s)>>]
    <3>1. Max(s) \in 1 .. n
      BY <2>2, MaxProperties
    <3>2. g[s] = op(g[s \ {Max(s)}], list[Max(s)])
      BY <1>7, <2>2
    <3> QED
      BY <2>2, <3>1, <3>2
  <2> QED
    BY <2>1, <2>2 DEF IsPartialFold
<1> DEFINE w == PartialFolds(g, n)
<1>9. w \in [0 .. n -> V] /\ IsRun(w, n, d, step)
  <2> HIDE DEF step
  <2> QED
    BY <1>2, <1>4, <1>8, FoldPrefixes
<1>10. w[n] = FoldLeft(DeleteOne, d, list)
  BY <1>1 DEF PartialFolds
<1> HIDE DEF w
<1>11. w[0] = d /\ \A i \in 1 .. n : w[i] = op(w[i - 1], list[i])
  <2>1. \A i \in 1 .. n : w[i] = step[<<w[i - 1], i>>]
    BY <1>9 DEF IsRun
  <2>2. \A i \in 1 .. n : w[i - 1] \in V
    BY <1>9
  <2> QED
    BY <1>9, <2>1, <2>2 DEF IsRun
<1> QED
  BY <1>9, <1>10, <1>11 DEF op, V, IsDeletion

\* An extraction whose directory was registered before its file.
Registered(a) ==
    \E i, j \in DOMAIN onExit : i < j /\ onExit[i] = Dir(a) /\ onExit[j] = File(a)

Paths == {"dir", "file"} \X Nat

\* File.delete in reverse order of registration: the file goes before the
\* directory is tried, so both are gone, and nothing is created.
LEMMA ExitDeletes ==
  ASSUME onExit \in Seq(Paths)
  PROVE  /\ DeletedOnExit \subseteq disk
         /\ \A a : Registered(a) => Dir(a) \notin DeletedOnExit /\ File(a) \notin DeletedOnExit
<1> DEFINE n == Len(onExit)
           list == Reverse(onExit)
<1>1. /\ n \in Nat /\ DOMAIN onExit = 1 .. n /\ DOMAIN list = 1 .. n
      /\ \A i \in 1 .. n : list[i] = onExit[(n - i) + 1]
  BY DEF Reverse
<1> HIDE DEF n, list
<1>2. PICK w \in [0 .. n -> SUBSET disk] : IsDeletion(w, n, disk, list)
  BY <1>1, DeleteLoop
<1>3. w[n] = DeletedOnExit /\ w[n] \subseteq disk
  BY <1>1, <1>2 DEF IsDeletion, DeletedOnExit, list
<1>4. \A i \in 1 .. n : w[i] = DeleteOne(w[i - 1], list[i])
  BY <1>2 DEF IsDeletion
\* Nothing comes back.
<1>5. ASSUME NEW i \in 0 .. n, NEW p, p \notin w[i] PROVE \A j \in 0 .. n : i <= j => p \notin w[j]
  <2> DEFINE T == {j \in 0 .. n : i <= j => p \notin w[j]}
  <2>1. 0 \in T
    BY <1>1, <1>5
  <2>2. ASSUME NEW m \in 0 .. n - 1, m \in T PROVE m + 1 \in T
    <3> DEFINE k == m + 1
    <3>1. k \in 1 .. n /\ k \in 0 .. n /\ k - 1 = m /\ m \in 0 .. n
      BY <1>1
    <3>2. i <= k => i = k \/ i <= m
      BY <1>1
    <3> HIDE DEF k
    <3>3. w[k] = DeleteOne(w[m], list[k])
      BY <1>4, <3>1
    <3>4. w[k] \subseteq w[m]
      BY <3>3 DEF DeleteOne
    <3>5. k \in T
      BY <1>5, <2>2, <3>1, <3>2, <3>4
    <3> QED
      BY <3>5 DEF k
  <2> HIDE DEF T
  <2>3. \A j \in 0 .. n : j \in T
    BY <1>1, <2>1, <2>2, UpTo
  <2> QED
    BY <2>3 DEF T
<1>6. ASSUME NEW a, Registered(a) PROVE Dir(a) \notin w[n] /\ File(a) \notin w[n]
  <2>1. PICK i, j \in 1 .. n : i < j /\ onExit[i] = Dir(a) /\ onExit[j] = File(a)
    BY <1>1, <1>6 DEF Registered
  <2> DEFINE x == (n - j) + 1
             y == (n - i) + 1
  <2>2. /\ x \in 1 .. n /\ y \in 1 .. n /\ x <= y - 1 /\ y - 1 \in 0 .. n /\ y \in 0 .. n
        /\ x \in 0 .. n /\ n \in 0 .. n /\ x <= n /\ y <= n /\ (n - x) + 1 = j /\ (n - y) + 1 = i
    BY <1>1, <2>1
  <2> HIDE DEF x, y
  <2>3. list[x] = File(a) /\ list[y] = Dir(a)
    BY <1>1, <2>1, <2>2
  <2>4. w[x] = DeleteOne(w[x - 1], File(a)) /\ w[y] = DeleteOne(w[y - 1], Dir(a))
    BY <1>4, <2>2, <2>3
  <2>5. File(a) \notin w[x]
    BY <2>4 DEF DeleteOne, File
  <2>6. File(a) \notin w[y - 1] /\ File(a) \notin w[n]
    BY <1>5, <2>2, <2>5
  <2>7. Dir(a) \notin w[y]
    BY <2>4, <2>6 DEF DeleteOne, Dir
  <2>8. Dir(a) \notin w[n]
    BY <1>5, <2>2, <2>7
  <2> QED
    BY <2>6, <2>8
<1> QED
  BY <1>3, <1>6

\* The extractions whose path is cached.
Loaded == {pathCache[n] : n \in DOMAIN pathCache}

\* What is on disk and what is registered for deletion, step by step: a file is
\* registered after its directory, and while nothing has failed everything on
\* disk belongs to a library that was loaded or to the extraction under way.
DiskInv ==
    /\ attempt \in Nat
    /\ onExit \in Seq(Paths)
    /\ disk \in SUBSET Paths
    /\ \A t \in Threads : pc[t] \in {"copy", "secure"} =>
          \E i \in DOMAIN onExit : onExit[i] = Dir(attempt)
    /\ \A t \in Threads : pc[t] = "link" => Registered(attempt)
    /\ \A a \in Loaded : Registered(a)
    /\ failures = 0 =>
          \A p \in disk : \/ p[2] \in Loaded
                          \/ p[2] = attempt /\ \E t \in Threads : pc[t] \in {"copy", "secure", "link"}
    /\ LoadedLibrariesAreCleanedUp

Busy == {"copy", "secure", "link"}

\* Steps that neither touch the disk nor enter or leave an extraction's middle.
LEMMA QuietSteps ==
  ASSUME DiskInv, jvm = "up", UNCHANGED <<attempt, disk, onExit, pathCache, failures, jvm>>,
         \A u \in Threads : pc[u] \in Busy \/ pc'[u] \in Busy => pc'[u] = pc[u]
  PROVE  DiskInv'
<1>1. \A a : Registered(a)' <=> Registered(a)
  BY DEF Registered, Dir, File
<1>2. Loaded' = Loaded
  BY DEF Loaded
<1>3. LoadedLibrariesAreCleanedUp'
  BY DEF LoadedLibrariesAreCleanedUp
<1>4. \A t \in Threads : pc'[t] \in {"copy", "secure"} =>
          \E i \in DOMAIN onExit : onExit[i] = Dir(attempt)
  BY DEF DiskInv, Busy
<1>5. \A t \in Threads : pc'[t] = "link" => Registered(attempt)
  BY DEF DiskInv, Busy
<1>6. (\E t \in Threads : pc[t] \in Busy) => \E t \in Threads : pc'[t] \in Busy
  OBVIOUS
<1> QED
  BY <1>1, <1>2, <1>3, <1>4, <1>5, <1>6 DEF DiskInv, Busy, Dir

\* A registration keeps the earlier ones.
LEMMA RegistrationKeeps ==
  ASSUME onExit \in Seq(Paths), NEW p \in Paths, onExit' = Append(onExit, p)
  PROVE  /\ onExit' \in Seq(Paths)
         /\ \A a : Registered(a) => Registered(a)'
         /\ \E i \in DOMAIN onExit' : onExit'[i] = p
         /\ \A a : p = File(a) /\ (\E i \in DOMAIN onExit : onExit[i] = Dir(a)) => Registered(a)'
<1> DEFINE n == Len(onExit)
<1>1. /\ n \in Nat /\ DOMAIN onExit = 1 .. n /\ DOMAIN onExit' = 1 .. n + 1 /\ onExit'[n + 1] = p
      /\ onExit' \in Seq(Paths) /\ \A i \in 1 .. n : onExit'[i] = onExit[i]
  OBVIOUS
<1> HIDE DEF n
<1>2. \A i \in 1 .. n : i \in 1 .. n + 1 /\ i < n + 1 /\ n + 1 \in 1 .. n + 1
  BY <1>1
<1>3. ASSUME NEW a, Registered(a) PROVE Registered(a)'
  <2>1. PICK i, j \in 1 .. n : i < j /\ onExit[i] = Dir(a) /\ onExit[j] = File(a)
    BY <1>1, <1>3 DEF Registered
  <2> QED
    BY <1>1, <1>2, <2>1 DEF Registered, Dir, File
<1>4. ASSUME NEW a, p = File(a), \E i \in DOMAIN onExit : onExit[i] = Dir(a) PROVE Registered(a)'
  <2>1. PICK i \in 1 .. n : onExit[i] = Dir(a)
    BY <1>1, <1>4
  <2>2. n + 1 \in DOMAIN onExit' /\ i \in DOMAIN onExit' /\ i < n + 1
    BY <1>1, <1>2
  <2> QED
    BY <1>1, <1>4, <2>1, <2>2 DEF Registered, Dir, File
<1>5. n + 1 \in 1 .. n + 1
  BY <1>1
<1> QED
  BY <1>1, <1>3, <1>4, <1>5

\* Every step of a thread keeps the disk as it should be.
LEMMA DiskStep ==
  ASSUME NEW t \in Threads, IInv, DiskInv, Step(t), jvm = "up", UNCHANGED jvm
  PROVE  DiskInv'
<1>0. /\ pc \in [Threads -> Labels] /\ failures \in Nat /\ attempt \in Nat
      /\ \A u \in Threads : pc[t] \in Extracting /\ pc[u] \in Extracting => u = t
      /\ onExit \in Seq(Paths) /\ disk \in SUBSET Paths
  BY LoadingAssumption DEF IInv, TypeOK, CacheIsWhatIsLinked, DiskInv
<1>1. CASE Check(t) \/ Enter(t) \/ Extract(t) \/ SetLoaded(t)
  <2>1. /\ pc[t] \in {"check", "monitor", "install", "loaded"}
        /\ \E label \in {"idle", "monitor", "install", "loaded", "mkdir"} :
              pc' = [pc EXCEPT ![t] = label]
        /\ UNCHANGED <<attempt, disk, onExit, pathCache, failures>>
    BY <1>1 DEF Check, Enter, Extract, SetLoaded, Goto, Finish, files
  <2> QED
    BY <1>0, <2>1, QuietSteps DEF Busy
<1>2. LoadedLibrariesAreCleanedUp'
  BY DEF LoadedLibrariesAreCleanedUp
<1>3. CASE MakeDirectory(t)
  <2>1. /\ pc[t] = "mkdir" /\ attempt' = attempt + 1 /\ pc' = [pc EXCEPT ![t] = "copy"]
        /\ disk' = disk \cup {Dir(attempt')} /\ onExit' = Append(onExit, Dir(attempt'))
        /\ UNCHANGED <<pathCache, failures>>
    BY <1>3 DEF MakeDirectory, Goto
  <2>2. Dir(attempt') \in Paths /\ Dir(attempt')[2] = attempt' /\ attempt' \in Nat
    BY <1>0, <2>1 DEF Dir, Paths
  <2>3. /\ onExit' \in Seq(Paths) /\ \A a : Registered(a) => Registered(a)'
        /\ \E i \in DOMAIN onExit' : onExit'[i] = Dir(attempt')
    BY <1>0, <2>1, <2>2, RegistrationKeeps
  <2>4. \A u \in Threads : pc[u] \notin Busy
    BY <1>0, <2>1 DEF Busy, Extracting
  <2>5. pc'[t] = "copy" /\ \A u \in Threads \ {t} : pc'[u] \notin Busy
    BY <1>0, <2>1, <2>4
  <2>6. \A u \in Threads : pc'[u] # "link"
    BY <2>5 DEF Busy
  <2>7. Loaded' = Loaded
    BY <2>1 DEF Loaded
  <2>8. failures = 0 => \A p \in disk : p[2] \in Loaded
    BY <2>4 DEF DiskInv, Busy
  <2>9. \A a \in Loaded' : Registered(a)'
    BY <2>3, <2>7 DEF DiskInv
  <2>10. failures' = 0 => \A p \in disk' : p[2] \in Loaded' \/ (p[2] = attempt' /\ pc'[t] = "copy")
    BY <2>1, <2>2, <2>5, <2>7, <2>8
  <2>11. disk' \in SUBSET Paths
    BY <1>0, <2>1, <2>2
  <2> QED
    BY <1>2, <2>2, <2>3, <2>5, <2>6, <2>9, <2>10, <2>11 DEF DiskInv, Dir
<1>4. CASE Copy(t)
  <2>1. /\ pc[t] = "copy" /\ pc' = [pc EXCEPT ![t] = "secure"]
        /\ disk' = disk \cup {File(attempt)}
        /\ UNCHANGED <<attempt, onExit, pathCache, failures>>
    BY <1>4 DEF Copy, Goto
  <2>2. File(attempt) \in Paths /\ File(attempt)[2] = attempt
    BY <1>0 DEF File, Paths
  <2>3. (\A a : Registered(a)' <=> Registered(a)) /\ Loaded' = Loaded
    BY <2>1 DEF Registered, Dir, File, Loaded
  <2>4. pc'[t] = "secure" /\ \A u \in Threads \ {t} : pc'[u] \notin Busy
    BY <1>0, <2>1 DEF Busy, Extracting
  <2>5. \A u \in Threads : pc'[u] # "link"
    BY <2>4 DEF Busy
  <2>6. \E i \in DOMAIN onExit : onExit[i] = Dir(attempt)
    BY <2>1 DEF DiskInv
  <2>7. failures' = 0 => \A p \in disk' : p[2] \in Loaded' \/ (p[2] = attempt' /\ pc'[t] = "secure")
    BY <2>1, <2>2, <2>3, <2>4 DEF DiskInv
  <2>8. disk' \in SUBSET Paths
    BY <1>0, <2>1, <2>2
  <2> QED
    BY <1>0, <1>2, <2>1, <2>3, <2>4, <2>5, <2>6, <2>7, <2>8 DEF DiskInv, Dir
<1>5. CASE Secure(t)
  <2>1. /\ pc[t] = "secure" /\ pc' = [pc EXCEPT ![t] = "link"]
        /\ onExit' = Append(onExit, File(attempt))
        /\ UNCHANGED <<attempt, disk, pathCache, failures>>
    BY <1>5 DEF Secure, Goto
  <2>2. File(attempt) \in Paths
    BY <1>0 DEF File, Paths
  <2>3. \E i \in DOMAIN onExit : onExit[i] = Dir(attempt)
    BY <2>1 DEF DiskInv
  <2>4. /\ onExit' \in Seq(Paths) /\ \A a : Registered(a) => Registered(a)'
        /\ \A a : File(attempt) = File(a) /\ (\E i \in DOMAIN onExit : onExit[i] = Dir(a))
                     => Registered(a)'
    BY <1>0, <2>1, <2>2, RegistrationKeeps
  <2>5. Registered(attempt)'
    BY <2>1, <2>3, <2>4 DEF Registered, Dir, File
  <2>6. pc'[t] = "link" /\ \A u \in Threads \ {t} : pc'[u] \notin Busy
    BY <1>0, <2>1 DEF Busy, Extracting
  <2>7. \A u \in Threads : pc'[u] \notin {"copy", "secure"}
    BY <2>6 DEF Busy
  <2>8. Loaded' = Loaded
    BY <2>1 DEF Loaded
  <2>9. failures' = 0 => \A p \in disk' : p[2] \in Loaded' \/ (p[2] = attempt' /\ pc'[t] = "link")
    BY <2>1, <2>6, <2>8 DEF DiskInv
  <2>10. \A a \in Loaded' : Registered(a)'
    BY <2>4, <2>8 DEF DiskInv
  <2> QED
    BY <1>0, <1>2, <2>1, <2>4, <2>5, <2>6, <2>7, <2>9, <2>10 DEF DiskInv
<1>6. CASE Link(t)
  <2>1. /\ pc[t] = "link" /\ pc' = [pc EXCEPT ![t] = "loaded"]
        /\ UNCHANGED <<attempt, disk, onExit, failures>>
    BY <1>6 DEF Link, Goto, files
  <2>2. Loaded' = Loaded \cup {attempt}
    <3> DEFINE n == Library(t)
    <3>1. /\ n \notin DOMAIN pathCache
          /\ pathCache' = [m \in DOMAIN pathCache \cup {n} |-> IF m = n THEN attempt ELSE pathCache[m]]
      BY <1>6, <2>1 DEF Link, IInv, CacheIsWhatIsLinked, Extracting
    <3> HIDE DEF n
    <3> QED
      BY <3>1 DEF Loaded
  <2>3. \A a : Registered(a)' <=> Registered(a)
    BY <2>1 DEF Registered, Dir, File
  <2>4. \A u \in Threads : pc'[u] \notin Busy
    BY <1>0, <2>1 DEF Busy, Extracting
  <2>5. \A a \in Loaded' : Registered(a)'
    BY <2>1, <2>2, <2>3 DEF DiskInv
  <2>6. failures' = 0 => \A p \in disk' : p[2] \in Loaded'
    BY <2>1, <2>2 DEF DiskInv
  <2> QED
    BY <1>0, <1>2, <2>1, <2>4, <2>5, <2>6 DEF DiskInv, Busy
<1>7. CASE Fail(t)
  <2>1. /\ pc[t] \in Extracting /\ pc' = [pc EXCEPT ![t] = "idle"] /\ failures' = failures + 1
        /\ attempt' \in {attempt, attempt + 1}
        /\ disk' \in {disk, disk \cup {Dir(attempt + 1)}, disk \cup {File(attempt)}}
        /\ UNCHANGED <<onExit, pathCache>>
    BY <1>7 DEF Fail, Finish, Goto
  <2>2. (\A a : Registered(a)' <=> Registered(a)) /\ Loaded' = Loaded
    BY <2>1 DEF Registered, Dir, File, Loaded
  <2>3. \A u \in Threads : pc'[u] \notin Busy
    BY <1>0, <2>1 DEF Busy, Extracting
  <2>4. attempt' \in Nat /\ disk' \in SUBSET Paths /\ failures' # 0
    BY <1>0, <2>1 DEF Paths, Dir, File
  <2> QED
    BY <1>0, <1>2, <2>1, <2>2, <2>3, <2>4 DEF DiskInv, Busy
<1> QED
  BY <1>1, <1>3, <1>4, <1>5, <1>6, <1>7 DEF Step

\* When the JVM exits, nothing stays on disk of a library that was loaded, and
\* nothing at all if no extraction failed or was under way (ResourceFile.extract
\* and createTempDirectory register the file after its directory).
THEOREM ExitCleansUp == Spec => []LoadedLibrariesAreCleanedUp
<1>1. Init => DiskInv
  BY DEF Init, DiskInv, Loaded, LoadedLibrariesAreCleanedUp, Registered
<1>2. IInv /\ DiskInv /\ [Next]_vars => DiskInv'
  <2> SUFFICES ASSUME IInv, DiskInv, [Next]_vars PROVE DiskInv'
    OBVIOUS
  <2>1. CASE UNCHANGED vars
    BY <2>1, SMTT(30) DEF vars, loading, files, DiskInv, Registered, Loaded, Dir, File,
       LoadedLibrariesAreCleanedUp
  <2>2. ASSUME NEW t \in Threads, Step(t), jvm = "up", UNCHANGED jvm PROVE DiskInv'
    BY <2>2, DiskStep
  <2>3. ASSUME NEW t \in Threads, NEW b \in Bridges, Call(t, b), jvm = "up", UNCHANGED jvm
        PROVE  DiskInv'
    <3>1. /\ pc[t] = "idle" /\ pc' = [pc EXCEPT ![t] = "check"] /\ pc \in [Threads -> Labels]
          /\ UNCHANGED <<attempt, disk, onExit, pathCache, failures>>
      BY <2>3 DEF Call, Goto, files, IInv, TypeOK
    <3> QED
      BY <2>3, <3>1, QuietSteps DEF Busy
  <2>4. CASE Exit
    <3>1. disk' = DeletedOnExit /\ UNCHANGED <<pc, pathCache, attempt, onExit, failures>>
      BY <2>4 DEF Exit, loading
    <3>2. /\ disk' \subseteq disk
          /\ \A a : Registered(a) => Dir(a) \notin disk' /\ File(a) \notin disk'
      BY <3>1, ExitDeletes DEF DiskInv
    <3>3. (\A a : Registered(a)' <=> Registered(a)) /\ Loaded' = Loaded
      BY <3>1 DEF Registered, Dir, File, Loaded
    <3>4. \A n \in DOMAIN pathCache' : {Dir(pathCache'[n]), File(pathCache'[n])} \cap disk' = {}
      <4>1. \A n \in DOMAIN pathCache : Registered(pathCache[n])
        BY DEF DiskInv, Loaded
      <4> QED
        BY <3>1, <3>2, <4>1
    <3>5. ASSUME failures = 0, \A t \in Threads : pc[t] \notin Extracting PROVE disk' = {}
      <4> SUFFICES ASSUME NEW p \in disk' PROVE FALSE
        OBVIOUS
      <4>1. p \in disk /\ p \in Paths
        BY <3>2 DEF DiskInv
      <4>2. p[2] \in Loaded
        BY <3>5, <4>1 DEF DiskInv, Extracting
      <4>3. p = Dir(p[2]) \/ p = File(p[2])
        BY <4>1 DEF Paths, Dir, File
      <4> QED
        BY <3>2, <4>2, <4>3 DEF DiskInv
    <3>6. failures \in Nat
      BY LoadingAssumption DEF IInv, TypeOK
    <3>7. LoadedLibrariesAreCleanedUp'
      BY <3>1, <3>4, <3>5, <3>6 DEF LoadedLibrariesAreCleanedUp, Dir, File
    <3> QED
      BY <3>1, <3>2, <3>3, <3>7 DEF DiskInv, Dir
  <2> QED
    BY <2>1, <2>2, <2>3, <2>4 DEF Next
<1>3. DiskInv => LoadedLibrariesAreCleanedUp
  BY DEF DiskInv
<1> QED
  BY <1>1, <1>2, <1>3, LoadingInvariant, PTL DEF Spec, IInv

-----------------------------------------------------------------------------
(* The cache.                                                              *)
\* A list in the order of a rank.
OrderedBy(list, rank) ==
    \A i, j \in DOMAIN list : i < j => rank[list[i]] < rank[list[j]]

\* One step of the loop of extract.
Keep(kept, v, k) == IF v = k THEN kept ELSE Append(kept, v)

\* w is a run of that loop over the list.
IsExtractRun(w, n, list, k) ==
    /\ w[0] = <<>>
    /\ \A i \in 1 .. n : w[i] = Keep(w[i - 1], list[i], k)
    /\ w[n] = extract(list, k)

\* extract is what a loop over the list ends with.
LEMMA ExtractLoop ==
    ASSUME NEW S, NEW n \in Nat, NEW list \in [1 .. n -> S], NEW k
    PROVE  \E w \in [0 .. n -> Seq(S)] : IsExtractRun(w, n, list, k)
<1> DEFINE V == Seq(S)
           op(kept, v) == Keep(kept, v, k)
           step == [x \in V \X (1 .. n) |-> op(x[1], list[x[2]])]
           Rec(g) == g = [s \in SUBSET DOMAIN list |->
                             IF s = {} THEN <<>> ELSE op(g[s \ {Max(s)}], list[Max(s)])]
           g == CHOOSE h : Rec(h)
<1>1. extract(list, k) = g[DOMAIN list]
  BY Zenon DEF extract, FoldLeft, MapThenFoldSet, Keep
<1>2. DOMAIN list = 1 .. n
  OBVIOUS
<1>4. <<>> \in V
  OBVIOUS
<1>5. ASSUME NEW kept \in V, NEW v \in S PROVE op(kept, v) \in V
  BY DEF Keep
<1> HIDE DEF op, V
<1>6. step \in [V \X (1 .. n) -> V]
  BY <1>5
<1>7. PICK f \in [SUBSET (1 .. n) -> V] : IsFold(f, n, <<>>, step)
  <2> HIDE DEF step
  <2> QED
    BY <1>4, <1>6, FoldExists
<1>8. Rec(f)
  <2>1. f[{}] = <<>>
    BY <1>7 DEF IsFold
  <2>2. ASSUME NEW s \in SUBSET (1 .. n), s # {} PROVE f[s] = op(f[s \ {Max(s)}], list[Max(s)])
    <3>1. Max(s) \in 1 .. n /\ f[s \ {Max(s)}] \in V
      BY <2>2, MaxProperties
    <3>2. f[s] = step[<<f[s \ {Max(s)}], Max(s)>>]
      BY <1>7, <2>2 DEF IsFold
    <3> QED
      BY <3>1, <3>2
  <2> QED
    BY <1>2, <2>1, <2>2
<1>9. Rec(g)
  <2> HIDE DEF Rec
  <2> QED
    BY <1>8
<1> HIDE DEF g
<1>10. IsPartialFold(g, n, V, <<>>, step)
  <2>1. g[{}] = <<>>
    BY <1>2, <1>9
  <2>2. ASSUME NEW s \in SUBSET (1 .. n), s # {}, g[s \ {Max(s)}] \in V
        PROVE  g[s] = step[<<g[s \ {Max(s)}], Max(s)>>]
    <3>1. Max(s) \in 1 .. n
      BY <2>2, MaxProperties
    <3>2. g[s] = op(g[s \ {Max(s)}], list[Max(s)])
      BY <1>2, <1>9, <2>2
    <3> QED
      BY <2>2, <3>1, <3>2
  <2> QED
    BY <2>1, <2>2 DEF IsPartialFold
<1> DEFINE w == PartialFolds(g, n)
<1>11. w \in [0 .. n -> V] /\ IsRun(w, n, <<>>, step)
  <2> HIDE DEF step
  <2> QED
    BY <1>4, <1>6, <1>10, FoldPrefixes
<1>12. w[n] = extract(list, k)
  BY <1>1, <1>2 DEF PartialFolds
<1> HIDE DEF w
<1>13. w[0] = <<>> /\ \A i \in 1 .. n : w[i] = op(w[i - 1], list[i])
  <2>1. \A i \in 1 .. n : w[i] = step[<<w[i - 1], i>>]
    BY <1>11 DEF IsRun
  <2>2. \A i \in 1 .. n : w[i - 1] \in V
    BY <1>11
  <2> QED
    BY <1>11, <2>1, <2>2 DEF IsRun
<1> QED
  BY <1>11, <1>12, <1>13 DEF op, V, IsExtractRun

\* extract removes the key and nothing else, and keeps the order.
LEMMA ExtractKey ==
    ASSUME NEW S, NEW list \in Seq(S), NEW k, NEW rank \in [S -> Nat], OrderedBy(list, rank)
    PROVE  /\ extract(list, k) \in Seq(S)
           /\ ToSet(extract(list, k)) = ToSet(list) \ {k}
           /\ OrderedBy(extract(list, k), rank)
<1> DEFINE n == Len(list)
<1>1. n \in Nat /\ DOMAIN list = 1 .. n /\ list \in [1 .. n -> S]
  OBVIOUS
<1> HIDE DEF n
<1>2. PICK w \in [0 .. n -> Seq(S)] : IsExtractRun(w, n, list, k)
  BY <1>1, ExtractLoop
<1> DEFINE Kept(m) == /\ ToSet(w[m]) = {list[i] : i \in 1 .. m} \ {k}
                      /\ OrderedBy(w[m], rank)
           T == {m \in 0 .. n : Kept(m)}
<1>3. 0 \in T
  <2>1. w[0] = <<>> /\ DOMAIN <<>> = {}
    BY <1>2 DEF IsExtractRun
  <2> QED
    BY <1>1, <2>1 DEF ToSet, OrderedBy
<1>4. ASSUME NEW m \in 0 .. n - 1, m \in T PROVE m + 1 \in T
  <2> DEFINE i == m + 1
             v == list[i]
  <2>1. /\ i \in 1 .. n /\ i \in 0 .. n /\ i - 1 = m /\ m \in 0 .. n
        /\ 1 .. i = (1 .. m) \cup {i} /\ v \in S
    BY <1>1, SMTT(30)
  <2> HIDE DEF i
  <2>2. w[i] = Keep(w[m], v, k) /\ w[m] \in Seq(S)
    BY <1>2, <2>1 DEF IsExtractRun
  <2>3. ToSet(w[m]) = {list[j] : j \in 1 .. m} \ {k} /\ OrderedBy(w[m], rank)
    BY <1>4
  <2>4. {list[j] : j \in 1 .. i} = {list[j] : j \in 1 .. m} \cup {v}
    BY <2>1
  <2> SUFFICES Kept(i)
    BY <2>1 DEF i
  <2>5. CASE v = k
    <3>1. w[i] = w[m]
      BY <2>2, <2>5 DEF Keep
    <3> QED
      BY <2>3, <2>4, <2>5, <3>1
  <2>6. CASE v # k
    <3>1. w[i] = Append(w[m], v)
      BY <2>2, <2>6 DEF Keep
    <3>2. ToSet(w[i]) = ToSet(w[m]) \cup {v}
      BY <2>1, <2>2, <3>1, ElementsOfAppend
    <3>3. \A x \in ToSet(w[m]) : rank[x] < rank[v]
      <4> SUFFICES ASSUME NEW j \in 1 .. m PROVE rank[list[j]] < rank[list[i]]
        BY <2>3
      <4>1. i \in DOMAIN list /\ j \in DOMAIN list /\ j < i
        BY <1>1, <2>1
      <4> QED
        BY <4>1 DEF OrderedBy
    <3>4. OrderedBy(w[i], rank)
      <4> SUFFICES ASSUME NEW a \in DOMAIN w[i], NEW b \in DOMAIN w[i], a < b
                   PROVE  rank[w[i][a]] < rank[w[i][b]]
        BY DEF OrderedBy
      <4>1. a \in DOMAIN w[m] /\ w[i][a] = w[m][a]
        BY <2>1, <2>2, <3>1
      <4>2. CASE b \in DOMAIN w[m]
        <5>1. w[i][b] = w[m][b]
          BY <2>1, <2>2, <3>1, <4>2
        <5> QED
          BY <2>3, <4>1, <4>2, <5>1 DEF OrderedBy
      <4>3. CASE b \notin DOMAIN w[m]
        <5>1. w[i][b] = v
          BY <2>1, <2>2, <3>1, <4>3
        <5>2. w[m][a] \in ToSet(w[m])
          BY <4>1 DEF ToSet
        <5> QED
          BY <3>3, <4>1, <5>1, <5>2
      <4> QED
        BY <4>2, <4>3
    <3> QED
      BY <2>3, <2>4, <2>6, <3>2, <3>4
  <2> QED
    BY <2>5, <2>6
<1>5. n \in T
  <2> HIDE DEF T
  <2>1. \A m \in 0 .. n : m \in T
    BY <1>1, <1>3, <1>4, UpTo
  <2> QED
    BY <1>1, <2>1
<1>6. ToSet(list) = {list[i] : i \in 1 .. n}
  BY <1>1 DEF ToSet
<1>7. w[n] = extract(list, k) /\ w[n] \in Seq(S)
  BY <1>1, <1>2 DEF IsExtractRun
<1> QED
  BY <1>5, <1>6, <1>7

\* A list in the order of a rank has no key twice.
LEMMA OrderedCount ==
    ASSUME NEW S, NEW list \in Seq(S), NEW rank \in [S -> Nat], OrderedBy(list, rank)
    PROVE  IsFiniteSet(ToSet(list)) /\ Cardinality(ToSet(list)) = Len(list)
<1> DEFINE n == Len(list)
<1>1. n \in Nat /\ DOMAIN list = 1 .. n /\ list \in [1 .. n -> S]
  OBVIOUS
<1>2. ToSet(list) = {list[i] : i \in 1 .. n}
  BY <1>1 DEF ToSet
<1>3. \A i, j \in 1 .. n : i < j => list[i] # list[j]
  <2> SUFFICES ASSUME NEW i \in 1 .. n, NEW j \in 1 .. n, i < j, list[i] = list[j]
               PROVE  FALSE
    OBVIOUS
  <2>1. rank[list[i]] < rank[list[j]] /\ rank[list[i]] \in Nat
    BY <1>1 DEF OrderedBy
  <2> QED
    BY <2>1
<1> HIDE DEF n
<1>4. IsFiniteSet({list[i] : i \in 1 .. n}) /\ Cardinality({list[i] : i \in 1 .. n}) = n
  BY <1>1, <1>3, DistinctCount
<1> QED
  BY <1>2, <1>4 DEF n

-----------------------------------------------------------------------------
\* rank2 is rank after a use of k.
Newer(rank, k, rank2) ==
    /\ rank2 \in [DOMAIN rank \cup {k} -> Nat]
    /\ \A j \in DOMAIN rank \ {k} : rank2[j] = rank[j] /\ rank[j] < rank2[k]

\* What a least recently used list is: at most SIZE keys in the order of their
\* last use; a key that was used and is not there was used before all of them,
\* and the list is full.
Fits(list, rank) ==
    /\ rank \in [DOMAIN rank -> Nat]
    /\ list \in Seq(DOMAIN rank)
    /\ OrderedBy(list, rank)
    /\ Len(list) <= SIZE
    /\ \A k \in DOMAIN rank \ ToSet(list) :
          Len(list) = SIZE /\ \A x \in ToSet(list) : rank[k] < rank[x]

\* L is list with k as its most recent key.
MovedBack(list, k, L, rank2) ==
    /\ L \in Seq(DOMAIN rank2)
    /\ OrderedBy(L, rank2)
    /\ ToSet(L) = ToSet(list) \cup {k}
    /\ Len(L) = IF k \in ToSet(list) THEN Len(list) ELSE Len(list) + 1

\* push_back_key makes a key the most recent one.
LEMMA PushBack ==
    ASSUME NEW rank, NEW list, NEW k, NEW rank2, Newer(rank, k, rank2),
           rank \in [DOMAIN rank -> Nat], list \in Seq(DOMAIN rank), OrderedBy(list, rank)
    PROVE  MovedBack(list, k, push_back_key(list, k), rank2)
<1> DEFINE w == extract(list, k)
           L == push_back_key(list, k)
           S == DOMAIN rank2
<1>1. w \in Seq(DOMAIN rank) /\ ToSet(w) = ToSet(list) \ {k} /\ OrderedBy(w, rank)
  BY ExtractKey
<1>2. L = Append(w, k)
  BY DEF push_back_key
<1> HIDE DEF w, L
<1>3. DOMAIN rank \subseteq S /\ k \in S /\ rank2 \in [S -> Nat]
  BY DEF Newer
<1> HIDE DEF S
<1>4. w \in Seq(S) /\ L \in Seq(S)
  BY <1>1, <1>2, <1>3
<1>5. ToSet(L) = ToSet(list) \cup {k}
  BY <1>1, <1>2, <1>3, <1>4, ElementsOfAppend
<1>6. OrderedBy(L, rank2)
  <2> SUFFICES ASSUME NEW a \in DOMAIN L, NEW b \in DOMAIN L, a < b
               PROVE  rank2[L[a]] < rank2[L[b]]
    BY DEF OrderedBy
  <2>1. a \in DOMAIN w /\ L[a] = w[a]
    BY <1>2, <1>3, <1>4
  <2>2. \A c \in DOMAIN w : w[c] \in DOMAIN rank \ {k}
    BY <1>1 DEF ToSet
  <2>3. CASE b \in DOMAIN w
    <3>1. L[b] = w[b]
      BY <1>2, <1>3, <1>4, <2>3
    <3> QED
      BY <1>1, <2>1, <2>2, <2>3, <3>1 DEF OrderedBy, Newer
  <2>4. CASE b \notin DOMAIN w
    <3>1. L[b] = k
      BY <1>2, <1>3, <1>4, <2>4
    <3> QED
      BY <2>1, <2>2, <3>1 DEF Newer
  <2> QED
    BY <2>3, <2>4
<1>7. Len(L) = IF k \in ToSet(list) THEN Len(list) ELSE Len(list) + 1
  <2>1. IsFiniteSet(ToSet(list)) /\ Cardinality(ToSet(list)) = Len(list)
    BY OrderedCount
  <2>2. Cardinality(ToSet(L)) = Len(L)
    BY <1>3, <1>4, <1>6, OrderedCount
  <2>3. Cardinality(ToSet(list) \cup {k}) =
           IF k \in ToSet(list) THEN Cardinality(ToSet(list)) ELSE Cardinality(ToSet(list)) + 1
    BY <2>1, FS_AddElement
  <2> QED
    BY <1>5, <2>1, <2>2, <2>3
<1> QED
  BY <1>4, <1>5, <1>6, <1>7 DEF L, S, MovedBack

\* A hit keeps the cached keys.
LEMMA FitsAfterHit ==
    ASSUME NEW rank, NEW list, NEW k, NEW rank2, Newer(rank, k, rank2), Fits(list, rank),
           k \in ToSet(list)
    PROVE  Fits(push_back_key(list, k), rank2) /\ ToSet(push_back_key(list, k)) = ToSet(list)
<1> DEFINE L == push_back_key(list, k)
<1>1. /\ rank \in [DOMAIN rank -> Nat] /\ list \in Seq(DOMAIN rank) /\ OrderedBy(list, rank)
  BY DEF Fits
<1>2. /\ L \in Seq(DOMAIN rank2) /\ OrderedBy(L, rank2)
      /\ ToSet(L) = ToSet(list) /\ Len(L) = Len(list)
  <2>1. MovedBack(list, k, L, rank2)
    BY <1>1, PushBack
  <2> QED
    BY <2>1 DEF MovedBack
<1> HIDE DEF L
<1>3. ToSet(list) \subseteq DOMAIN rank
  BY <1>1 DEF ToSet
<1>4. rank2 \in [DOMAIN rank2 -> Nat] /\ DOMAIN rank2 = DOMAIN rank
  BY <1>3 DEF Newer
<1>5. ASSUME NEW j \in DOMAIN rank2 \ ToSet(L)
      PROVE  Len(L) = SIZE /\ \A x \in ToSet(L) : rank2[j] < rank2[x]
  <2>1. j \in DOMAIN rank \ {k} /\ Len(L) = SIZE /\ \A x \in ToSet(list) : rank[j] < rank[x]
    BY <1>2, <1>4 DEF Fits
  <2>2. \A x \in ToSet(list) : x = k \/ rank2[x] = rank[x]
    BY <1>3 DEF Newer
  <2> QED
    BY <1>2, <2>1, <2>2 DEF Newer
<1> QED
  BY <1>2, <1>4, <1>5 DEF Fits, L

\* L is list with the new key k, before its oldest key is dropped if need be.
Inserted(list, k, L, rank2) ==
    /\ ToSet(L) = ToSet(list) \cup {k}
    /\ Len(L) <= SIZE => Fits(L, rank2)
    /\ Len(L) > SIZE => Fits(Tail(L), rank2) /\ ToSet(Tail(L)) = ToSet(L) \ {Head(L)}

\* An insertion adds the new key, and drops the oldest one if the list would
\* grow past SIZE.
LEMMA FitsAfterInsert ==
    ASSUME NEW rank, NEW list, NEW k, NEW rank2, Newer(rank, k, rank2), Fits(list, rank),
           k \notin ToSet(list)
    PROVE  Inserted(list, k, push_back_key(list, k), rank2)
<1> DEFINE L == push_back_key(list, k)
<1>1. /\ rank \in [DOMAIN rank -> Nat] /\ list \in Seq(DOMAIN rank) /\ OrderedBy(list, rank)
      /\ Len(list) <= SIZE
  BY DEF Fits
<1>2. /\ L \in Seq(DOMAIN rank2) /\ OrderedBy(L, rank2)
      /\ ToSet(L) = ToSet(list) \cup {k} /\ Len(L) = Len(list) + 1
  <2>1. MovedBack(list, k, L, rank2)
    BY <1>1, PushBack
  <2> QED
    BY <2>1 DEF MovedBack
<1> HIDE DEF L
<1>3. ToSet(list) \subseteq DOMAIN rank
  BY <1>1 DEF ToSet
<1>4. /\ rank2 \in [DOMAIN rank2 -> Nat] /\ DOMAIN rank2 = DOMAIN rank \cup {k}
      /\ SIZE \in Nat \ {0} /\ Len(list) \in Nat
  BY <1>1, CacheAssumption DEF Newer
<1>5. ASSUME NEW j \in DOMAIN rank2 \ ToSet(L)
      PROVE  Len(list) = SIZE /\ \A x \in ToSet(L) : rank2[j] < rank2[x]
  <2>1. j \in DOMAIN rank \ {k} /\ Len(list) = SIZE /\ \A x \in ToSet(list) : rank[j] < rank[x]
    BY <1>2, <1>4 DEF Fits
  <2>2. \A x \in ToSet(list) : x # k /\ rank2[x] = rank[x]
    BY <1>3 DEF Newer
  <2> QED
    BY <1>2, <2>1, <2>2 DEF Newer
<1>6. CASE Len(L) <= SIZE
  BY <1>2, <1>4, <1>5, <1>6, SMTT(30) DEF Fits, L, Inserted
<1>7. CASE Len(L) > SIZE
  <2> DEFINE T == Tail(L)
             h == Head(L)
  <2>1. Len(list) = SIZE /\ Len(L) = SIZE + 1 /\ L # <<>>
    BY <1>1, <1>2, <1>4, <1>7
  <2>2. /\ T \in Seq(DOMAIN rank2) /\ Len(T) = SIZE /\ h = L[1]
        /\ DOMAIN T = 1 .. SIZE /\ DOMAIN L = 1 .. SIZE + 1
        /\ \A i \in 1 .. SIZE : T[i] = L[i + 1]
    BY <1>2, <1>4, <2>1
  <2> HIDE DEF T, h
  <2>3. OrderedBy(T, rank2)
    <3> SUFFICES ASSUME NEW a \in 1 .. SIZE, NEW b \in 1 .. SIZE, a < b
                 PROVE  rank2[T[a]] < rank2[T[b]]
      BY <2>2 DEF OrderedBy
    <3>1. a + 1 \in DOMAIN L /\ b + 1 \in DOMAIN L /\ a + 1 < b + 1
      BY <1>4, <2>2
    <3> QED
      BY <1>2, <2>2, <3>1 DEF OrderedBy
  <2>4. \A x \in ToSet(T) : x \in ToSet(L) /\ rank2[h] < rank2[x]
    <3> SUFFICES ASSUME NEW a \in 1 .. SIZE PROVE T[a] \in ToSet(L) /\ rank2[h] < rank2[T[a]]
      BY <2>2 DEF ToSet
    <3>1. a + 1 \in DOMAIN L /\ 1 \in DOMAIN L /\ 1 < a + 1
      BY <1>4, <2>2
    <3> QED
      BY <1>2, <2>2, <3>1 DEF OrderedBy, ToSet
  <2>5. \A x \in ToSet(L) : x = h \/ x \in ToSet(T)
    <3> SUFFICES ASSUME NEW c \in DOMAIN L PROVE L[c] = h \/ L[c] \in ToSet(T)
      BY DEF ToSet
    <3>1. CASE c = 1
      BY <2>2, <3>1
    <3>2. CASE c # 1
      <4> DEFINE d == c - 1
      <4>1. d \in 1 .. SIZE /\ d + 1 = c
        BY <1>4, <2>2, <3>2
      <4> HIDE DEF d
      <4> QED
        BY <2>2, <4>1 DEF ToSet
    <3> QED
      BY <3>1, <3>2
  <2>6. h \in ToSet(L) /\ h \in DOMAIN rank2 /\ rank2[h] \in Nat
    BY <1>2, <1>4, <2>2 DEF ToSet
  <2>7. ToSet(T) = ToSet(L) \ {h}
    BY <2>4, <2>5, <2>6
  <2>8. ASSUME NEW j \in DOMAIN rank2 \ ToSet(T), NEW x \in ToSet(T)
        PROVE  rank2[j] < rank2[x]
    <3>1. CASE j = h
      BY <2>4, <3>1
    <3>2. CASE j # h
      BY <1>5, <2>7, <3>2
    <3> QED
      BY <3>1, <3>2
  <2>9. Fits(T, rank2)
    BY <1>4, <2>2, <2>3, <2>8 DEF Fits
  <2> QED
    BY <1>2, <1>4, <1>7, <2>1, <2>7, <2>9, SMTT(30) DEF L, T, h, Inserted
<1> QED
  BY <1>2, <1>4, <1>6, <1>7

-----------------------------------------------------------------------------
\* The position of the last use of every key that was used.
RankOf(u) == [k \in ToSet(u) |-> Max({i \in DOMAIN u : u[i] = k})]

\* The rank of a used key is the last position at which it occurs.
LEMMA RankFacts ==
    ASSUME NEW S, NEW u \in Seq(S), NEW k \in ToSet(u)
    PROVE  /\ RankOf(u)[k] \in 1 .. Len(u)
           /\ u[RankOf(u)[k]] = k
           /\ \A i \in DOMAIN u : u[i] = k => i <= RankOf(u)[k]
<1> DEFINE n == Len(u)
           s == {i \in DOMAIN u : u[i] = k}
<1>1. n \in Nat /\ DOMAIN u = 1 .. n
  OBVIOUS
<1>2. s \in SUBSET (1 .. n) /\ s # {}
  BY <1>1 DEF ToSet
<1>3. RankOf(u)[k] = Max(s)
  BY DEF RankOf
<1> HIDE DEF n, s
<1>4. Max(s) \in s /\ \A y \in s : y <= Max(s)
  BY <1>1, <1>2, MaxProperties
<1> QED
  BY <1>1, <1>3, <1>4 DEF n, s

\* A use makes its key the most recent one and moves no other.
LEMMA UseIsNewer ==
    ASSUME NEW S, NEW u \in Seq(S), NEW k \in S
    PROVE  Newer(RankOf(u), k, RankOf(Append(u, k))) /\ Append(u, k) \in Seq(S)
<1> DEFINE v == Append(u, k)
           n == Len(u)
<1>1. /\ v \in Seq(S) /\ n \in Nat /\ DOMAIN u = 1 .. n /\ DOMAIN v = 1 .. n + 1
      /\ v[n + 1] = k /\ \A i \in 1 .. n : v[i] = u[i]
  OBVIOUS
<1>2. ToSet(v) = ToSet(u) \cup {k}
  BY ElementsOfAppend
<1> HIDE DEF v, n
<1>3. DOMAIN RankOf(u) = ToSet(u) /\ DOMAIN RankOf(v) = ToSet(v)
  BY DEF RankOf
<1>4. \A j \in ToSet(v) : RankOf(v)[j] \in 1 .. n + 1 /\ v[RankOf(v)[j]] = j
                          /\ \A i \in DOMAIN v : v[i] = j => i <= RankOf(v)[j]
  <2>1. Len(v) = n + 1
    BY <1>1
  <2> QED
    BY <1>1, <2>1, RankFacts
<1>5. \A j \in ToSet(u) : RankOf(u)[j] \in 1 .. n /\ u[RankOf(u)[j]] = j
                          /\ \A i \in DOMAIN u : u[i] = j => i <= RankOf(u)[j]
  BY RankFacts DEF n
<1>6. RankOf(v)[k] = n + 1
  <2>1. k \in ToSet(v) /\ n + 1 \in DOMAIN v
    BY <1>1, <1>2
  <2>2. RankOf(v)[k] \in 1 .. n + 1 /\ n + 1 <= RankOf(v)[k]
    BY <1>1, <1>4, <2>1
  <2> QED
    BY <1>1, <2>2
<1>7. ASSUME NEW j \in ToSet(u) \ {k}
      PROVE  RankOf(v)[j] = RankOf(u)[j] /\ RankOf(u)[j] < RankOf(v)[k]
  <2> DEFINE a == RankOf(u)[j]
             b == RankOf(v)[j]
  <2>1. a \in 1 .. n /\ u[a] = j /\ \A i \in DOMAIN u : u[i] = j => i <= a
    BY <1>5
  <2>2. b \in 1 .. n + 1 /\ v[b] = j /\ \A i \in DOMAIN v : v[i] = j => i <= b
    BY <1>2, <1>4
  <2> HIDE DEF a, b
  <2>3. b # n + 1 /\ b \in 1 .. n
    BY <1>1, <2>2
  <2>4. b <= a
    BY <1>1, <2>1, <2>2, <2>3
  <2>5. a <= b
    BY <1>1, <2>1, <2>2
  <2>6. a = b /\ a < n + 1
    BY <1>1, <2>1, <2>3, <2>4, <2>5
  <2> QED
    BY <1>6, <2>6 DEF a, b
<1>8. RankOf(v) \in [ToSet(v) -> Nat]
  <2>1. \A j \in ToSet(v) : RankOf(v)[j] \in Nat
    BY <1>1, <1>4
  <2>2. RankOf(v) = [j \in ToSet(v) |-> RankOf(v)[j]]
    BY DEF RankOf
  <2> QED
    BY <2>1, <2>2
<1> QED
  BY <1>1, <1>2, <1>3, <1>7, <1>8 DEF Newer, v

-----------------------------------------------------------------------------
\* What the lock protects: the list is a least recently used list, and the map
\* has the same keys, each with its own value.
CacheInv ==
    /\ uses \in Seq(Keys)
    /\ Fits(lru_list, RankOf(uses))
    /\ DOMAIN cache_map = ToSet(lru_list)
    /\ \A k \in DOMAIN cache_map : k \notin Malformed /\ cache_map[k].key = k

\* A thread between its two sections has a key to insert.
ThreadInv ==
    /\ at \in [JniThreads -> {"idle", "miss"}]
    /\ DOMAIN key = JniThreads
    /\ DOMAIN result = JniThreads
    /\ \A t \in JniThreads : at[t] = "miss" => key[t] \in Keys
    /\ ReturnsItsOwnKey

WholeCacheInv == CacheInv /\ ThreadInv

\* The keys used since the last reset are finitely many.
LEMMA UsesFinite ==
    ASSUME NEW S, NEW u \in Seq(S)
    PROVE  IsFiniteSet(ToSet(u))
<1> DEFINE n == Len(u)
           r == RankOf(u)
<1>1. n \in Nat
  OBVIOUS
<1>2. \A k \in ToSet(u) : r[k] \in 1 .. n /\ u[r[k]] = k
  BY RankFacts
<1>3. r = [k \in ToSet(u) |-> r[k]]
  BY DEF RankOf
<1> HIDE DEF n, r
<1>4. r \in Injection(ToSet(u), 1 .. n)
  BY <1>2, <1>3 DEF Injection, IsInjective
<1>5. IsFiniteSet(1 .. n)
  BY <1>1, FS_Interval
<1> QED
  BY <1>4, <1>5, FS_Injection

\* A list that fits, beside a map of the same keys, holds exactly the SIZE keys
\* that were used last.
LEMMA FitsIsRecent == CacheInv => HoldsTheMostRecent
<1> SUFFICES ASSUME CacheInv PROVE HoldsTheMostRecent
  OBVIOUS
<1> DEFINE r == RankOf(uses)
           U == ToSet(uses)
           R == ToSet(lru_list)
           Later(k) == {j \in U : r[j] > r[k]}
<1>1. /\ uses \in Seq(Keys) /\ DOMAIN r = U /\ r \in [U -> Nat]
      /\ lru_list \in Seq(U) /\ OrderedBy(lru_list, r) /\ Len(lru_list) <= SIZE
      /\ \A k \in U \ R : Len(lru_list) = SIZE /\ \A x \in R : r[k] < r[x]
  <2>1. DOMAIN r = U
    BY DEF RankOf
  <2> QED
    BY <2>1 DEF CacheInv, Fits
<1>2. \A k \in U : r[k] = LastUse(k)
  BY DEF RankOf, LastUse
<1>3. Recent = {k \in U : Cardinality(Later(k)) < SIZE}
  BY <1>2 DEF Recent
<1>4. R \subseteq U
  BY <1>1, SMTT(30) DEF ToSet
<1>5. IsFiniteSet(U)
  BY <1>1, UsesFinite
<1>6. IsFiniteSet(R) /\ Cardinality(R) = Len(lru_list)
  BY <1>1, OrderedCount
<1> HIDE DEF r, U, R
<1>7. Len(lru_list) \in Nat /\ SIZE \in Nat
  BY <1>1, CacheAssumption
<1>8. ASSUME NEW k \in R PROVE Cardinality(Later(k)) < SIZE
  <2>1. Later(k) \in SUBSET (R \ {k})
    <3> SUFFICES ASSUME NEW j \in Later(k) PROVE j \in R /\ j # k
      OBVIOUS
    <3>1. j \in U /\ r[j] > r[k] /\ r[j] \in Nat /\ r[k] \in Nat
      BY <1>1, <1>4
    <3> QED
      BY <1>1, <3>1
  <2> HIDE DEF Later
  <2>2. IsFiniteSet(R \ {k}) /\ Cardinality(R \ {k}) = Cardinality(R) - 1
    BY <1>6, FS_RemoveElement
  <2>3. IsFiniteSet(Later(k)) /\ Cardinality(Later(k)) <= Cardinality(R \ {k})
    BY <2>1, <2>2, FS_Subset
  <2>4. Cardinality(Later(k)) \in Nat
    BY <2>3, FS_CardinalityType
  <2> QED
    BY <1>1, <1>6, <1>7, <2>2, <2>3, <2>4
<1>9. ASSUME NEW k \in U \ R PROVE ~ (Cardinality(Later(k)) < SIZE)
  <2>1. R \in SUBSET Later(k) /\ Later(k) \in SUBSET U
    BY <1>1, <1>4
  <2> HIDE DEF Later
  <2>2. IsFiniteSet(Later(k))
    BY <1>5, <2>1, FS_Subset
  <2>3. Cardinality(R) <= Cardinality(Later(k)) /\ Cardinality(Later(k)) \in Nat
    BY <2>1, <2>2, FS_Subset, FS_CardinalityType
  <2>4. Cardinality(R) = SIZE
    BY <1>1, <1>6
  <2> QED
    BY <1>7, <2>3, <2>4
<1>10. R = Recent
  <2> HIDE DEF Later
  <2> QED
    BY <1>3, <1>4, <1>8, <1>9
<1>11. \A i, j \in DOMAIN lru_list : i < j => LastUse(lru_list[i]) < LastUse(lru_list[j])
  <2>1. \A i \in DOMAIN lru_list : lru_list[i] \in U
    BY <1>1
  <2> QED
    BY <1>1, <1>2, <2>1 DEF OrderedBy
<1> QED
  BY <1>6, <1>10, <1>11 DEF HoldsTheMostRecent, CacheInv, R

-----------------------------------------------------------------------------
\* A cache section of a get for key k, which returns the value v: the least
\* recently used list is kept, the values still cached are the ones that were,
\* and v is the value of k.
Served(k, v) ==
    /\ CacheInv'
    /\ \A j \in DOMAIN cache_map \cap DOMAIN cache_map' : cache_map'[j] = cache_map[j]
    /\ v.key = k

\* get_if_hit, and the first branch of insert: the key is cached.
LEMMA HitServes ==
    ASSUME CacheInv, NEW k \in Keys, Hit(k), Touch(k), uses' = Append(uses, k)
    PROVE  Served(k, CachedArc(k)) /\ k \notin Malformed
<1> DEFINE r == RankOf(uses)
           r2 == RankOf(Append(uses, k))
<1>1. Newer(r, k, r2) /\ Append(uses, k) \in Seq(Keys)
  BY UseIsNewer DEF CacheInv
<1>2. Fits(lru_list, r) /\ k \in ToSet(lru_list)
  BY DEF CacheInv, Hit
<1> HIDE DEF r, r2
<1>3. Fits(push_back_key(lru_list, k), r2) /\ ToSet(push_back_key(lru_list, k)) = ToSet(lru_list)
  BY <1>1, <1>2, FitsAfterHit
<1>4. CacheInv'
  BY <1>1, <1>3 DEF CacheInv, Touch, r2
<1> QED
  BY <1>4 DEF Served, Touch, CachedArc, CacheInv, Hit

\* The second branch of insert: the key is new, and the oldest may go.
LEMMA MissServes ==
    ASSUME CacheInv, NEW k \in Keys, NEW arc, k \notin Malformed, ~ Hit(k), arc.key = k,
           uses' = Append(uses, k),
           cache_map' = Evict(With(cache_map, k, arc), push_back_key(lru_list, k))[1],
           lru_list' = Evict(With(cache_map, k, arc), push_back_key(lru_list, k))[2]
    PROVE  Served(k, arc)
<1> DEFINE r == RankOf(uses)
           r2 == RankOf(Append(uses, k))
           L == push_back_key(lru_list, k)
           m == With(cache_map, k, arc)
<1>1. Newer(r, k, r2) /\ Append(uses, k) \in Seq(Keys)
  BY UseIsNewer DEF CacheInv
<1>2. Fits(lru_list, r) /\ k \notin ToSet(lru_list)
  BY DEF CacheInv, Hit
<1> HIDE DEF r, r2
<1>3. /\ ToSet(L) = ToSet(lru_list) \cup {k}
      /\ Len(L) <= SIZE => Fits(L, r2)
      /\ Len(L) > SIZE => Fits(Tail(L), r2) /\ ToSet(Tail(L)) = ToSet(L) \ {Head(L)}
  <2>1. Inserted(lru_list, k, L, r2)
    BY <1>1, <1>2, FitsAfterInsert
  <2> QED
    BY <2>1 DEF Inserted
<1>4. /\ DOMAIN m = ToSet(L) /\ \A j \in DOMAIN m : j \notin Malformed /\ m[j].key = j
      /\ \A j \in DOMAIN cache_map : m[j] = cache_map[j]
  BY <1>3 DEF With, CacheInv, Hit
<1>5. L \in Seq(DOMAIN r2)
  <2>1. MovedBack(lru_list, k, L, r2)
    BY <1>1, <1>2, PushBack DEF Fits
  <2> QED
    BY <2>1 DEF MovedBack
<1>6. Len(L) \in Nat /\ SIZE \in Nat
  BY <1>5, CacheAssumption
<1> HIDE DEF L, m
<1>7. CASE Len(L) <= SIZE
  <2>1. cache_map' = m /\ lru_list' = L
    BY <1>7 DEF Evict, L, m
  <2>2. CacheInv'
    BY <1>1, <1>3, <1>4, <1>7, <2>1 DEF CacheInv, r2
  <2> QED
    BY <1>4, <2>1, <2>2 DEF Served
<1>8. CASE ~ (Len(L) <= SIZE)
  <2>1. cache_map' = [j \in DOMAIN m \ {Head(L)} |-> m[j]] /\ lru_list' = Tail(L)
    BY <1>8 DEF Evict, L, m
  <2>2. Fits(Tail(L), r2) /\ ToSet(Tail(L)) = ToSet(L) \ {Head(L)}
    BY <1>3, <1>6, <1>8
  <2>3. CacheInv'
    <3>1. uses' \in Seq(Keys) /\ Fits(lru_list', RankOf(uses'))
      BY <1>1, <2>1, <2>2, Zenon DEF r2
    <3>2. DOMAIN cache_map' = DOMAIN m \ {Head(L)} /\ DOMAIN cache_map' = ToSet(lru_list')
      BY <1>4, <2>1, <2>2, Zenon
    <3>3. \A j \in DOMAIN cache_map' : cache_map'[j] = m[j] /\ j \in DOMAIN m
      BY <2>1, <3>2
    <3>4. \A j \in DOMAIN cache_map' : j \notin Malformed /\ cache_map'[j].key = j
      BY <1>4, <3>3, Zenon
    <3> QED
      BY <3>1, <3>2, <3>4, Zenon DEF CacheInv
  <2> QED
    BY <1>4, <2>1, <2>3 DEF Served
<1> QED
  BY <1>7, <1>8

-----------------------------------------------------------------------------
\* The empty list fits when nothing was used.
LEMMA EmptyFits == Fits(<<>>, RankOf(<<>>)) /\ <<>> \in Seq(Keys)
<1>1. ToSet(<<>>) = {}
  BY DEF ToSet
<1>2. DOMAIN RankOf(<<>>) = {}
  BY <1>1 DEF RankOf
<1>3. RankOf(<<>>) \in [{} -> Nat]
  BY <1>1 DEF RankOf
<1> QED
  BY <1>1, <1>2, <1>3, CacheAssumption DEF Fits, OrderedBy

\* A thread's get for key k that ends with value v, in either section.
LEMMA GetReturns ==
    ASSUME ThreadInv, NEW t \in JniThreads, NEW k, NEW v, Return(t, v),
           key' = [key EXCEPT ![t] = k] \/ (key' = key /\ key[t] = k),
           at' = [at EXCEPT ![t] = "idle"],
           IF k \in Malformed THEN v = Err ELSE v.key = k
    PROVE  ThreadInv'
<1>1. /\ DOMAIN key' = JniThreads /\ key'[t] = k /\ \A u \in JniThreads \ {t} : key'[u] = key[u]
  BY DEF ThreadInv
<1>2. /\ at' \in [JniThreads -> {"idle", "miss"}] /\ at'[t] = "idle"
      /\ \A u \in JniThreads \ {t} : at'[u] = at[u]
  BY DEF ThreadInv
<1>3. /\ DOMAIN result' = JniThreads /\ result'[t] = v
      /\ \A u \in JniThreads \ {t} : result'[u] = result[u]
  BY DEF ThreadInv, Return
<1>4. ReturnsItsOwnKey'
  <2> SUFFICES ASSUME NEW u \in JniThreads, at'[u] = "idle", result'[u] # None'
               PROVE  IF key'[u] \in Malformed THEN result'[u] = Err' ELSE result'[u].key = key'[u]
    BY DEF ReturnsItsOwnKey
  <2>1. CASE u = t
    BY <1>1, <1>3, <2>1 DEF Err
  <2>2. CASE u # t
    BY <1>1, <1>2, <1>3, <2>2, SMTT(30) DEF ThreadInv, ReturnsItsOwnKey, None, Err
  <2> QED
    BY <2>1, <2>2
<1>5. \A u \in JniThreads : at'[u] = "miss" => key'[u] \in Keys
  BY <1>1, <1>2 DEF ThreadInv
<1> QED
  BY <1>1, <1>2, <1>3, <1>4, <1>5 DEF ThreadInv

\* Values that stay cached are not replaced in a step.
Shared == \A k \in DOMAIN cache_map \cap DOMAIN cache_map' : cache_map'[k] = cache_map[k]

\* Every step keeps the invariant and the values that stay cached.
LEMMA InvariantStep == WholeCacheInv /\ [CacheNext]_cacheVars => WholeCacheInv' /\ Shared
<1> SUFFICES ASSUME WholeCacheInv, [CacheNext]_cacheVars PROVE WholeCacheInv' /\ Shared
  OBVIOUS
<1> USE DEF WholeCacheInv
<1>1. ASSUME NEW t \in JniThreads, NEW k \in Keys, LookUp(t, k), created, Hit(k) PROVE WholeCacheInv' /\ Shared
  <2>1. Touch(k) /\ Return(t, CachedArc(k)) /\ uses' = Append(uses, k) /\ UNCHANGED at
        /\ at[t] = "idle" /\ key' = [key EXCEPT ![t] = k]
    BY <1>1 DEF LookUp, Begin
  <2>2. Served(k, CachedArc(k)) /\ k \notin Malformed
    BY <1>1, <2>1, HitServes
  <2>3. at' = [at EXCEPT ![t] = "idle"]
    BY <2>1 DEF ThreadInv
  <2>4. ThreadInv'
    BY <2>1, <2>2, <2>3, GetReturns DEF Served
  <2> QED
    BY <2>2, <2>4 DEF Served, Shared
<1>2. ASSUME NEW t \in JniThreads, NEW k \in Keys, LookUp(t, k), ~ (created /\ Hit(k))
      PROVE  WholeCacheInv' /\ Shared
  <2>1. /\ at' = [at EXCEPT ![t] = "miss"] /\ key' = [key EXCEPT ![t] = k]
        /\ UNCHANGED <<cache_map, lru_list, result, uses>>
    BY <1>2 DEF LookUp
  <2>2. CacheInv' /\ Shared
    BY <2>1 DEF CacheInv, Shared
  <2>3. /\ at' \in [JniThreads -> {"idle", "miss"}] /\ at'[t] = "miss" /\ key'[t] = k
        /\ DOMAIN key' = JniThreads
        /\ \A u \in JniThreads \ {t} : at'[u] = at[u] /\ key'[u] = key[u]
    BY <2>1 DEF ThreadInv
  <2>4. ThreadInv'
    BY <2>1, <2>3 DEF ThreadInv, ReturnsItsOwnKey, None, Err
  <2> QED
    BY <2>2, <2>4
<1>3. ASSUME NEW t \in JniThreads, FailToDeserialize(t) PROVE WholeCacheInv' /\ Shared
  <2>1. CacheInv' /\ Shared
    BY <1>3 DEF FailToDeserialize, CacheInv, Shared
  <2>2. ThreadInv'
    BY <1>3, GetReturns DEF FailToDeserialize
  <2> QED
    BY <2>1, <2>2
<1>4. ASSUME NEW t \in JniThreads, Insert(t) PROVE WholeCacheInv' /\ Shared
  <2> DEFINE k == key[t]
  <2>1. /\ k \in Keys /\ k \notin Malformed /\ insert(t, k) /\ uses' = Append(uses, k)
        /\ at' = [at EXCEPT ![t] = "idle"] /\ key' = key
    BY <1>4 DEF Insert, ThreadInv
  <2> HIDE DEF k
  <2>2. \E v : Return(t, v) /\ Served(k, v)
    <3>1. CASE Hit(k)
      <4>1. Touch(k) /\ Return(t, CachedArc(k))
        BY <2>1, <3>1 DEF insert
      <4> QED
        BY <2>1, <3>1, <4>1, HitServes
    <3>2. CASE ~ Hit(k)
      <4> DEFINE arc == Arc(k, t)
      <4>1. /\ Return(t, arc)
            /\ cache_map' = Evict(With(cache_map, k, arc), push_back_key(lru_list, k))[1]
            /\ lru_list' = Evict(With(cache_map, k, arc), push_back_key(lru_list, k))[2]
        BY <2>1, <3>2 DEF insert
      <4>2. arc.key = k
        BY DEF Arc
      <4> HIDE DEF arc
      <4> QED
        BY <2>1, <3>2, <4>1, <4>2, MissServes
    <3> QED
      BY <3>1, <3>2
  <2>3. PICK v : Return(t, v) /\ Served(k, v)
    BY <2>2
  <2>4. key[t] = k /\ v.key = k
    BY <2>3 DEF k, Served
  <2>5. ThreadInv'
    BY <2>1, <2>3, <2>4, GetReturns
  <2> QED
    BY <2>3, <2>5 DEF Served, Shared
<1>5. ASSUME NEW t \in JniThreads, Reset(t) PROVE WholeCacheInv' /\ Shared
  <2>1. cache_map' = <<>> /\ lru_list' = <<>> /\ uses' = <<>> /\ UNCHANGED <<at, key, result>>
    BY <1>5 DEF Reset, reset, EmptyMap
  <2>2. ThreadInv'
    BY <2>1 DEF ThreadInv, ReturnsItsOwnKey, None, Err
  <2>3. CacheInv' /\ Shared
    <3>1. ToSet(<<>>) = {} /\ DOMAIN cache_map' = {}
      BY <2>1 DEF ToSet
    <3>2. Fits(lru_list', RankOf(uses')) /\ uses' \in Seq(Keys)
      BY <2>1, EmptyFits, Zenon
    <3>3. DOMAIN cache_map' = ToSet(lru_list')
      BY <2>1, <3>1, Zenon
    <3>4. CacheInv'
      BY <3>1, <3>2, <3>3, Zenon DEF CacheInv
    <3>5. Shared
      BY <3>1 DEF Shared
    <3> QED
      BY <3>4, <3>5
  <2> QED
    BY <2>2, <2>3
<1>6. CASE UNCHANGED cacheVars
  BY <1>6 DEF cacheVars, Shared, CacheInv, ThreadInv, ReturnsItsOwnKey, None, Err
<1> QED
  BY <1>1, <1>2, <1>3, <1>4, <1>5, <1>6 DEF CacheNext

\* The invariant holds throughout.
LEMMA InvariantHolds == CacheSpec => []WholeCacheInv
<1>1. CacheInit => WholeCacheInv
  <2> SUFFICES ASSUME CacheInit PROVE WholeCacheInv
    OBVIOUS
  <2>1. CacheInv
    BY EmptyFits DEF CacheInit, CacheInv, EmptyMap, ToSet
  <2>2. ThreadInv
    BY DEF CacheInit, ThreadInv, ReturnsItsOwnKey
  <2> QED
    BY <2>1, <2>2 DEF WholeCacheInv
<1> QED
  BY <1>1, InvariantStep, PTL DEF CacheSpec

\* Whatever other gets and resets run between the two locked sections of a get,
\* JNIMapCache::get returns the value of the key it was given, or the error of a
\* key that does not deserialize.
THEOREM GetsReturnTheirKey == CacheSpec => []ReturnsItsOwnKey
<1>1. WholeCacheInv => ReturnsItsOwnKey
  BY DEF WholeCacheInv, ThreadInv
<1> QED
  BY <1>1, InvariantHolds, PTL

\* The cache holds exactly the SIZE keys used last since the last reset, in the
\* order of their last use, and the list and the map of LRUCache agree.
THEOREM CacheIsLru == CacheSpec => []HoldsTheMostRecent
<1>1. WholeCacheInv => HoldsTheMostRecent
  BY FitsIsRecent DEF WholeCacheInv
<1> QED
  BY <1>1, InvariantHolds, PTL

\* No step replaces the Arc of a key that stays cached, so threads that missed
\* together share the value that was inserted first.
THEOREM ArcsAreShared == CacheSpec => CachedValuesAreShared
<1>1. WholeCacheInv /\ [CacheNext]_cacheVars => [Shared]_cacheVars
  BY InvariantStep
<1>2. CacheSpec => [][Shared]_cacheVars
  BY <1>1, InvariantHolds, PTL DEF CacheSpec
<1> QED
  BY <1>2 DEF CachedValuesAreShared, Shared
=============================================================================
