----------------------- MODULE TssVerificationProofs -----------------------
(***************************************************************************)
(* For any number of threads, any cache size and any faults: verifyTSS     *)
(* accepts nothing that does not verify and refuses nothing without a      *)
(* reason, its cache holds the verdicts used last, and what the Java side  *)
(* says about the resources is what the native side holds.                 *)
(***************************************************************************)
EXTENDS TssVerification, FoldTheorems, TLAPS

-----------------------------------------------------------------------------
\* Concatenating three sequences and cutting them apart again (composeSignature
\* and the copyOfRange calls of verifyTSS).
LEMMA CutApart ==
  ASSUME NEW a \in Bytes, NEW b \in Bytes, NEW c \in Bytes
  PROVE  /\ SubSeq(a \o b \o c, 1, Len(a)) = a
         /\ SubSeq(a \o b \o c, Len(a) + 1, Len(a) + Len(b)) = b
         /\ SubSeq(a \o b \o c, Len(a) + Len(b) + 1, Len(a \o b \o c)) = c
<1> DEFINE s == a \o b \o c
<1>1. s \in Seq(Nat) /\ Len(s) = Len(a) + Len(b) + Len(c)
  BY DEF Bytes
<1>2. \A i \in 1 .. Len(s) :
         s[i] = IF i <= Len(a) THEN a[i]
                ELSE IF i <= Len(a) + Len(b) THEN b[i - Len(a)]
                ELSE c[i - Len(a) - Len(b)]
  BY DEF Bytes
<1>3. SubSeq(s, 1, Len(a)) = a
  BY <1>1, <1>2 DEF Bytes
<1>4. SubSeq(s, Len(a) + 1, Len(a) + Len(b)) = b
  BY <1>1, <1>2 DEF Bytes
<1>5. SubSeq(s, Len(a) + Len(b) + 1, Len(s)) = c
  BY <1>1, <1>2 DEF Bytes
<1> QED
  BY <1>3, <1>4, <1>5

-----------------------------------------------------------------------------
\* The arguments a well-formed request is about.
Parts(r) == [abProof |-> r.abProof, ledgerId |-> r.ledgerId,
             hintsVerificationKey |-> r.hintsVerificationKey]

Tss(t) == request[t].op = "verifyTSS"
CacheSteps == {"lookup", "insert", "message"}

\* What the threads and the cache know of the proofs that verify.
VerdictsAreSound ==
    /\ \A k \in DOMAIN cache :
          cache[k] => [abProof |-> k[1], ledgerId |-> k[2], hintsVerificationKey |-> k[3]]
                         \in ProofsThatVerify
    /\ \A t \in Threads : pc[t] \in CacheSteps => Tss(t)
    /\ \A t \in Threads : pc[t] # "idle" /\ Tss(t) => ~Malformed(request[t])
    /\ \A t \in Threads : value[t] => pc[t] = "insert" /\ ProofVerifies(request[t])
    /\ \A t \in Threads : pc[t] = "message" => ProofVerifies(request[t])

\* One thread at a time initializes a loader class, before its cell is filled.
LoadersAreInStep ==
    /\ \A t \in Threads : pc[t] = "load" => loader[Needs(t)] = "running"
    /\ \A t, u \in Threads :
          pc[t] = "load" /\ pc[u] = "load" /\ Needs(t) = Needs(u) => t = u
    /\ \A r \in Resources : loader[r] \in {"new", "running"} => cell[r] = "unset"
    /\ SupportMatchesTheCells

IInv == TypeOK /\ VerdictsAreSound /\ AcceptedVerifies /\ LoadersAreInStep

\* The parts that verifyTSS cuts out of a composed signature are the parts it
\* was composed of.
LEMMA KeyIsParts ==
  ASSUME NEW t \in Threads, request[t] \in Requests, Tss(t), ~Malformed(request[t])
  PROVE  KeyOf(t) = Parts(request[t]) /\ SignatureOf(t) = request[t].hintsSignature
<1> DEFINE r == request[t]
           s == r.hintsVerificationKey \o r.hintsSignature \o r.abProof
<1>1. /\ r.hintsVerificationKey \in Bytes /\ r.hintsSignature \in Bytes
      /\ r.abProof \in Bytes
  BY RequestAssumption DEF Tss
<1>2. /\ Composed(r) = {s}
      /\ Len(r.hintsVerificationKey) = HINTS_VERIFICATION_KEY_LENGTH
      /\ Len(r.hintsSignature) = HINTS_SIGNATURE_LENGTH
  BY DEF Malformed, Composed, composeSignature
<1>3. Key(r.ledgerId, s) = Parts(r) /\ HintsSignature(s) = r.hintsSignature
  <2> DEFINE a == r.hintsVerificationKey
             b == r.hintsSignature
             c == r.abProof
  <2>1. a \in Bytes /\ b \in Bytes /\ c \in Bytes
    BY <1>1
  <2>2. s = a \o b \o c /\ Len(a) = HINTS_VERIFICATION_KEY_LENGTH
          /\ Len(b) = HINTS_SIGNATURE_LENGTH
    BY <1>2
  <2> HIDE DEF a, b, c, s
  <2>3. /\ SubSeq(a \o b \o c, 1, Len(a)) = a
        /\ SubSeq(a \o b \o c, Len(a) + 1, Len(a) + Len(b)) = b
        /\ SubSeq(a \o b \o c, Len(a) + Len(b) + 1, Len(a \o b \o c)) = c
    BY <2>1, CutApart, SMTT(30)
  <2>4. Key(r.ledgerId, s) = [abProof |-> c, ledgerId |-> r.ledgerId, hintsVerificationKey |-> a]
    BY <2>2, <2>3, Zenon DEF Key
  <2>5. HintsSignature(s) = b
    BY <2>2, <2>3, Zenon DEF HintsSignature
  <2> QED
    BY <2>4, <2>5 DEF Parts, a, b, c
<1>4. {Key(r.ledgerId, sig) : sig \in Composed(r)} = {Parts(r)}
  BY <1>2, <1>3
<1>5. {HintsSignature(sig) : sig \in Composed(r)} = {r.hintsSignature}
  BY <1>2, <1>3
<1>6. KeyOf(t) = Parts(r)
  BY <1>4 DEF KeyOf
<1>7. SignatureOf(t) = r.hintsSignature
  BY <1>5 DEF SignatureOf
<1> QED
  BY <1>6, <1>7

-----------------------------------------------------------------------------
\* The invariant holds before the first call.
LEMMA InitInvariant == Init => IInv
  BY TssAssumption, RequestAssumption
  DEF Init, IInv, TypeOK, VerdictsAreSound, CacheSteps, AcceptedVerifies, LoadersAreInStep,
      SupportMatchesTheCells, Resources, Contents

\* A call preserves it: what goes on to the cache is well formed.
LEMMA CallInvariant ==
  ASSUME IInv, NEW t \in Threads, NEW r \in Requests, Call(t, r)
  PROVE  IInv'
<1> USE DEF IInv, Call, Goto, Finish, shared, lruCache
<1>1. TypeOK'
  BY DEF TypeOK
<1>2. VerdictsAreSound'
  <2>1. ~value[t] /\ UNCHANGED <<value, cache>>
    BY DEF VerdictsAreSound
  <2>2. \A u \in Threads \ {t} : pc'[u] = pc[u] /\ request'[u] = request[u]
    BY DEF TypeOK
  <2>3. request'[t] = r /\ pc'[t] \in {"idle", "lookup", "support"}
    BY DEF TypeOK
  <2>4. /\ pc'[t] = "lookup" => r.op = "verifyTSS"
        /\ pc'[t] # "idle" /\ r.op = "verifyTSS" => ~Malformed(r)
    BY DEF TypeOK
  <2> QED
    BY <2>1, <2>2, <2>3, <2>4 DEF VerdictsAreSound, CacheSteps, Tss
<1>3. AcceptedVerifies'
  BY DEF TypeOK, AcceptedVerifies, ProofVerifies, MessageVerifies
<1>4. LoadersAreInStep'
  BY DEF TypeOK, LoadersAreInStep, SupportMatchesTheCells, Needs
<1> QED
  BY <1>1, <1>2, <1>3, <1>4

\* What the second critical section does to the map and the list.
CacheAfter(k, v) ==
    LET full == With(cache, k, v)
        recent == ToFront(lru, k)
    IN  \/ k \in DOMAIN cache /\ cache' = cache /\ lru' = recent
        \/ /\ k \notin DOMAIN cache /\ ~ (Cardinality(DOMAIN full) > CacheSize)
           /\ cache' = full /\ lru' = recent
        \/ /\ k \notin DOMAIN cache /\ Cardinality(DOMAIN full) > CacheSize
           /\ cache' = Without(full, recent[Len(recent)])
           /\ lru' = SubSeq(recent, 1, Len(recent) - 1)

\* The second critical section, with the key of the thread's request.
LEMMA InsertEffect ==
  ASSUME NEW t, Insert(t)
  PROVE  /\ uses' = ToFront(uses, CacheKey(KeyOf(t)))
         /\ CacheAfter(CacheKey(KeyOf(t)), value[t])
<1> DEFINE k == CacheKey(KeyOf(t))
           Body == LET full == With(cache, k, value[t])
                       recent == ToFront(lru, k)
                       last == recent[Len(recent)]
                   IN  /\ uses' = ToFront(uses, k)
                       /\ IF k \in DOMAIN cache
                          THEN lru' = recent /\ Continue(t, cache[k]) /\ UNCHANGED cache
                          ELSE /\ IF Cardinality(DOMAIN full) > CacheSize
                                  THEN /\ cache' = Without(full, last)
                                       /\ lru' = SubSeq(recent, 1, Len(recent) - 1)
                                  ELSE cache' = full /\ lru' = recent
                               /\ Continue(t, value[t])
<1>1. Body
  BY Zenon DEF Insert
<1> HIDE DEF k
<1> QED
  BY <1>1, Zenon DEF CacheAfter, k

\* It keeps verdicts, and adds at most the one of its own key.
LEMMA InsertedVerdict ==
  ASSUME NEW t, Insert(t)
  PROVE  /\ DOMAIN cache' \subseteq DOMAIN cache \cup {CacheKey(KeyOf(t))}
         /\ \A j \in DOMAIN cache' :
               cache'[j] = IF j \in DOMAIN cache THEN cache[j] ELSE value[t]
<1> DEFINE k == CacheKey(KeyOf(t))
<1>1. CacheAfter(k, value[t])
  BY InsertEffect, Zenon
<1> HIDE DEF k
<1>2. CASE k \in DOMAIN cache
  BY <1>1, <1>2 DEF CacheAfter, k
<1>3. CASE k \notin DOMAIN cache
  <2>1. cache' = With(cache, k, value[t]) \/ \E j : cache' = Without(With(cache, k, value[t]), j)
    BY <1>1, <1>3, Zenon DEF CacheAfter
  <2> QED
    BY <1>3, <2>1 DEF With, Without, k
<1> QED
  BY <1>2, <1>3

\* Both critical sections of LRUCache.get: a thread leaves with a verdict that
\* the cache or its own computation vouches for.
LEMMA CacheInvariant ==
  ASSUME IInv, NEW t \in Threads, LookUp(t) \/ Insert(t)
  PROVE  IInv'
<1> DEFINE k == CacheKey(KeyOf(t))
<1>0. request[t] \in Requests /\ Tss(t) /\ ~Malformed(request[t])
  BY DEF IInv, TypeOK, VerdictsAreSound, LookUp, Insert, CacheSteps
<1>1. KeyOf(t) = Parts(request[t])
  BY <1>0, KeyIsParts
<1>2. [abProof |-> k[1], ledgerId |-> k[2], hintsVerificationKey |-> k[3]] = Parts(request[t])
  BY <1>1 DEF CacheKey, Parts
<1>3. ProofVerifies(request[t]) <=> Parts(request[t]) \in ProofsThatVerify
  BY DEF ProofVerifies, Parts
<1> HIDE DEF k
<1>4. CASE LookUp(t)
  <2>1. TypeOK'
    BY <1>4 DEF IInv, LookUp, Continue, TypeOK, Goto, Finish, shared, lruCache
  <2>2. VerdictsAreSound'
    BY <1>0, <1>2, <1>3, <1>4 DEF IInv, LookUp, Continue, TypeOK, Goto, Finish, shared,
       lruCache, VerdictsAreSound, CacheSteps, Tss, k
  <2>3. AcceptedVerifies'
    BY <1>4 DEF IInv, LookUp, Continue, TypeOK, Goto, Finish, shared, lruCache,
       AcceptedVerifies
  <2>4. LoadersAreInStep'
    BY <1>4 DEF IInv, LookUp, Continue, TypeOK, Goto, Finish, shared, lruCache,
       LoadersAreInStep, SupportMatchesTheCells, Needs
  <2> QED
    BY <2>1, <2>2, <2>3, <2>4 DEF IInv
<1>5. CASE Insert(t)
  <2>1. /\ DOMAIN cache' \subseteq DOMAIN cache \cup {k}
        /\ \A j \in DOMAIN cache' :
              cache'[j] = IF j \in DOMAIN cache THEN cache[j] ELSE value[t]
    BY <1>5, InsertedVerdict DEF k
  <2>2. LET v == IF k \in DOMAIN cache THEN cache[k] ELSE value[t] IN Continue(t, v)
    BY <1>5 DEF Insert, k
  <2>3. /\ value' = [value EXCEPT ![t] = FALSE]
        /\ UNCHANGED <<jar, loader, cell, request, faults>>
        /\ pc[t] = "insert"
    BY <1>5 DEF Insert, Hold, shared
  <2>4. TypeOK'
    BY <2>1, <2>2, <2>3 DEF IInv, Continue, TypeOK, Goto, Finish
  <2>5. VerdictsAreSound'
    BY <1>0, <1>2, <1>3, <2>1, <2>2, <2>3, SMTT(30) DEF IInv, Continue, TypeOK, Goto, Finish,
       VerdictsAreSound, CacheSteps, Tss
  <2>6. AcceptedVerifies'
    BY <2>2, <2>3 DEF IInv, Continue, TypeOK, Goto, Finish, AcceptedVerifies
  <2>7. LoadersAreInStep'
    BY <2>2, <2>3 DEF IInv, Continue, TypeOK, Goto, Finish, LoadersAreInStep,
       SupportMatchesTheCells, Needs
  <2> QED
    BY <2>4, <2>5, <2>6, <2>7 DEF IInv
<1> QED
  BY <1>4, <1>5

\* Asking a loader class, and its initializer, which one thread runs.
LEMMA LoaderInvariant ==
  ASSUME IInv, NEW t \in Threads, Support(t) \/ Load(t) \/ LoadFails(t)
  PROVE  IInv'
<1> USE DEF IInv, Goto, Finish, shared, lruCache, Fault
<1>0. Needs(t) \in Resources
  BY DEF Needs, Resources
<1>1. CASE Support(t)
  <2>1. TypeOK'
    BY <1>0, <1>1 DEF Support, TypeOK
  <2>2. VerdictsAreSound'
    BY <1>1, SMTT(30) DEF Support, TypeOK, VerdictsAreSound, CacheSteps, Tss, ProofVerifies
  <2>3. AcceptedVerifies'
    BY <1>1 DEF Support, TypeOK, AcceptedVerifies, ProofVerifies, MessageVerifies
  <2>4. LoadersAreInStep'
    <3>1. \A u \in Threads : Needs(u)' = Needs(u)
      BY <1>1 DEF Support, TypeOK, Needs
    <3>2. CASE loader[Needs(t)] = "new"
      <4>1. /\ pc' = [pc EXCEPT ![t] = "load"]
            /\ loader' = [loader EXCEPT ![Needs(t)] = "running"]
            /\ UNCHANGED cell
        BY <1>1, <3>2 DEF Support
      <4>2. \A u \in Threads : pc[u] = "load" => Needs(u) # Needs(t)
        BY <3>2 DEF LoadersAreInStep
      <4> QED
        BY <1>0, <3>1, <3>2, <4>1, <4>2 DEF TypeOK, LoadersAreInStep, SupportMatchesTheCells
    <3>3. CASE loader[Needs(t)] # "new"
      <4>1. /\ \E label \in {"native", "insert", "idle"} : pc' = [pc EXCEPT ![t] = label]
            /\ UNCHANGED <<loader, cell>>
        BY <1>1, <3>3 DEF Support
      <4> QED
        BY <3>1, <4>1 DEF TypeOK, LoadersAreInStep, SupportMatchesTheCells
    <3> QED
      BY <3>2, <3>3
  <2> QED
    BY <2>1, <2>2, <2>3, <2>4
<1>2. CASE Load(t)
  <2>0. LeavesInCell(Needs(t)) \in {"unset", "some", "none"}
    BY <1>0 DEF LeavesInCell, PublicParamsLoader, CompressedVerifyingKeyLoader,
       loadPublicParams, loadCompressedVerifyingKey, get_or_init, TypeOK, Resources
  <2>1. TypeOK'
    BY <1>0, <1>2, <2>0 DEF Load, TypeOK
  <2>2. VerdictsAreSound'
    BY <1>2 DEF Load, TypeOK, VerdictsAreSound, CacheSteps, Tss, ProofVerifies
  <2>3. AcceptedVerifies'
    BY <1>2 DEF Load, TypeOK, AcceptedVerifies, ProofVerifies, MessageVerifies
  <2>4. LoadersAreInStep'
    BY <1>0, <1>2, <2>0, SMTT(30) DEF Load, TypeOK, LoadersAreInStep, SupportMatchesTheCells, Needs
  <2> QED
    BY <2>1, <2>2, <2>3, <2>4
<1>3. CASE LoadFails(t)
  <2>1. TypeOK'
    BY <1>0, <1>3, TssAssumption DEF LoadFails, TypeOK
  <2>2. VerdictsAreSound'
    BY <1>3, SMTT(30) DEF LoadFails, TypeOK, VerdictsAreSound, CacheSteps, Tss, ProofVerifies
  <2>3. AcceptedVerifies'
    BY <1>3 DEF LoadFails, TypeOK, AcceptedVerifies, ProofVerifies, MessageVerifies
  <2>4. LoadersAreInStep'
    <3>1. /\ \A u \in Threads : Needs(u)' = Needs(u)
          /\ pc[t] = "load"
          /\ \E label \in {"support", "idle"} : pc' = [pc EXCEPT ![t] = label]
          /\ \E found \in {"no", "broken"} :
                loader' = [loader EXCEPT ![Needs(t)] = found]
          /\ UNCHANGED cell
      BY <1>3 DEF LoadFails, TypeOK, Needs
    <3> QED
      BY <1>0, <3>1 DEF TypeOK, LoadersAreInStep, SupportMatchesTheCells
  <2> QED
    BY <2>1, <2>2, <2>3, <2>4
<1> QED
  BY <1>1, <1>2, <1>3

\* The native calls: a verdict or an answer is what the verifiers say, or false.
LEMMA NativeInvariant ==
  ASSUME IInv, NEW t \in Threads,
         NativeVerify(t) \/ NativeWithParams(t) \/ VerifyMessage(t)
  PROVE  IInv'
<1> USE DEF IInv, Goto, Finish, shared, lruCache, Fault
<1>0. ASSUME Tss(t), pc[t] # "idle"
      PROVE  /\ KeyOf(t) = Parts(request[t])
             /\ SignatureOf(t) = request[t].hintsSignature
  BY <1>0, KeyIsParts DEF TypeOK, VerdictsAreSound
<1>1. CASE NativeVerify(t)
  <2>0. Tss(t) /\ pc[t] = "native"
    BY <1>1 DEF NativeVerify, Tss
  <2>1. \E v \in BOOLEAN : Hold(t, v) /\ (v => ProofVerifies(request[t]))
    BY <1>0, <1>1, <2>0 DEF NativeVerify, verifyCompressedProofImpl, ProofVerifies, Parts
  <2>2. faults' \in 0 .. MaxFaults
    <3>1. UNCHANGED faults \/ Fault
      BY <1>1, Zenon DEF NativeVerify
    <3> QED
      BY <3>1, TssAssumption DEF TypeOK
  <2>3. pc' = [pc EXCEPT ![t] = "insert"] /\ UNCHANGED <<shared, lruCache, request, outcome>>
    BY <1>1 DEF NativeVerify
  <2>4. TypeOK'
    BY <2>1, <2>2, <2>3 DEF Hold, TypeOK
  <2>5. VerdictsAreSound'
    BY <2>0, <2>1, <2>3, SMTT(30) DEF Hold, TypeOK, VerdictsAreSound, CacheSteps, Tss
  <2>6. AcceptedVerifies'
    BY <2>3 DEF TypeOK, AcceptedVerifies
  <2>7. LoadersAreInStep'
    BY <2>3 DEF TypeOK, LoadersAreInStep, SupportMatchesTheCells, Needs
  <2> QED
    BY <2>4, <2>5, <2>6, <2>7
<1>2. CASE NativeWithParams(t)
  <2>1. TypeOK'
    BY <1>2, TssAssumption, SMTT(30) DEF NativeWithParams, Answer, TypeOK
  <2>2. VerdictsAreSound'
    BY <1>2, SMTT(30) DEF NativeWithParams, TypeOK, VerdictsAreSound, CacheSteps, Tss
  <2>3. AcceptedVerifies'
    BY <1>2 DEF NativeWithParams, TypeOK, AcceptedVerifies
  <2>4. LoadersAreInStep'
    BY <1>2 DEF NativeWithParams, TypeOK, LoadersAreInStep, SupportMatchesTheCells, Needs
  <2> QED
    BY <2>1, <2>2, <2>3, <2>4
<1>3. CASE VerifyMessage(t)
  <2>0. Tss(t) /\ pc[t] = "message" /\ ProofVerifies(request[t])
    BY <1>3 DEF VerifyMessage, VerdictsAreSound, CacheSteps
  <2>1. \E how \in {"true", "false"} :
           Finish(t, how) /\ (how = "true" => MessageVerifies(request[t]))
    BY <1>0, <1>3, <2>0 DEF VerifyMessage, MessageVerifies, Answer, Parts
  <2>2. faults' \in 0 .. MaxFaults
    BY <1>3, TssAssumption DEF VerifyMessage, TypeOK
  <2>3. UNCHANGED <<shared, lruCache, request, value>>
    BY <1>3 DEF VerifyMessage
  <2>4. TypeOK'
    BY <2>1, <2>2, <2>3 DEF TypeOK
  <2>5. VerdictsAreSound'
    BY <2>0, <2>1, <2>3 DEF TypeOK, VerdictsAreSound, CacheSteps, Tss
  <2>6. AcceptedVerifies'
    BY <2>0, <2>1, <2>3 DEF TypeOK, AcceptedVerifies
  <2>7. LoadersAreInStep'
    BY <2>1, <2>3 DEF TypeOK, LoadersAreInStep, SupportMatchesTheCells, Needs
  <2> QED
    BY <2>4, <2>5, <2>6, <2>7
<1> QED
  BY <1>1, <1>2, <1>3

\* The inductive invariant of verifyTSS and the loaders.
THEOREM TssInvariant == Spec => []IInv
<1>1. Init => IInv
  BY InitInvariant
<1>2. IInv /\ [Next]_vars => IInv'
  <2> SUFFICES ASSUME IInv, [Next]_vars PROVE IInv'
    OBVIOUS
  <2>1. CASE UNCHANGED vars
    <3>1. TypeOK'
      BY <2>1 DEF vars, shared, lruCache, IInv, TypeOK
    <3>2. VerdictsAreSound'
      BY <2>1 DEF vars, shared, lruCache, IInv, VerdictsAreSound, Tss
    <3>3. AcceptedVerifies'
      BY <2>1 DEF vars, shared, lruCache, IInv, AcceptedVerifies
    <3>4. LoadersAreInStep'
      BY <2>1 DEF vars, shared, IInv, LoadersAreInStep, SupportMatchesTheCells, Needs
    <3> QED
      BY <3>1, <3>2, <3>3, <3>4 DEF IInv
  <2>2. ASSUME NEW t \in Threads, Step(t) PROVE IInv'
    BY <2>2, CacheInvariant, LoaderInvariant, NativeInvariant DEF Step
  <2>3. ASSUME NEW t \in Threads, NEW r \in Requests, Call(t, r) PROVE IInv'
    BY <2>3, CallInvariant
  <2> QED
    BY <2>1, <2>2, <2>3 DEF Next
<1> QED
  BY <1>1, <1>2, PTL DEF Spec

\* verifyTSS accepts only what verifies, whatever the cache remembers, other
\* threads do and faults happen.
THEOREM TssAcceptsOnlyWhatVerifies == Spec => []AcceptedVerifies
<1>1. IInv => AcceptedVerifies
  BY DEF IInv
<1> QED
  BY <1>1, TssInvariant, PTL

\* isProofSupported and isVerificationSupported say what the native cells hold.
THEOREM SupportIsTruthful == Spec => []SupportMatchesTheCells
<1>1. IInv => SupportMatchesTheCells
  BY DEF IInv, LoadersAreInStep
<1> QED
  BY <1>1, TssInvariant, PTL

-----------------------------------------------------------------------------
\* No key twice.
Distinct(list) == \A i, j \in DOMAIN list : i < j => list[i] # list[j]

\* L is list with the key at position i moved to the front.
Moved(list, i, L) ==
    /\ Len(L) = Len(list)
    /\ \A j \in 1 .. Len(list) :
          L[j] = IF j = 1 THEN list[i] ELSE IF j <= i THEN list[j - 1] ELSE list[j]

\* LRUCache.accessKey of a key that is in the list.
LEMMA ToFrontPresent ==
  ASSUME NEW S, NEW list \in Seq(S), Distinct(list), NEW i \in DOMAIN list
  PROVE  ToFront(list, list[i]) \in Seq(S) /\ Moved(list, i, ToFront(list, list[i]))
<1> DEFINE k == list[i]
           n == Len(list)
           I == {j \in DOMAIN list : list[j] = k}
           R == SubSeq(list, 1, i - 1) \o SubSeq(list, i + 1, Len(list))
<1>1. n \in Nat /\ DOMAIN list = 1 .. n /\ i \in 1 .. n /\ k \in S
  OBVIOUS
<1>2. I = {i}
  BY <1>1 DEF Distinct
<1>3. Min(I) = i
  <2>1. \A y \in {i} : i <= y
    BY <1>1
  <2>2. \A x \in {i} : x = i
    OBVIOUS
  <2> QED
    BY <1>2, <2>1, <2>2 DEF Min
<1>4. RemoveFirst(list, k) = R
  <2>1. I # {}
    BY <1>2
  <2> QED
    BY <1>3, <2>1, Zenon DEF RemoveFirst
<1>5. /\ R \in Seq(S) /\ Len(R) = n - 1
      /\ \A j \in 1 .. n - 1 : R[j] = IF j < i THEN list[j] ELSE list[j + 1]
  <2> DEFINE a == SubSeq(list, 1, i - 1)
             b == SubSeq(list, i + 1, Len(list))
  <2>1. a \in Seq(S) /\ Len(a) = i - 1 /\ \A j \in 1 .. i - 1 : a[j] = list[j]
    BY <1>1
  <2>2. b \in Seq(S) /\ Len(b) = n - i /\ \A j \in 1 .. n - i : b[j] = list[i + j]
    BY <1>1, SMTT(30)
  <2>3. R = a \o b
    OBVIOUS
  <2> HIDE DEF a, b, R
  <2>0. a \in Seq(S) /\ b \in Seq(S)
    BY <2>1, <2>2
  <2>4. R \in Seq(S) /\ Len(R) = n - 1
    <3>1. R \in Seq(S) /\ Len(R) = Len(a) + Len(b)
      BY <2>0, <2>3
    <3>2. n \in Int /\ i \in Int
      BY <1>1
    <3> HIDE DEF n
    <3> QED
      BY <2>1, <2>2, <3>1, <3>2
  <2>5. ASSUME NEW j \in 1 .. n - 1 PROVE R[j] = IF j < i THEN list[j] ELSE list[j + 1]
    <3>1. CASE j < i
      BY <1>1, <2>1, <2>2, <2>3, <3>1
    <3>2. CASE ~ (j < i)
      <4> DEFINE c == j - (i - 1)
      <4>1. R[j] = b[c] /\ c \in 1 .. n - i /\ i + c = j + 1
        <5>1. j \in 1 .. Len(a) + Len(b) /\ ~ (j <= Len(a))
          BY <1>1, <2>1, <2>2, <3>2
        <5>2. R[j] = b[j - Len(a)]
          BY <2>0, <2>3, <5>1
        <5> QED
          BY <1>1, <2>1, <3>2, <5>2
      <4> HIDE DEF c
      <4> QED
        BY <2>2, <3>2, <4>1
    <3> QED
      BY <3>1, <3>2
  <2> QED
    BY <2>4, <2>5
<1>6. ToFront(list, k) = <<k>> \o R
  BY <1>4 DEF ToFront
<1> HIDE DEF k, R, n
<1> DEFINE L == <<k>> \o R
<1>7. L \in Seq(S) /\ Len(L) = n /\ L[1] = k /\ \A j \in 2 .. n : L[j] = R[j - 1]
  BY <1>1, <1>5
<1> HIDE DEF L
<1>8. \A j \in 1 .. n : L[j] = IF j = 1 THEN k ELSE IF j <= i THEN list[j - 1] ELSE list[j]
  <2> SUFFICES ASSUME NEW j \in 1 .. n, j # 1
               PROVE  L[j] = IF j <= i THEN list[j - 1] ELSE list[j]
    BY <1>7
  <2> DEFINE c == j - 1
  <2>1. c \in 1 .. n - 1 /\ c + 1 = j /\ L[j] = R[c]
    BY <1>1, <1>7
  <2>2. R[c] = IF c < i THEN list[c] ELSE list[c + 1]
    BY <1>5, <2>1
  <2> QED
    BY <1>1, <2>1, <2>2
<1> QED
  BY <1>6, <1>7, <1>8 DEF Moved, L, k, n

\* L is list with the key k added at the front.
Added(list, k, L) ==
    /\ Len(L) = Len(list) + 1
    /\ L[1] = k
    /\ \A j \in 1 .. Len(list) : L[j + 1] = list[j]

\* LRUCache.accessKey of a key that is not in the list.
LEMMA ToFrontAbsent ==
  ASSUME NEW S, NEW list \in Seq(S), NEW k \in S, \A i \in DOMAIN list : list[i] # k
  PROVE  ToFront(list, k) \in Seq(S) /\ Added(list, k, ToFront(list, k))
<1>1. ToFront(list, k) = <<k>> \o list
  <2>1. {i \in DOMAIN list : list[i] = k} = {}
    OBVIOUS
  <2>2. RemoveFirst(list, k) = list
    BY <2>1, Zenon DEF RemoveFirst
  <2> QED
    BY <2>2, Zenon DEF ToFront
<1> QED
  BY <1>1 DEF Added

\* Moving a key keeps the keys of a list, each once.
LEMMA MovedKeys ==
  ASSUME NEW S, NEW list \in Seq(S), Distinct(list), NEW i \in DOMAIN list,
         NEW L \in Seq(S), Moved(list, i, L)
  PROVE  Distinct(L) /\ ToSet(L) = ToSet(list)
<1> DEFINE n == Len(list)
           from(j) == IF j = 1 THEN i ELSE IF j <= i THEN j - 1 ELSE j
<1>1. n \in Nat /\ DOMAIN list = 1 .. n /\ DOMAIN L = 1 .. n /\ i \in 1 .. n
  BY DEF Moved
<1>2. \A j \in 1 .. n : from(j) \in 1 .. n /\ L[j] = list[from(j)]
  BY <1>1 DEF Moved
<1>3. Distinct(L)
  <2> SUFFICES ASSUME NEW a \in 1 .. n, NEW b \in 1 .. n, a < b PROVE L[a] # L[b]
    BY <1>1 DEF Distinct
  <2>1. from(a) # from(b)
    BY <1>1
  <2>2. from(a) < from(b) \/ from(b) < from(a)
    BY <1>1, <1>2, <2>1
  <2> HIDE DEF from
  <2> QED
    BY <1>1, <1>2, <2>2 DEF Distinct
<1>4. ASSUME NEW c \in 1 .. n PROVE \E j \in 1 .. n : from(j) = c
  <2>1. CASE c = i
    <3>1. 1 \in 1 .. n /\ from(1) = c
      BY <1>1, <2>1
    <3> QED
      BY <3>1
  <2>2. CASE c < i
    <3>1. c + 1 \in 1 .. n /\ from(c + 1) = c
      BY <1>1, <2>2
    <3> QED
      BY <3>1
  <2>3. CASE c > i
    <3>1. from(c) = c
      BY <1>1, <2>3
    <3> QED
      BY <3>1
  <2> QED
    BY <1>1, <2>1, <2>2, <2>3
<1> HIDE DEF from
<1>5. \A j \in 1 .. n : \E c \in 1 .. n : L[j] = list[c]
  BY <1>2
<1>6. \A c \in 1 .. n : \E j \in 1 .. n : L[j] = list[c]
  BY <1>2, <1>4
<1>7. ToSet(L) = {L[j] : j \in 1 .. n} /\ ToSet(list) = {list[c] : c \in 1 .. n}
  BY <1>1 DEF ToSet
<1> HIDE DEF n
<1>8. ToSet(L) = ToSet(list)
  BY <1>5, <1>6, <1>7, ZenonT(60)
<1> QED
  BY <1>3, <1>8

\* Adding a key adds one, and keeps the others.
LEMMA AddedKeys ==
  ASSUME NEW S, NEW list \in Seq(S), Distinct(list), NEW k \in S,
         \A i \in DOMAIN list : list[i] # k, NEW L \in Seq(S), Added(list, k, L)
  PROVE  Distinct(L) /\ ToSet(L) = ToSet(list) \cup {k}
<1> DEFINE n == Len(list)
<1>1. n \in Nat /\ DOMAIN list = 1 .. n /\ DOMAIN L = 1 .. n + 1
  BY DEF Added
<1>2. ASSUME NEW j \in 2 .. n + 1 PROVE \E c \in 1 .. n : c = j - 1 /\ L[j] = list[c]
  <2> DEFINE c == j - 1
  <2>1. c \in 1 .. n /\ c + 1 = j
    BY <1>1
  <2> HIDE DEF c
  <2>2. L[c + 1] = list[c]
    BY <2>1 DEF Added
  <2> QED
    BY <2>1, <2>2 DEF c
<1>3. Distinct(L)
  <2> SUFFICES ASSUME NEW a \in 1 .. n + 1, NEW b \in 1 .. n + 1, a < b PROVE L[a] # L[b]
    BY <1>1 DEF Distinct
  <2>1. b \in 2 .. n + 1
    BY <1>1
  <2>2. PICK d \in 1 .. n : d = b - 1 /\ L[b] = list[d]
    BY <1>2, <2>1
  <2>3. CASE a = 1
    BY <1>1, <2>2, <2>3 DEF Added
  <2>4. CASE a # 1
    <3>1. a \in 2 .. n + 1
      BY <1>1, <2>4
    <3>2. PICK c \in 1 .. n : c = a - 1 /\ L[a] = list[c]
      BY <1>2, <3>1
    <3>3. c < d
      BY <1>1, <2>2, <3>2
    <3> QED
      BY <1>1, <2>2, <3>2, <3>3 DEF Distinct
  <2> QED
    BY <2>3, <2>4
<1>4. \A j \in 1 .. n + 1 : L[j] \in ToSet(list) \cup {k}
  <2> SUFFICES ASSUME NEW j \in 1 .. n + 1, j # 1 PROVE L[j] \in ToSet(list)
    BY DEF Added
  <2>1. j \in 2 .. n + 1
    BY <1>1
  <2> QED
    BY <1>1, <1>2, <2>1 DEF ToSet
<1>5. \A c \in 1 .. n : c + 1 \in 1 .. n + 1 /\ L[c + 1] = list[c]
  BY <1>1 DEF Added
<1>6. L[1] = k /\ 1 \in 1 .. n + 1
  BY <1>1 DEF Added
<1>7. /\ ToSet(L) = {L[j] : j \in 1 .. n + 1}
      /\ ToSet(list) = {list[c] : c \in 1 .. n}
  BY <1>1, Zenon DEF ToSet
<1>8. ToSet(L) \subseteq ToSet(list) \cup {k}
  BY <1>4, <1>7
<1>9. ToSet(list) \subseteq ToSet(L)
  <2> SUFFICES ASSUME NEW c \in 1 .. n PROVE list[c] \in ToSet(L)
    BY <1>7
  <2>1. c + 1 \in 1 .. n + 1 /\ L[c + 1] = list[c]
    BY <1>5
  <2> QED
    BY <1>7, <2>1
<1>10. k \in ToSet(L)
  BY <1>6, <1>7
<1> QED
  BY <1>3, <1>8, <1>9, <1>10

\* A use keeps the history free of repetitions.
LEMMA UsesStayDistinct ==
  ASSUME NEW S, NEW u \in Seq(S), Distinct(u), NEW k \in S
  PROVE  ToFront(u, k) \in Seq(S) /\ Distinct(ToFront(u, k))
<1>1. CASE \E i \in DOMAIN u : u[i] = k
  <2>1. PICK i \in DOMAIN u : u[i] = k
    BY <1>1
  <2>2. ToFront(u, k) \in Seq(S) /\ Moved(u, i, ToFront(u, k))
    BY <2>1, ToFrontPresent
  <2> QED
    BY <2>2, MovedKeys
<1>2. CASE \A i \in DOMAIN u : u[i] # k
  <2>1. ToFront(u, k) \in Seq(S) /\ Added(u, k, ToFront(u, k))
    BY <1>2, ToFrontAbsent
  <2> QED
    BY <1>2, <2>1, AddedKeys
<1> QED
  BY <1>1, <1>2

-----------------------------------------------------------------------------
\* How many of n used keys there is room for.
Room(n) == IF n < CacheSize THEN n ELSE CacheSize

\* l is the front of u, as far as there is room.
IsTop(u, l) ==
    /\ Len(l) = Room(Len(u))
    /\ \A j \in 1 .. Room(Len(u)) : l[j] = u[j]

\* The front of a list without repetitions has none.
LEMMA TopDistinct ==
  ASSUME NEW S, NEW u \in Seq(S), NEW l \in Seq(S), Distinct(u), IsTop(u, l)
  PROVE  /\ Distinct(l) /\ Room(Len(u)) \in Nat /\ Room(Len(u)) <= Len(u)
         /\ Room(Len(u)) <= CacheSize /\ DOMAIN l = 1 .. Room(Len(u))
<1> DEFINE m == Room(Len(u))
<1>1. /\ m \in Nat /\ m <= Len(u) /\ m <= CacheSize /\ Len(u) \in Nat
      /\ DOMAIN l = 1 .. m /\ DOMAIN u = 1 .. Len(u)
  BY TssAssumption DEF Room, IsTop
<1>2. \A j \in 1 .. m : l[j] = u[j] /\ j \in DOMAIN u
  BY <1>1 DEF IsTop
<1> HIDE DEF m
<1>3. Distinct(l)
  BY <1>1, <1>2 DEF Distinct
<1> QED
  BY <1>1, <1>3 DEF m

\* A hit moves the same key to the front of both.
LEMMA TopAfterHit ==
  ASSUME NEW S, NEW u \in Seq(S), NEW l \in Seq(S), Distinct(u), IsTop(u, l), NEW i \in DOMAIN l
  PROVE  /\ ToFront(l, l[i]) \in Seq(S)
         /\ IsTop(ToFront(u, l[i]), ToFront(l, l[i]))
         /\ ToSet(ToFront(l, l[i])) = ToSet(l)
<1> DEFINE m == Room(Len(u))
           U == ToFront(u, l[i])
           L == ToFront(l, l[i])
<1>1. Distinct(l) /\ m \in Nat /\ m <= Len(u) /\ DOMAIN l = 1 .. m
  BY TopDistinct
<1>2. i \in DOMAIN u /\ u[i] = l[i]
  BY <1>1 DEF IsTop
<1>3. U \in Seq(S) /\ Moved(u, i, U)
  <2>1. ToFront(u, u[i]) \in Seq(S) /\ Moved(u, i, ToFront(u, u[i]))
    BY <1>2, ToFrontPresent
  <2> QED
    BY <1>2, <2>1
<1>4. L \in Seq(S) /\ Moved(l, i, L)
  BY <1>1, ToFrontPresent
<1> HIDE DEF U, L
<1>5. ToSet(L) = ToSet(l)
  <2>1. Distinct(l)
    BY <1>1
  <2> QED
    BY <1>4, <2>1, MovedKeys
<1>6. Len(U) = Len(u) /\ Len(L) = m /\ Len(l) = m
  BY <1>3, <1>4 DEF Moved, IsTop
<1>7. ASSUME NEW j \in 1 .. m PROVE L[j] = U[j]
  <2>1. L[j] = IF j = 1 THEN l[i] ELSE IF j <= i THEN l[j - 1] ELSE l[j]
    BY <1>4, <1>6 DEF Moved
  <2>2. j \in 1 .. Len(u)
    BY <1>1
  <2>3. U[j] = IF j = 1 THEN u[i] ELSE IF j <= i THEN u[j - 1] ELSE u[j]
    BY <1>3, <2>2 DEF Moved
  <2>4. l[j] = u[j] /\ (j # 1 => l[j - 1] = u[j - 1])
    BY <1>1 DEF IsTop
  <2> QED
    BY <1>2, <2>1, <2>3, <2>4
<1>8. IsTop(U, L)
  BY <1>6, <1>7 DEF IsTop
<1> QED
  BY <1>4, <1>5, <1>8 DEF U, L

\* U and L are u and its front l with a key of u, or a new one, put before them.
BothPushed(u, l, U, L) ==
    /\ Len(L) = Len(l) + 1
    /\ Len(U) = Len(u) + 1 \/ (Len(U) = Len(u) /\ Len(l) < Len(u))
    /\ \A j \in 1 .. Len(l) + 1 : L[j] = U[j]

\* A new key goes to the front of both, whether or not it was used before it was
\* evicted: they agree as far as the longer list.
LEMMA FrontsAgree ==
  ASSUME NEW S, NEW u \in Seq(S), NEW l \in Seq(S), Distinct(u), IsTop(u, l), NEW k \in S,
         \A i \in DOMAIN l : l[i] # k
  PROVE  BothPushed(u, l, ToFront(u, k), ToFront(l, k))
<1> DEFINE m == Room(Len(u))
           U == ToFront(u, k)
           L == ToFront(l, k)
<1>1. m \in Nat /\ m <= Len(u) /\ DOMAIN l = 1 .. m /\ Len(l) = m /\ Len(u) \in Nat
  BY TopDistinct DEF IsTop
<1>2. Added(l, k, L)
  BY ToFrontAbsent
<1>3. \A j \in 1 .. m : l[j] = u[j]
  BY DEF IsTop
<1>4. ASSUME NEW j \in 2 .. m + 1 PROVE j - 1 \in 1 .. m /\ L[j] = u[j - 1]
  <2> DEFINE c == j - 1
  <2>1. c \in 1 .. m /\ c + 1 = j
    BY <1>1
  <2> HIDE DEF c
  <2>2. L[c + 1] = l[c]
    BY <1>1, <1>2, <2>1 DEF Added
  <2> QED
    BY <1>3, <2>1, <2>2 DEF c
<1>5. CASE \E c \in DOMAIN u : u[c] = k
  <2>1. PICK c \in DOMAIN u : u[c] = k
    BY <1>5
  <2>2. c \in 1 .. Len(u) /\ c > m
    BY <1>1, <1>3, <2>1
  <2>3. Moved(u, c, U)
    BY <2>1, ToFrontPresent
  <2> HIDE DEF U, L
  <2>4. Len(U) = Len(u)
    BY <2>3 DEF Moved
  <2>5. ASSUME NEW j \in 1 .. m + 1 PROVE L[j] = U[j]
    <3>1. j \in 1 .. Len(u) /\ j <= c
      BY <1>1, <2>2
    <3>2. U[j] = IF j = 1 THEN k ELSE u[j - 1]
      BY <2>1, <2>3, <3>1 DEF Moved
    <3>3. CASE j = 1
      BY <1>2, <3>2, <3>3 DEF Added
    <3>4. CASE j # 1
      <4>1. j \in 2 .. m + 1
        BY <1>1, <3>4
      <4> QED
        BY <1>4, <3>2, <3>4, <4>1
    <3> QED
      BY <3>3, <3>4
  <2>6. m < Len(u)
    BY <1>1, <2>2
  <2> HIDE DEF m
  <2> QED
    BY <1>1, <1>2, <2>4, <2>5, <2>6 DEF U, L, BothPushed, Added
<1>6. CASE \A c \in DOMAIN u : u[c] # k
  <2>1. Added(u, k, U)
    BY <1>6, ToFrontAbsent
  <2> HIDE DEF U, L
  <2>2. Len(U) = Len(u) + 1 /\ U[1] = k /\ \A j \in 1 .. Len(u) : U[j + 1] = u[j]
    BY <2>1 DEF Added
  <2>3. ASSUME NEW j \in 1 .. m + 1 PROVE L[j] = U[j]
    <3>1. CASE j = 1
      BY <1>2, <2>2, <3>1 DEF Added
    <3>2. CASE j # 1
      <4>1. j \in 2 .. m + 1 /\ j - 1 \in 1 .. Len(u) /\ (j - 1) + 1 = j
        BY <1>1, <3>2
      <4> QED
        BY <1>4, <2>2, <4>1
    <3> QED
      BY <3>1, <3>2
  <2> HIDE DEF m
  <2> QED
    BY <1>1, <1>2, <2>2, <2>3 DEF U, L, BothPushed, Added
<1> QED
  BY <1>5, <1>6

\* The list after an insertion is the front of the uses again.
LEMMA TopAfterInsert ==
  ASSUME NEW S, NEW u \in Seq(S), NEW l \in Seq(S), Distinct(u), IsTop(u, l), NEW k \in S,
         \A i \in DOMAIN l : l[i] # k
  PROVE  /\ Len(l) + 1 <= CacheSize => IsTop(ToFront(u, k), ToFront(l, k))
         /\ ~ (Len(l) + 1 <= CacheSize) =>
               IsTop(ToFront(u, k), SubSeq(ToFront(l, k), 1, Len(ToFront(l, k)) - 1))
<1> DEFINE m == Len(l)
           n == Len(u)
           U == ToFront(u, k)
           L == ToFront(l, k)
<1>1. m \in Nat /\ n \in Nat /\ m = Room(n) /\ CacheSize \in Nat /\ L \in Seq(S)
  <2>1. L \in Seq(S)
    BY ToFrontAbsent
  <2> QED
    BY <2>1, TssAssumption DEF IsTop
<1>2. /\ Len(L) = m + 1
      /\ Len(U) = n + 1 \/ (Len(U) = n /\ m < n)
      /\ \A j \in 1 .. m + 1 : L[j] = U[j]
  <2>1. BothPushed(u, l, U, L)
    BY FrontsAgree
  <2> QED
    BY <2>1 DEF BothPushed
<1> HIDE DEF m, n, U, L
<1>3. CASE m + 1 <= CacheSize
  <2>1. m = n /\ Len(U) = n + 1 /\ Room(Len(U)) = m + 1
    BY <1>1, <1>2, <1>3 DEF Room
  <2>2. IsTop(U, L)
    BY <1>2, <2>1 DEF IsTop
  <2> QED
    BY <1>3, <2>2 DEF m, U, L
<1>4. CASE ~ (m + 1 <= CacheSize)
  <2> DEFINE M == SubSeq(L, 1, Len(L) - 1)
  <2>1. m = CacheSize /\ Room(Len(U)) = m
    BY <1>1, <1>2, <1>4 DEF Room
  <2>2. Len(L) - 1 = m
    BY <1>1, <1>2
  <2>3. Len(M) = m /\ \A j \in 1 .. m : M[j] = L[j]
    BY <1>1, <1>2, <2>2
  <2> HIDE DEF M
  <2>4. \A j \in 1 .. m : M[j] = U[j]
    <3>1. \A j \in 1 .. m : j \in 1 .. m + 1
      BY <1>1
    <3> QED
      BY <1>2, <2>3, <3>1
  <2>5. IsTop(U, M)
    BY <2>1, <2>3, <2>4 DEF IsTop
  <2> QED
    BY <1>4, <2>5 DEF m, U, L, M
<1> QED
  BY <1>3, <1>4

-----------------------------------------------------------------------------
\* The keys a request may lead to.
CacheKeys == {CacheKey(Parts(r)) : r \in {q \in Requests : q.op = "verifyTSS"}}

\* What the monitor of the cache protects: the list is the front of the uses, and
\* the map has its keys.
LruInv ==
    /\ uses \in Seq(CacheKeys) /\ lru \in Seq(CacheKeys)
    /\ Distinct(uses)
    /\ IsTop(uses, lru)
    /\ DOMAIN cache = ToSet(lru)

\* A list without repetitions is as long as it has keys.
LEMMA DistinctLength ==
  ASSUME NEW S, NEW list \in Seq(S), Distinct(list)
  PROVE  IsFiniteSet(ToSet(list)) /\ Cardinality(ToSet(list)) = Len(list)
<1> DEFINE n == Len(list)
<1>1. n \in Nat /\ DOMAIN list = 1 .. n /\ list \in [1 .. n -> S]
  OBVIOUS
<1>2. ToSet(list) = {list[i] : i \in 1 .. n}
  BY <1>1 DEF ToSet
<1>3. \A i, j \in 1 .. n : i < j => list[i] # list[j]
  BY <1>1 DEF Distinct
<1> HIDE DEF n
<1>4. IsFiniteSet({list[i] : i \in 1 .. n}) /\ Cardinality({list[i] : i \in 1 .. n}) = n
  BY <1>1, <1>3, DistinctCount
<1> QED
  BY <1>2, <1>4 DEF n

\* Without its last key, a list without repetitions has one key less.
LEMMA DropLast ==
  ASSUME NEW S, NEW list \in Seq(S), Distinct(list), Len(list) > 0
  PROVE  /\ SubSeq(list, 1, Len(list) - 1) \in Seq(S)
         /\ ToSet(SubSeq(list, 1, Len(list) - 1)) = ToSet(list) \ {list[Len(list)]}
<1> DEFINE n == Len(list)
           f == SubSeq(list, 1, n - 1)
<1>1. n \in Nat /\ n > 0 /\ DOMAIN list = 1 .. n
  OBVIOUS
<1>2. f \in Seq(S) /\ DOMAIN f = 1 .. n - 1 /\ \A i \in 1 .. n - 1 : f[i] = list[i]
  BY <1>1
<1> HIDE DEF n, f
<1>3. \A i \in 1 .. n - 1 : i \in DOMAIN list /\ n \in DOMAIN list /\ i < n
  BY <1>1
<1>4. \A i \in 1 .. n - 1 : list[i] # list[n]
  BY <1>3 DEF Distinct
<1>5. \A i \in DOMAIN list : i = n \/ i \in 1 .. n - 1
  BY <1>1
<1>6. ToSet(f) = ToSet(list) \ {list[n]}
  BY <1>2, <1>3, <1>4, <1>5 DEF ToSet
<1> QED
  BY <1>2, <1>6 DEF f, n

\* The invariant says what the cache holds.
LEMMA LruHoldsTheMostRecent == LruInv => HoldsTheMostRecent
<1> SUFFICES ASSUME LruInv PROVE HoldsTheMostRecent
  OBVIOUS
<1> DEFINE m == Room(Len(uses))
<1>1. uses \in Seq(CacheKeys) /\ lru \in Seq(CacheKeys) /\ Distinct(uses) /\ IsTop(uses, lru)
  BY DEF LruInv
<1>2. Distinct(lru) /\ m \in Nat /\ m <= Len(uses) /\ DOMAIN lru = 1 .. m /\ Len(lru) = m
  BY <1>1, TopDistinct DEF IsTop
<1>3. Cardinality(DOMAIN cache) = m
  <2>1. Cardinality(ToSet(lru)) = Len(lru)
    BY <1>1, <1>2, DistinctLength
  <2> QED
    BY <1>2, <2>1 DEF LruInv
<1>4. lru = SubSeq(uses, 1, m)
  <2>1. SubSeq(uses, 1, m) = [i \in 1 .. m |-> uses[i]]
    BY <1>1, <1>2
  <2>2. lru = [i \in 1 .. m |-> lru[i]]
    BY <1>1, <1>2
  <2>3. \A i \in 1 .. m : lru[i] = uses[i]
    BY <1>1 DEF IsTop
  <2> QED
    BY <2>1, <2>2, <2>3
<1> QED
  BY <1>3, <1>4 DEF HoldsTheMostRecent, LruInv, ToSet, Room

\* accessKey of a cached key, in either critical section.
LEMMA HitKeepsLru ==
  ASSUME LruInv, NEW k, k \in DOMAIN cache, cache' = cache, lru' = ToFront(lru, k),
         uses' = ToFront(uses, k)
  PROVE  LruInv'
<1> DEFINE S == CacheKeys
<1>1. uses \in Seq(S) /\ lru \in Seq(S) /\ Distinct(uses) /\ IsTop(uses, lru)
  BY DEF LruInv
<1>2. PICK i \in DOMAIN lru : lru[i] = k
  BY DEF LruInv, ToSet
<1>3. k \in S
  BY <1>1, <1>2
<1> HIDE DEF S
<1>4. uses' \in Seq(S) /\ Distinct(uses')
  BY <1>1, <1>3, UsesStayDistinct
<1>5. lru' \in Seq(S) /\ IsTop(uses', lru') /\ ToSet(lru') = ToSet(lru)
  <2>1. /\ ToFront(lru, lru[i]) \in Seq(S)
        /\ IsTop(ToFront(uses, lru[i]), ToFront(lru, lru[i]))
        /\ ToSet(ToFront(lru, lru[i])) = ToSet(lru)
    BY <1>1, TopAfterHit
  <2> QED
    BY <1>2, <2>1
<1>6. DOMAIN cache' = ToSet(lru')
  BY <1>5 DEF LruInv
<1> QED
  BY <1>4, <1>5, <1>6 DEF LruInv, S, CacheKeys, CacheKey, Parts, Distinct, IsTop, Room, ToSet

\* The second critical section for a key that is not cached.
LEMMA MissKeepsLru ==
  ASSUME LruInv, NEW k \in CacheKeys, NEW v, k \notin DOMAIN cache, CacheAfter(k, v),
         uses' = ToFront(uses, k)
  PROVE  LruInv'
<1> DEFINE S == CacheKeys
           L == ToFront(lru, k)
           full == With(cache, k, v)
<1>1. uses \in Seq(S) /\ lru \in Seq(S) /\ Distinct(uses) /\ IsTop(uses, lru) /\ k \in S
  BY DEF LruInv
<1>2. \A i \in DOMAIN lru : lru[i] # k
  BY DEF LruInv, ToSet
<1> HIDE DEF S
<1>3. uses' \in Seq(S) /\ Distinct(uses')
  BY <1>1, UsesStayDistinct
<1>4. Distinct(lru)
  BY <1>1, TopDistinct
<1>5. L \in Seq(S) /\ Added(lru, k, L)
  BY <1>1, <1>2, ToFrontAbsent
<1>6. Distinct(L) /\ ToSet(L) = ToSet(lru) \cup {k}
  BY <1>1, <1>2, <1>4, <1>5, AddedKeys, SMTT(30)
<1>7. DOMAIN full = ToSet(L)
  BY <1>6 DEF LruInv, With
<1>8. Cardinality(DOMAIN full) = Len(L) /\ Len(L) = Len(lru) + 1
  BY <1>5, <1>6, <1>7, DistinctLength DEF Added
<1>9. /\ Len(lru) + 1 <= CacheSize => IsTop(uses', L)
      /\ ~ (Len(lru) + 1 <= CacheSize) => IsTop(uses', SubSeq(L, 1, Len(L) - 1))
  BY <1>1, <1>2, TopAfterInsert
<1>10. Len(lru) \in Nat /\ CacheSize \in Nat
  BY <1>1, TssAssumption
<1>11. \/ /\ ~ (Cardinality(DOMAIN full) > CacheSize)
          /\ cache' = full /\ lru' = L
       \/ /\ Cardinality(DOMAIN full) > CacheSize
          /\ cache' = Without(full, L[Len(L)]) /\ lru' = SubSeq(L, 1, Len(L) - 1)
  BY Zenon DEF CacheAfter
<1> HIDE DEF L, full
<1>12. CASE Len(L) <= CacheSize
  <2>1. cache' = full /\ lru' = L /\ IsTop(uses', lru')
    BY <1>8, <1>9, <1>10, <1>11, <1>12
  <2> QED
    BY <1>3, <1>5, <1>7, <2>1 DEF LruInv, S, CacheKeys, CacheKey, Parts
<1>13. CASE ~ (Len(L) <= CacheSize)
  <2>1. cache' = Without(full, L[Len(L)]) /\ lru' = SubSeq(L, 1, Len(L) - 1)
    BY <1>8, <1>10, <1>11, <1>13
  <2>2. IsTop(uses', lru')
    BY <1>8, <1>9, <1>13, <2>1
  <2>3. Len(L) > 0
    BY <1>8, <1>10
  <2>4. lru' \in Seq(S) /\ ToSet(lru') = ToSet(L) \ {L[Len(L)]}
    BY <1>5, <1>6, <2>1, <2>3, DropLast
  <2>5. DOMAIN cache' = ToSet(lru')
    BY <1>7, <2>1, <2>4 DEF Without
  <2> QED
    BY <1>3, <2>2, <2>4, <2>5 DEF LruInv, S, CacheKeys, CacheKey, Parts
<1> QED
  BY <1>12, <1>13

\* The cache holds exactly the verdicts used last, as many as it has room for,
\* in the order of their last use, and its map and its list agree.
THEOREM CacheIsLru == Spec => []HoldsTheMostRecent
<1>1. Init => LruInv
  <2> SUFFICES ASSUME Init PROVE LruInv
    OBVIOUS
  <2>1. cache = <<>> /\ lru = <<>> /\ uses = <<>>
    BY DEF Init
  <2>2. Room(0) = 0
    BY TssAssumption DEF Room
  <2> QED
    BY <2>1, <2>2 DEF LruInv, Distinct, IsTop, ToSet
<1>2. IInv /\ LruInv /\ [Next]_vars => LruInv'
  <2> SUFFICES ASSUME IInv, LruInv, [Next]_vars PROVE LruInv'
    OBVIOUS
  <2>1. CASE UNCHANGED lruCache
    BY <2>1 DEF lruCache, LruInv, Distinct, IsTop, Room, ToSet, CacheKeys, CacheKey, Parts
  <2>2. ASSUME NEW t \in Threads, LookUp(t) \/ Insert(t) PROVE LruInv'
    <3> DEFINE k == CacheKey(KeyOf(t))
    <3>1. request[t] \in Requests /\ Tss(t) /\ ~Malformed(request[t])
      BY <2>2 DEF IInv, TypeOK, VerdictsAreSound, LookUp, Insert, CacheSteps
    <3>2. k \in CacheKeys
      BY <3>1, KeyIsParts DEF CacheKeys, Tss
    <3> HIDE DEF k
    <3>3. CASE LookUp(t)
      <4>1. \/ k \in DOMAIN cache /\ cache' = cache /\ lru' = ToFront(lru, k)
               /\ uses' = ToFront(uses, k)
            \/ UNCHANGED lruCache
        BY <3>3 DEF LookUp, k
      <4> QED
        BY <2>1, <4>1, HitKeepsLru
    <3>4. CASE Insert(t)
      <4>1. uses' = ToFront(uses, k) /\ CacheAfter(k, value[t])
        BY <3>4, InsertEffect, Zenon DEF k
      <4>2. CASE k \in DOMAIN cache
        <5>1. cache' = cache /\ lru' = ToFront(lru, k)
          BY <4>1, <4>2, Zenon DEF CacheAfter
        <5> QED
          BY <4>1, <4>2, <5>1, HitKeepsLru
      <4>3. CASE k \notin DOMAIN cache
        BY <3>2, <4>1, <4>3, MissKeepsLru
      <4> QED
        BY <4>2, <4>3
    <3> QED
      BY <2>2, <3>3, <3>4
  <2>3. ASSUME NEW t \in Threads,
               Support(t) \/ Load(t) \/ LoadFails(t) \/ NativeVerify(t) \/ NativeWithParams(t)
                 \/ VerifyMessage(t) \/ \E r \in Requests : Call(t, r)
        PROVE  UNCHANGED lruCache
    BY <2>3 DEF Support, Load, LoadFails, NativeVerify, NativeWithParams, VerifyMessage, Call
  <2>4. CASE UNCHANGED vars
    BY <2>1, <2>4 DEF vars
  <2> QED
    BY <2>1, <2>2, <2>3, <2>4 DEF Next, Step
<1>3. LruInv => HoldsTheMostRecent
  BY LruHoldsTheMostRecent
<1> QED
  BY <1>1, <1>2, <1>3, TssInvariant, PTL DEF Spec

-----------------------------------------------------------------------------
\* A resource that failed to load was packaged badly, unless something failed.
Excused(r) == faults > 0 \/ jar[r] # "good"

\* Why a request may be refused or throw.
Deserved(r, needs) ==
    \/ Excused(needs)
    \/ r.op = "verifyTSS" /\ (Malformed(r) \/ ~(ProofVerifies(r) /\ MessageVerifies(r)))
    \/ r.op # "verifyTSS" /\ ~r.good

\* What is known of a verdict that is negative, in the cache and in the threads.
CacheRefusals ==
    \A k \in DOMAIN cache :
        cache[k] \/ Excused("key")
          \/ [abProof |-> k[1], ledgerId |-> k[2], hintsVerificationKey |-> k[3]]
                \notin ProofsThatVerify

LoaderRefusals == \A r \in Resources : loader[r] \in {"no", "broken"} => Excused(r)

ThreadRefusals(t) ==
    /\ pc[t] = "native" => loader[Needs(t)] = "yes"
    /\ pc[t] = "insert" => value[t] \/ Excused("key") \/ ~ProofVerifies(request[t])
    /\ outcome[t] \in {"false", "thrown"} => Deserved(request[t], Needs(t))

RefusalInv == CacheRefusals /\ LoaderRefusals /\ \A t \in Threads : ThreadRefusals(t)

\* Faults are counted.
LEMMA FaultsAreCounted ==
  ASSUME IInv PROVE faults \in Nat
<1>1. faults \in 0 .. MaxFaults
  BY Zenon DEF IInv, TypeOK
<1>2. MaxFaults \in Nat
  BY TssAssumption, Zenon
<1> QED
  BY <1>1, <1>2

\* A step of thread t: the other threads' calls keep their reasons.
LEMMA RefusalFrame ==
  ASSUME RefusalInv, NEW t \in Threads, faults \in Nat, UNCHANGED jar,
         UNCHANGED faults \/ faults' = faults + 1,
         \A u \in Threads \ {t} : /\ pc'[u] = pc[u] /\ request'[u] = request[u]
                                  /\ value'[u] = value[u] /\ outcome'[u] = outcome[u],
         \A r \in Resources : loader[r] = "yes" => loader'[r] = "yes",
         CacheRefusals', LoaderRefusals', ThreadRefusals(t)'
  PROVE  RefusalInv'
<1> SUFFICES ASSUME NEW u \in Threads \ {t} PROVE ThreadRefusals(u)'
  BY DEF RefusalInv
<1>1. \A r : Excused(r) => Excused(r)'
  BY DEF Excused
<1>2. Needs(u)' = Needs(u) /\ Needs(u) \in Resources
  BY DEF Needs, Resources
<1>3. ThreadRefusals(u)
  BY DEF RefusalInv
<1>4. Deserved(request[u], Needs(u)) => Deserved(request[u], Needs(u))'
  BY <1>1, <1>2 DEF Deserved, Malformed, Composed, ProofVerifies, MessageVerifies
<1> QED
  BY <1>1, <1>2, <1>3, <1>4 DEF ThreadRefusals, ProofVerifies

\* A call starts afresh; one with malformed arguments throws for that reason.
LEMMA CallRefusals ==
  ASSUME IInv, RefusalInv, NEW t \in Threads, NEW r \in Requests, Call(t, r)
  PROVE  RefusalInv'
<1>1. /\ UNCHANGED <<jar, loader, cache, value, faults>>
      /\ \E label \in {"idle", "lookup", "support"} : pc' = [pc EXCEPT ![t] = label]
      /\ request' = [request EXCEPT ![t] = r]
      /\ \/ outcome' = [outcome EXCEPT ![t] = "none"]
         \/ outcome' = [outcome EXCEPT ![t] = "thrown"] /\ r.op = "verifyTSS" /\ Malformed(r)
  BY DEF Call, Goto, Finish, shared, lruCache
<1>2. /\ pc'[t] \in {"idle", "lookup", "support"} /\ request'[t] = r /\ faults \in Nat
      /\ outcome'[t] = "none" \/ (r.op = "verifyTSS" /\ Malformed(r))
      /\ \A u \in Threads \ {t} : /\ pc'[u] = pc[u] /\ request'[u] = request[u]
                                  /\ value'[u] = value[u] /\ outcome'[u] = outcome[u]
  <2>1. /\ DOMAIN pc = Threads /\ pc = [u \in Threads |-> pc[u]]
        /\ DOMAIN request = Threads /\ request = [u \in Threads |-> request[u]]
        /\ DOMAIN outcome = Threads /\ outcome = [u \in Threads |-> outcome[u]]
    BY DEF IInv, TypeOK
  <2>2. faults \in Nat
    BY FaultsAreCounted
  <2> QED
    BY <1>1, <2>1, <2>2, SMTT(30)
<1>3. CacheRefusals' /\ LoaderRefusals'
  BY <1>1 DEF RefusalInv, CacheRefusals, LoaderRefusals, Excused
<1>4. Malformed(r) <=> Malformed(r)'
  BY DEF Malformed, Composed
<1>5. ThreadRefusals(t)'
  BY <1>2, <1>4 DEF ThreadRefusals, Deserved
<1> QED
  BY <1>1, <1>2, <1>3, <1>5, RefusalFrame

\* The verdict of a thread that leaves the cache.
LEMMA CacheStepRefusals ==
  ASSUME IInv, RefusalInv, NEW t \in Threads, LookUp(t) \/ Insert(t)
  PROVE  RefusalInv'
<1> DEFINE k == CacheKey(KeyOf(t))
           r == request[t]
<1>0. r \in Requests /\ Tss(t) /\ ~Malformed(r)
  BY DEF IInv, TypeOK, VerdictsAreSound, LookUp, Insert, CacheSteps
<1>1. [abProof |-> k[1], ledgerId |-> k[2], hintsVerificationKey |-> k[3]] = Parts(r)
  BY <1>0, KeyIsParts DEF CacheKey, Parts
<1>2. ProofVerifies(r) <=> Parts(r) \in ProofsThatVerify
  BY DEF ProofVerifies, Parts
<1>3. Needs(t) = "key"
  BY <1>0 DEF Needs, Tss
<1>4. UNCHANGED <<jar, loader, cell, request, faults>> /\ faults \in Nat
  <2>1. faults \in Nat
    BY FaultsAreCounted
  <2>2. UNCHANGED <<shared, request, faults>>
    BY Zenon DEF LookUp, Insert
  <2> QED
    BY <2>1, <2>2 DEF shared
<1> HIDE DEF k
<1>5. k \in DOMAIN cache => cache[k] \/ Excused("key") \/ ~ProofVerifies(r)
  BY <1>1, <1>2 DEF RefusalInv, CacheRefusals
<1>6. Excused("key")' <=> Excused("key")
  BY <1>4 DEF Excused
<1>7. LoaderRefusals'
  BY <1>4 DEF RefusalInv, LoaderRefusals, Excused
<1>8. ASSUME pc'[t] \in {"message", "idle", "support"},
             outcome'[t] = outcome[t] \/ Excused("key") \/ ~ProofVerifies(r)
      PROVE  ThreadRefusals(t)'
  BY <1>0, <1>3, <1>4, <1>6, <1>8
  DEF RefusalInv, ThreadRefusals, Deserved, Needs, Tss, ProofVerifies, MessageVerifies,
      Malformed, Composed
<1>9. CASE LookUp(t)
  <2>1. /\ cache' = cache /\ value' = value
        /\ \/ k \in DOMAIN cache /\ Continue(t, cache[k])
           \/ pc' = [pc EXCEPT ![t] = "support"] /\ outcome' = outcome
    BY <1>9 DEF LookUp, lruCache, Goto, k
  <2>2. CacheRefusals'
    BY <1>6, <2>1 DEF RefusalInv, CacheRefusals
  <2>3. /\ \A u \in Threads \ {t} : pc'[u] = pc[u] /\ outcome'[u] = outcome[u]
        /\ pc'[t] \in {"message", "idle", "support"}
        /\ outcome'[t] = outcome[t] \/ Excused("key") \/ ~ProofVerifies(r)
    BY <1>5, <2>1 DEF Continue, Goto, Finish, IInv, TypeOK
  <2>4. ThreadRefusals(t)'
    BY <1>8, <2>3
  <2> QED
    BY <1>4, <1>7, <2>1, <2>2, <2>3, <2>4, RefusalFrame
<1>10. CASE Insert(t)
  <2>1. pc[t] = "insert" /\ value' = [value EXCEPT ![t] = FALSE]
    BY <1>10 DEF Insert, Hold
  <2>2. value[t] \/ Excused("key") \/ ~ProofVerifies(r)
    BY <2>1 DEF RefusalInv, ThreadRefusals
  <2>3. /\ DOMAIN cache' \subseteq DOMAIN cache \cup {k}
        /\ \A j \in DOMAIN cache' :
              cache'[j] = IF j \in DOMAIN cache THEN cache[j] ELSE value[t]
    BY <1>10, InsertedVerdict DEF k
  <2>4. \E v \in BOOLEAN : Continue(t, v) /\ (v \/ Excused("key") \/ ~ProofVerifies(r))
    <3>1. CASE k \in DOMAIN cache
      <4>1. Continue(t, cache[k]) /\ cache[k] \in BOOLEAN
        BY <1>10, <3>1 DEF Insert, k, IInv, TypeOK
      <4> QED
        BY <1>5, <3>1, <4>1
    <3>2. CASE k \notin DOMAIN cache
      <4>1. Continue(t, value[t]) /\ value[t] \in BOOLEAN
        BY <1>10, <3>2 DEF Insert, k, IInv, TypeOK
      <4> QED
        BY <2>2, <4>1
    <3> QED
      BY <3>1, <3>2
  <2>5. CacheRefusals'
    BY <1>1, <1>2, <1>6, <2>2, <2>3 DEF RefusalInv, CacheRefusals
  <2>6. /\ \A u \in Threads \ {t} : pc'[u] = pc[u] /\ outcome'[u] = outcome[u]
        /\ \A u \in Threads \ {t} : value'[u] = value[u]
        /\ pc'[t] \in {"message", "idle", "support"}
        /\ outcome'[t] = outcome[t] \/ Excused("key") \/ ~ProofVerifies(r)
    BY <2>1, <2>4 DEF Continue, Goto, Finish, IInv, TypeOK
  <2>7. ThreadRefusals(t)'
    BY <1>8, <2>6
  <2> QED
    BY <1>4, <1>7, <2>5, <2>6, <2>7, RefusalFrame
<1> QED
  BY <1>9, <1>10

\* A loader class finds nothing only in a jar without the resource, or after a
\* fault; once it has found the resource it keeps saying so.
LEMMA LoaderRefusalsStep ==
  ASSUME IInv, RefusalInv, NEW t \in Threads, Support(t) \/ Load(t) \/ LoadFails(t)
  PROVE  RefusalInv'
<1> DEFINE n == Needs(t)
<1>0. /\ n \in Resources /\ Needs(t)' = n /\ faults \in Nat
      /\ n = "key" <=> request[t].op = "verifyTSS"
  <2>1. request' = request
    BY DEF Support, Load, LoadFails
  <2> QED
    BY <2>1, FaultsAreCounted DEF Needs, Resources
<1>1. UNCHANGED <<jar, cache, request, value>>
  BY DEF Support, Load, LoadFails, lruCache
<1>2. UNCHANGED faults \/ faults' = faults + 1
  BY DEF Support, Load, LoadFails, Fault
<1>3. \A r : Excused(r) => Excused(r)'
  BY <1>0, <1>1, <1>2 DEF Excused
<1>4. CacheRefusals'
  BY <1>1, <1>3 DEF RefusalInv, CacheRefusals
<1>5. Deserved(request[t], n) => Deserved(request[t], n)'
  BY <1>0, <1>1, <1>3 DEF Deserved, Malformed, Composed, ProofVerifies, MessageVerifies
<1>6. ThreadRefusals(t)
  BY DEF RefusalInv
<1>7. CASE Support(t)
  <2>1. LoaderRefusals' /\ \A r \in Resources : loader[r] = "yes" => loader'[r] = "yes"
    BY <1>0, <1>3, <1>7 DEF Support, RefusalInv, LoaderRefusals, IInv, TypeOK
  <2>2. /\ \A u \in Threads \ {t} : pc'[u] = pc[u] /\ outcome'[u] = outcome[u]
        /\ \/ pc'[t] = "load" /\ outcome' = outcome
           \/ pc'[t] = "native" /\ outcome' = outcome /\ loader'[n] = "yes"
           \/ pc'[t] \in {"insert", "idle"} /\ Excused(n)
                /\ (pc'[t] = "insert" => n = "key" /\ outcome' = outcome)
    BY <1>0, <1>7, SMTT(30) DEF Support, Goto, Finish, RefusalInv, LoaderRefusals, IInv, TypeOK
  <2>3. ThreadRefusals(t)'
    BY <1>0, <1>1, <1>3, <1>5, <1>6, <2>2 DEF ThreadRefusals, Deserved
  <2> QED
    BY <1>0, <1>1, <1>2, <1>4, <2>1, <2>2, <2>3, RefusalFrame
<1>8. CASE Load(t)
  <2>1. pc[t] = "load" /\ loader[n] = "running" /\ cell[n] = "unset"
    BY <1>0, <1>8 DEF Load, IInv, LoadersAreInStep
  <2>2. \E found \in {"yes", "no"} :
           /\ loader' = [loader EXCEPT ![n] = found]
           /\ found = "no" => jar[n] # "good"
    BY <1>0, <1>8, <2>1 DEF Load, LeavesInCell, PublicParamsLoader,
       CompressedVerifyingKeyLoader, loadPublicParams, loadCompressedVerifyingKey,
       get_or_init, IInv, TypeOK, Resources
  <2>3. LoaderRefusals' /\ \A r \in Resources : loader[r] = "yes" => loader'[r] = "yes"
    BY <1>0, <1>1, <1>3, <2>1, <2>2 DEF RefusalInv, LoaderRefusals, Excused, IInv, TypeOK
  <2>4. pc' = [pc EXCEPT ![t] = "support"] /\ outcome' = outcome
    BY <1>8 DEF Load, Goto
  <2>5. pc'[t] = "support" /\ \A u \in Threads \ {t} : pc'[u] = pc[u]
    BY <2>4 DEF IInv, TypeOK
  <2>6. ThreadRefusals(t)'
    BY <1>0, <1>1, <1>5, <1>6, <2>4, <2>5 DEF ThreadRefusals
  <2> QED
    BY <1>0, <1>1, <1>2, <1>4, <2>3, <2>4, <2>5, <2>6, RefusalFrame
<1>9. CASE LoadFails(t)
  <2>1. pc[t] = "load" /\ loader[n] = "running" /\ faults' > 0
    <3>1. pc[t] = "load" /\ faults' = faults + 1
      BY <1>9 DEF LoadFails, Fault
    <3>2. loader[n] = "running"
      BY <3>1 DEF IInv, LoadersAreInStep
    <3>3. faults' > 0
      BY <1>0, <3>1, SMTT(30)
    <3> QED
      BY <3>1, <3>2, <3>3
  <2>2. \E found \in {"no", "broken"} : loader' = [loader EXCEPT ![n] = found]
    BY <1>9 DEF LoadFails
  <2>3. LoaderRefusals' /\ \A r \in Resources : loader[r] = "yes" => loader'[r] = "yes"
    BY <1>0, <2>1, <2>2 DEF LoaderRefusals, Excused, IInv, TypeOK
  <2>4. /\ \A u \in Threads \ {t} : pc'[u] = pc[u] /\ outcome'[u] = outcome[u]
        /\ pc'[t] \in {"support", "idle"}
    BY <1>9, SMTT(30) DEF LoadFails, Goto, Finish, IInv, TypeOK
  <2>5. ThreadRefusals(t)'
    BY <1>0, <2>1, <2>4 DEF ThreadRefusals, Deserved, Excused
  <2> QED
    BY <1>0, <1>1, <1>2, <1>4, <2>3, <2>4, <2>5, RefusalFrame
<1> QED
  BY <1>7, <1>8, <1>9

\* The native calls refuse only what does not verify, or after a fault: a call
\* gets there only once the resource it needs is in its cell.
LEMMA NativeRefusals ==
  ASSUME IInv, RefusalInv, NEW t \in Threads,
         NativeVerify(t) \/ NativeWithParams(t) \/ VerifyMessage(t)
  PROVE  RefusalInv'
<1> DEFINE n == Needs(t)
           r == request[t]
<1>0. /\ n \in Resources /\ faults \in Nat /\ r \in Requests
      /\ n = "key" <=> r.op = "verifyTSS"
      /\ n = "params" <=> r.op # "verifyTSS"
  <2>1. r \in Requests
    BY DEF IInv, TypeOK
  <2> QED
    BY <2>1, FaultsAreCounted DEF Needs, Resources
<1>1. UNCHANGED <<jar, loader, cell, cache, request>>
  BY DEF NativeVerify, NativeWithParams, VerifyMessage, lruCache, shared
<1>2. UNCHANGED faults \/ faults' = faults + 1
  BY DEF NativeVerify, NativeWithParams, VerifyMessage, Fault
<1>3. \A x : Excused(x) => Excused(x)'
  BY <1>0, <1>1, <1>2, SMTT(30) DEF Excused
<1>4. CacheRefusals' /\ LoaderRefusals' /\ Needs(t)' = n
  BY <1>1, <1>3 DEF RefusalInv, CacheRefusals, LoaderRefusals, Needs
<1>5. Deserved(r, n)' <=> (Excused(n)' \/ Deserved(r, n))
  BY <1>1, <1>3, <1>4 DEF Deserved, Malformed, Composed, ProofVerifies, MessageVerifies
<1>6. pc[t] = "native" => cell[n] = "some"
  BY <1>0 DEF RefusalInv, ThreadRefusals, IInv, LoadersAreInStep, SupportMatchesTheCells
<1>7. ASSUME pc[t] # "idle", r.op = "verifyTSS"
      PROVE  KeyOf(t) = Parts(r) /\ SignatureOf(t) = r.hintsSignature
  BY <1>7, KeyIsParts DEF IInv, TypeOK, VerdictsAreSound, Tss
<1>8. CASE NativeVerify(t)
  <2>1. /\ pc[t] = "native" /\ r.op = "verifyTSS"
        /\ pc' = [pc EXCEPT ![t] = "insert"] /\ outcome' = outcome
        /\ \/ value' = [value EXCEPT ![t] = Parts(r) \in ProofsThatVerify]
           \/ value' = [value EXCEPT ![t] = FALSE] /\ faults' = faults + 1
    <3>1. pc[t] = "native" /\ r.op = "verifyTSS"
      BY <1>8, Zenon DEF NativeVerify
    <3>2. cell["key"] = "some" /\ KeyOf(t) = Parts(r)
      BY <1>0, <1>6, <1>7, <3>1
    <3>3. verifyCompressedProofImpl(KeyOf(t)) = (Parts(r) \in ProofsThatVerify)
      BY <3>2 DEF verifyCompressedProofImpl
    <3> QED
      BY <1>8, <3>1, <3>3, Zenon DEF NativeVerify, Hold, Goto, Fault
  <2>2. /\ \A u \in Threads \ {t} : pc'[u] = pc[u] /\ value'[u] = value[u]
        /\ pc'[t] = "insert"
        /\ value'[t] \/ faults' > 0 \/ ~ProofVerifies(r)
    <3>1. \E v : value' = [value EXCEPT ![t] = v]
      BY <2>1
    <3>2. /\ \A u \in Threads \ {t} : pc'[u] = pc[u] /\ value'[u] = value[u]
          /\ pc'[t] = "insert"
      BY <2>1, <3>1 DEF IInv, TypeOK
    <3>3. CASE value' = [value EXCEPT ![t] = FALSE] /\ faults' = faults + 1
      <4>1. faults' > 0
        BY <1>0, <3>3, SMTT(30)
      <4> QED
        BY <3>2, <4>1
    <3>4. CASE value' = [value EXCEPT ![t] = Parts(r) \in ProofsThatVerify]
      <4>1. ProofVerifies(r) => Parts(r) \in ProofsThatVerify
        BY DEF ProofVerifies, Parts
      <4>2. value \in [Threads -> BOOLEAN]
        BY DEF IInv, TypeOK
      <4>3. value'[t] = (Parts(r) \in ProofsThatVerify)
        BY <3>4, <4>2, Zenon
      <4>4. ProofVerifies(r) => value'[t]
        BY <4>1, <4>3, Zenon
      <4> QED
        BY <3>2, <4>4, Zenon
    <3> QED
      BY <2>1, <3>3, <3>4, Zenon
  <2>3. ThreadRefusals(t)'
    BY <1>1, <1>4, <1>5, <2>1, <2>2 DEF RefusalInv, ThreadRefusals, Excused, ProofVerifies
  <2> QED
    BY <1>0, <1>1, <1>2, <1>4, <2>1, <2>2, <2>3, RefusalFrame
<1>9. CASE NativeWithParams(t)
  <2>1. /\ r.op # "verifyTSS" /\ value' = value
        /\ \E how \in {"true", "false"} :
              /\ pc' = [pc EXCEPT ![t] = "idle"] /\ outcome' = [outcome EXCEPT ![t] = how]
              /\ how = "false" => faults' = faults + 1 \/ ~r.good
    BY <1>0, <1>6, <1>9 DEF NativeWithParams, Finish, Goto, Answer, Fault,
       constructWrapsProofImpl, verifyUncompressedProofImpl
  <2>2. /\ \A u \in Threads \ {t} : pc'[u] = pc[u] /\ outcome'[u] = outcome[u]
        /\ pc'[t] = "idle"
        /\ outcome'[t] \in {"true", "false"}
        /\ outcome'[t] = "false" => faults' > 0 \/ ~r.good
    BY <1>0, <2>1, SMTT(30) DEF IInv, TypeOK
  <2>3. ThreadRefusals(t)'
    BY <1>1, <1>4, <2>1, <2>2 DEF ThreadRefusals, Deserved, Excused
  <2> QED
    BY <1>0, <1>1, <1>2, <1>4, <2>1, <2>2, <2>3, RefusalFrame
<1>10. CASE VerifyMessage(t)
  <2>0. r.op = "verifyTSS" /\ pc[t] # "idle"
    BY <1>10 DEF VerifyMessage, IInv, VerdictsAreSound, CacheSteps, Tss
  <2>1. KeyOf(t).hintsVerificationKey = r.hintsVerificationKey
          /\ SignatureOf(t) = r.hintsSignature
    <3>1. KeyOf(t) = Parts(r) /\ SignatureOf(t) = r.hintsSignature
      BY <1>7, <2>0, Zenon
    <3>2. Parts(r).hintsVerificationKey = r.hintsVerificationKey
      BY DEF Parts
    <3> QED
      BY <3>1, <3>2, Zenon
  <2>2. /\ value' = value
        /\ \E how \in {"true", "false"} :
              /\ pc' = [pc EXCEPT ![t] = "idle"] /\ outcome' = [outcome EXCEPT ![t] = how]
              /\ how = "false" => faults' = faults + 1 \/ ~MessageVerifies(r)
    BY <1>10, <2>1 DEF VerifyMessage, Finish, Goto, Answer, Fault, MessageVerifies
  <2>3. /\ \A u \in Threads \ {t} : pc'[u] = pc[u] /\ outcome'[u] = outcome[u]
        /\ pc'[t] = "idle"
        /\ outcome'[t] \in {"true", "false"}
        /\ outcome'[t] = "false" => faults' > 0 \/ ~MessageVerifies(r)
    BY <1>0, <2>2 DEF IInv, TypeOK
  <2>4. outcome'[t] = "false" => Deserved(r, n)'
    BY <1>5, <2>0, <2>3 DEF Deserved, Excused
  <2>5. ThreadRefusals(t)'
    BY <1>1, <1>4, <2>3, <2>4 DEF ThreadRefusals
  <2> QED
    BY <1>0, <1>1, <1>2, <1>4, <2>2, <2>3, <2>5, RefusalFrame
<1> QED
  BY <1>8, <1>9, <1>10

\* RefusalsAreExplained: a call of TSS.verifyTSS or of the WRAPS bridge that is
\* refused or throws had a malformed argument, a proof or a message that does not
\* verify, a jar without the resource it needs, or a fault on the way.  A negative
\* verdict another thread left in the cache is no exception.
THEOREM RefusalsHaveReasons == Spec => []RefusalsAreExplained
<1>1. ASSUME Init PROVE RefusalInv
  <2>1. CacheRefusals
    <3>1. DOMAIN cache = {}
      BY <1>1 DEF Init
    <3> QED
      BY <3>1, Zenon DEF CacheRefusals
  <2>2. LoaderRefusals
    <3>1. \A r \in Resources : loader[r] = "new"
      BY <1>1 DEF Init
    <3> QED
      BY <3>1 DEF LoaderRefusals
  <2>3. \A t \in Threads : pc[t] = "idle" /\ outcome[t] = "none"
    BY <1>1 DEF Init
  <2>4. \A t \in Threads : ThreadRefusals(t)
    BY <2>3 DEF ThreadRefusals
  <2> QED
    BY <2>1, <2>2, <2>4, Zenon DEF RefusalInv
<1>2. IInv /\ RefusalInv /\ [Next]_vars => RefusalInv'
  <2> SUFFICES ASSUME IInv, RefusalInv, [Next]_vars PROVE RefusalInv'
    OBVIOUS
  <2>1. CASE UNCHANGED vars
    BY <2>1 DEF vars, shared, lruCache, RefusalInv, CacheRefusals, LoaderRefusals,
       ThreadRefusals, Excused, Deserved, Needs, Malformed, Composed, ProofVerifies,
       MessageVerifies
  <2>2. CASE Next
    BY <2>2, CallRefusals, CacheStepRefusals, LoaderRefusalsStep, NativeRefusals
    DEF Next, Step
  <2> QED
    BY <2>1, <2>2
<1>3. RefusalInv => RefusalsAreExplained
  BY DEF RefusalInv, ThreadRefusals, Deserved, Excused, RefusalsAreExplained, Needs
<1> QED
  BY <1>1, <1>2, <1>3, TssInvariant, PTL DEF Spec

=============================================================================
