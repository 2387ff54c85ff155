-------------------------- MODULE TssVerification --------------------------
(***************************************************************************)
(* TSS.verifyTSS with its cache of verified WRAPS proofs (TSS.java,        *)
(* LRUCache.java), and the two resources the native side needs: the public *)
(* parameters, for proving and for uncompressed proofs, and the compressed *)
(* verifying key (WRAPSLibraryBridge.java, jni_wraps.rs).                  *)
(*                                                                         *)
(* A resource is loaded by the static initializer of a Java class, which   *)
(* the JVM runs once, while other threads wait; the native side keeps it   *)
(* in a OnceLock.  A load, and a native call, may fail.                    *)
(*                                                                         *)
(* Byte arrays are short sequences.  What the verifiers of the native side *)
(* decide is a constant here; RotationChain and Hints model them.          *)
(***************************************************************************)
EXTENDS Lists

CONSTANTS
    Threads,
    Requests,      \* verifyTSS, constructWrapsProof and verifyUncompressedProof calls
    ProofsThatVerify,      \* [abProof, ledgerId, hintsVerificationKey]
    SignaturesThatVerify,  \* [hintsSignature, message, hintsVerificationKey]
    HINTS_VERIFICATION_KEY_LENGTH, HINTS_SIGNATURE_LENGTH,
    COMPRESSED_WRAPS_PROOF_LENGTH, LEDGER_ID_LENGTH,
    Packagings,    \* [Resources -> Contents]: what may have been packaged
    CacheSize,     \* 8 in TSS
    MaxFaults      \* bound: faults

Resources == {"params", "key"}
Contents == {"good", "corrupt", "missing"}

ASSUME TssAssumption ==
    /\ {HINTS_VERIFICATION_KEY_LENGTH, HINTS_SIGNATURE_LENGTH,
        COMPRESSED_WRAPS_PROOF_LENGTH, LEDGER_ID_LENGTH} \subseteq Nat
    /\ Packagings \subseteq [Resources -> Contents]
    /\ CacheSize \in Nat \ {0}
    /\ MaxFaults \in Nat

Bytes == Seq(Nat)

ASSUME RequestAssumption ==
    /\ Requests # {}
    /\ \A r \in Requests :
        /\ r.op \in {"verifyTSS", "constructWrapsProof", "verifyUncompressedProof"}
        /\ r.op = "verifyTSS" =>
              /\ r.ledgerId \in Bytes /\ r.message \in Bytes
              /\ r.hintsVerificationKey \in Bytes /\ r.hintsSignature \in Bytes
              /\ r.abProof \in Bytes

VARIABLES
    jar,      \* [Resources -> Contents]: what was packaged
    loader,   \* [Resources -> {"new", "running", "yes", "no", "broken"}]: the loader class
    cell,     \* [Resources -> {"unset", "some", "none"}]: the OnceLock
    cache,    \* the map of the LRU cache
    lru,      \* its list of keys, most recent first
    uses,     \* history: every key ever used, most recent first
    pc, request, value,  \* per thread: where it is, its call, its verdict, else FALSE
    outcome,  \* [Threads -> {"none", "true", "false", "thrown"}]
    faults

shared == <<jar, loader, cell>>
lruCache == <<cache, lru, uses>>
vars == <<shared, lruCache, pc, request, value, outcome, faults>>

-----------------------------------------------------------------------------
\* composeSignature: the arrays one after another, or an exception.
composeSignature(hintsVerificationKey, hintsSignature, abProof) ==
    IF /\ Len(hintsVerificationKey) = HINTS_VERIFICATION_KEY_LENGTH
       /\ Len(hintsSignature) = HINTS_SIGNATURE_LENGTH
       /\ Len(abProof) = COMPRESSED_WRAPS_PROOF_LENGTH
    THEN {hintsVerificationKey \o hintsSignature \o abProof}
    ELSE {}

\* verifyTSS: the constraints on the arguments.
WellFormed(ledgerId, tssSignature, message) ==
    /\ Len(ledgerId) = LEDGER_ID_LENGTH
    /\ Len(tssSignature) = HINTS_VERIFICATION_KEY_LENGTH + HINTS_SIGNATURE_LENGTH
                             + COMPRESSED_WRAPS_PROOF_LENGTH
    /\ Len(message) > 0

\* The arguments of verifyCompressedProof, cut out of the signature.
Key(ledgerId, tssSignature) ==
    [abProof |-> SubSeq(tssSignature,
                        HINTS_VERIFICATION_KEY_LENGTH + HINTS_SIGNATURE_LENGTH + 1,
                        Len(tssSignature)),
     ledgerId |-> ledgerId,
     hintsVerificationKey |-> SubSeq(tssSignature, 1, HINTS_VERIFICATION_KEY_LENGTH)]

\* A mutant: keys are equal whatever their hinTS key.
EqualWithAnyHintsKey(k) == <<k.abProof, k.ledgerId>>

\* What Key.equals and Key.hashCode compare.
CacheKey(k) == <<k.abProof, k.ledgerId, k.hintsVerificationKey>>

\* A mutant: the signature is cut one position too early.
HintsSignatureEarly(tssSignature) ==
    SubSeq(tssSignature, HINTS_VERIFICATION_KEY_LENGTH,
           HINTS_VERIFICATION_KEY_LENGTH + HINTS_SIGNATURE_LENGTH - 1)

HintsSignature(tssSignature) ==
    SubSeq(tssSignature, HINTS_VERIFICATION_KEY_LENGTH + 1,
           HINTS_VERIFICATION_KEY_LENGTH + HINTS_SIGNATURE_LENGTH)

\* The signature a caller of verifyTSS has composed from its parts.
Composed(r) == composeSignature(r.hintsVerificationKey, r.hintsSignature, r.abProof)
Malformed(r) == \A sig \in Composed(r) : ~WellFormed(r.ledgerId, sig, r.message)
KeyOf(t) == LET r == request[t] IN CHOOSE k \in {Key(r.ledgerId, sig) : sig \in Composed(r)} : TRUE
SignatureOf(t) ==
    CHOOSE s \in {HintsSignature(sig) : sig \in Composed(request[t])} : TRUE

\* The resource an operation needs: isProofSupported or isVerificationSupported.
Needs(t) == IF request[t].op = "verifyTSS" THEN "key" ELSE "params"

-----------------------------------------------------------------------------
Init ==
    /\ jar \in Packagings
    /\ loader = [r \in Resources |-> "new"]
    /\ cell = [r \in Resources |-> "unset"]
    /\ cache = <<>> /\ lru = <<>> /\ uses = <<>>
    /\ pc = [t \in Threads |-> "idle"]
    /\ request = [t \in Threads |-> CHOOSE r \in Requests : TRUE]
    /\ value = [t \in Threads |-> FALSE]
    /\ outcome = [t \in Threads |-> "none"]
    /\ faults = 0

Goto(t, label) == pc' = [pc EXCEPT ![t] = label]
Hold(t, v) == value' = [value EXCEPT ![t] = v]

Finish(t, how) ==
    /\ Goto(t, "idle")
    /\ outcome' = [outcome EXCEPT ![t] = how]

Answer(v) == IF v THEN "true" ELSE "false"

Fault ==
    /\ faults < MaxFaults
    /\ faults' = faults + 1

\* A list with an element moved to its front (LinkedList.remove, addFirst).
ToFront(list, k) == <<k>> \o RemoveFirst(list, k)

\* The call; verifyTSS throws if an argument is malformed.
Call(t, r) ==
    /\ pc[t] = "idle"
    /\ request' = [request EXCEPT ![t] = r]
    /\ IF r.op = "verifyTSS" /\ Malformed(r)
       THEN Finish(t, "thrown")
       ELSE /\ Goto(t, IF r.op = "verifyTSS" THEN "lookup" ELSE "support")
            /\ outcome' = [outcome EXCEPT ![t] = "none"]
    /\ UNCHANGED <<shared, lruCache, value, faults>>

\* The verdict on the proof is known: refuse, or go on to the message.
Continue(t, v) ==
    IF v THEN Goto(t, "message") /\ UNCHANGED outcome ELSE Finish(t, "false")

\* LRUCache.get, first critical section.
LookUp(t) ==
    /\ pc[t] = "lookup"
    /\ \E k \in {CacheKey(KeyOf(t))} :
           IF k \in DOMAIN cache
           THEN /\ lru' = ToFront(lru, k)
                /\ uses' = ToFront(uses, k)
                /\ Continue(t, cache[k])
                /\ UNCHANGED cache
           ELSE Goto(t, "support") /\ UNCHANGED <<lruCache, outcome>>
    /\ UNCHANGED <<shared, request, value, faults>>

\* isProofSupported, isVerificationSupported: initialize the loader class, wait
\* for another thread that does, or read what it found.  A class whose
\* initializer ended with an Error throws.
Support(t) ==
    /\ pc[t] = "support"
    /\ \/ /\ loader[Needs(t)] = "new"
          /\ loader' = [loader EXCEPT ![Needs(t)] = "running"]
          /\ Goto(t, "load")
          /\ UNCHANGED <<value, outcome>>
       \/ /\ loader[Needs(t)] = "yes"
          /\ Goto(t, "native")
          /\ UNCHANGED <<loader, value, outcome>>
       \/ /\ loader[Needs(t)] = "no"
          /\ IF request[t].op = "verifyTSS"
             THEN Goto(t, "insert") /\ UNCHANGED outcome
             ELSE Finish(t, "false")
          /\ UNCHANGED <<loader, value>>
       \/ /\ loader[Needs(t)] = "broken"
          /\ Finish(t, "thrown")
          /\ UNCHANGED <<loader, value>>
    /\ UNCHANGED <<jar, cell, lruCache, request, faults>>

\* OnceLock::get_or_init: the first caller decides what the cell holds.
get_or_init(r) ==
    IF cell[r] # "unset" THEN cell[r] ELSE IF jar[r] = "good" THEN "some" ELSE "none"

\* The native loads: what their cell holds afterwards; they return true if it
\* holds something.
loadPublicParams == get_or_init("params")
loadCompressedVerifyingKey == get_or_init("key")

\* The initializers call them unless the resource is missing or empty.
PublicParamsLoader == IF jar["params"] = "missing" THEN cell["params"] ELSE loadPublicParams
CompressedVerifyingKeyLoader ==
    IF jar["key"] = "missing" THEN cell["key"] ELSE loadCompressedVerifyingKey

LeavesInCell(r) == IF r = "params" THEN PublicParamsLoader ELSE CompressedVerifyingKeyLoader

\* A mutant: the native side is not asked whether it could parse the bytes.
LoadedIfPresent(t) ==
    /\ pc[t] = "load"
    /\ LET r == Needs(t)
       IN  /\ cell' = [cell EXCEPT ![r] = LeavesInCell(r)]
           /\ loader' = [loader EXCEPT ![r] = IF jar[r] = "missing" THEN "no" ELSE "yes"]
    /\ Goto(t, "support")
    /\ UNCHANGED <<jar, lruCache, request, value, outcome, faults>>

\* A mutant: the initializer that finds nothing does not end.
LoadWaits(t) ==
    /\ pc[t] = "load"
    /\ LET r == Needs(t)
       IN  /\ jar[r] # "missing"
           /\ cell' = [cell EXCEPT ![r] = LeavesInCell(r)]
           /\ loader' = [loader EXCEPT ![r] = IF cell'[r] = "some" THEN "yes" ELSE "no"]
    /\ Goto(t, "support")
    /\ UNCHANGED <<jar, lruCache, request, value, outcome, faults>>

\* The static initializer of a loader class.
Load(t) ==
    /\ pc[t] = "load"
    /\ LET r == Needs(t)
       IN  /\ cell' = [cell EXCEPT ![r] = LeavesInCell(r)]
           /\ loader' = [loader EXCEPT ![r] = IF cell'[r] = "some" THEN "yes" ELSE "no"]
    /\ Goto(t, "support")
    /\ UNCHANGED <<jar, lruCache, request, value, outcome, faults>>

\* An exception, or a panic in the native load, which leaves the cell unset: the
\* loader remembers that there is nothing.  An Error breaks the class.
LoadFails(t) ==
    /\ pc[t] = "load"
    /\ Fault
    /\ \/ /\ loader' = [loader EXCEPT ![Needs(t)] = "no"]
          /\ Goto(t, "support")
          /\ UNCHANGED outcome
       \/ /\ loader' = [loader EXCEPT ![Needs(t)] = "broken"]
          /\ Finish(t, "thrown")
    /\ UNCHANGED <<jar, cell, lruCache, request, value>>

\* verifyCompressedProof's arguments have their lengths by now; the native side
\* looks at its cell and verifies.
verifyCompressedProofImpl(k) == cell["key"] = "some" /\ k \in ProofsThatVerify

NativeVerify(t) ==
    /\ pc[t] = "native" /\ request[t].op = "verifyTSS"
    /\ \/ Hold(t, verifyCompressedProofImpl(KeyOf(t))) /\ UNCHANGED faults
       \/ Hold(t, FALSE) /\ Fault
    /\ Goto(t, "insert")
    /\ UNCHANGED <<shared, lruCache, request, outcome>>

\* constructWrapsProofImpl and verifyUncompressedProofImpl: null or false unless
\* the parameters are there and the call is a good one.
constructWrapsProofImpl(r) == cell["params"] = "some" /\ r.good
verifyUncompressedProofImpl(r) == cell["params"] = "some" /\ r.good

NativeWithParams(t) ==
    /\ pc[t] = "native" /\ request[t].op # "verifyTSS"
    /\ \/ /\ Finish(t, Answer(IF request[t].op = "constructWrapsProof"
                              THEN constructWrapsProofImpl(request[t])
                              ELSE verifyUncompressedProofImpl(request[t])))
          /\ UNCHANGED faults
       \/ Finish(t, "false") /\ Fault
    /\ UNCHANGED <<shared, lruCache, request, value>>

Without(f, k) == [j \in DOMAIN f \ {k} |-> f[j]]
With(f, k, v) == [j \in DOMAIN f \cup {k} |-> IF j = k THEN v ELSE f[j]]

\* A mutant: a key that is there by now is not moved to the front.
InsertOrFind(t) ==
    /\ pc[t] = "insert"
    /\ \E k \in {CacheKey(KeyOf(t))} :
       LET full == With(cache, k, value[t])
           recent == ToFront(lru, k)
           last == recent[Len(recent)]
       IN  /\ uses' = ToFront(uses, k)
           /\ IF k \in DOMAIN cache
              THEN Continue(t, cache[k]) /\ UNCHANGED <<cache, lru>>
              ELSE /\ IF Cardinality(DOMAIN full) > CacheSize
                      THEN /\ cache' = Without(full, last)
                           /\ lru' = SubSeq(recent, 1, Len(recent) - 1)
                      ELSE cache' = full /\ lru' = recent
                   /\ Continue(t, value[t])
    /\ Hold(t, FALSE)
    /\ UNCHANGED <<shared, request, faults>>

\* LRUCache.get, second critical section.
Insert(t) ==
    /\ pc[t] = "insert"
    /\ \E k \in {CacheKey(KeyOf(t))} :
       LET full == With(cache, k, value[t])
           recent == ToFront(lru, k)
           last == recent[Len(recent)]
       IN  /\ uses' = ToFront(uses, k)
           /\ IF k \in DOMAIN cache
              THEN lru' = recent /\ Continue(t, cache[k]) /\ UNCHANGED cache
              ELSE /\ IF Cardinality(DOMAIN full) > CacheSize
                      THEN /\ cache' = Without(full, last)
                           /\ lru' = SubSeq(recent, 1, Len(recent) - 1)
                      ELSE cache' = full /\ lru' = recent
                   /\ Continue(t, value[t])
    /\ Hold(t, FALSE)
    /\ UNCHANGED <<shared, request, faults>>

\* verifyTSS: the message, with the signature and the key of the same array.
VerifyMessage(t) ==
    /\ pc[t] = "message"
    /\ \/ /\ Finish(t, Answer([hintsSignature |-> SignatureOf(t),
                               message |-> request[t].message,
                               hintsVerificationKey |-> KeyOf(t).hintsVerificationKey]
                                  \in SignaturesThatVerify))
          /\ UNCHANGED faults
       \/ Finish(t, "false") /\ Fault
    /\ UNCHANGED <<shared, lruCache, request, value>>

Step(t) ==
    \/ LookUp(t) \/ Support(t) \/ Load(t) \/ LoadFails(t)
    \/ NativeVerify(t) \/ NativeWithParams(t) \/ Insert(t) \/ VerifyMessage(t)

Next == \E t \in Threads : Step(t) \/ \E r \in Requests : Call(t, r)

Spec == Init /\ [][Next]_vars

\* A thread that can go on does.
FairSpec == Spec /\ \A t \in Threads : WF_vars(Step(t))

-----------------------------------------------------------------------------
\* The types of the state, on which the proofs rest.
TypeOK ==
    /\ jar \in [Resources -> Contents]
    /\ loader \in [Resources -> {"new", "running", "yes", "no", "broken"}]
    /\ cell \in [Resources -> {"unset", "some", "none"}]
    /\ \A k \in DOMAIN cache : cache[k] \in BOOLEAN
    /\ pc \in [Threads -> {"idle", "lookup", "support", "load", "native", "insert", "message"}]
    /\ request \in [Threads -> Requests]
    /\ value \in [Threads -> BOOLEAN]
    /\ outcome \in [Threads -> {"none", "true", "false", "thrown"}]
    /\ faults \in 0 .. MaxFaults

\* What a verifyTSS call is about, in terms of the parts its signature was
\* composed of.
ProofVerifies(r) ==
    [abProof |-> r.abProof, ledgerId |-> r.ledgerId,
     hintsVerificationKey |-> r.hintsVerificationKey] \in ProofsThatVerify
MessageVerifies(r) ==
    [hintsSignature |-> r.hintsSignature, message |-> r.message,
     hintsVerificationKey |-> r.hintsVerificationKey] \in SignaturesThatVerify

\* verifyTSS returns true only for a proof and a signature that both verify for
\* one and the same hinTS key and this ledger, whatever was cached, computed by
\* another thread meanwhile, or evicted.
AcceptedVerifies ==
    \A t \in Threads :
        outcome[t] = "true" /\ request[t].op = "verifyTSS" =>
            ProofVerifies(request[t]) /\ MessageVerifies(request[t])

\* A call that is refused or throws deserved it: its arguments do not verify,
\* the library was packaged without a resource, or something failed.
RefusalsAreExplained ==
    \A t \in Threads :
        outcome[t] \in {"false", "thrown"} =>
            \/ faults > 0
            \/ jar[Needs(t)] # "good"
            \/ /\ request[t].op = "verifyTSS"
               /\ \/ Malformed(request[t])
                  \/ ~(ProofVerifies(request[t]) /\ MessageVerifies(request[t]))
            \/ request[t].op # "verifyTSS" /\ ~request[t].good

\* isProofSupported and isVerificationSupported tell the truth about the native
\* side, which keeps its own record: a supported call is never refused there
\* for want of a resource, and a resource it holds is not denied.
SupportMatchesTheCells ==
    \A r \in Resources : loader[r] = "yes" <=> cell[r] = "some"

\* The map and the list of the cache hold the same keys, which are the most
\* recently used ones, as many as the cache has room for.
HoldsTheMostRecent ==
    /\ lru = SubSeq(uses, 1, Cardinality(DOMAIN cache))
    /\ DOMAIN cache = {lru[i] : i \in DOMAIN lru}
    /\ Cardinality(DOMAIN cache) = IF Len(uses) < CacheSize THEN Len(uses) ELSE CacheSize

\* Every call ends, even if another thread runs the initializer of the loader
\* class and finds nothing, or fails.
EveryCallReturns == \A t \in Threads : pc[t] # "idle" ~> pc[t] = "idle"
=============================================================================
