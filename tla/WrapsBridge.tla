---------------------------- MODULE WrapsBridge ----------------------------
(***************************************************************************)
(* A call of WRAPSLibraryBridge on its way through three layers that each  *)
(* check it: the Java bridge (WRAPSLibraryBridge.java), the JNI functions  *)
(* that decode its arguments (jni_wraps.rs, jni_util.rs), and the library  *)
(* (wraps.rs).  A layer refuses a call with null or false, or an exception *)
(* is thrown on the way.                                                   *)
(*                                                                         *)
(* An array is its length, with a word on its elements.  A caller starts   *)
(* from the call the protocol asks for, and gets some arguments wrong.     *)
(* What the library computes is in SigningProtocol and RotationChain;      *)
(* whether its resources were loaded is in TssVerification.                *)
(***************************************************************************)
EXTENDS Integers

CONSTANTS
    BRIDGE_MAX_AB_SIZE,  \* WRAPSLibraryBridge.MAX_AB_SIZE: HintsLibraryBridge's, 63
    MAX_AB_SIZE,      \* of the library: 64
    TSS_VERIFICATION_KEY_LENGTH_BYTES,
    BookSizes,        \* the sizes of the books callers use
    Lengths,          \* the lengths of arrays callers use by mistake
    MaxMistakes       \* bound: mistakes in a call

Null == -1

ASSUME WrapsBridgeAssumption ==
    /\ {BRIDGE_MAX_AB_SIZE, MAX_AB_SIZE, TSS_VERIFICATION_KEY_LENGTH_BYTES,
        MaxMistakes} \subseteq Nat \ {0}
    /\ BRIDGE_MAX_AB_SIZE <= MAX_AB_SIZE
    /\ BookSizes \subseteq Nat \ {0} /\ Lengths \subseteq Nat \cup {Null}

Phases == {"R1", "R2", "R3", "Aggregate"}
BookCalls == {"R2", "R3", "Aggregate", "verifySignature", "hashAddressBook",
              "computeNetworkID", "constructWrapsProof"}
Operations == Phases \cup BookCalls \cup
    {"generateSchnorrKeys", "hashArray", "verifyCompressedProof", "verifyUncompressedProof"}

VARIABLES
    call,      \* the operation and its arguments
    mistakes,  \* arguments that are not what the protocol asks for
    stage,     \* "caller", "jni", "library", "returned"
    layer,     \* the layer that ended the call
    answer     \* "none", "ok", "refused", "thrown"

wrapsVars == <<call, mistakes, stage, layer, answer>>

-----------------------------------------------------------------------------
(* Arguments.                                                              *)

\* A book: keys, weights and node ids, what the keys are (malformed: one is
\* null or not 128 bytes long), what the weights are (overLong: their sum does
\* not fit a signed long; overU64: not even an unsigned one).
Book(n) == [keys |-> n, weights |-> n, nodeIds |-> n, keyKind |-> "ok", weightKind |-> "ok"]

\* The values a caller may get wrong, by argument.
Wrong ==
    [keys |-> Lengths, weights |-> Lengths, nodeIds |-> Lengths,
     keyKind |-> {"malformed", "undecodable", "duplicate"},
     weightKind |-> {"negative", "overLong", "overU64"}]

WrongArgument ==
    [entropy |-> {"null", "malformed", "ok"}, signingKey |-> {"null", "undecodable", "long", "ok"},
     message |-> {"null", "empty", "undecodable"}, signers |-> Lengths, selected |-> Lengths \ {Null},
     sentinel |-> {TRUE}, r1 |-> Lengths, r2 |-> Lengths, r3 |-> Lengths,
     roundKind |-> {"malformed", "undecodable", "otherRound"},
     signature |-> {"null", "empty", "undecodable"}, genesis |-> {"null", "empty", "undecodable"},
     tssKey |-> Lengths, proof |-> {"null", "malformed"}, ledgerId |-> {"null", "malformed"}]

\* The arguments of an operation.
Arguments(op) ==
    IF op \in Phases
    THEN {"entropy", "signingKey", "message", "signers", "selected", "sentinel",
          "r1", "r2", "r3", "roundKind"}
    ELSE [generateSchnorrKeys |-> {"entropy"}, hashArray |-> {"message"}, hashAddressBook |-> {},
          verifySignature |-> {"message", "signature"}, computeNetworkID |-> {"tssKey"},
          constructWrapsProof |-> {"genesis", "tssKey", "signature"},
          verifyCompressedProof |-> {"proof", "ledgerId", "tssKey"},
          verifyUncompressedProof |-> {"proof", "ledgerId", "tssKey"}][op]

\* The call of a committee of n seats, k of which sign.
Proper(op, n, k) ==
    [op |-> op,
     book |-> IF op = "R1" THEN Book(Null) ELSE Book(n), next |-> Book(n),
     entropy |-> IF op = "Aggregate" THEN "null" ELSE "ok",
     signingKey |-> IF op = "Aggregate" THEN "null" ELSE "ok",
     message |-> "ok", signers |-> IF op = "R1" THEN Null ELSE n,
     selected |-> IF op = "R1" THEN 0 ELSE k, sentinel |-> FALSE,
     r1 |-> IF op = "R1" THEN Null ELSE k,
     r2 |-> IF op \in {"R1", "R2"} THEN Null ELSE k,
     r3 |-> IF op = "Aggregate" THEN k ELSE Null,
     roundKind |-> "ok", signature |-> "ok", genesis |-> "ok",
     tssKey |-> TSS_VERIFICATION_KEY_LENGTH_BYTES, proof |-> "ok", ledgerId |-> "ok"]

Norm(length) == IF length = Null THEN 0 ELSE length

PossibleBook(b) ==
    /\ b.keyKind # "ok" => b.keys > 0
    /\ b.keyKind = "duplicate" => b.keys > 1
    /\ b.weightKind = "negative" => b.weights > 0
    /\ b.weightKind = "overLong" => b.weights > 1
    /\ b.weightKind = "overU64" => b.weights > 2

\* Kinds are of elements that exist.
Possible(c) ==
    /\ PossibleBook(c.book) /\ PossibleBook(c.next)
    /\ c.selected <= Norm(c.signers)
    /\ c.sentinel => c.selected > 0
    /\ c.roundKind # "ok" => c.r1 > 0 \/ c.r2 > 0 \/ c.r3 > 0

-----------------------------------------------------------------------------
(* The Java bridge.                                                        *)

validateSchnorrPublicKeys(b) == b.keyKind # "malformed"

validateWeightsSum(b) == b.weightKind \notin {"negative", "overLong", "overU64"}

\* validateRoundMessages of every list the phase has messages of.
validateRoundMessages(c) == c.roundKind # "malformed"

\* What verifySignature, hashAddressBook, computeNetworkID and
\* constructWrapsProof ask of the lengths of a book.
SameLengths(b) ==
    /\ b.keys # Null /\ b.keys <= BRIDGE_MAX_AB_SIZE
    /\ b.weights = b.keys /\ b.nodeIds = b.keys

\* runSigningProtocolPhase asks this of the book in every phase after R1.
PhaseBook(c) ==
    /\ Norm(c.book.keys) # 0 /\ validateSchnorrPublicKeys(c.book)
    /\ Norm(c.book.weights) = Norm(c.book.keys) /\ Norm(c.book.nodeIds) = Norm(c.book.keys)

\* A mutant: R3 does not count the messages of round 2.
RoundsAsFarAsCounted(c) ==
    LET r1 == Norm(c.r1)  r2 == Norm(c.r2)  r3 == Norm(c.r3)  n == c.selected
    IN  \/ c.op = "R1" /\ Norm(c.book.keys) = 0 /\ r1 = 0 /\ r2 = 0 /\ r3 = 0
        \/ c.op = "R2" /\ r1 = n /\ r2 = 0 /\ r3 = 0
        \/ c.op = "R3" /\ r1 = n /\ r3 = 0
        \/ c.op = "Aggregate" /\ r1 = n /\ r2 = n /\ r3 = n

\* The messages of earlier rounds: one of each actual signer, none of later rounds.
Rounds(c) ==
    LET r1 == Norm(c.r1)  r2 == Norm(c.r2)  r3 == Norm(c.r3)  n == c.selected
    IN  \/ c.op = "R1" /\ Norm(c.book.keys) = 0 /\ r1 = 0 /\ r2 = 0 /\ r3 = 0
        \/ c.op = "R2" /\ r1 = n /\ r2 = 0 /\ r3 = 0
        \/ c.op = "R3" /\ r1 = n /\ r2 = n /\ r3 = 0
        \/ c.op = "Aggregate" /\ r1 = n /\ r2 = n /\ r3 = n

\* A mutant: a book may not be full.
SizesExclusive(c) ==
    /\ c.signingKey # "long"
    /\ \A length \in {c.book.keys, c.book.weights, c.book.nodeIds, c.signers, c.r1, c.r2, c.r3} :
          length < BRIDGE_MAX_AB_SIZE

\* No array is longer than the address book may be; the private key, whose
\* bytes are counted, is among them.
Sizes(c) ==
    /\ c.signingKey # "long"
    /\ \A length \in {c.book.keys, c.book.weights, c.book.nodeIds, c.signers, c.r1, c.r2, c.r3} :
          length <= BRIDGE_MAX_AB_SIZE

\* The loop over the signers reads the key of each one that is selected.
runSigningProtocolPhase(c) ==
    IF \/ c.message = "null"
       \/ c.op # "Aggregate" /\ (c.signingKey = "null" \/ c.entropy # "ok")
       \/ Norm(c.signers) # Norm(c.book.keys)
    THEN "refused"
    ELSE IF Norm(c.signers) > Norm(c.book.keys) /\ c.selected > 0 THEN "thrown"
    ELSE IF /\ ~c.sentinel
            /\ c.op = "Aggregate" => c.signingKey = "null" /\ c.entropy = "null"
            /\ c.op # "R1" => PhaseBook(c) /\ validateRoundMessages(c)
            /\ Rounds(c)
            /\ Sizes(c)
    THEN "ok" ELSE "refused"

generateSchnorrKeys(c) == c.entropy = "ok"

verifySignature(c) ==
    /\ SameLengths(c.book) /\ c.book.keys # 0
    /\ c.message \notin {"null", "empty"} /\ c.signature \notin {"null", "empty"}
    /\ validateSchnorrPublicKeys(c.book)

hashAddressBook(c) ==
    SameLengths(c.book) /\ validateWeightsSum(c.book) /\ validateSchnorrPublicKeys(c.book)

hashArray(c) == c.message \notin {"null", "empty"}

computeNetworkID(c) ==
    /\ SameLengths(c.book) /\ validateWeightsSum(c.book) /\ validateSchnorrPublicKeys(c.book)
    /\ Norm(c.tssKey) # 0

constructWrapsProof(c) ==
    /\ c.genesis \notin {"null", "empty"}
    /\ \A b \in {c.book, c.next} :
          /\ SameLengths(b) /\ b.keys # 0
          /\ validateWeightsSum(b) /\ validateSchnorrPublicKeys(b)
    /\ Norm(c.tssKey) # 0
    /\ c.signature \notin {"null", "empty"}

verifyCompressedProof(c) ==
    c.ledgerId = "ok" /\ c.tssKey = TSS_VERIFICATION_KEY_LENGTH_BYTES /\ c.proof = "ok"
verifyUncompressedProof(c) ==
    c.ledgerId = "ok" /\ c.tssKey = TSS_VERIFICATION_KEY_LENGTH_BYTES /\ c.proof = "ok"

Verdict(passes) == IF passes THEN "ok" ELSE "refused"

Bridge(c) ==
    IF c.op \in Phases THEN runSigningProtocolPhase(c)
    ELSE Verdict(
        \/ c.op = "generateSchnorrKeys" /\ generateSchnorrKeys(c)
        \/ c.op = "verifySignature" /\ verifySignature(c)
        \/ c.op = "hashAddressBook" /\ hashAddressBook(c)
        \/ c.op = "hashArray" /\ hashArray(c)
        \/ c.op = "computeNetworkID" /\ computeNetworkID(c)
        \/ c.op = "constructWrapsProof" /\ constructWrapsProof(c)
        \/ c.op = "verifyCompressedProof" /\ verifyCompressedProof(c)
        \/ c.op = "verifyUncompressedProof" /\ verifyUncompressedProof(c))

-----------------------------------------------------------------------------
(* The JNI layer.  Reading past the end of a long[] leaves an exception     *)
(* pending, which Java throws when the native function returns.            *)

build_entropy_array(c) == Verdict(c.entropy = "ok")

\* As many weights and node ids are read as there are keys.
build_address_book(b) ==
    IF Norm(b.weights) < Norm(b.keys) \/ Norm(b.nodeIds) < Norm(b.keys) THEN "thrown"
    ELSE Verdict(b.keys > 0 => /\ b.weightKind # "negative"
                               /\ b.keyKind \notin {"malformed", "undecodable"})

build_vector(c) == Verdict(c.roundKind \notin {"malformed", "undecodable"})

deserialize_from_jbyte_array(kind) == Verdict(kind = "ok")

\* The first decoder that does not return Ok ends the call.
Both(first, second) == IF first = "ok" THEN second ELSE first

runSigningProtocolPhaseImpl(c) ==
    Both(Both(Both(IF c.entropy = "null" THEN "ok" ELSE build_entropy_array(c),
                   Verdict(c.message # "null")),
              Both(IF c.signingKey = "null" THEN "ok" ELSE deserialize_from_jbyte_array(c.signingKey),
                   build_address_book(c.book))),
         build_vector(c))

generateSchnorrKeysImpl(c) == build_entropy_array(c)
verifySignatureImpl(c) ==
    Both(Both(build_address_book(c.book), Verdict(c.message # "null")),
         deserialize_from_jbyte_array(c.signature))
hashAddressBookImpl(c) == build_address_book(c.book)
hashArrayImpl(c) == Verdict(c.message \notin {"null", "empty"})
formatRotationMessageImpl(c) == Both(build_address_book(c.book), Verdict(c.tssKey # Null))
constructWrapsProofImpl(c) ==
    Both(Both(Both(deserialize_from_jbyte_array(c.genesis), build_address_book(c.book)),
              Both(build_address_book(c.next), Verdict(c.tssKey # Null))),
         deserialize_from_jbyte_array(c.signature))
verifyProofImpl(c) == Verdict(c.ledgerId # "null" /\ c.tssKey # Null /\ c.proof # "null")

Jni(c) ==
    CASE c.op \in Phases -> runSigningProtocolPhaseImpl(c)
      [] c.op = "generateSchnorrKeys" -> generateSchnorrKeysImpl(c)
      [] c.op = "verifySignature" -> verifySignatureImpl(c)
      [] c.op = "hashAddressBook" -> hashAddressBookImpl(c)
      [] c.op = "hashArray" -> hashArrayImpl(c)
      [] c.op = "computeNetworkID" -> formatRotationMessageImpl(c)
      [] c.op = "constructWrapsProof" -> constructWrapsProofImpl(c)
      [] OTHER -> verifyProofImpl(c)

-----------------------------------------------------------------------------
(* The library, as far as it looks at what the layers above have let pass.  *)

verify_address_book(b) ==
    Norm(b.keys) <= MAX_AB_SIZE /\ b.keyKind # "duplicate" /\ b.weightKind # "overU64"

validate_signing_phase(c) ==
    LET n == c.selected
    IN  /\ c.op # "Aggregate" => c.entropy # "null"
        /\ c.op = "R3" => c.signingKey # "null"
        /\ <<Norm(c.r1), Norm(c.r2), Norm(c.r3)>> =
              [R1 |-> <<0, 0, 0>>, R2 |-> <<n, 0, 0>>,
               R3 |-> <<n, n, 0>>, Aggregate |-> <<n, n, n>>][c.op]

signing_protocol(c) ==
    /\ verify_address_book(c.book)
    /\ Norm(c.signers) <= MAX_AB_SIZE
    /\ c.selected > 0 => Norm(c.signers) <= Norm(c.book.keys)
    /\ ~c.sentinel
    /\ c.op # "R1" => c.selected > 0
    /\ validate_signing_phase(c)
    /\ c.message = "ok" /\ c.roundKind = "ok"

Library(c) ==
    CASE c.op \in Phases -> signing_protocol(c)
      [] c.op = "verifySignature" -> c.message = "ok" /\ verify_address_book(c.book)
      [] c.op \in {"hashAddressBook", "computeNetworkID"} -> verify_address_book(c.book)
      [] c.op = "constructWrapsProof" ->
            verify_address_book(c.book) /\ verify_address_book(c.next)
      [] OTHER -> TRUE

-----------------------------------------------------------------------------
WrapsInit ==
    /\ \E op \in Operations, n \in BookSizes : \E k \in {1, n} : call = Proper(op, n, k)
    /\ mistakes = 0 /\ stage = "caller" /\ layer = "none" /\ answer = "none"

\* The caller gets an argument wrong.
MakeMistake ==
    /\ stage = "caller" /\ mistakes < MaxMistakes
    /\ \/ \E f \in Arguments(call.op) : \E v \in WrongArgument[f] :
             call' = [call EXCEPT ![f] = v]
       \/ /\ call.op \in Phases \cup BookCalls
          /\ \E f \in DOMAIN Wrong : \E v \in Wrong[f] : call' = [call EXCEPT !.book[f] = v]
       \/ /\ call.op = "constructWrapsProof"
          /\ \E f \in DOMAIN Wrong : \E v \in Wrong[f] : call' = [call EXCEPT !.next[f] = v]
    /\ call' # call /\ Possible(call')
    /\ mistakes' = mistakes + 1
    /\ UNCHANGED <<stage, layer, answer>>

\* A layer lets the call pass to the next one, or ends it.
Pass(here, there, outcome) ==
    /\ IF outcome = "ok" /\ there # "returned"
       THEN stage' = there /\ UNCHANGED <<layer, answer>>
       ELSE stage' = "returned" /\ layer' = here /\ answer' = outcome
    /\ UNCHANGED <<call, mistakes>>

Enter  == stage = "caller"  /\ Pass("bridge", "jni", Bridge(call))
Decode == stage = "jni"     /\ Pass("jni", "library", Jni(call))
Run    == stage = "library" /\ Pass("library", "returned", Verdict(Library(call)))

WrapsNext == MakeMistake \/ Enter \/ Decode \/ Run

WrapsSpec == WrapsInit /\ [][WrapsNext]_wrapsVars

-----------------------------------------------------------------------------
\* Every call the protocol asks for, for every committee the bridge admits, is
\* let through by all three layers: their counts, sizes and phases agree.
ProperCallsPass ==
    mistakes = 0 /\ Norm(call.book.keys) <= BRIDGE_MAX_AB_SIZE => answer \in {"none", "ok"}

\* What the bridge lets through is refused further down for its contents only:
\* bytes that do not decode, keys that repeat, weights that are negative or too
\* large together, or nobody selected; never for a length, a count or a phase,
\* and never by an exception, such as a read past the end of a shorter array
\* leaves pending.
OnlyContentsAreRefusedLater ==
    /\ answer # "thrown"
    /\ layer \in {"jni", "library"} /\ answer = "refused" =>
        \/ \E b \in {call.book, call.next} :
              \/ b.keyKind \in {"undecodable", "duplicate"}
              \/ b.weightKind \in {"negative", "overU64"}
        \/ "undecodable" \in {call.message, call.signingKey, call.roundKind,
                              call.signature, call.genesis}
        \/ call.message = "empty" \/ call.roundKind = "otherRound"
        \/ call.op \in Phases \ {"R1"} /\ call.selected = 0
=============================================================================
