------------------------ MODULE LibraryBridgeProofs -------------------------
(***************************************************************************)
(* What is called through WRAPSLibraryBridge and HintsLibraryBridge.  The  *)
(* three layers of checks on a WRAPS call, for every limit on the signers, *)
(* every book size and any number of mistakes: they agree on what is       *)
(* proper, and what is refused below the bridge is refused for its         *)
(* contents.  The powers-of-tau ceremony, for every order of the groups,   *)
(* every size of CRS and any number of contributors and contributions.     *)
(***************************************************************************)
EXTENDS CrsCeremony, WrapsBridge, FoldTheorems, TLAPS

-----------------------------------------------------------------------------
(* The bridge of WRAPS.                                                    *)
USE WrapsBridgeAssumption

Length == Nat \cup {Null}

BookType ==
    [keys : Length, weights : Length, nodeIds : Length,
     keyKind : {"ok", "malformed", "undecodable", "duplicate"},
     weightKind : {"ok", "negative", "overLong", "overU64"}]

CallType ==
    [op : Operations, book : BookType, next : BookType,
     entropy : {"null", "malformed", "ok"}, signingKey : {"null", "undecodable", "long", "ok"},
     message : {"null", "empty", "undecodable", "ok"}, signers : Length, selected : Nat,
     sentinel : BOOLEAN, r1 : Length, r2 : Length, r3 : Length,
     roundKind : {"ok", "malformed", "undecodable", "otherRound"},
     signature : {"null", "empty", "undecodable", "ok"}, genesis : {"null", "empty", "undecodable", "ok"},
     tssKey : Length, proof : {"null", "malformed", "ok"}, ledgerId : {"null", "malformed", "ok"}]

\* A wrong argument still is one of its kind.
LEMMA WrongCall ==
    ASSUME NEW c \in CallType, NEW f \in Arguments(c.op), NEW v \in WrongArgument[f]
    PROVE  [c EXCEPT ![f] = v] \in CallType /\ [c EXCEPT ![f] = v].op = c.op
<1>1. f \in DOMAIN WrongArgument
  BY DEF Arguments, WrongArgument, Phases, BookCalls, Operations, CallType
<1>2. CASE f = "entropy"
  BY <1>2 DEF WrongArgument, CallType
<1>3. CASE f = "signingKey"
  BY <1>3 DEF WrongArgument, CallType
<1>4. CASE f = "message"
  BY <1>4 DEF WrongArgument, CallType
<1>5. CASE f = "signers"
  BY <1>5, ZenonT(30) DEF WrongArgument, CallType, Length
<1>6. CASE f = "selected"
  BY <1>6, ZenonT(30) DEF WrongArgument, CallType, Length, Null
<1>7. CASE f = "sentinel"
  BY <1>7 DEF WrongArgument, CallType
<1>8. CASE f = "r1"
  BY <1>8, ZenonT(30) DEF WrongArgument, CallType, Length
<1>9. CASE f = "r2"
  BY <1>9, ZenonT(30) DEF WrongArgument, CallType, Length
<1>10. CASE f = "r3"
  BY <1>10 DEF WrongArgument, CallType, Length
<1>11. CASE f = "roundKind"
  BY <1>11 DEF WrongArgument, CallType
<1>12. CASE f = "signature"
  BY <1>12 DEF WrongArgument, CallType
<1>13. CASE f = "genesis"
  BY <1>13 DEF WrongArgument, CallType
<1>14. CASE f = "tssKey"
  BY <1>14, ZenonT(30) DEF WrongArgument, CallType, Length
<1>15. CASE f = "proof"
  BY <1>15 DEF WrongArgument, CallType
<1>16. CASE f = "ledgerId"
  BY <1>16 DEF WrongArgument, CallType
<1> QED
  BY <1>1, <1>2, <1>3, <1>4, <1>5, <1>6, <1>7, <1>8, <1>9, <1>10, <1>11, <1>12, <1>13, <1>14, <1>15, <1>16 DEF WrongArgument

\* A book with a wrong array still is a book.
LEMMA WrongBook ==
    ASSUME NEW b \in BookType, NEW f \in DOMAIN Wrong, NEW v \in Wrong[f]
    PROVE  [b EXCEPT ![f] = v] \in BookType
<1>1. CASE f = "keys"
  BY <1>1 DEF Wrong, BookType, Length
<1>2. CASE f = "weights"
  BY <1>2 DEF Wrong, BookType, Length
<1>3. CASE f = "nodeIds"
  BY <1>3 DEF Wrong, BookType, Length
<1>4. CASE f = "keyKind"
  BY <1>4 DEF Wrong, BookType, Length
<1>5. CASE f = "weightKind"
  BY <1>5 DEF Wrong, BookType, Length
<1> QED
  BY <1>1, <1>2, <1>3, <1>4, <1>5 DEF Wrong

\* The call that is made before any mistake.
LEMMA ProperType ==
    ASSUME NEW op \in Operations, NEW n \in BookSizes, NEW k \in {1, n}
    PROVE  Proper(op, n, k) \in CallType /\ Possible(Proper(op, n, k))
<1>1. n \in Nat /\ n > 0 /\ k \in Nat /\ k <= n
  OBVIOUS
<1>2. Book(n) \in BookType /\ Book(Null) \in BookType
  BY <1>1 DEF Book, BookType, Length
<1>3. PossibleBook(Book(n)) /\ PossibleBook(Book(Null))
  BY DEF PossibleBook, Book
<1>4. Proper(op, n, k) \in CallType
  BY <1>1, <1>2 DEF Proper, CallType, Length
<1>5. Possible(Proper(op, n, k))
  BY <1>1, <1>3 DEF Proper, Possible, Norm, Null
<1> QED
  BY <1>4, <1>5

\* Why a call that the bridge has let through may be refused.
Contents(c) ==
    \/ \E b \in {c.book, c.next} :
          \/ b.keyKind \in {"undecodable", "duplicate"}
          \/ b.weightKind \in {"negative", "overU64"}
    \/ "undecodable" \in {c.message, c.signingKey, c.roundKind, c.signature, c.genesis}
    \/ c.message = "empty" \/ c.roundKind = "otherRound"
    \/ c.op \in Phases \ {"R1"} /\ c.selected = 0

\* The bridge does not throw: the loop over the signers runs only if there are
\* as many of them as keys.
LEMMA BridgeDoesNotThrow ==
    ASSUME NEW c \in CallType
    PROVE  Bridge(c) \in {"ok", "refused"}
<1>1. Norm(c.signers) \in Nat /\ Norm(c.book.keys) \in Nat
  BY DEF CallType, BookType, Length, Norm
<1>2. runSigningProtocolPhase(c) \in {"ok", "refused"}
  BY <1>1 DEF runSigningProtocolPhase
<1> QED
  BY <1>2 DEF Bridge, Verdict

\* Decoding a book of arrays of the same length fails only for what is in it.
LEMMA BookDecodes ==
    ASSUME NEW b \in BookType, Norm(b.weights) >= Norm(b.keys), Norm(b.nodeIds) >= Norm(b.keys),
           Norm(b.keys) # 0 => b.keyKind # "malformed"
    PROVE  /\ build_address_book(b) \in {"ok", "refused"}
           /\ build_address_book(b) = "refused" =>
                 b.keyKind = "undecodable" \/ b.weightKind = "negative"
<1>1. /\ Norm(b.keys) \in Nat /\ Norm(b.weights) \in Nat /\ Norm(b.nodeIds) \in Nat
      /\ b.keys > 0 <=> Norm(b.keys) # 0
      /\ b.keyKind \in {"ok", "malformed", "undecodable", "duplicate"}
  BY DEF BookType, Length, Norm, Null
<1>2. build_address_book(b) = Verdict(b.keys > 0 => /\ b.weightKind # "negative"
                                                  /\ b.keyKind \notin {"malformed", "undecodable"})
  BY <1>1 DEF build_address_book
<1> QED
  BY <1>1, <1>2 DEF Verdict

\* What runSigningProtocolPhase has established when it calls the native side.
LEMMA PhaseChecked ==
    ASSUME NEW c \in CallType, Possible(c), c.op \in Phases, Bridge(c) = "ok"
    PROVE  /\ c.message # "null" /\ ~c.sentinel /\ c.signingKey # "long"
           /\ c.op # "Aggregate" => c.signingKey # "null" /\ c.entropy = "ok"
           /\ c.op = "Aggregate" => c.signingKey = "null" /\ c.entropy = "null"
           /\ Norm(c.signers) = Norm(c.book.keys)
           /\ Norm(c.book.weights) >= Norm(c.book.keys)
           /\ Norm(c.book.nodeIds) >= Norm(c.book.keys)
           /\ Norm(c.book.keys) # 0 => c.book.keyKind # "malformed"
           /\ c.roundKind # "malformed"
           /\ Rounds(c) /\ Sizes(c)
<1>1. runSigningProtocolPhase(c) = "ok"
  BY DEF Bridge
<1>2. ~(\/ c.message = "null"
        \/ c.op # "Aggregate" /\ (c.signingKey = "null" \/ c.entropy # "ok")
        \/ Norm(c.signers) # Norm(c.book.keys))
  BY <1>1 DEF runSigningProtocolPhase
<1>3. /\ ~c.sentinel
      /\ c.op = "Aggregate" => c.signingKey = "null" /\ c.entropy = "null"
      /\ c.op # "R1" => PhaseBook(c) /\ validateRoundMessages(c)
      /\ Rounds(c)
      /\ Sizes(c)
  BY <1>1, <1>2 DEF runSigningProtocolPhase
<1>4. /\ Norm(c.book.weights) \in Nat /\ Norm(c.book.nodeIds) \in Nat /\ Norm(c.book.keys) \in Nat
      /\ c.r1 \in Length /\ c.r2 \in Length /\ c.r3 \in Length
  BY DEF CallType, BookType, Length, Norm
<1>5. CASE c.op # "R1"
  <2>1. PhaseBook(c) /\ validateRoundMessages(c)
    BY <1>3, <1>5
  <2> QED
    BY <1>2, <1>3, <1>4, <2>1
       DEF PhaseBook, validateRoundMessages, validateSchnorrPublicKeys, Sizes
<1>6. CASE c.op = "R1"
  <2>1. Norm(c.book.keys) = 0 /\ Norm(c.r1) = 0 /\ Norm(c.r2) = 0 /\ Norm(c.r3) = 0
    BY <1>3, <1>6 DEF Rounds
  <2>2. ~(c.r1 > 0 \/ c.r2 > 0 \/ c.r3 > 0)
    BY <1>4, <2>1 DEF Norm, Length, Null
  <2>3. c.roundKind = "ok"
    BY <2>2 DEF Possible
  <2> QED
    BY <1>2, <1>3, <1>4, <1>6, <2>1, <2>3 DEF Sizes
<1> QED
  BY <1>5, <1>6

\* The JNI layer refuses a phase the bridge let through only for contents.
LEMMA PhaseDecodes ==
    ASSUME NEW c \in CallType, Possible(c), c.op \in Phases, Bridge(c) = "ok"
    PROVE  Jni(c) \in {"ok", "refused"} /\ (Jni(c) = "refused" => Contents(c))
<1> USE PhaseChecked
<1>1. c.book \in BookType
  BY DEF CallType
<1>2. /\ build_address_book(c.book) \in {"ok", "refused"}
      /\ build_address_book(c.book) = "refused" => Contents(c)
  BY <1>1, BookDecodes DEF Contents
<1>3. (IF c.entropy = "null" THEN "ok" ELSE build_entropy_array(c)) = "ok"
  BY DEF build_entropy_array, Verdict
<1>4. Verdict(c.message # "null") = "ok"
  BY DEF Verdict
<1> DEFINE key == IF c.signingKey = "null" THEN "ok" ELSE deserialize_from_jbyte_array(c.signingKey)
<1>5. key \in {"ok", "refused"} /\ (key = "refused" => Contents(c))
  BY DEF deserialize_from_jbyte_array, Verdict, Contents, CallType
<1>6. build_vector(c) \in {"ok", "refused"} /\ (build_vector(c) = "refused" => Contents(c))
  BY DEF build_vector, Verdict, Contents, CallType
<1>7. Jni(c) = Both(Both(Both(IF c.entropy = "null" THEN "ok" ELSE build_entropy_array(c),
                              Verdict(c.message # "null")),
                         Both(key, build_address_book(c.book))),
                    build_vector(c))
  <2>1. Jni(c) = runSigningProtocolPhaseImpl(c)
    BY DEF Jni, Phases
  <2> QED
    BY <2>1, Zenon DEF runSigningProtocolPhaseImpl
<1> HIDE DEF key
<1> QED
  BY <1>2, <1>3, <1>4, <1>5, <1>6, <1>7 DEF Both

\* The library refuses a phase the bridge let through only for contents.
LEMMA PhaseRuns ==
    ASSUME NEW c \in CallType, Possible(c), c.op \in Phases, Bridge(c) = "ok", ~Library(c)
    PROVE  Contents(c)
<1>1. ~signing_protocol(c)
  BY DEF Library, Phases
<1>2. /\ c.message # "null" /\ ~c.sentinel /\ c.signingKey # "long"
      /\ c.op # "Aggregate" => c.signingKey # "null" /\ c.entropy = "ok"
      /\ Norm(c.signers) = Norm(c.book.keys)
      /\ c.roundKind # "malformed"
      /\ Rounds(c) /\ Sizes(c)
  BY PhaseChecked
<1>3. Norm(c.book.keys) \in Nat /\ Norm(c.book.keys) <= MAX_AB_SIZE
  BY <1>2 DEF Sizes, Norm, CallType, BookType, Length, Null
<1>4. validate_signing_phase(c)
  <2>1. CASE c.op = "R1"
    BY <1>2, <2>1 DEF validate_signing_phase, Rounds
  <2>2. CASE c.op = "R2"
    BY <1>2, <2>2 DEF validate_signing_phase, Rounds
  <2>3. CASE c.op = "R3"
    BY <1>2, <2>3 DEF validate_signing_phase, Rounds
  <2>4. CASE c.op = "Aggregate"
    BY <1>2, <2>4 DEF validate_signing_phase, Rounds
  <2> QED
    BY <2>1, <2>2, <2>3, <2>4 DEF Phases
<1>5. CASE ~verify_address_book(c.book)
  BY <1>3, <1>5 DEF verify_address_book, Contents
<1>6. CASE c.op # "R1" /\ ~(c.selected > 0)
  BY <1>6 DEF Contents, CallType
<1>7. CASE c.message # "ok" \/ c.roundKind # "ok"
  BY <1>2, <1>7 DEF Contents, CallType
<1> QED
  BY <1>1, <1>2, <1>3, <1>4, <1>5, <1>6, <1>7 DEF signing_protocol

\* The operations that take no part in the signing protocol, each with what the
\* bridge has established of it.
OtherCalls == Operations \ Phases

\* What the bridge checked of the calls that are not phases.
LEMMA OthersChecked ==
    ASSUME NEW c \in CallType, c.op \in OtherCalls, Bridge(c) = "ok"
    PROVE  /\ c.op = "generateSchnorrKeys" => generateSchnorrKeys(c)
           /\ c.op = "verifySignature" => verifySignature(c)
           /\ c.op = "hashAddressBook" => hashAddressBook(c)
           /\ c.op = "hashArray" => hashArray(c)
           /\ c.op = "computeNetworkID" => computeNetworkID(c)
           /\ c.op = "constructWrapsProof" => constructWrapsProof(c)
           /\ c.op = "verifyCompressedProof" => verifyCompressedProof(c)
           /\ c.op = "verifyUncompressedProof" => verifyUncompressedProof(c)
BY DEF Bridge, OtherCalls, Verdict

\* A book whose lengths the bridge has compared.
LEMMA ComparedBook ==
    ASSUME NEW b \in BookType, SameLengths(b), validateSchnorrPublicKeys(b)
    PROVE  /\ build_address_book(b) \in {"ok", "refused"}
           /\ build_address_book(b) = "refused" =>
                 b.keyKind = "undecodable" \/ b.weightKind = "negative"
           /\ ~verify_address_book(b) => b.keyKind = "duplicate" \/ b.weightKind = "overU64"
<1>1. b.keys \in Nat /\ b.weights = b.keys /\ b.nodeIds = b.keys /\ b.keys <= MAX_AB_SIZE
  BY DEF SameLengths, BookType, Length
<1>2. Norm(b.keys) = b.keys /\ Norm(b.weights) = b.keys /\ Norm(b.nodeIds) = b.keys
  BY <1>1 DEF Norm, Null
<1>3. b.keyKind # "malformed"
  BY DEF validateSchnorrPublicKeys
<1>4. ~verify_address_book(b) => b.keyKind = "duplicate" \/ b.weightKind = "overU64"
  BY <1>1, <1>2 DEF verify_address_book
<1> QED
  BY <1>1, <1>2, <1>3, <1>4, BookDecodes

\* The other calls are refused below the bridge only for contents.
LEMMA OthersDecode ==
    ASSUME NEW c \in CallType, c.op \in OtherCalls, Bridge(c) = "ok"
    PROVE  /\ Jni(c) \in {"ok", "refused"} /\ (Jni(c) = "refused" => Contents(c))
           /\ ~Library(c) => Contents(c)
<1> DEFINE Goal == /\ Jni(c) \in {"ok", "refused"} /\ (Jni(c) = "refused" => Contents(c))
                   /\ ~Library(c) => Contents(c)
<1>1. /\ c.book \in BookType /\ c.next \in BookType
      /\ c.message \in {"null", "empty", "undecodable", "ok"}
      /\ c.signature \in {"null", "empty", "undecodable", "ok"}
      /\ c.genesis \in {"null", "empty", "undecodable", "ok"}
  BY DEF CallType
<1>2. /\ deserialize_from_jbyte_array(c.signature) \in {"ok", "refused"}
      /\ deserialize_from_jbyte_array(c.signature) = "refused" => c.signature # "ok"
      /\ deserialize_from_jbyte_array(c.genesis) \in {"ok", "refused"}
      /\ deserialize_from_jbyte_array(c.genesis) = "refused" => c.genesis # "ok"
  BY DEF deserialize_from_jbyte_array, Verdict
<1>3. ASSUME NEW b \in {c.book, c.next}, SameLengths(b), validateSchnorrPublicKeys(b)
      PROVE  /\ build_address_book(b) \in {"ok", "refused"}
             /\ build_address_book(b) = "refused" => Contents(c)
             /\ ~verify_address_book(b) => Contents(c)
  BY <1>1, <1>3, ComparedBook DEF Contents
<1>4. CASE c.op = "generateSchnorrKeys"
  <2>1. Jni(c) = generateSchnorrKeysImpl(c) /\ Library(c)
    BY <1>4 DEF Jni, Library, Phases
  <2> QED
    BY <1>4, <2>1, OthersChecked DEF generateSchnorrKeysImpl, generateSchnorrKeys, build_entropy_array, Verdict
<1>5. CASE c.op = "verifySignature"
  <2>1. Jni(c) = verifySignatureImpl(c) /\ (Library(c) <=> c.message = "ok" /\ verify_address_book(c.book))
    BY <1>5 DEF Jni, Library, Phases
  <2>2. /\ SameLengths(c.book) /\ validateSchnorrPublicKeys(c.book)
        /\ c.message \notin {"null", "empty"} /\ c.signature \notin {"null", "empty"}
    BY <1>5, OthersChecked DEF verifySignature
  <2>3. Verdict(c.message # "null") = "ok"
    BY <2>2 DEF Verdict
  <2>4. c.message # "ok" \/ c.signature # "ok" => Contents(c)
    BY <1>1, <2>2 DEF Contents
  <2> QED
    BY <1>2, <1>3, <2>1, <2>2, <2>3, <2>4 DEF verifySignatureImpl, Both
<1>6. CASE c.op = "hashAddressBook"
  <2>1. Jni(c) = build_address_book(c.book) /\ (Library(c) <=> verify_address_book(c.book))
    BY <1>6 DEF Jni, Library, Phases, hashAddressBookImpl
  <2>2. SameLengths(c.book) /\ validateSchnorrPublicKeys(c.book)
    BY <1>6, OthersChecked DEF hashAddressBook
  <2> QED
    BY <1>3, <2>1, <2>2
<1>7. CASE c.op = "hashArray"
  <2>1. Jni(c) = hashArrayImpl(c) /\ Library(c)
    BY <1>7 DEF Jni, Library, Phases
  <2> QED
    BY <1>7, <2>1, OthersChecked DEF hashArrayImpl, hashArray, Verdict
<1>8. CASE c.op = "computeNetworkID"
  <2>1. Jni(c) = formatRotationMessageImpl(c) /\ (Library(c) <=> verify_address_book(c.book))
    BY <1>8 DEF Jni, Library, Phases
  <2>2. SameLengths(c.book) /\ validateSchnorrPublicKeys(c.book) /\ Norm(c.tssKey) # 0
    BY <1>8, OthersChecked DEF computeNetworkID
  <2>3. Verdict(c.tssKey # Null) = "ok"
    BY <2>2 DEF Verdict, Norm
  <2> QED
    BY <1>3, <2>1, <2>2, <2>3 DEF formatRotationMessageImpl, Both
<1>9. CASE c.op = "constructWrapsProof"
  <2>1. /\ Jni(c) = constructWrapsProofImpl(c)
        /\ Library(c) <=> verify_address_book(c.book) /\ verify_address_book(c.next)
    BY <1>9 DEF Jni, Library, Phases
  <2>2. /\ SameLengths(c.book) /\ validateSchnorrPublicKeys(c.book)
        /\ SameLengths(c.next) /\ validateSchnorrPublicKeys(c.next) /\ Norm(c.tssKey) # 0
        /\ c.genesis \notin {"null", "empty"} /\ c.signature \notin {"null", "empty"}
    BY <1>9, OthersChecked DEF constructWrapsProof
  <2>3. Verdict(c.tssKey # Null) = "ok"
    BY <2>2 DEF Verdict, Norm
  <2>4. c.genesis # "ok" \/ c.signature # "ok" => Contents(c)
    BY <1>1, <2>2 DEF Contents
  <2> QED
    BY <1>2, <1>3, <2>1, <2>2, <2>3, <2>4 DEF constructWrapsProofImpl, Both
<1>10. CASE c.op \in {"verifyCompressedProof", "verifyUncompressedProof"}
  <2>1. Jni(c) = verifyProofImpl(c) /\ Library(c)
    BY <1>10 DEF Jni, Library, Phases
  <2>2. c.ledgerId = "ok" /\ c.tssKey # Null /\ c.proof = "ok"
    BY <1>10, OthersChecked DEF verifyCompressedProof, verifyUncompressedProof, Null
  <2> QED
    BY <2>1, <2>2 DEF verifyProofImpl, Verdict
<1> QED
  BY <1>4, <1>5, <1>6, <1>7, <1>8, <1>9, <1>10 DEF OtherCalls, Operations, Phases, BookCalls

-----------------------------------------------------------------------------
\* The call the protocol asks for, in every layer.
LEMMA ProperPasses ==
    ASSUME NEW op \in Operations, NEW n \in BookSizes, NEW k \in {1, n},
           Norm(Proper(op, n, k).book.keys) <= BRIDGE_MAX_AB_SIZE
    PROVE  /\ Bridge(Proper(op, n, k)) = "ok"
           /\ Jni(Proper(op, n, k)) = "ok"
           /\ Library(Proper(op, n, k))
<1> DEFINE c == Proper(op, n, k)
<1>0. n \in Nat /\ n > 0 /\ k \in Nat /\ k > 0 /\ k <= n
  <2>0. n \in Nat \ {0}
    BY Zenon
  <2>1. n \in Nat /\ n > 0
    BY <2>0
  <2> QED
    BY <2>1
<1>1. /\ c.op = op /\ c.message = "ok" /\ c.roundKind = "ok" /\ c.sentinel = FALSE
      /\ c.signature = "ok" /\ c.genesis = "ok" /\ c.proof = "ok" /\ c.ledgerId = "ok"
      /\ c.tssKey = TSS_VERIFICATION_KEY_LENGTH_BYTES /\ c.next = Book(n)
  BY DEF Proper
<1>2. op = "R1" => /\ c.book = Book(Null) /\ c.signers = Null /\ c.selected = 0
                   /\ c.r1 = Null /\ c.r2 = Null /\ c.r3 = Null
  BY DEF Proper
<1>3. op # "R1" => c.book = Book(n) /\ c.signers = n /\ c.selected = k /\ c.r1 = k
  BY DEF Proper
<1>4. /\ op = "Aggregate" => c.entropy = "null" /\ c.signingKey = "null" /\ c.r2 = k /\ c.r3 = k
      /\ op # "Aggregate" => c.entropy = "ok" /\ c.signingKey = "ok" /\ c.r3 = Null
      /\ op = "R2" => c.r2 = Null
      /\ op = "R3" => c.r2 = k
  BY DEF Proper
<1>5. op # "R1" => n <= BRIDGE_MAX_AB_SIZE
  BY <1>0, <1>3, SMTT(30) DEF Book, Norm, Null
<1> HIDE DEF c
<1>6. /\ Book(n).keys = n /\ Book(n).weights = n /\ Book(n).nodeIds = n
      /\ Book(n).keyKind = "ok" /\ Book(n).weightKind = "ok"
      /\ Book(Null).keys = Null /\ Book(Null).weights = Null /\ Book(Null).nodeIds = Null
      /\ Book(Null).keyKind = "ok" /\ Book(Null).weightKind = "ok"
  BY DEF Book
<1>7. Norm(n) = n /\ Norm(k) = k /\ Norm(Null) = 0
  BY <1>0 DEF Norm, Null
<1>8. build_address_book(Book(n)) = "ok" /\ build_address_book(Book(Null)) = "ok"
  BY <1>0, <1>6, <1>7 DEF build_address_book, Verdict
<1>9. /\ op # "R1" => SameLengths(Book(n)) /\ verify_address_book(Book(n))
      /\ verify_address_book(Book(Null))
      /\ validateSchnorrPublicKeys(Book(n)) /\ validateWeightsSum(Book(n))
  BY <1>0, <1>5, <1>6, <1>7
     DEF SameLengths, verify_address_book, validateSchnorrPublicKeys, validateWeightsSum, Null
<1>10. CASE op \in Phases
  <2>1. Rounds(c)
    BY <1>1, <1>2, <1>3, <1>4, <1>6, <1>7, <1>10 DEF Rounds, Phases
  <2>2. Sizes(c)
    <3>1. CASE op = "R1"
      BY <1>2, <1>4, <1>6, <3>1 DEF Sizes, Null
    <3>2. CASE op # "R1"
      <4>1. c.r2 \in {k, Null} /\ c.r3 \in {k, Null}
        BY <1>4, <1>10, <3>2 DEF Phases
      <4>2. k <= BRIDGE_MAX_AB_SIZE /\ n <= BRIDGE_MAX_AB_SIZE /\ Null <= BRIDGE_MAX_AB_SIZE
        BY <1>0, <1>5, <3>2 DEF Null
      <4>3. c.signingKey # "long"
        BY <1>4
      <4> QED
        BY <1>3, <1>6, <3>2, <4>1, <4>2, <4>3 DEF Sizes
    <3> QED
      BY <3>1, <3>2
  <2>3. Norm(c.signers) = Norm(c.book.keys) /\ Norm(c.signers) \in Nat
    BY <1>0, <1>2, <1>3, <1>6, <1>7
  <2>4. op # "R1" => PhaseBook(c) /\ validateRoundMessages(c)
    BY <1>0, <1>1, <1>3, <1>6, <1>7, <1>9 DEF PhaseBook, validateRoundMessages
  <2>5. runSigningProtocolPhase(c) = "ok"
    BY <1>1, <1>4, <2>1, <2>2, <2>3, <2>4 DEF runSigningProtocolPhase
  <2>6. Bridge(c) = "ok"
    BY <1>1, <1>10, <2>5 DEF Bridge
  <2>7. build_address_book(c.book) = "ok" /\ verify_address_book(c.book)
    BY <1>2, <1>3, <1>8, <1>9
  <2>8. Jni(c) = "ok"
    <3>1. Jni(c) = runSigningProtocolPhaseImpl(c)
      BY <1>1, <1>10 DEF Jni, Phases
    <3> QED
      BY <1>1, <1>4, <2>7, <3>1
         DEF runSigningProtocolPhaseImpl, Both, Verdict, build_entropy_array,
             deserialize_from_jbyte_array, build_vector
  <2>9. validate_signing_phase(c)
    <3>1. CASE op = "R1"
      BY <1>1, <1>2, <1>4, <1>7, <3>1 DEF validate_signing_phase
    <3>2. CASE op = "R2"
      BY <1>1, <1>3, <1>4, <1>7, <3>2 DEF validate_signing_phase
    <3>3. CASE op = "R3"
      BY <1>1, <1>3, <1>4, <1>7, <3>3 DEF validate_signing_phase
    <3>4. CASE op = "Aggregate"
      BY <1>1, <1>3, <1>4, <1>7, <3>4 DEF validate_signing_phase
    <3> QED
      BY <1>10, <3>1, <3>2, <3>3, <3>4 DEF Phases
  <2>10. Norm(c.signers) <= MAX_AB_SIZE
    BY <1>0, <1>2, <1>3, <1>5, <1>7
  <2>11. signing_protocol(c)
    BY <1>0, <1>1, <1>3, <2>3, <2>7, <2>9, <2>10 DEF signing_protocol
  <2>12. Library(c)
    BY <1>1, <1>10, <2>11 DEF Library, Phases
  <2> QED
    BY <2>6, <2>8, <2>12 DEF c
<1>11. CASE op \notin Phases
  <2>1. op # "R1"
    BY <1>11 DEF Phases
  <2>2. c.book = Book(n) /\ c.next = Book(n)
    BY <1>1, <1>3, <2>1
  <2>3. c.entropy = "ok"
    BY <1>4, <1>11 DEF Phases
  <2>4. Norm(c.tssKey) # 0 /\ c.tssKey # Null
    BY <1>1 DEF Norm, Null
  <2>5. /\ SameLengths(Book(n)) /\ validateSchnorrPublicKeys(Book(n)) /\ validateWeightsSum(Book(n))
        /\ Book(n).keys # 0
    BY <1>0, <1>6, <1>9, <2>1
  <2>6. /\ generateSchnorrKeys(c) /\ verifySignature(c) /\ hashAddressBook(c) /\ hashArray(c)
        /\ computeNetworkID(c) /\ constructWrapsProof(c)
        /\ verifyCompressedProof(c) /\ verifyUncompressedProof(c)
    BY <1>1, <2>2, <2>3, <2>4, <2>5
       DEF generateSchnorrKeys, verifySignature, hashAddressBook, hashArray, computeNetworkID,
           constructWrapsProof, verifyCompressedProof, verifyUncompressedProof
  <2>7. Bridge(c) = "ok"
    BY <1>1, <1>11, <2>6 DEF Bridge, Verdict, Operations, BookCalls, Phases
  <2>8. /\ generateSchnorrKeysImpl(c) = "ok" /\ verifySignatureImpl(c) = "ok"
        /\ hashAddressBookImpl(c) = "ok" /\ hashArrayImpl(c) = "ok"
        /\ formatRotationMessageImpl(c) = "ok" /\ constructWrapsProofImpl(c) = "ok"
        /\ verifyProofImpl(c) = "ok"
    BY <1>1, <1>8, <2>2, <2>3, <2>4
       DEF generateSchnorrKeysImpl, verifySignatureImpl, hashAddressBookImpl, hashArrayImpl,
           formatRotationMessageImpl, constructWrapsProofImpl, verifyProofImpl, Both, Verdict,
           build_entropy_array, deserialize_from_jbyte_array
  <2>9. Jni(c) = "ok"
    BY <1>1, <1>11, <2>8 DEF Jni
  <2>10. Library(c)
    BY <1>1, <1>9, <1>11, <2>1, <2>2 DEF Library
  <2> QED
    BY <2>7, <2>9, <2>10 DEF c
<1> QED
  BY <1>10, <1>11

-----------------------------------------------------------------------------
\* A call at a layer has passed the ones above it, and one that has ended did so
\* with that layer's outcome.
WrapsInv ==
    /\ call \in CallType /\ Possible(call) /\ mistakes \in Nat
    /\ mistakes = 0 =>
          \E op \in Operations, n \in BookSizes : \E k \in {1, n} : call = Proper(op, n, k)
    /\ stage \in {"caller", "jni", "library", "returned"}
    /\ stage # "returned" => layer = "none" /\ answer = "none"
    /\ stage = "jni" => Bridge(call) = "ok"
    /\ stage = "library" => Bridge(call) = "ok" /\ Jni(call) = "ok"
    /\ stage = "returned" =>
          \/ layer = "bridge" /\ answer = Bridge(call)
          \/ layer = "jni" /\ Bridge(call) = "ok" /\ answer = Jni(call)
          \/ layer = "library" /\ Bridge(call) = "ok" /\ Jni(call) = "ok"
                               /\ answer = Verdict(Library(call))

\* The invariant holds throughout a call.
LEMMA CallInvariant == WrapsSpec => []WrapsInv
<1>1. WrapsInit => WrapsInv
  BY ProperType DEF WrapsInit, WrapsInv
<1>2. WrapsInv /\ [WrapsNext]_wrapsVars => WrapsInv'
  <2> SUFFICES ASSUME WrapsInv, [WrapsNext]_wrapsVars PROVE WrapsInv'
    OBVIOUS
  <2>1. CASE MakeMistake
    <3>1. /\ stage = "caller" /\ stage' = stage /\ layer' = layer /\ answer' = answer
          /\ mistakes' = mistakes + 1 /\ Possible(call')
      BY <2>1 DEF MakeMistake
    <3>2. call' \in CallType
      <4>0. call \in CallType /\ call.book \in BookType /\ call.next \in BookType
        BY DEF WrapsInv, CallType
      <4>1. CASE \E f \in Arguments(call.op) : \E v \in WrongArgument[f] : call' = [call EXCEPT ![f] = v]
        <5>1. PICK f \in Arguments(call.op) : \E v \in WrongArgument[f] : call' = [call EXCEPT ![f] = v]
          BY <4>1
        <5>2. PICK v \in WrongArgument[f] : call' = [call EXCEPT ![f] = v]
          BY <5>1
        <5>3. [call EXCEPT ![f] = v] \in CallType
          BY <4>0, WrongCall, Zenon
        <5> QED
          BY <5>2, <5>3, Zenon
      <4>2. CASE \E f \in DOMAIN Wrong : \E v \in Wrong[f] : call' = [call EXCEPT !.book[f] = v]
        <5>0. PICK f \in DOMAIN Wrong : \E v \in Wrong[f] : call' = [call EXCEPT !.book[f] = v]
          BY <4>2
        <5>1. PICK v \in Wrong[f] : call' = [call EXCEPT !.book[f] = v]
          BY <5>0
        <5>2. [call.book EXCEPT ![f] = v] \in BookType
          BY <4>0, WrongBook
        <5> QED
          BY <4>0, <5>1, <5>2 DEF CallType
      <4>3. CASE \E f \in DOMAIN Wrong : \E v \in Wrong[f] : call' = [call EXCEPT !.next[f] = v]
        <5>0. PICK f \in DOMAIN Wrong : \E v \in Wrong[f] : call' = [call EXCEPT !.next[f] = v]
          BY <4>3
        <5>1. PICK v \in Wrong[f] : call' = [call EXCEPT !.next[f] = v]
          BY <5>0
        <5>2. [call.next EXCEPT ![f] = v] \in BookType
          BY <4>0, WrongBook
        <5> QED
          BY <4>0, <5>1, <5>2 DEF CallType
      <4>4. \/ \E f \in Arguments(call.op) : \E v \in WrongArgument[f] : call' = [call EXCEPT ![f] = v]
            \/ \E f \in DOMAIN Wrong : \E v \in Wrong[f] : call' = [call EXCEPT !.book[f] = v]
            \/ \E f \in DOMAIN Wrong : \E v \in Wrong[f] : call' = [call EXCEPT !.next[f] = v]
        BY <2>1, Zenon DEF MakeMistake
      <4> QED
        BY <4>1, <4>2, <4>3, <4>4, Zenon
    <3> QED
      BY <3>1, <3>2 DEF WrapsInv
  <2>2. CASE Enter
    BY <2>2 DEF Enter, Pass, WrapsInv
  <2>3. CASE Decode
    BY <2>3 DEF Decode, Pass, WrapsInv
  <2>4. CASE Run
    BY <2>4 DEF Run, Pass, WrapsInv
  <2>5. CASE UNCHANGED wrapsVars
    BY <2>5 DEF wrapsVars, WrapsInv
  <2> QED
    BY <2>1, <2>2, <2>3, <2>4, <2>5 DEF WrapsNext
<1> QED
  BY <1>1, <1>2, PTL DEF WrapsSpec

\* For every committee the bridge admits, whatever its size and the number of its
\* signers, the three layers let the calls of the protocol through.
THEOREM ProperCallsAreLetThrough == WrapsSpec => []ProperCallsPass
<1>1. ASSUME WrapsInv PROVE ProperCallsPass
  <2> SUFFICES ASSUME mistakes = 0, Norm(call.book.keys) <= BRIDGE_MAX_AB_SIZE
               PROVE  answer \in {"none", "ok"}
    BY DEF ProperCallsPass
  <2>1. Bridge(call) = "ok" /\ Jni(call) = "ok" /\ Library(call)
    BY <1>1, ProperPasses DEF WrapsInv
  <2> QED
    BY <1>1, <2>1 DEF WrapsInv, Verdict
<1> QED
  BY <1>1, CallInvariant, PTL

\* Whatever a caller gets wrong, and however many arguments of a call, what the
\* bridge lets through is refused below only for its contents.
THEOREM RefusalsBelowAreForContents == WrapsSpec => []OnlyContentsAreRefusedLater
<1>1. ASSUME WrapsInv PROVE OnlyContentsAreRefusedLater
  <2>1. call \in CallType /\ Possible(call) /\ call.op \in Operations
    BY <1>1 DEF WrapsInv, CallType
  <2>2. Bridge(call) \in {"ok", "refused"}
    BY <2>1, BridgeDoesNotThrow
  <2>3. ASSUME Bridge(call) = "ok"
        PROVE  /\ Jni(call) \in {"ok", "refused"} /\ (Jni(call) = "refused" => Contents(call))
               /\ ~Library(call) => Contents(call)
    <3>1. CASE call.op \in Phases
      BY <2>1, <2>3, <3>1, PhaseDecodes, PhaseRuns
    <3>2. CASE call.op \in OtherCalls
      BY <2>1, <2>3, <3>2, OthersDecode
    <3> QED
      BY <2>1, <3>1, <3>2 DEF OtherCalls
  <2>4. answer # "thrown"
    BY <1>1, <2>2, <2>3 DEF WrapsInv, Verdict
  <2>5. layer \in {"jni", "library"} /\ answer = "refused" => Contents(call)
    BY <1>1, <2>3 DEF WrapsInv, Verdict
  <2> QED
    BY <2>4, <2>5 DEF OnlyContentsAreRefusedLater, Contents
<1> QED
  BY <1>1, CallInvariant, PTL

-----------------------------------------------------------------------------
(* The ceremony.                                                           *)
HIDE WrapsBridgeAssumption
USE CeremonyAssumption

\* The exponents form a field's multiplication.

\* Products stay in the field.
LEMMA MulType ==
    ASSUME NEW a \in F, NEW b \in F
    PROVE  Mul(a, b) \in F
BY DEF F, Mul

\* The remainder is the only one of its quotient.
LEMMA Remainder ==
    ASSUME NEW x \in Nat, NEW q \in Nat, NEW r \in 0 .. Prime - 1, x = Prime * q + r
    PROVE  x % Prime = r
OBVIOUS

\* Division with remainder by the order.
LEMMA Quotient ==
    ASSUME NEW x \in Nat
    PROVE  \E q \in Nat : x = Prime * q + (x % Prime)
<1> DEFINE Splits(m, q, r) == q \in Nat /\ r \in 0 .. Prime - 1 /\ m = Prime * q + r
           S == {m \in Nat : \E q, r : Splits(m, q, r)}
<1>1. 0 \in S
  <2>1. Splits(0, 0, 0) /\ 0 \in Nat
    OBVIOUS
  <2> HIDE DEF Splits
  <2> QED
    BY <2>1, Zenon
<1>2. ASSUME NEW m \in 0 .. x - 1, m \in S PROVE m + 1 \in S
  <2>1. PICK q, r : Splits(m, q, r)
    BY <1>2
  <2>2. Splits(m + 1, q + 1, 0) \/ Splits(m + 1, q, r + 1)
    BY <2>1
  <2>3. m + 1 \in Nat
    OBVIOUS
  <2> HIDE DEF Splits
  <2> QED
    BY <2>2, <2>3, Zenon
<1>3. x \in S
  <2> HIDE DEF S
  <2>1. \A m \in 0 .. x : m \in S
    BY <1>1, <1>2, UpTo
  <2> QED
    BY <2>1
<1>4. PICK q, r : Splits(x, q, r)
  BY <1>3
<1>5. x % Prime = r
  BY <1>4, Remainder
<1> QED
  BY <1>4, <1>5

\* Multiples of the order do not count.
LEMMA Residue ==
    ASSUME NEW k \in Nat, NEW y \in Nat
    PROVE  (Prime * k + y) % Prime = y % Prime
<1>1. PICK q \in Nat : y = Prime * q + (y % Prime)
  BY Quotient
<1>2. y % Prime \in 0 .. Prime - 1
  OBVIOUS
<1> DEFINE r == y % Prime
<1> HIDE DEF r
<1>3. Prime * k + y = Prime * (k + q) + r
  BY <1>1, <1>2 DEF r
<1>4. r \in 0 .. Prime - 1 /\ Prime * k + y \in Nat /\ k + q \in Nat
  BY <1>2 DEF r
<1>5. (Prime * k + y) % Prime = r
  BY <1>3, <1>4, Remainder
<1> QED
  BY <1>5 DEF r

\* A product may be reduced before it is multiplied further.
LEMMA ReducedFactor ==
    ASSUME NEW x \in Nat, NEW c \in Nat
    PROVE  ((x % Prime) * c) % Prime = (x * c) % Prime
<1> DEFINE r == x % Prime
<1>1. PICK q \in Nat : x = Prime * q + r
  BY Quotient
<1>2. r \in Nat
  OBVIOUS
<1> HIDE DEF r
<1>3. x * c = Prime * (q * c) + r * c
  BY <1>1, <1>2
<1>4. q * c \in Nat /\ r * c \in Nat
  BY <1>2
<1>5. (Prime * (q * c) + r * c) % Prime = (r * c) % Prime
  BY <1>4, Residue
<1> QED
  BY <1>3, <1>5 DEF r

\* Multiplication commutes.
LEMMA MulCommutes ==
    ASSUME NEW a \in F, NEW b \in F
    PROVE  Mul(a, b) = Mul(b, a)
<1>1. a * b = b * a
  BY DEF F
<1> QED
  BY <1>1 DEF Mul

\* Multiplication associates.
LEMMA MulAssociates ==
    ASSUME NEW a \in F, NEW b \in F, NEW c \in F
    PROVE  Mul(Mul(a, b), c) = Mul(a, Mul(b, c))
<1>1. a \in Nat /\ b \in Nat /\ c \in Nat
  BY DEF F
<1>2. a * b \in Nat /\ b * c \in Nat /\ (a * b) * c = (b * c) * a
  BY <1>1
<1>3. (((a * b) % Prime) * c) % Prime = ((a * b) * c) % Prime
  BY <1>1, <1>2, ReducedFactor
<1>4. (((b * c) % Prime) * a) % Prime = ((b * c) * a) % Prime
  BY <1>1, <1>2, ReducedFactor
<1>5. (b * c) % Prime \in Nat
  BY <1>2
<1>6. ((b * c) % Prime) * a = a * ((b * c) % Prime)
  BY <1>1, <1>5
<1> QED
  BY <1>2, <1>3, <1>4, <1>6 DEF Mul

\* Zero and one, and no zero divisors.
LEMMA MulUnits ==
    /\ 0 \in F /\ 1 \in F
    /\ \A a \in F : Mul(1, a) = a /\ Mul(a, 1) = a /\ Mul(a, 0) = 0 /\ Mul(0, a) = 0
    /\ \A a, b \in F \ {0} : Mul(a, b) # 0
<1>1. 0 \in F /\ 1 \in F
  BY DEF F
<1>2. ASSUME NEW a \in F PROVE Mul(1, a) = a /\ Mul(a, 1) = a /\ Mul(a, 0) = 0 /\ Mul(0, a) = 0
  <2>1. 1 * a = a /\ a * 1 = a /\ a * 0 = 0 /\ 0 * a = 0
    BY DEF F
  <2>2. a % Prime = a /\ 0 % Prime = 0
    BY DEF F
  <2> QED
    BY <2>1, <2>2 DEF Mul
<1> QED
  BY <1>1, <1>2 DEF Mul

-----------------------------------------------------------------------------
\* Powers.

N == MAX_SIGNERS_NUM + 1

\* p steps through the powers of t.
IsPowers(p, t) == p[0] = 1 /\ \A i \in 1 .. N : p[i] = Mul(t, p[i - 1])

\* Pow is the loop that multiplies by t.
LEMMA PowSteps ==
    ASSUME NEW t \in F
    PROVE  Pow(t) \in [0 .. N -> F] /\ IsPowers(Pow(t), t)
<1>0. N \in Nat
  BY DEF N
<1> DEFINE step == [x \in F \X (1 .. N) |-> Mul(t, x[1])]
           Rec(p) == p = [i \in 0 .. N |-> IF i = 0 THEN 1 ELSE Mul(t, p[i - 1])]
<1>1. step \in [F \X (1 .. N) -> F]
  BY MulType
<1>2. PICK f \in [0 .. N -> F] : IsRun(f, N, 1, step)
  <2> HIDE DEF step
  <2> QED
    BY <1>0, <1>1, MulUnits, RecursionExists
<1>3. IsPowers(f, t)
  <2>1. f[0] = 1
    BY <1>2 DEF IsRun
  <2>2. ASSUME NEW i \in 1 .. N PROVE f[i] = Mul(t, f[i - 1])
    <3>1. f[i - 1] \in F
      BY <1>0
    <3>2. f[i] = step[<<f[i - 1], i>>]
      BY <1>2 DEF IsRun
    <3> QED
      BY <3>1, <3>2
  <2> QED
    BY <2>1, <2>2 DEF IsPowers
<1>4. Rec(f)
  <2>1. ASSUME NEW i \in 0 .. N PROVE f[i] = IF i = 0 THEN 1 ELSE Mul(t, f[i - 1])
    BY <1>0, <1>3 DEF IsPowers
  <2> QED
    BY <2>1
<1>5. Pow(t) = CHOOSE p : Rec(p)
  BY DEF Pow, N
<1>6. Rec(Pow(t))
  <2> HIDE DEF Rec
  <2> QED
    BY <1>4, <1>5
<1>7. IsPowers(Pow(t), t)
  BY <1>0, <1>6 DEF IsPowers
<1> DEFINE S == {i \in 0 .. N : Pow(t)[i] = f[i]}
<1>8. 0 \in S
  BY <1>0, <1>3, <1>7 DEF IsPowers
<1>9. ASSUME NEW i \in 0 .. N - 1, i \in S PROVE i + 1 \in S
  <2>1. i + 1 \in 1 .. N /\ (i + 1) - 1 = i
    BY <1>0
  <2>2. Pow(t)[i + 1] = Mul(t, Pow(t)[i])
    BY <1>7, <2>1 DEF IsPowers
  <2>3. f[i + 1] = Mul(t, f[i])
    BY <1>3, <2>1 DEF IsPowers
  <2> QED
    BY <1>9, <2>1, <2>2, <2>3
<1>10. \A i \in 0 .. N : i \in S
  <2> HIDE DEF S
  <2> QED
    BY <1>0, <1>8, <1>9, UpTo
<1>11. Pow(t) = f
  BY <1>6, <1>10
<1> QED
  BY <1>3, <1>11

\* The powers of one.
LEMMA PowOne == \A i \in 0 .. N : Pow(1)[i] = 1
<1>0. N \in Nat /\ 1 \in F
  BY MulUnits DEF N
<1> DEFINE S == {i \in 0 .. N : Pow(1)[i] = 1}
<1>1. 0 \in S
  BY <1>0, PowSteps DEF IsPowers
<1>2. ASSUME NEW i \in 0 .. N - 1, i \in S PROVE i + 1 \in S
  <2>1. i + 1 \in 1 .. N /\ (i + 1) - 1 = i
    BY <1>0
  <2>2. Pow(1)[i + 1] = Mul(1, Pow(1)[i])
    BY <1>0, <2>1, PowSteps DEF IsPowers
  <2> QED
    BY <1>0, <1>2, <2>1, <2>2, MulUnits
<1>3. \A i \in 0 .. N : i \in S
  <2> HIDE DEF S
  <2> QED
    BY <1>0, <1>1, <1>2, UpTo
<1> QED
  BY <1>3

\* The factors of a product of four, regrouped.
LEMMA MulRegroups ==
    ASSUME NEW a \in F, NEW b \in F, NEW c \in F, NEW d \in F
    PROVE  Mul(Mul(a, b), Mul(c, d)) = Mul(Mul(a, c), Mul(b, d))
<1>1. Mul(c, d) \in F /\ Mul(b, d) \in F /\ Mul(b, c) \in F /\ Mul(c, b) \in F
  BY MulType
<1>2. Mul(Mul(a, b), Mul(c, d)) = Mul(a, Mul(b, Mul(c, d)))
  BY <1>1, MulAssociates
<1>3. Mul(b, Mul(c, d)) = Mul(Mul(b, c), d)
  BY MulAssociates
<1>4. Mul(Mul(c, b), d) = Mul(c, Mul(b, d))
  BY MulAssociates
<1>5. Mul(b, c) = Mul(c, b)
  BY MulCommutes
<1>6. Mul(Mul(a, c), Mul(b, d)) = Mul(a, Mul(c, Mul(b, d)))
  BY <1>1, MulAssociates
<1> QED
  BY <1>2, <1>3, <1>4, <1>5, <1>6

\* A power of a product is the product of the powers.
LEMMA PowOfProduct ==
    ASSUME NEW a \in F, NEW b \in F
    PROVE  \A i \in 0 .. N : Pow(Mul(a, b))[i] = Mul(Pow(a)[i], Pow(b)[i])
<1> DEFINE c == Mul(a, b)
<1>0. N \in Nat /\ c \in F
  BY MulType DEF N
<1> HIDE DEF c
<1>1. /\ Pow(a) \in [0 .. N -> F] /\ IsPowers(Pow(a), a)
      /\ Pow(b) \in [0 .. N -> F] /\ IsPowers(Pow(b), b)
      /\ IsPowers(Pow(c), c)
  BY <1>0, PowSteps
<1> DEFINE S == {i \in 0 .. N : Pow(c)[i] = Mul(Pow(a)[i], Pow(b)[i])}
<1>2. 0 \in S
  BY <1>0, <1>1, MulUnits DEF IsPowers
<1>3. ASSUME NEW i \in 0 .. N - 1, i \in S PROVE i + 1 \in S
  <2>1. i + 1 \in 1 .. N /\ (i + 1) - 1 = i /\ i \in 0 .. N
    BY <1>0
  <2>2. /\ Pow(a)[i + 1] = Mul(a, Pow(a)[i])
        /\ Pow(b)[i + 1] = Mul(b, Pow(b)[i])
        /\ Pow(c)[i + 1] = Mul(c, Pow(c)[i])
    BY <1>1, <2>1 DEF IsPowers
  <2>3. Pow(a)[i] \in F /\ Pow(b)[i] \in F
    BY <1>1, <2>1
  <2>4. Mul(Mul(a, b), Mul(Pow(a)[i], Pow(b)[i])) = Mul(Mul(a, Pow(a)[i]), Mul(b, Pow(b)[i]))
    BY <2>3, MulRegroups
  <2> QED
    BY <1>3, <2>1, <2>2, <2>4, SMTT(30) DEF c
<1>4. \A i \in 0 .. N : i \in S
  <2> HIDE DEF S
  <2> QED
    BY <1>0, <1>2, <1>3, UpTo
<1> QED
  BY <1>4 DEF c

\* The pairing equation of check2 between powers.
LEMMA PowShifts ==
    ASSUME NEW a \in F, NEW i \in 0 .. N - 1, NEW j \in 0 .. N - 1
    PROVE  Mul(Pow(a)[i + 1], Pow(a)[j]) = Mul(Pow(a)[i], Pow(a)[j + 1])
<1>0. N \in Nat
  BY DEF N
<1>1. /\ i + 1 \in 1 .. N /\ (i + 1) - 1 = i /\ i \in 0 .. N
      /\ j + 1 \in 1 .. N /\ (j + 1) - 1 = j /\ j \in 0 .. N
  BY <1>0
<1>2. Pow(a) \in [0 .. N -> F] /\ IsPowers(Pow(a), a)
  BY PowSteps
<1> DEFINE A == Pow(a)[i]
           B == Pow(a)[j]
<1>3. Pow(a)[i + 1] = Mul(a, A) /\ Pow(a)[j + 1] = Mul(a, B)
  BY <1>1, <1>2 DEF IsPowers
<1>4. A \in F /\ B \in F
  BY <1>1, <1>2
<1> HIDE DEF A, B
<1>5. Mul(Mul(a, A), B) = Mul(Mul(A, a), B)
  BY <1>4, MulCommutes
<1>6. Mul(Mul(A, a), B) = Mul(A, Mul(a, B))
  BY <1>4, MulAssociates
<1> QED
  BY <1>3, <1>5, <1>6 DEF A, B

\* The first two powers.
LEMMA PowFirst ==
    ASSUME NEW a \in F
    PROVE  N >= 1 /\ Pow(a)[0] = 1 /\ Pow(a)[1] = a
<1>0. 1 \in 1 .. N /\ 1 - 1 = 0 /\ N >= 1
  BY DEF N
<1>1. Pow(a)[0] = 1 /\ Pow(a)[1] = Mul(a, Pow(a)[0])
  BY <1>0, PowSteps DEF IsPowers
<1> QED
  BY <1>0, <1>1, MulUnits

-----------------------------------------------------------------------------
\* Towers.

Towers(d) == [g : [0 .. d -> F], h : [0 .. d -> F]]
TowersOf(t, d) == [g |-> PowersOf(t, d), h |-> PowersOf(t, d)]

\* The length of a tower.
LEMMA TowerLength ==
    ASSUME NEW d \in Nat, NEW tower, DOMAIN tower = 0 .. d
    PROVE  TowerLen(tower) = d + 1
<1>1. Cardinality(0 .. d) = IF 0 > d THEN 0 ELSE d - 0 + 1
  BY FS_Interval
<1> QED
  BY <1>1 DEF TowerLen

\* Two towers of the same length are read back, and pass for one another if
\* they have three elements.
LEMMA TowersRead ==
    ASSUME NEW d \in 1 .. N, NEW c \in Towers(d)
    PROVE  /\ deserialize_jbyte_array(c) = {c}
           /\ TowerLen(c.g) = d + 1 /\ TowerLen(c.h) = d + 1
<1>0. d \in Nat
  BY DEF N
<1>1. DOMAIN c.g = 0 .. d /\ DOMAIN c.h = 0 .. d
  BY DEF Towers
<1>2. c # Unreadable
  <2>1. 0 \in DOMAIN c.g
    BY <1>0, <1>1
  <2>2. DOMAIN Unreadable.g = {}
    BY DEF Unreadable
  <2> QED
    BY <2>1, <2>2
<1>3. deserialize_jbyte_array(c) = {c}
  BY <1>2 DEF deserialize_jbyte_array
<1> QED
  BY <1>0, <1>1, <1>3, TowerLength

\* The towers of a secret are towers, and hold its powers.
LEMMA TowersOfPowers ==
    ASSUME NEW t \in F, NEW d \in 1 .. N
    PROVE  /\ TowersOf(t, d) \in Towers(d)
           /\ \A i \in 0 .. d : TowersOf(t, d).g[i] = Pow(t)[i] /\ TowersOf(t, d).h[i] = Pow(t)[i]
           /\ TowersOf(t, d).g[0] = 1 /\ TowersOf(t, d).h[0] = 1
           /\ TowersOf(t, d).g[1] = t /\ TowersOf(t, d).h[1] = t
<1>0. d \in Nat /\ N \in Nat /\ 0 .. d \subseteq 0 .. N /\ 0 \in 0 .. d /\ 1 \in 0 .. d
  BY DEF N
<1>1. Pow(t) \in [0 .. N -> F]
  BY PowSteps
<1>2. PowersOf(t, d) \in [0 .. d -> F] /\ \A i \in 0 .. d : PowersOf(t, d)[i] = Pow(t)[i]
  BY <1>0, <1>1 DEF PowersOf
<1>3. Pow(t)[0] = 1 /\ Pow(t)[1] = t
  BY PowFirst
<1> QED
  BY <1>0, <1>2, <1>3 DEF TowersOf, Towers

\* What check2 and check3 accept is two towers of powers of one number.
LEMMA CheckedTowers ==
    ASSUME NEW d \in 1 .. N, NEW c \in Towers(d), check2(c), check3(c)
    PROVE  c.g[1] \in F \ {0} /\ c = TowersOf(c.g[1], d)
<1> DEFINE t == c.g[1]
<1>0. d \in Nat /\ N \in Nat /\ 0 \in 0 .. d /\ 1 \in 0 .. d /\ 0 \in 0 .. d - 1 /\ 0 .. d \subseteq 0 .. N
  BY DEF N
<1>1. /\ c.g \in [0 .. d -> F] /\ c.h \in [0 .. d -> F]
      /\ c = [g |-> c.g, h |-> c.h]
  BY DEF Towers
<1>2. TowerLen(c.g) - 2 = d - 1
  BY <1>0, TowersRead
<1>3. \A i, j \in 0 .. d - 1 : Mul(c.g[i + 1], c.h[j]) = Mul(c.g[i], c.h[j + 1])
  BY <1>2 DEF check2
<1>4. c.g[0] = 1 /\ c.h[0] = 1 /\ t # 0 /\ t \in F
  BY <1>0, <1>1 DEF check3
<1> HIDE DEF t
<1>5. c.g[1] = t /\ c.h[1] = t
  <2>1. Mul(c.g[0 + 1], c.h[0]) = Mul(c.g[0], c.h[0 + 1])
    BY <1>0, <1>3
  <2>2. Mul(c.g[1], 1) = Mul(1, c.h[1])
    BY <1>4, <2>1
  <2>3. c.g[1] \in F /\ c.h[1] \in F
    BY <1>0, <1>1
  <2> QED
    BY <2>2, <2>3, MulUnits DEF t
<1>6. ASSUME NEW i \in 0 .. d - 1
      PROVE  c.g[i + 1] = Mul(t, c.g[i]) /\ c.h[i + 1] = Mul(t, c.h[i])
  <2>1. i \in 0 .. d /\ i + 1 \in 0 .. d
    BY <1>0
  <2>2. c.g[i] \in F /\ c.h[i] \in F /\ c.g[i + 1] \in F /\ c.h[i + 1] \in F
    BY <1>1, <2>1
  <2>3. Mul(c.g[i + 1], c.h[0]) = Mul(c.g[i], c.h[0 + 1])
    BY <1>0, <1>3
  <2>4. c.g[i + 1] = Mul(c.g[i], t)
    BY <1>4, <1>5, <2>2, <2>3, MulUnits, SMTT(30)
  <2>5. Mul(c.g[0 + 1], c.h[i]) = Mul(c.g[0], c.h[i + 1])
    BY <1>0, <1>3
  <2>6. c.h[i + 1] = Mul(t, c.h[i])
    BY <1>4, <1>5, <2>2, <2>5, MulUnits
  <2> QED
    BY <1>4, <2>2, <2>4, <2>6, MulCommutes
<1>7. Pow(t) \in [0 .. N -> F] /\ IsPowers(Pow(t), t)
  BY <1>4, PowSteps
<1> DEFINE S == {i \in 0 .. d : c.g[i] = Pow(t)[i] /\ c.h[i] = Pow(t)[i]}
<1>8. 0 \in S
  BY <1>0, <1>4, <1>7 DEF IsPowers
<1>9. ASSUME NEW i \in 0 .. d - 1, i \in S PROVE i + 1 \in S
  <2>1. i + 1 \in 1 .. N /\ (i + 1) - 1 = i /\ i + 1 \in 0 .. d
    BY <1>0
  <2>2. Pow(t)[i + 1] = Mul(t, Pow(t)[i])
    BY <1>7, <2>1 DEF IsPowers
  <2> QED
    BY <1>6, <1>9, <2>1, <2>2
<1>10. \A i \in 0 .. d : i \in S
  <2> HIDE DEF S
  <2> QED
    BY <1>0, <1>8, <1>9, UpTo
<1>11. c.g = PowersOf(t, d) /\ c.h = PowersOf(t, d)
  BY <1>1, <1>10 DEF PowersOf
<1> QED
  BY <1>1, <1>4, <1>11 DEF TowersOf, t

\* The towers of the powers of any number but zero pass check2 and check3.
LEMMA PowersCheck ==
    ASSUME NEW t \in F, NEW d \in 1 .. N
    PROVE  check2(TowersOf(t, d)) /\ (check3(TowersOf(t, d)) <=> t # 0)
<1> DEFINE c == TowersOf(t, d)
<1>0. d \in Nat /\ N \in Nat
  BY DEF N
<1>1. /\ c \in Towers(d) /\ c.g[0] = 1 /\ c.h[0] = 1 /\ c.g[1] = t /\ c.h[1] = t
      /\ \A i \in 0 .. d : c.g[i] = Pow(t)[i] /\ c.h[i] = Pow(t)[i]
  BY TowersOfPowers
<1> HIDE DEF c
<1>2. TowerLen(c.g) - 2 = d - 1
  BY <1>0, <1>1, TowersRead
<1>3. ASSUME NEW i \in 0 .. d - 1, NEW j \in 0 .. d - 1
      PROVE  Mul(c.g[i + 1], c.h[j]) = Mul(c.g[i], c.h[j + 1])
  <2>1. /\ i \in 0 .. N - 1 /\ j \in 0 .. N - 1
        /\ i \in 0 .. d /\ j \in 0 .. d /\ i + 1 \in 0 .. d /\ j + 1 \in 0 .. d
    BY <1>0
  <2>2. Mul(Pow(t)[i + 1], Pow(t)[j]) = Mul(Pow(t)[i], Pow(t)[j + 1])
    BY <2>1, PowShifts
  <2> QED
    BY <1>1, <2>1, <2>2
<1>4. check2(c)
  BY <1>2, <1>3 DEF check2
<1>5. check3(c) <=> t # 0
  BY <1>1 DEF check3
<1> QED
  BY <1>4, <1>5 DEF c

-----------------------------------------------------------------------------
\* The operations on towers of powers.

\* A CRS fit for a contribution.
LEMMA Contributable ==
    ASSUME NEW d \in 1 .. N, NEW c \in Towers(d)
    PROVE  validate_crs_tower_lengths(c, c) <=> d >= 2
<1>1. TowerLen(c.g) = d + 1 /\ TowerLen(c.h) = d + 1 /\ d \in Nat
  BY TowersRead DEF N
<1> QED
  BY <1>1 DEF validate_crs_tower_lengths

\* A contribution multiplies tau by the contributor's secret.
LEMMA ContributionMultiplies ==
    ASSUME NEW t \in F, NEW d \in 2 .. N, NEW r \in F, NEW z \in F
    PROVE  contribute(TowersOf(t, d), r, z) =
               {[crs |-> TowersOf(Mul(t, r), d), proof |-> schnorr_nizk(t, Mul(t, r), r, z), r |-> r]}
<1> DEFINE c == TowersOf(t, d)
           u == Mul(t, r)
           g == [i \in DOMAIN c.g |-> Mul(c.g[i], Pow(r)[i])]
           h == [i \in DOMAIN c.h |-> Mul(c.h[i], Pow(r)[i])]
<1>0. d \in 1 .. N /\ d >= 2 /\ u \in F /\ 0 .. d \subseteq 0 .. N /\ 1 \in 0 .. d /\ d \in Nat
  BY MulType DEF N
<1>1. c \in Towers(d) /\ c.g[1] = t /\ \A i \in 0 .. d : c.g[i] = Pow(t)[i] /\ c.h[i] = Pow(t)[i]
  BY <1>0, TowersOfPowers
<1> HIDE DEF c
<1>2. DOMAIN c.g = 0 .. d /\ DOMAIN c.h = 0 .. d
  BY <1>1 DEF Towers
<1>3. \A i \in 0 .. d : Pow(u)[i] = Mul(Pow(t)[i], Pow(r)[i])
  BY <1>0, PowOfProduct
<1>4. g = PowersOf(u, d) /\ h = PowersOf(u, d)
  BY <1>1, <1>2, <1>3 DEF PowersOf
<1>5. g[1] = u
  <2>1. PowersOf(u, d)[1] = Pow(u)[1]
    BY <1>0 DEF PowersOf
  <2> HIDE DEF g, u
  <2> QED
    BY <1>0, <1>4, <2>1, PowFirst
<1>6. validate_crs_tower_lengths(c, c)
  BY <1>0, <1>1, Contributable
<1>7. contribute(c, r, z) =
          {[crs |-> [g |-> g, h |-> h], proof |-> schnorr_nizk(c.g[1], g[1], r, z), r |-> r]}
  BY <1>6 DEF contribute
<1> HIDE DEF g, h, u
<1>8. [g |-> g, h |-> h] = TowersOf(u, d)
  BY <1>4 DEF TowersOf
<1> QED
  BY <1>1, <1>5, <1>7, <1>8 DEF c, u

\* updateCRS reads a CRS and contributes to it.
LEMMA UpdateContributes ==
    ASSUME NEW d \in 1 .. N, NEW c \in Towers(d), NEW seed
    PROVE  updateCRS(c, seed) = contribute(c, seed[1], seed[2])
<1>1. deserialize_jbyte_array(c) = {c}
  BY TowersRead
<1> QED
  BY <1>1 DEF updateCRS, updateCRSImpl

\* Pruning keeps the first powers.
LEMMA PruningKeepsPowers ==
    ASSUME NEW t \in F, NEW d \in 1 .. N, NEW k \in Int
    PROVE  pruneCRS(TowersOf(t, d), k) =
               IF d >= 2 /\ k \in 1 .. d THEN {TowersOf(t, k)} ELSE {}
<1> DEFINE c == TowersOf(t, d)
<1>0. d \in Nat /\ d <= N /\ N = MAX_SIGNERS_NUM + 1 /\ N \in Nat
  BY DEF N
<1>1. c \in Towers(d) /\ \A i \in 0 .. d : c.g[i] = Pow(t)[i] /\ c.h[i] = Pow(t)[i]
  BY TowersOfPowers
<1> HIDE DEF c
<1>2. /\ deserialize_jbyte_array(c) = {c} /\ TowerLen(c.g) = d + 1
      /\ validate_crs_tower_lengths(c, c) <=> d >= 2
  BY <1>1, TowersRead, Contributable
<1>3. CASE ~(k >= 1 /\ k <= MAX_SIGNERS_NUM + 1)
  BY <1>0, <1>3 DEF pruneCRS, c
<1>4. CASE k >= 1 /\ k <= MAX_SIGNERS_NUM + 1
  <2>1. pruneCRS(c, k) = prune_crs(c, k)
    BY <1>2, <1>4 DEF pruneCRS, pruneCRSImpl
  <2>2. CASE ~(d >= 2 /\ k < d + 1)
    BY <1>0, <1>2, <1>4, <2>1, <2>2, SMTT(30) DEF prune_crs, c
  <2>3. CASE d >= 2 /\ k < d + 1
    <3>1. prune_crs(c, k) = {[g |-> [i \in 0 .. k |-> c.g[i]], h |-> [i \in 0 .. k |-> c.h[i]]]}
      BY <1>2, <2>3 DEF prune_crs
    <3>2. 0 .. k \subseteq 0 .. d
      BY <1>0, <2>3
    <3>3. [i \in 0 .. k |-> c.g[i]] = PowersOf(t, k) /\ [i \in 0 .. k |-> c.h[i]] = PowersOf(t, k)
      BY <1>1, <3>2 DEF PowersOf
    <3>4. prune_crs(c, k) = {TowersOf(t, k)}
      BY <3>1, <3>3 DEF TowersOf
    <3>5. k \in 1 .. d
      BY <1>0, <1>4, <2>3
    <3> QED
      BY <2>1, <2>3, <3>4, <3>5 DEF c
  <2> QED
    BY <2>2, <2>3
<1> QED
  BY <1>3, <1>4

\* What verify_contribution accepts on top of the powers of t are the powers of
\* t times the secret that the proof is about.
LEMMA AcceptedMultiplies ==
    ASSUME NEW t \in F \ {0}, NEW d \in 1 .. N, NEW m \in 1 .. N, NEW c \in Towers(m),
           NEW proof, proof.r \in F, verify_contribution(TowersOf(t, d), c, proof)
    PROVE  d >= 2 /\ Mul(t, proof.r) \in F \ {0} /\ c = TowersOf(Mul(t, proof.r), d)
<1> DEFINE p == TowersOf(t, d)
<1>1. p \in Towers(d) /\ p.g[1] = t
  BY TowersOfPowers
<1> HIDE DEF p
<1>2. /\ validate_crs_tower_lengths(p, c) /\ check1(t, c.g[1], proof)
      /\ check2(c) /\ check3(c)
  BY <1>1 DEF verify_contribution, p
<1>3. /\ TowerLen(p.g) = d + 1 /\ TowerLen(c.g) = m + 1
      /\ d \in Nat /\ m \in Nat
  BY <1>1, TowersRead DEF N
<1>4. d >= 2 /\ m = d
  <2>1. TowerLen(p.g) >= 3 /\ TowerLen(p.g) = TowerLen(c.g)
    BY <1>2 DEF validate_crs_tower_lengths
  <2> QED
    BY <1>3, <2>1
<1>5. c.g[1] \in F \ {0} /\ c = TowersOf(c.g[1], d)
  BY <1>2, <1>4, CheckedTowers
<1>6. Mul(t, proof.r) = c.g[1]
  BY <1>2, <1>5 DEF check1
<1> QED
  BY <1>4, <1>5, <1>6

-----------------------------------------------------------------------------
\* The product of the secrets.

\* w is a run of the multiplications by the elements of s.
IsProductRun(w, n, s) ==
    /\ w[0] = 1
    /\ \A i \in 1 .. n : w[i] = Mul(w[i - 1], s[i])
    /\ w[n] = FoldLeft(Mul, 1, s)

\* Tau is what a loop over the secrets that multiplies by one at a time ends with.
LEMMA ProductLoop ==
    ASSUME NEW n \in Nat, NEW list \in [1 .. n -> F]
    PROVE  \E w \in [0 .. n -> F] : IsProductRun(w, n, list)
<1> DEFINE op(t, r) == Mul(t, r)
           step == [x \in F \X (1 .. n) |-> op(x[1], list[x[2]])]
           Rec(g) == g = [s \in SUBSET DOMAIN list |->
                             IF s = {} THEN 1 ELSE op(g[s \ {Max(s)}], list[Max(s)])]
           g == CHOOSE h : Rec(h)
<1>1. FoldLeft(Mul, 1, list) = g[DOMAIN list]
  BY Zenon DEF FoldLeft, MapThenFoldSet
<1>2. 1 \in F /\ DOMAIN list = 1 .. n
  BY MulUnits
<1>3. ASSUME NEW t \in F, NEW r \in F PROVE op(t, r) \in F
  BY MulType
<1> HIDE DEF op
<1>4. step \in [F \X (1 .. n) -> F]
  BY <1>3
<1>5. PICK f \in [SUBSET (1 .. n) -> F] : IsFold(f, n, 1, step)
  <2> HIDE DEF step
  <2> QED
    BY <1>2, <1>4, FoldExists
<1>6. Rec(f)
  <2>1. f[{}] = 1
    BY <1>5 DEF IsFold
  <2>2. ASSUME NEW s \in SUBSET (1 .. n), s # {} PROVE f[s] = op(f[s \ {Max(s)}], list[Max(s)])
    <3>1. Max(s) \in 1 .. n /\ f[s \ {Max(s)}] \in F
      BY <2>2, MaxProperties
    <3>2. f[s] = step[<<f[s \ {Max(s)}], Max(s)>>]
      BY <1>5, <2>2 DEF IsFold
    <3> QED
      BY <3>1, <3>2
  <2> QED
    BY <1>2, <2>1, <2>2
<1>7. Rec(g)
  <2> HIDE DEF Rec
  <2> QED
    BY <1>6
<1> HIDE DEF g
<1>8. IsPartialFold(g, n, F, 1, step)
  <2>1. g[{}] = 1
    BY <1>7
  <2>2. ASSUME NEW s \in SUBSET (1 .. n), s # {}, g[s \ {Max(s)}] \in F
        PROVE  g[s] = step[<<g[s \ {Max(s)}], Max(s)>>]
    <3>1. Max(s) \in 1 .. n
      BY <2>2, MaxProperties
    <3>2. g[s] = op(g[s \ {Max(s)}], list[Max(s)])
      BY <1>2, <1>7, <2>2
    <3> QED
      BY <2>2, <3>1, <3>2
  <2> QED
    BY <2>1, <2>2 DEF IsPartialFold
<1> DEFINE w == PartialFolds(g, n)
<1>9. w \in [0 .. n -> F] /\ IsRun(w, n, 1, step)
  <2> HIDE DEF step
  <2> QED
    BY <1>2, <1>4, <1>8, FoldPrefixes
<1>10. w[n] = FoldLeft(Mul, 1, list)
  BY <1>1, <1>2 DEF PartialFolds
<1> HIDE DEF w
<1>11. w[0] = 1 /\ \A i \in 1 .. n : w[i] = op(w[i - 1], list[i])
  <2>1. \A i \in 1 .. n : w[i] = step[<<w[i - 1], i>>]
    BY <1>9 DEF IsRun
  <2>2. \A i \in 1 .. n : w[i - 1] \in F
    BY <1>9
  <2> QED
    BY <1>9, <2>1, <2>2 DEF IsRun
<1> QED
  BY <1>9, <1>10, <1>11 DEF op, IsProductRun

\* Without a contribution the secret is one.
LEMMA EmptyProduct == FoldLeft(Mul, 1, <<>>) = 1
<1>1. <<>> \in [1 .. 0 -> F]
  OBVIOUS
<1>2. PICK w \in [0 .. 0 -> F] : IsProductRun(w, 0, <<>>)
  BY <1>1, ProductLoop
<1> QED
  BY <1>2 DEF IsProductRun

\* One more secret multiplies the product by it.
LEMMA ProductOfAppend ==
    ASSUME NEW s \in Seq(F), NEW r \in F
    PROVE  FoldLeft(Mul, 1, Append(s, r)) = Mul(FoldLeft(Mul, 1, s), r)
<1> DEFINE n == Len(s)
           t == Append(s, r)
<1>1. /\ n \in Nat /\ s \in [1 .. n -> F] /\ t \in [1 .. n + 1 -> F]
      /\ t[n + 1] = r /\ \A i \in 1 .. n : t[i] = s[i]
  <2>1. n \in Nat /\ s \in [1 .. n -> F]
    OBVIOUS
  <2>2. t \in Seq(F) /\ Len(t) = n + 1
    OBVIOUS
  <2>3. t \in [1 .. n + 1 -> F]
    <3> HIDE DEF t, n
    <3> QED
      BY <2>2
  <2>4. t[n + 1] = r /\ \A i \in 1 .. n : t[i] = s[i]
    OBVIOUS
  <2> QED
    BY <2>1, <2>3, <2>4
<1> HIDE DEF n, t
<1>2. PICK v \in [0 .. n -> F] : IsProductRun(v, n, s)
  BY <1>1, ProductLoop
<1>3. n + 1 \in Nat
  BY <1>1
<1>4. PICK w \in [0 .. n + 1 -> F] : IsProductRun(w, n + 1, t)
  BY <1>1, <1>3, ProductLoop
<1> DEFINE S == {i \in 0 .. n : w[i] = v[i]}
<1>5. 0 \in S
  BY <1>1, <1>2, <1>4, SMTT(30) DEF IsProductRun
<1>6. ASSUME NEW i \in 0 .. n - 1, i \in S PROVE i + 1 \in S
  <2>1. i + 1 \in 1 .. n /\ i + 1 \in 1 .. n + 1 /\ (i + 1) - 1 = i
    BY <1>1
  <2>2. v[i + 1] = Mul(v[i], s[i + 1])
    BY <1>2, <2>1 DEF IsProductRun
  <2>3. w[i + 1] = Mul(w[i], t[i + 1])
    BY <1>4, <2>1 DEF IsProductRun
  <2> QED
    BY <1>1, <1>6, <2>1, <2>2, <2>3
<1>7. n \in S
  <2>1. \A i \in 0 .. n : i \in S
    <3> HIDE DEF S
    <3> QED
      BY <1>1, <1>5, <1>6, UpTo
  <2> QED
    BY <1>1, <2>1
<1>8. w[n + 1] = Mul(w[n], t[n + 1])
  <2>1. n + 1 \in 1 .. n + 1 /\ (n + 1) - 1 = n
    BY <1>1
  <2> QED
    BY <1>4, <2>1 DEF IsProductRun
<1>9. v[n] = FoldLeft(Mul, 1, s) /\ w[n + 1] = FoldLeft(Mul, 1, t)
  BY <1>2, <1>4, Zenon DEF IsProductRun
<1> QED
  BY <1>1, <1>7, <1>8, <1>9 DEF t

-----------------------------------------------------------------------------
\* The ceremony.

IsCrs(c) == \E d \in 1 .. N : c \in Towers(d)

\* A contribution carries the secret that its proof is about.
IsContribution(p) == IsCrs(p.crs) /\ p.r \in F /\ p.proof.r = p.r

\* Every CRS in circulation is two towers of elements, and the current one is
\* the powers of the product of the secrets.
IInv ==
    /\ factors \in Seq(F)
    /\ Tau \in F \ {0}
    /\ \E d \in 1 .. N : crs = TowersOf(Tau, d)
    /\ DOMAIN held = Contributors
    /\ \A a \in Contributors : \A c \in held[a] : IsCrs(c)
    /\ \A p \in contributions : IsContribution(p)

\* What is made on top of two towers is two towers.
LEMMA ContributionType ==
    ASSUME NEW d \in 1 .. N, NEW c \in Towers(d), NEW r \in F, NEW z, NEW made \in contribute(c, r, z)
    PROVE  IsContribution(made)
<1> DEFINE g == [i \in DOMAIN c.g |-> Mul(c.g[i], Pow(r)[i])]
           h == [i \in DOMAIN c.h |-> Mul(c.h[i], Pow(r)[i])]
           proof == schnorr_nizk(c.g[1], g[1], r, z)
<1>0. d \in Nat /\ N \in Nat /\ 0 .. d \subseteq 0 .. N
  BY DEF N
<1>1. c.g \in [0 .. d -> F] /\ c.h \in [0 .. d -> F]
  BY DEF Towers
<1>2. Pow(r) \in [0 .. N -> F]
  BY PowSteps
<1>3. g \in [0 .. d -> F] /\ h \in [0 .. d -> F]
  BY <1>0, <1>1, <1>2, MulType
<1>4. made = [crs |-> [g |-> g, h |-> h], proof |-> proof, r |-> r]
  BY DEF contribute
<1>5. proof.r = r
  BY DEF schnorr_nizk
<1> HIDE DEF g, h, proof
<1>6. [g |-> g, h |-> h] \in Towers(d)
  BY <1>3 DEF Towers
<1>7. made.crs \in Towers(d) /\ made.r = r /\ made.proof.r = r
  BY <1>4, <1>5, <1>6
<1> QED
  BY <1>7 DEF IsContribution, IsCrs

\* A damaged CRS of equally long towers still is two towers of elements.
LEMMA DamagedTowers ==
    ASSUME NEW m \in 1 .. N, NEW c \in Towers(m), NEW x \in Damaged(c), x # Unreadable,
           TowerLen(x.g) = TowerLen(x.h)
    PROVE  x \in Towers(m)
<1>0. m \in Nat /\ m >= 1 /\ m - 1 \in Nat
  BY DEF N
<1>1. TowerLen(c.g) - 2 = m - 1 /\ TowerLen(c.g) = m + 1
  BY <1>0, TowersRead, SMTT(30)
<1>2. c.g \in [0 .. m -> F] /\ c.h \in [0 .. m -> F]
  BY DEF Towers
<1> DEFINE cut == [i \in 0 .. TowerLen(c.g) - 2 |-> c.h[i]]
<1>3. x # [g |-> c.g, h |-> cut]
  <2> SUFFICES ASSUME x = [g |-> c.g, h |-> cut] PROVE FALSE
    OBVIOUS
  <2>1. DOMAIN cut = 0 .. m - 1
    BY <1>1
  <2> HIDE DEF cut
  <2>2. x.g = c.g /\ x.h = cut
    OBVIOUS
  <2>3. TowerLen(cut) = (m - 1) + 1
    BY <1>0, <2>1, TowerLength
  <2> QED
    BY <1>0, <1>1, <2>2, <2>3
<1>4. PICK i \in DOMAIN c.g, v \in F : x \in DamagedAt(c, i, v)
  BY <1>3, SMTT(30) DEF Damaged
<1> DEFINE g == [c.g EXCEPT ![i] = v]
           h == [c.h EXCEPT ![i] = v]
<1>5. g \in [0 .. m -> F] /\ h \in [0 .. m -> F]
  BY <1>2
<1>6. x \in {[g |-> g, h |-> c.h], [g |-> c.g, h |-> h], [g |-> g, h |-> h]}
  BY <1>4 DEF DamagedAt
<1> HIDE DEF g, h
<1> QED
  BY <1>2, <1>5, <1>6 DEF Towers

\* Whatever is delivered and accepted on top of the powers of t is the powers of
\* t times the secret of the contribution whose proof came with it.
LEMMA AcceptedDelivery ==
    ASSUME \A p \in contributions : IsContribution(p), NEW t \in F \ {0}, NEW d \in 1 .. N,
           NEW x \in Delivered, verifyCRS(TowersOf(t, d), x.crs, x.by.proof)
    PROVE  /\ d >= 2 /\ x.by.r \in F /\ x.by.proof.r = x.by.r
           /\ Mul(t, x.by.r) \in F \ {0}
           /\ x.crs = TowersOf(Mul(t, x.by.r), d)
<1> DEFINE c == x.crs
           proof == x.by.proof
<1>1. PICK p \in contributions, q \in contributions : c \in Damaged(p.crs) /\ x.by = q
  BY SMTT(30) DEF Delivered
<1>2. PICK m \in 1 .. N : p.crs \in Towers(m)
  BY <1>1 DEF IsContribution, IsCrs
<1>3. x.by.r \in F /\ proof.r = x.by.r
  BY <1>1 DEF IsContribution
<1> DEFINE prev == TowersOf(t, d)
<1>4. deserialize_jbyte_array(prev) = {prev}
  BY TowersRead, TowersOfPowers, SMTT(30)
<1> HIDE DEF prev, c, proof
<1>5. c # Unreadable /\ verify_contribution(prev, c, proof)
  BY <1>4 DEF verifyCRS, verifyCRSImpl, deserialize_jbyte_array, prev, c, proof
<1>6. TowerLen(c.g) = TowerLen(c.h)
  BY <1>5 DEF verify_contribution, validate_crs_tower_lengths
<1>7. c \in Towers(m)
  BY <1>1, <1>2, <1>5, <1>6, DamagedTowers
<1>8. d >= 2 /\ Mul(t, proof.r) \in F \ {0} /\ c = TowersOf(Mul(t, proof.r), d)
  BY <1>3, <1>5, <1>7, AcceptedMultiplies DEF prev
<1> QED
  BY <1>3, <1>8 DEF c, proof

\* initCRS makes the powers of one.
LEMMA InitialTowers ==
    ASSUME NEW k \in Int, NEW c \in initCRS(k)
    PROVE  k \in 1 .. N /\ c = TowersOf(1, k)
<1>1. k \in 1 .. N /\ c = init(k)
  BY DEF initCRS, initCRSImpl, N
<1>2. \A i \in 0 .. k : Pow(1)[i] = 1
  BY <1>1, PowOne DEF N
<1>3. PowersOf(1, k) = [i \in 0 .. k |-> 1]
  BY <1>2 DEF PowersOf
<1> QED
  BY <1>1, <1>3 DEF init, TowersOf

\* The initial CRS has the invariant.
LEMMA CeremonyInit == Init => IInv
<1> SUFFICES ASSUME Init PROVE IInv
  OBVIOUS
<1>1. PICK k \in SignersNums : crs \in initCRS(k)
  BY DEF Init
<1>2. k \in 1 .. N /\ crs = TowersOf(1, k)
  BY <1>1, InitialTowers
<1>3. factors = <<>> /\ Tau = 1
  BY EmptyProduct DEF Init, Tau
<1>4. factors \in Seq(F) /\ Tau \in F \ {0}
  BY <1>3, MulUnits
<1>5. \E d \in 1 .. N : crs = TowersOf(Tau, d)
  BY <1>2, <1>3
<1>6. /\ DOMAIN held = Contributors
      /\ \A a \in Contributors : \A c \in held[a] : IsCrs(c)
      /\ \A p \in contributions : IsContribution(p)
  BY DEF Init
<1> QED
  BY <1>4, <1>5, <1>6 DEF IInv

\* Every step of the ceremony keeps the invariant.
LEMMA CeremonyStep == IInv /\ [Next]_vars => IInv'
<1> SUFFICES ASSUME IInv, [Next]_vars PROVE IInv'
  OBVIOUS
<1>0. PICK d \in 1 .. N : crs = TowersOf(Tau, d)
  BY DEF IInv
<1>1. /\ factors \in Seq(F) /\ Tau \in F \ {0}
      /\ DOMAIN held = Contributors
      /\ \A a \in Contributors : \A c \in held[a] : IsCrs(c)
      /\ \A p \in contributions : IsContribution(p)
  BY DEF IInv
<1>2. crs \in Towers(d) /\ IsCrs(crs)
  BY <1>0, <1>1, TowersOfPowers DEF IsCrs
<1>3. ASSUME NEW a \in Contributors, Fetch(a) PROVE IInv'
  <2>1. /\ held' = [held EXCEPT ![a] = {crs}]
        /\ crs' = crs /\ contributions' = contributions /\ factors' = factors
    BY <1>3 DEF Fetch
  <2>2. Tau' = Tau
    BY <2>1 DEF Tau
  <2>3. DOMAIN held' = Contributors /\ \A b \in Contributors : \A c \in held'[b] : IsCrs(c)
    BY <1>1, <1>2, <2>1
  <2> QED
    BY <1>0, <1>1, <2>1, <2>2, <2>3 DEF IInv
<1>4. ASSUME NEW a \in Contributors, Contribute(a) PROVE IInv'
  <2>1. PICK c \in held[a], seed \in Seeds : \E made \in updateCRS(c, seed) :
            contributions' = contributions \cup {made}
    BY <1>4 DEF Contribute
  <2>2. PICK made \in updateCRS(c, seed) : contributions' = contributions \cup {made}
    BY <2>1
  <2>3. /\ held' = [held EXCEPT ![a] = {}]
        /\ crs' = crs /\ factors' = factors
    BY <1>4 DEF Contribute
  <2>4. PICK k \in 1 .. N : c \in Towers(k)
    BY <1>1 DEF IsCrs
  <2>5. IsContribution(made)
    <3>1. made \in contribute(c, seed[1], seed[2])
      BY <2>4, UpdateContributes
    <3>2. seed[1] \in F
      OBVIOUS
    <3> QED
      BY <2>4, <3>1, <3>2, ContributionType
  <2>6. Tau' = Tau
    BY <2>3 DEF Tau
  <2>7. DOMAIN held' = Contributors /\ \A b \in Contributors : \A x \in held'[b] : IsCrs(x)
    BY <1>1, <2>3
  <2>8. \A p \in contributions' : IsContribution(p)
    BY <1>1, <2>2, <2>5
  <2> QED
    BY <1>0, <1>1, <2>3, <2>6, <2>7, <2>8 DEF IInv
<1>5. CASE Adopt
  <2>1. PICK x \in Delivered : /\ verifyCRS(crs, x.crs, x.by.proof)
                               /\ crs' = x.crs
                               /\ factors' = Append(factors, x.by.r)
    BY <1>5 DEF Adopt
  <2>2. held' = held /\ contributions' = contributions
    BY <1>5 DEF Adopt
  <2>3. /\ x.by.r \in F /\ Mul(Tau, x.by.r) \in F \ {0}
        /\ x.crs = TowersOf(Mul(Tau, x.by.r), d)
    BY <1>0, <1>1, <2>1, AcceptedDelivery
  <2>4. factors' \in Seq(F) /\ Tau' = Mul(Tau, x.by.r)
    <3>1. FoldLeft(Mul, 1, Append(factors, x.by.r)) = Mul(FoldLeft(Mul, 1, factors), x.by.r)
      BY <1>1, <2>3, ProductOfAppend
    <3>2. Tau' = FoldLeft(Mul, 1, Append(factors, x.by.r))
      BY <2>1 DEF Tau
    <3>3. factors' \in Seq(F)
      BY <1>1, <2>1, <2>3, SMTT(30)
    <3> QED
      BY <3>1, <3>2, <3>3 DEF Tau
  <2>5. crs' = TowersOf(Tau', d)
    BY <2>1, <2>3, <2>4
  <2> QED
    BY <1>1, <2>2, <2>3, <2>4, <2>5 DEF IInv
<1>6. ASSUME NEW k \in SignersNums, Prune(k) PROVE IInv'
  <2>1. /\ crs' \in pruneCRS(crs, k)
        /\ held' = held /\ contributions' = contributions /\ factors' = factors
    BY <1>6 DEF Prune
  <2>2. pruneCRS(crs, k) = IF d >= 2 /\ k \in 1 .. d THEN {TowersOf(Tau, k)} ELSE {}
    BY <1>0, <1>1, PruningKeepsPowers
  <2>3. k \in 1 .. N /\ crs' = TowersOf(Tau, k)
    BY <2>1, <2>2 DEF N
  <2>4. Tau' = Tau
    BY <2>1 DEF Tau
  <2> QED
    BY <1>1, <2>1, <2>3, <2>4 DEF IInv
<1>7. CASE UNCHANGED vars
  <2>1. crs' = crs /\ held' = held /\ contributions' = contributions /\ factors' = factors
    BY <1>7 DEF vars
  <2>2. Tau' = Tau
    BY <2>1 DEF Tau
  <2> QED
    BY <1>0, <1>1, <2>1, <2>2 DEF IInv
<1> QED
  BY <1>3, <1>4, <1>5, <1>6, <1>7 DEF Next

\* The invariant holds throughout the ceremony.
LEMMA CeremonyInvariant == Spec => []IInv
BY CeremonyInit, CeremonyStep, PTL DEF Spec

\* The current CRS under the invariant.
LEMMA CurrentCrs ==
    ASSUME IInv
    PROVE  /\ Tau \in F \ {0} /\ Degree \in 1 .. N
           /\ crs = TowersOf(Tau, Degree) /\ crs \in Towers(Degree)
<1>1. PICK d \in 1 .. N : crs = TowersOf(Tau, d)
  BY DEF IInv
<1>2. Tau \in F \ {0}
  BY DEF IInv
<1>3. crs \in Towers(d) /\ d \in Nat
  BY <1>1, <1>2, TowersOfPowers, SMTT(30) DEF N
<1>4. Degree = d
  BY <1>3, TowersRead DEF Degree
<1> QED
  BY <1>1, <1>2, <1>3, <1>4

\* However contributions, stale, damaged or with another's proof, are delivered,
\* the coordinator's CRS is the powers of the product of the secrets whose proofs
\* verifyCRS accepted.
THEOREM TauIsTheProduct == Spec => []TauIsTheProductOfSecrets
<1>1. ASSUME IInv PROVE TauIsTheProductOfSecrets
  BY <1>1, CurrentCrs DEF TauIsTheProductOfSecrets, TowersOf
<1> QED
  BY <1>1, CeremonyInvariant, PTL

\* What verifyCRS says of a CRS and of what updateCRS makes of it.
LEMMA HonestContribution ==
    ASSUME NEW t \in F \ {0}, NEW d \in 2 .. N, NEW seed \in Seeds
    PROVE  LET made == [crs   |-> TowersOf(Mul(t, seed[1]), d),
                        proof |-> schnorr_nizk(t, Mul(t, seed[1]), seed[1], seed[2]),
                        r     |-> seed[1]]
           IN  /\ updateCRS(TowersOf(t, d), seed) = {made}
               /\ verifyCRS(TowersOf(t, d), made.crs, made.proof) <=> seed[1] # 0
<1> DEFINE r == seed[1]
           z == seed[2]
           u == Mul(t, r)
           c == TowersOf(t, d)
           n == TowersOf(u, d)
           proof == schnorr_nizk(t, u, r, z)
<1>0. d \in 1 .. N /\ d >= 2 /\ d \in Nat
  BY DEF N
<1>1. r \in F /\ z \in F
  OBVIOUS
<1>2. u \in F /\ (u # 0 <=> r # 0)
  BY <1>1, MulType, MulUnits
<1>3. c \in Towers(d) /\ c.g[1] = t
  BY <1>0, TowersOfPowers
<1>4. n \in Towers(d) /\ n.g[1] = u
  BY <1>0, <1>2, TowersOfPowers
<1>5. updateCRS(c, seed) = {[crs |-> n, proof |-> proof, r |-> r]}
  <2>1. updateCRS(c, seed) = contribute(c, r, z)
    BY <1>0, <1>3, UpdateContributes
  <2>2. contribute(c, r, z) = {[crs |-> n, proof |-> proof, r |-> r]}
    BY <1>1, ContributionMultiplies, SMTT(30)
  <2> QED
    BY <2>1, <2>2
<1>6. check2(n) /\ (check3(n) <=> u # 0)
  BY <1>0, <1>2, PowersCheck
<1>7. check1(t, u, proof)
  BY DEF check1, schnorr_nizk
<1> HIDE DEF c, n, proof, u, r, z
<1>8. validate_crs_tower_lengths(c, n)
  BY <1>0, <1>3, <1>4, TowersRead DEF validate_crs_tower_lengths
<1>9. verify_contribution(c, n, proof) <=> r # 0
  BY <1>2, <1>3, <1>4, <1>6, <1>7, <1>8 DEF verify_contribution
<1>10. deserialize_jbyte_array(c) = {c} /\ deserialize_jbyte_array(n) = {n}
  BY <1>0, <1>3, <1>4, TowersRead
<1>11. verifyCRS(c, n, proof) <=> r # 0
  BY <1>9, <1>10 DEF verifyCRS, verifyCRSImpl
<1> QED
  BY <1>5, <1>11 DEF c, n, proof, u, r, z

\* A contribution to the current CRS verifies exactly if its secret is not zero,
\* whatever came before.
THEOREM FreshContributionsAreAccepted == Spec => []FreshContributionsVerify
<1>1. ASSUME IInv PROVE FreshContributionsVerify
  <2> SUFFICES ASSUME Degree >= 2, NEW seed \in Seeds
               PROVE  /\ updateCRS(crs, seed) # {}
                      /\ \A made \in updateCRS(crs, seed) :
                            verifyCRS(crs, made.crs, made.proof) <=> seed[1] # 0
    BY DEF FreshContributionsVerify
  <2>1. Tau \in F \ {0} /\ Degree \in 2 .. N /\ crs = TowersOf(Tau, Degree)
    BY <1>1, CurrentCrs DEF N
  <2> DEFINE made == [crs   |-> TowersOf(Mul(Tau, seed[1]), Degree),
                      proof |-> schnorr_nizk(Tau, Mul(Tau, seed[1]), seed[1], seed[2]),
                      r     |-> seed[1]]
  <2>2. /\ updateCRS(crs, seed) = {made}
        /\ verifyCRS(crs, made.crs, made.proof) <=> seed[1] # 0
    BY <2>1, HonestContribution
  <2> HIDE DEF made
  <2> QED
    BY <2>2
<1> QED
  BY <1>1, CeremonyInvariant, PTL

\* Pruning commutes with contributing and with verifying, at every size.
THEOREM PruningIsSound == Spec => []PruningCommutes
<1>1. ASSUME IInv PROVE PruningCommutes
  <2>1. Tau \in F \ {0} /\ Degree \in 1 .. N /\ crs = TowersOf(Tau, Degree)
    BY <1>1, CurrentCrs
  <2>2. \A p \in contributions : IsContribution(p)
    BY <1>1 DEF IInv
  <2> DEFINE t == Tau
             d == Degree
  <2> HIDE DEF t, d
  <2> SUFFICES ASSUME NEW k \in SignersNums \cap 2 .. d, NEW small \in pruneCRS(crs, k)
               PROVE  /\ \A seed \in Seeds : \A made \in updateCRS(crs, seed) :
                            {m.crs : m \in updateCRS(small, seed)} = pruneCRS(made.crs, k)
                      /\ \A x \in Delivered :
                            verifyCRS(crs, x.crs, x.by.proof) =>
                               \E pruned \in pruneCRS(x.crs, k) : verifyCRS(small, pruned, x.by.proof)
    BY DEF PruningCommutes, d
  <2>3. /\ k \in Int /\ k \in 1 .. d /\ k \in 2 .. N /\ k \in 1 .. N
        /\ d >= 2 /\ d \in 2 .. N /\ d \in 1 .. N
    BY <2>1 DEF N, d
  <2>4. t \in F \ {0} /\ crs = TowersOf(t, d)
    BY <2>1 DEF t, d
  <2>5. small = TowersOf(t, k)
    BY <2>3, <2>4, PruningKeepsPowers
  <2>6. ASSUME NEW u \in F PROVE pruneCRS(TowersOf(u, d), k) = {TowersOf(u, k)}
    BY <2>3, PruningKeepsPowers
  <2>7. ASSUME NEW seed \in Seeds, NEW made \in updateCRS(crs, seed)
        PROVE  {m.crs : m \in updateCRS(small, seed)} = pruneCRS(made.crs, k)
    <3> DEFINE u == Mul(t, seed[1])
               proof == schnorr_nizk(t, u, seed[1], seed[2])
    <3>1. seed[1] \in F
      OBVIOUS
    <3>2. u \in F
      BY <2>4, <3>1, MulType
    <3>3. updateCRS(crs, seed) = {[crs |-> TowersOf(u, d), proof |-> proof, r |-> seed[1]]}
      BY <2>3, <2>4, HonestContribution
    <3>4. updateCRS(small, seed) = {[crs |-> TowersOf(u, k), proof |-> proof, r |-> seed[1]]}
      BY <2>3, <2>4, <2>5, HonestContribution
    <3> HIDE DEF u, proof
    <3>5. made.crs = TowersOf(u, d)
      BY <3>3
    <3>6. {m.crs : m \in updateCRS(small, seed)} = {TowersOf(u, k)}
      BY <3>4
    <3> QED
      BY <2>6, <3>2, <3>5, <3>6
  <2>8. ASSUME NEW x \in Delivered, verifyCRS(crs, x.crs, x.by.proof)
        PROVE  \E pruned \in pruneCRS(x.crs, k) : verifyCRS(small, pruned, x.by.proof)
    <3> DEFINE proof == x.by.proof
               u == Mul(t, x.by.r)
               n == TowersOf(u, k)
    <3>1. u \in F \ {0} /\ x.crs = TowersOf(u, d)
      BY <2>2, <2>3, <2>4, <2>8, AcceptedDelivery
    <3>2. pruneCRS(x.crs, k) = {n}
      BY <2>6, <3>1
    <3>3. crs \in Towers(d) /\ crs.g[1] = t /\ x.crs \in Towers(d) /\ x.crs.g[1] = u
      <4> HIDE DEF u
      <4>1. crs \in Towers(d) /\ crs.g[1] = t
        BY <2>3, <2>4, TowersOfPowers
      <4>2. x.crs \in Towers(d) /\ x.crs.g[1] = u
        BY <2>3, <3>1, TowersOfPowers, SMTT(30)
      <4> QED
        BY <4>1, <4>2, Zenon
    <3>4. small \in Towers(k) /\ small.g[1] = t /\ n \in Towers(k) /\ n.g[1] = u
      <4> HIDE DEF u
      <4>1. small \in Towers(k) /\ small.g[1] = t
        BY <2>3, <2>4, <2>5, TowersOfPowers
      <4>2. n \in Towers(k) /\ n.g[1] = u
        BY <2>3, <3>1, TowersOfPowers
      <4> QED
        BY <4>1, <4>2, Zenon
    <3>5. check2(n) /\ check3(n)
      BY <2>3, <3>1, PowersCheck
    <3> HIDE DEF u, n, proof
    <3>6. deserialize_jbyte_array(crs) = {crs} /\ deserialize_jbyte_array(x.crs) = {x.crs}
      BY <2>3, <3>3, TowersRead
    <3>7. check1(t, u, proof)
      BY <2>8, <3>3, <3>6 DEF verifyCRS, verifyCRSImpl, verify_contribution, proof
    <3>8. validate_crs_tower_lengths(small, n)
      BY <2>3, <3>4, TowersRead, SMTT(30) DEF validate_crs_tower_lengths
    <3>9. verify_contribution(small, n, proof)
      BY <3>4, <3>5, <3>7, <3>8 DEF verify_contribution
    <3>10. deserialize_jbyte_array(small) = {small} /\ deserialize_jbyte_array(n) = {n}
      BY <2>3, <3>4, TowersRead
    <3>11. verifyCRS(small, n, proof)
      BY <3>9, <3>10 DEF verifyCRS, verifyCRSImpl
    <3> QED
      BY <3>2, <3>11 DEF proof
  <2> QED
    BY <2>7, <2>8
<1> QED
  BY <1>1, CeremonyInvariant, PTL
=============================================================================
