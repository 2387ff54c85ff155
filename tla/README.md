# A verification project for hiero-cryptography

TLA+ modules for the cryptographic library of the Hiero ledger, TLC
configurations that check them on small instances, and TLAPS proofs. Paths are
relative to the repository; *nova-wraps* is
`cryptography/hedera-cryptography-wraps/src/main/rust/nova-wraps/src`, *hints*
is `cryptography/hedera-cryptography-hints/src/main/rust`.

## The system

| Part | Where | Modelled by |
|---|---|---|
| Address books: validation, padding, commitment, weights, threshold | nova-wraps `wraps.rs`, `utils.rs` | `AddressBook`, `WeightTally` |
| The circuit that proves one rotation | nova-wraps `circuit.rs` | `WeightTally` (weights), `RotationChain` (the step) |
| The three-round Schnorr multisignature | nova-wraps `schnorr.rs`, `wraps.rs` | `SigningProtocol`, abstractly `Endorsement` |
| The chain of rotation proofs | nova-wraps `wraps.rs` | `RotationChain`, `Ledger`, abstractly `AttestedChain` |
| Caches shared by JNI threads | hints `jni_cache.rs` | `JniMapCache` |
| hinTS threshold signatures | hints `hints.rs`, `kzg.rs`, `utils.rs`, `transcript.rs` | `Hints` |
| Their JNI layer and Java bridge | hints `jni_hints.rs`, `HintsLibraryBridge.java` | `HintsNetwork` |
| The CRS ceremony | hints `setup.rs`, `jni_crs.rs`, `HintsLibraryBridge.java` | `CrsCeremony` |
| JNI layer and Java bridge of WRAPS | nova-wraps `jni_wraps.rs`, `jni_util.rs`, `WRAPSLibraryBridge.java` | `WrapsBridge` |
| TSS verification, its cache, and the resources of WRAPS | `tss/TSS.java`, `tss/LRUCache.java`, `jni_wraps.rs` | `TssVerification` |
| Native library loading | `common/hedera-common-nativesupport` | `NativeLoading`, abstractly `LoadOnce` |
| External processes | `common/hedera-common-nativesupport`, `api/` | not modelled: see the end |
| Ethereum sync committees, point encodings | hints `jni_eth.rs`, `jni_blst.rs`, `EthereumBlsBridge.java` | `SyncAggregate` |
| DER encoder and X.509 signer | `cryptography/security` | `Oid`, `DerEncoder`, `X509Signer` |
| secp256k1, sodium and xkcp bindings | `libsecp256k1`, `libsodium`, `libxkcp` | not modelled: argument checks in front of one stateless native call |

How they interact: a committee (the address book) is asked to sign a rotation
message, the hashes of the next book and of the next hinTS verification key.
Its members run the signing protocol; the signature goes to
`construct_wraps_proof`, which folds one step into a running proof; anybody
verifies the compressed proof against the ledger id, the rotation message of
the genesis book. The hinTS key it attests then verifies threshold signatures.
Java code reaches both libraries through JNI.

## Conventions

The group is additive with generator 1: a public key is its secret key modulo
`Order`, the identity is 0. Hashes are collision free, so a hash is what it
was made from; `Ledger` names books and lets a hash be the first book of the
same padded content. A proof of knowledge is the secret it was made with. A
padded bitvector is the set of seats it selects. `MaxWeight` is `u64::MAX`.
A result that may be an error is a set: `{}` for `Err`, `{v}` for `Ok(v)`.
`Lists` has the few operators on lists that the models and their proofs share.

Operators whose comment begins "A mutant" are deliberate bugs. No
specification uses them; each is put in the place of the definition after it
to see that a property notices.

## Modules and runs

### AddressBook, WeightTally — run `weight_tally`

`AddressBook` holds the pure rules under their Rust names
(`verify_address_book`, `pad_address_book`, `hash_address_book`,
`signing_subset`, `subset_weight`, `meets_threshold`). Its loops are folds of
a step operator (`VerifyStep`, `TallyStep`). `WeightTally` runs the same steps
as a state machine: `VisitSeat` advances the validation of the book, the
native sums and the circuit's field sums by one seat, for two bitvectors at
once. Every value of the constants is in reach of a proof that way. `TypeOK` is
checked here because the proofs rest on it.

* `NativeMatchesCircuit`: `verify_signature` and the circuit accept the same
  subsets, also of books nobody validated, with overflowing totals, with ties
  and with weight listed on empty seats.
* `MajoritiesOverlap`: two accepted subsets share a seat with a key and weight.
* `VerdictIsOrderFree`: the early-exit loop of `verify_address_book` decides a
  property of the book that does not mention order.
* `ValidBooksHaveATotal`: a validated book never overflows later.

Bounds: three seats, weights up to 3, a field of 23. Three seats are enough
for a majority, a tie, a duplicate and an empty seat at once; the entries
include an empty seat with weight, repeated keys and a wrong proof. The run
ends when the last seat is visited, so deadlock is not checked.

### SigningProtocol — run `signing`

The library keeps no state between rounds. The state is what its callers keep
(`phase`, and the round-1 list `held` they hand to R2 and R3), everything ever
sent (`pool`) and the signatures put together (`outputs`). `R1`, `R2`, `R3`
and `Aggregate` are successful calls of `signing_protocol`; a refused call
changes nothing. The caller is external and assumed to do what the comments of
`signing_protocol` ask for: fresh entropy for each instance, and one list of
round-1 messages for R2 and R3. Nonces, challenges and responses are symbolic
(the pair a nonce is derived from, the bag of nonces a sum is made of).

Each behaviour runs one of two crowds of instances. In the mixed crowd
there are two sessions of overlapping members, one that names an empty seat, a
member that restarts, and a member that uses a seed again for another message. A
call may be given any list of messages of the right length and round, from any
session, in any order, with repetitions. In the routed crowd each session is
given its own messages in subset order, one instance for each member.

* `AggregateVerifies`: what `Aggregate` returns passes `verify_signature`
  exactly if the subset has the weight.
* `NonceAnswersOneChallenge`: a nonce never answers two challenges.
* `SharesAnswerCommittedNonces`: a share answers the nonces the signer held
  commitments to when it opened its own, which is at its key's position.
* `ImplementsEndorsement`: the rounds refine `Endorsement`, in which a
  signature needs the consent of all it names.

* `SessionsComplete`: every routed session the library accepts, and whose keys
  do not cancel, ends with a signature. (One routed session has keys that cancel.)

Fairness is weak, of each round of a routed session: a caller repeats a call
until it is accepted. Mixed sessions may get stuck (a share for the wrong list
is not taken back), so nothing is promised of them and deadlock is not checked.
A member that loses its seed makes its session start again: that is outside the
liveness property.

### RotationChain, Ledger, AttestedChain — run `rotation_chain`

`Ledger` has the books, hints keys and messages. `RotationChain` has the
consents given and the running proofs returned. `Construct` is one successful
call of `construct_wraps_proof`: the checks of books and bitvector, genesis or
resumption, the metadata check, the step and the verification of the result.
Nova's recursive SNARK is external and ideal: it remembers its length, its ends
and whether all its steps satisfied the circuit; `Satisfied` is the circuit.
What can be signed is what `Endorsement` allows. Consent is standing: the signed
message names the next book and hints key, not the height or the ledger. A
caller may resume any proof it has, or one assembled from the statement, final
state and SNARK of several.

* `ImplementsAttestedChain`: the proofs refine `AttestedChain`: every statement
  is reached from a genesis book by rotations a quorum of the book in force
  consented to.
* `AcceptedStatementsAreAttested`: a verifier accepts only such statements,
  of the ledger and hints key it asked about.
* `ForksAreAccountable`: two heads of a ledger at one height lead back to a
  member, with weight, that consented to two successors of one book.
* `HeadsCanRotate`: from any proof returned, a quorum's consent is enough for
  the next call to succeed.

Bounds: two books over three members, two hints keys (interchangeable, so a
symmetry set), three steps, three proofs, six consents: enough for a genesis, a
rotation, and a fork or a second ledger. When the bounds are used up nothing
more happens, so deadlock is not checked.

### JniMapCache — run `jni_map_cache`

A `get` is two critical sections (`LookUp`, `Insert`) with the deserialization,
which may fail (`FailToDeserialize`), between them and outside the lock; `Reset` comes from
`resetCache`. An `Arc` is identified by the deserialization that made it.
`uses` is a history of the keys returned since the last reset.

* `ReturnsItsOwnKey`: whatever happened in between, a get returns the value of
  its key or the error of a malformed one.
* `HoldsTheMostRecent`: map and list hold exactly the keys used last, in order;
  so the `assert_eq!` of `insert` does not fire under the lock.
* `CachedValuesAreShared`: a cached value is not replaced while it is cached.
* `EveryGetReturns`, under weak fairness of the second section: no thread holds
  the lock outside an action.

Bounds: two threads, three calls each, a cache of two for three good keys and a
malformed one: eviction, a double miss and a reset in between all occur. Threads
stop after their calls, so deadlock is not checked.

### Hints and HintsNetwork — run `hints_network`

`Hints` is the scheme of `hints.rs` as operators over a small prime field. The
CRS point tau is unknown to everyone, so a commitment is an exponent as a
function of tau, tabulated at more points (`Taus`, two cosets of the evaluation
domain) than any degree that occurs: an equation of pairings holds exactly if
the polynomials are equal. The Lagrange, quotient and running-sum algebra of
hint generation, preprocessing, `assemble_witness`, `prove` and `verify` is
therefore computed, not assumed. Challenges are ideal: a merged relation holds
if each of its four parts does, an opening if the claim is the committed
polynomial's, and two transcripts agree if they absorbed the same. `exact` is
decided on the domain, where divisibility by its vanishing polynomial is.

`HintsNetwork` calls it the way the bridge does: `Preprocess` takes arrays (a
roster), validates them and fills a map in which a repeated party keeps its last
entry; `SignBls` adds a partial signature; `AggregateSignatures` combines any
partial signatures filed under any slots, the reserved one included, with any
aggregation and any verification key about, and remembers call and result.
Verification changes no state and is used by the properties.

* `VerifiedPartialsAggregate`: partial signatures that pass `verifyBls` always
  aggregate, and the result verifies exactly if the weight of the parties in
  the roster, in plain arithmetic, strictly exceeds the threshold.
* `AcceptedWeightSigned`: whatever was aggregated, acceptance means that parties
  of that key's roster of more than the threshold's weight signed that message
  with the secrets registered in it.
* `MismatchedKeysDoNotVerify`: keys of different rosters do not combine, even
  if the rosters differ only in a party that did not sign.

Bounds: four slots, field of order 101, three usable rosters (one re-keys a
party, one lists a party twice and leaves a slot empty) and two that are
refused, at most two of them preprocessed; five signings of two messages; calls
with up to three partial signatures, one call remembered. The CRS is one power
larger than needed, as the code allows, so that the reserved slot passes the
bridge and meets the check in `assemble_witness`. Secrets are chosen so that no
few of them add up to others (`NetworkAssumption`), as random ones do. Signing
may stop, so deadlock is not checked.

### CrsCeremony — run `crs_ceremony`

The library keeps no state in the ceremony either. A coordinator (external)
holds the current CRS and adopts what `verifyCRS` accepts; contributors `Fetch`
it, `Contribute` a secret and publish. `Adopt` takes any contribution, as
published, damaged in one place, or with the proof of another; `Prune` cuts the
CRS to a size. Elements are exponents in a field of 11; an equation under a
random challenge holds if its coefficients agree, which is what `check1`,
`check2` and `check3` decide in `setup.rs` but for a negligible probability.

* `TauIsTheProductOfSecrets`: the CRS is always two towers of powers of one
  tau, the product of exactly the secrets that were accepted, none zero.
* `FreshContributionsVerify`: an honest contribution to the current CRS is
  accepted, whatever happened before.
* `PruningCommutes`: pruning both sides keeps a contribution valid, and pruning
  before or after gives the same CRS.

Bounds: two interchangeable contributors, three contributions, three sizes:
enough for a contribution that is overtaken by another and by a pruning. The
bound ends the ceremony, so deadlock is not checked.

### NativeLoading, LoadOnce — run `native_loading`

`getInstance` step by step for each thread: the unsynchronized check of the
flag, the loader's monitor, the second check, the path cache's monitor, and in
it the temporary directory, the copy, the permissions and `System.load`. Any
step may fail; the next call starts over. (That the package of the library is open is
not in the model: the static initializer of each bridge has seen to it.) Two of the three bridges share a
library, each with a loader and a monitor of its own. The path cache maps a
library to the extraction it was loaded from. `Exit` ends the JVM at any
moment and deletes what `deleteOnExit` registered, last first.

* `ImplementsLoadOnce`: the steps refine `LoadOnce`, the promise in the
  documentation of `SingletonLoader`: a library is linked at most once, and
  nobody has an instance before it is.
* `CacheIsWhatIsLinked`: the path cache has the linked libraries and no others,
  but for one that the holder of its monitor is about to enter; this is why.
* `LoadedLibrariesAreCleanedUp`: an exit leaves nothing behind of a library whose
  path is cached, and nothing at all if no step failed and none was under way.
* `EveryCallReturns`, under weak fairness of every thread: a thread that is
  scheduled goes on. Monitors are not assumed to be fair.

Bounds: two threads, two failures. The JVM ends, so deadlock is not checked.

### TssVerification — run `tss_verification`

`verifyTSS` by several threads: the length checks, the look-up in the cache of
verified proofs, the verification outside the monitor, the insertion, and the
check of the hinTS signature; next to it the operations that need the public
parameters. A resource is loaded by the initializer of a Java class, run once
while others wait, into a `OnceLock` of the native side. What the native
verifiers decide is a constant: `RotationChain` and `Hints` model them.

* `AcceptedVerifies`: only a proof and a signature that verify for one hinTS key
  and this ledger are accepted, whatever other threads cached or evicted.
* `RefusalsAreExplained`: a refusal or an exception has a cause: the
  arguments, a resource that is not packaged, or a fault.
* `SupportMatchesTheCells`: what the Java side says is supported is what the
  native side holds.
* `HoldsTheMostRecent`: the cache is a least-recently-used cache.
* `EveryCallReturns`, under weak fairness of every thread.

Bounds: two threads, a cache of two, one fault, resources good, corrupt or
missing; requests that share proofs, keys and ledgers, one more than fit.
Threads stop after their calls, so deadlock is not checked.

### WrapsBridge — run `wraps_bridge`

A call on its way through the bridge (`Enter`), the JNI functions (`Decode`) and
the library's own checks (`Run`). It starts as the call the protocol asks for,
and `MakeMistake` makes up to two of its arguments wrong. Arrays are their lengths and
a word on their elements, so the limits are those of the code.

* `ProperCallsPass`: every proper call passes all three layers.
* `OnlyContentsAreRefusedLater`: what the bridge lets through is never refused
  for a length, a count or a phase, and no wrong argument ends in an exception.

A call ends, so deadlock is not checked.

### Oid, DerEncoder, X509Signer — runs `x509_signer`, `x509_oid_pattern`

`Oid` is `OID.emit` as operators; numbers are byte sequences, as they may be
larger than any integer. `MASK`, `Septet` and `pack7Oid` compute with the masks of
the code; `Subidentifier` is X.690, bit by bit, and `IsOid` says what has an
encoding. `DerEncoder` has the calls in progress as a stack of instructions: a
box is measured (`EncodeBox`, `Emit`), then its tag and length are written and its
contents emitted again or, inside an outer measurement, just added (`Finish`).
An RDN encodes each attribute on a stream of its own (`Tmp`, `Take`) and writes
them in order (`Sorted`). Content is a run of equal bytes, of any size.
`X509Signer` says what each model emits, and encodes, signs, resets the stream,
encodes again and has the JDK parse the result. The JDK's signature and parser are
external, and either may fail (`SignFails`, `ParseFails`). `Der` is the reference:
X.690 by recursion over the model.

The masks of `pack7Oid` are right for components of up to 47 bits (`WithinMask`),
and the first two properties say so. Their inputs have wider components too.

* `WritesDer`: what is on the stream is always a beginning of the reference
  encoding, and in the end all of it; the bytes signed are those of the
  certificate asked for, and no measurement is open when the stream is used again.
* `RefusesOnlyTheUnencodable`: an identifier that is malformed or too long makes
  `sign` throw, and so does the JDK if it does not sign or does not parse; nothing
  else does.
* `PassesAreFew`: values are emitted, in total, at most as often as if each were
  emitted twice for each box around it and twice more. (A comment in `DerOutputStream` speaks of two passes; that is so
  for each box.)

The certificates have contents of 255, 256, 65535, 65536, 2^24-1 and 2^24 bytes,
inner boxes around 127 and 128, repeated and unsorted attributes, an empty
value, no extensions and an empty list of them, and the array of measurements starts
with two places, so that it grows twice. Components of identifiers have one to nine
bytes, at the edges of septets and bytes. An instant is its year. Signing ends, so
deadlock is not checked.

`x509_oid_pattern` is expected to fail. It takes the comment on `MASK`, "We only need
%7 combinations, and then the pattern repeats" (`OID.java:70`), at its word:
`PatternRepeats` is what the first two properties say, without their bound. But
septets and bytes line up again only after eight septets. A component of 48 to 55 bits
makes `emit` read before the start of the array and throw, which is what TLC shows;
wider ones are encoded wrong. No identifier in the repository has one.

### SyncAggregate — run `sync_aggregate`

A caller decompresses points (`Prepare`), may have the keys validated, and has
an aggregate verified: `Verify` is the bridge's checks and the decoding before
the loop, `TakeOff` one absent key, `verify_signers` the end. A point is a
discrete logarithm modulo 5 or off the subgroup; an encoding is a sequence of
field elements with their padding and high bits, in the order of EIP-2537, read
by blst (external) in another. One array may be wrong in one of nine ways.
Absent keys come in any order.

* `VerdictIsFastAggregateVerify`: the verdict is that of the plain sum of the
  keys present, also if partial sums are the identity or keys repeat.
* `ValidatedKeysAreTaken`: what validation accepts, and what decompression
  returns, is not refused later, but for the identity.

That the absent keys are distinct members of the committee is up to the caller
(the warning on `verifySyncAggregate`), and assumed. Deadlock is not checked, as
a call ends.

## Proofs

No theorem has an assumption other than the named ones on constants, which TLC
evaluates for the instances of the runs.

Eight modules hold them, some for two components:

| Module | Proves properties of |
|---|---|
| `FoldTheorems` | loops (lemmas only) |
| `AddressBookProofs` | `AddressBook` |
| `RotationProofs` | `RotationChain`, `WeightTally` |
| `SigningProtocolProofs` | `SigningProtocol` |
| `SharedStateProofs` | `NativeLoading`, `JniMapCache` |
| `TssVerificationProofs` | `TssVerification` |
| `SyncAggregateProofs` | `SyncAggregate` |
| `LibraryBridgeProofs` | `CrsCeremony`, `WrapsBridge` |

The proofs of `WeightTally` establish its five properties for every
number of seats, weight bound and book, from the assumptions in `AddressBook`
and `WeightTally`; the only strong one is that the field is larger than twice
the largest possible sum plus two, which a 254-bit field and 64 seats of 64-bit
weights satisfy.

The properties speak about the end of the loop, so they need an inductive
invariant, `TallyInv`: the circuit's sums stay small enough that no addition of the
remaining seats can wrap (`NoWrap`); the native sums are the circuit's as long
as they fit, and once they do not, the circuit's total does not either
(`Follows`); the validation has seen the keys of the seats visited, and fails
exactly if those seats are already bad (`BookSoFar`); and if the subsets share no
live seat so far, their weights together do not exceed the total.
`CircuitStepIsExact` and `TallyFollows` are the arithmetic of one seat;
`VisitSeatPreserves` puts them together.

`FoldTheorems` is what the other proofs know of loops. The library's induction
theorems take an operator as a parameter, which the provers cannot instantiate;
`UpTo` states induction for a property given as the set of numbers that have it,
and is proved from the well-foundedness of the naturals. With it `FoldExists` and
`FoldPrefixes` show that `FoldLeft` is a loop: there is a sequence of
intermediate values, one for each prefix, each a step from the one before. A fold
is then reasoned about like a loop, with an invariant of the intermediate values.

`AddressBookProofs` does so for the pure rules, for books of any size.
`MajoritiesIntersect`: two bitvectors that each carry a strict majority of books
with the same keys and weights share a seat with a key and weight. The invariant
of the two sums, taken together: as long as no such seat was shared, the two
signing weights add up to at most the total. `ValidBooksTally`: `subset_weight` of
a validated book, padded, does not overflow, as it adds what
`verify_address_book` already added. `ValidBooksDistinct`: such a book has no key
twice. `SubsetOfPadded`: padding changes no signing subset.

`SigningProtocolProofs` proves the four safety properties of the signing
protocol, the refinement of `Endorsement` included, for every book, any sessions
and instances, and any lists their callers hand them; the assumption is fresh
entropy (`SigningAssumption`). What each call returns is derived from the checks
of the code first (`ChallengeFacts`, `Round3Facts`, `AggregateFacts`). The
invariant `IInv` says of every share in the pool that its sender has finished,
and that it answers the challenge over the list its sender held, with the
sender's own nonce at the position of its key (`ShareFits`); that an instance has
sent one share at most; and that an output verifies for the keys of its
session, which do not cancel (`OutputFits`).

The proofs of `RotationChain` cover all four properties of the chain, the refinement of
`AttestedChain` included, for any books, weights, messages and chains of any
length. Assumed are ideal signatures: a joint key of members that equals a
majority's is that majority's (`LedgerAssumption`). The invariant: a proof that was
returned carries the metadata of its SNARK (`WellFormed`), and every statement is
a genesis or succeeds another one with the consent of a majority of its book
(`Linked`). Proofs assembled from several fail the metadata check unless they are
consistent, so `Construct` adds only links (`ConstructGrows`). For
`ForksAreAccountable`, take the lowest fork of the ledger: both its heads succeed
one statement, and the two majorities of that book overlap by
`AddressBookProofs`. For `HeadsCanRotate` every check of `construct_wraps_proof` is
shown to pass.

The proofs of `JniMapCache` cover the safety and action properties of the native cache
for any threads, keys and `SIZE`. The history `uses` gives every key a rank, its
last use; the list is sorted by rank, and every used key that is not in it ranks
below all that are, which can only be if the list is full (`Fits`). `extract` is a
fold, so that `push_back_key` keeps the order is an induction. A hit, an insertion and
an eviction each keep `Fits`; that the map has the keys of the list follows
the code's branches.

The proofs of `NativeLoading` show that a library is loaded at most once
(`LoadedOnce`), that an instance means a linked library (`InstanceMeansLinked`),
the refinement of `LoadOnce` and the clean-up at exit, for any threads, bridges,
libraries and number of failures. The invariant is `CacheIsWhatIsLinked` with the
types: whoever is between its look-up in the path cache and `System.load` holds
the cache's monitor, so nobody else can link that library, and the cache has
exactly the linked ones. The proof does not use the loaders' own monitors: the
path cache's alone makes loading safe. For `LoadedLibrariesAreCleanedUp`,
`DiskInv` adds that the directory of a cached path was registered before its
file; the deletions are a fold in reverse order, so the file is gone when the
directory's turn comes (`ExitDeletes`).

`TssVerificationProofs` proves all safety properties of `TssVerification`, for
any threads, requests and cache size. The invariant says that a verdict, in
the cache or in the hands of a thread that has yet to insert it, is true only
for a proof that verifies, that the key it is filed under is made of the parts
of the request, and that a loader class and its native cell change state
together. `RefusalInv` is its counterpart for refusals: a negative verdict, in the
cache or in hand, is for a proof that does not verify unless the jar lacks the
key or something failed, and a thread gets to a native call only when the cell is
filled. For `HoldsTheMostRecent`, `LruInv` says that the list is a beginning
of the history of uses, in which no key occurs twice, all of it if there is room.

The proofs of `CrsCeremony` cover its three properties for every prime order, any
sizes, contributors and secrets, and ceremonies of any length. That the order is
prime is assumed in the form the proof uses: no product of nonzero exponents is
zero. `Mul` is shown to be a commutative and associative multiplication without
zero divisors, and `Pow` to be its powers, by induction (`PowSteps`). The
invariant: the CRS is the two towers of the powers of `Tau`, the product of
`factors`, which is not zero. `check2` relates every two neighbours of one tower to
every two of the other, so towers that pass are powers of their second element,
and the Schnorr proof that `check1` verifies ties that element to the CRS before: whatever was delivered, only a multiple of the current tau by a
published nonzero secret is adopted.

The proofs of `SyncAggregate` cover both its properties for groups of any order,
committees of any size whose keys are not the identity (`SyncAssumption`), any list
of absent seats and any fault. `KeyOf` is a fold over all seats and the code
subtracts one by one, so the invariant (`Looping`) is that `signers` is the sum
over the seats not yet taken off; `SumLess` shows that taking off one key is
leaving out one seat, whatever the sums on the way. `SentArray` decides for each of
the nine faults whether the array still has its length and what it decodes to,
from the two orders of coordinates.

The proofs of `WrapsBridge` cover both its properties for every size of
committee, any limits of which the bridge's is not above the library's
(`WrapsBridgeAssumption`), and any number of wrong arguments. A call is checked in
three layers; `PhaseChecked` and `OthersChecked` collect what the first has
established, and the lemmas after them show that it is all the other two ask for,
but for contents.

Only model-checked:

* liveness, in every module, as fairness and `ENABLED` are out of the
  prover's reach: `SessionsComplete`, `EveryGetReturns` and both
  `EveryCallReturns`;
* the DER encoder and the X.509 signer: their reference `Der` is a recursive operator,
  which the prover cannot use;
* hinTS: its properties are identities of polynomials over a field, interpolated
  over domains, that TLC computes.

## Findings

`x509_oid_pattern` is the one run that is expected to fail, and shows a fault of the
code. Reading the code for the other models showed more places where it and what is
written about it differ; no run states them, and the models follow the code:

* The comments on the two verifiers (`wraps.rs:894`, `wraps.rs:929`) and the
  nova-wraps README (line 52) say that the hints-key half of the ledger id is not
  checked. The code compares it (`wraps.rs:908`, `wraps.rs:943`), and
  `AcceptedStatementsAreAttested` says that both halves are those of the proof.
* `initCRS` supports "a degenerate case of 0 signers"
  (`HintsLibraryBridge.java:68`); the other operations refuse that CRS
  (`setup.rs:32`).
* "The directory is deleted when JVM exits" (`ResourceFile.java:79`), but not
  after a failed copy: the file is registered only once it is complete.
* `MAX_AB_SIZE` is 63 in the bridge and 64 in the library, under a comment that
  they must match (`WRAPSLibraryBridge.java:163`); and the "1480 zeros" of its
  documentation (line 602) are not the 1096 bytes of a key.

## Not modelled

* `ProcessAPI` and `StreamAPI`: arrays framed by their length over the pipes of
  a process. Nothing under `src/main` uses them, and no process that would
  answer is in the repository.
* The bindings of secp256k1, sodium and xkcp: length checks in front of one
  stateless native call each. `ForeignLibrary.lookup` is `NativeBinary.extract`,
  which is modelled, and one call of the JDK; `RunOnlyOnce` has no user.
* Curve, field and hash arithmetic, Poseidon, Nova and Groth16: ideal, by the
  conventions above. The circuit is modelled by what a satisfied step
  guarantees, and its weight gadgets exactly.
* Randomness: seeds are values of the caller's choice.
* Batch verification of hints: with an ideal random weight it is the conjunction
  of single verifications.
* The examples, measurements and build scripts.
