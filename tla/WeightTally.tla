---------------------------- MODULE WeightTally ----------------------------
(***************************************************************************)
(* The three loops that weigh a padded address book, run seat by seat over *)
(* the same book: verify_address_book and subset_weight (wraps.rs), and    *)
(* the sums of RotationCircuit (circuit.rs), which are taken in a prime    *)
(* field.  Two bitvectors are weighed at once, so that what two signing    *)
(* subsets of one book can both achieve can be stated.                     *)
(***************************************************************************)
EXTENDS AddressBook

CONSTANTS
    FieldPrime,     \* the modulus of the circuit's field
    EntryChoices    \* the entries a book is made of

ASSUME WeightTallyAssumption ==
    /\ FieldPrime \in Nat
    /\ FieldPrime > 2 * (MAX_AB_SIZE * MaxWeight + 1)
    /\ EntryChoices \subseteq AddressBookEntry

VARIABLES
    ab,             \* the padded book
    bitsA, bitsB,   \* two bitvectors over it
    seat,           \* the next seat the loops visit
    book,           \* verify_address_book: ok, seen, total
    tallyA, tallyB, \* subset_weight: ok, signing, total
    circA, circB    \* the circuit: signing, total

tallyVars == <<ab, bitsA, bitsB, seat, book, tallyA, tallyB, circA, circB>>

FieldAdd(a, b) == IF a + b >= FieldPrime THEN a + b - FieldPrime ELSE a + b
FieldSub(a, b) == IF a >= b THEN a - b ELSE a - b + FieldPrime

\* effective = weight * (1 - is_infinity), masked = bit * effective.
CircuitStep(acc, entry, signed) ==
    LET effective == IF IsIdentity(entry.pk) THEN 0 ELSE entry.weight
        masked    == IF signed THEN effective ELSE 0
    IN  [signing |-> FieldAdd(acc.signing, masked),
         total   |-> FieldAdd(acc.total, effective)]

\* enforce_range: the value has a 64-bit decomposition.
InRange(value) == value <= MaxWeight

\* A mutant: no range check on the total.
CircuitAcceptsAnyTotal(acc) ==
    InRange(FieldSub(FieldSub(acc.signing, FieldSub(acc.total, acc.signing)), 1))

\* The total fits, and signing > remaining by a bounded difference.
CircuitAccepts(acc) ==
    LET remaining == FieldSub(acc.total, acc.signing)
    IN  /\ InRange(acc.total)
        /\ InRange(FieldSub(FieldSub(acc.signing, remaining), 1))

\* verify_signature: an overflowing total and a minority are both refused.
NativeAccepts(tally) == tally.ok /\ meets_threshold(tally.signing, tally.total)

TallyInit ==
    /\ ab \in [Seats -> EntryChoices]
    /\ bitsA \in SUBSET Seats
    /\ bitsB \in SUBSET Seats
    /\ seat = 1
    /\ book = VerifyStart
    /\ tallyA = TallyStart
    /\ tallyB = TallyStart
    /\ circA = [signing |-> 0, total |-> 0]
    /\ circB = [signing |-> 0, total |-> 0]

VisitSeat ==
    /\ seat \in Seats
    /\ seat' = seat + 1
    /\ book' = VerifyStep(book, ab[seat])
    /\ tallyA' = TallyStep(tallyA, ab[seat], seat \in bitsA)
    /\ tallyB' = TallyStep(tallyB, ab[seat], seat \in bitsB)
    /\ circA' = CircuitStep(circA, ab[seat], seat \in bitsA)
    /\ circB' = CircuitStep(circB, ab[seat], seat \in bitsB)
    /\ UNCHANGED <<ab, bitsA, bitsB>>

TallyNext == VisitSeat

TallySpec == TallyInit /\ [][TallyNext]_tallyVars

Done == seat = MAX_AB_SIZE + 1

-----------------------------------------------------------------------------
Sums == [signing : 0 .. FieldPrime - 1, total : 0 .. FieldPrime - 1]

\* The sums fit a u64 on the native side and are residues in the circuit, at
\* every seat and whatever the weights.
TypeOK ==
    /\ ab \in [Seats -> AddressBookEntry]
    /\ bitsA \in SUBSET Seats
    /\ bitsB \in SUBSET Seats
    /\ seat \in 1 .. MAX_AB_SIZE + 1
    /\ book \in [ok : BOOLEAN, seen : SUBSET PublicKey, total : Nat]
    /\ tallyA \in Tally
    /\ tallyB \in Tally
    /\ circA \in Sums
    /\ circB \in Sums

\* The native threshold of verify_signature and the circuit's bounded
\* difference accept exactly the same books and bitvectors, also when the
\* total does not fit in a u64 or a difference is negative and wraps around
\* the field.
NativeMatchesCircuit ==
    Done => /\ NativeAccepts(tallyA) <=> CircuitAccepts(circA)
            /\ NativeAccepts(tallyB) <=> CircuitAccepts(circB)

\* Two signing subsets of one book that both meet the threshold share a seat
\* that a member really holds and that carries weight: no rotation can be
\* authorised twice by disjoint sets of members.
LiveSeat(s) == ~IsIdentity(ab[s].pk) /\ ab[s].weight > 0
MajoritiesOverlap ==
    Done /\ NativeAccepts(tallyA) /\ NativeAccepts(tallyB)
        => \E s \in bitsA \cap bitsB : LiveSeat(s)

\* verify_address_book stops at the first bad entry, yet its verdict does not
\* depend on where that entry is: it accepts exactly the books whose held
\* seats have distinct keys with their own proofs and whose effective total
\* fits in a u64 (circA.total is that total, without overflow).
ValidBook ==
    /\ \A s, t \in Seats :
          ab[s].pk = ab[t].pk /\ ~IsIdentity(ab[s].pk) => s = t
    /\ \A s \in Seats :
          ~IsIdentity(ab[s].pk) => verify_knowledge(ab[s].pk, ab[s].pok)
    /\ circA.total <= MaxWeight
VerdictIsOrderFree == Done => (book.ok <=> ValidBook)

\* A book that passes verify_address_book never makes subset_weight overflow
\* later, and both take the same total.
ValidBooksHaveATotal ==
    Done /\ book.ok => tallyA.ok /\ tallyA.total = book.total
=============================================================================
