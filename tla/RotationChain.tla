--------------------------- MODULE RotationChain ---------------------------
(***************************************************************************)
(* The chain of address-book rotations: construct_wraps_proof and the two  *)
(* verifiers (wraps.rs) over RotationCircuit (circuit.rs) and Nova's       *)
(* recursive SNARK, which is external and modelled as the ideal object its *)
(* callers rely on: it remembers its steps, its two ends and whether every *)
(* step satisfied the circuit.                                             *)
(*                                                                         *)
(* Signatures come from Endorsement: a set of members can put one together *)
(* as soon as each of them has consented.  A running proof is stored by    *)
(* its caller, who may resume any old one, of any ledger, and may have     *)
(* mixed up the pieces of several.                                         *)
(***************************************************************************)
EXTENDS Ledger, FiniteSets

CONSTANTS
    MaxSteps,     \* bound: steps of a proof
    MaxProofs,    \* bound: proofs constructed
    MaxConsents   \* bound: consents given

ASSUME ChainBounds == MaxSteps \in Nat /\ MaxProofs \in Nat /\ MaxConsents \in Nat

VARIABLES
    consents,   \* <<member, message>>: the member has signed the message
    proofs      \* every running proof returned so far

vars == <<consents, proofs>>

\* What the members who consented to msg can put together.
Signable(msg) ==
    LET willing == {pk \in Members : <<pk, msg>> \in consents}
    IN  {[joint |-> JointKey[signers], msg |-> msg] : signers \in SUBSET willing \ {{}}}
Signatures == UNION {Signable(msg) : msg \in Messages}

\* verify_signature returns Ok(true), for the padded book.
verify_signature(b, msg, bits, sig) ==
    sig.msg = msg /\ bits \in Rotators[b] /\ sig.joint = SelectedKey[b][bits]

-----------------------------------------------------------------------------
\* RotationCircuit::synthesize on the advice of one step: the book is the one
\* the state commits to, the subset has the majority, the signature verifies.
Satisfied(c, z_in) ==
    LET tally == subset_weight(padded[c.prev_ab], c.bits)
        joint == SelectedKey[c.prev_ab][c.bits]
    IN  /\ HashOf[c.prev_ab] = z_in[1]
        /\ tally.ok /\ meets_threshold(tally.signing, tally.total)
        /\ ~IsIdentity(joint)
        /\ c.sig = [joint |-> joint, msg |-> c.msg]

\* RecursiveSNARK::new runs the first step.
SnarkNew(c, z0) == [num_steps |-> 0, z0 |-> z0, zi |-> c.msg, sat |-> Satisfied(c, z0)]

\* RecursiveSNARK::prove_step counts the first step, and runs and counts
\* every later one.
prove_step(snark, c) ==
    IF snark.num_steps = 0
    THEN [snark EXCEPT !.num_steps = 1]
    ELSE [snark EXCEPT !.num_steps = @ + 1, !.zi = c.msg,
                       !.sat = @ /\ Satisfied(c, snark.zi)]

\* RecursiveSNARK::verify and CompressedSNARK::verify.
SnarkVerifies(snark, num_steps, z0) ==
    snark.sat /\ num_steps # 0 /\ num_steps = snark.num_steps /\ z0 = snark.z0

\* A mutant: the claimed final state is not compared with the SNARK's.
TrustsClaimedEnd(proof, ledger_id, hints_vk) ==
    /\ proof.z0 = ledger_id
    /\ proof.zi[2] = hints_vk
    /\ SnarkVerifies(proof.snark, proof.num_steps, proof.z0)

\* verify_uncompressed_wraps_proof; compression keeps all of a proof that
\* verify_compressed_wraps_proof checks, and both make the same checks.
verify_wraps_proof(proof, ledger_id, hints_vk) ==
    /\ proof.z0[1] = ledger_id[1]
    /\ proof.z0[2] = ledger_id[2]
    /\ proof.zi[2] = hints_vk
    /\ SnarkVerifies(proof.snark, proof.num_steps, proof.z0)
    /\ proof.snark.zi = proof.zi

-----------------------------------------------------------------------------
None == <<>>

\* A mutant: the claimed final state is not brought up to date.
RunningWithStaleEnd(snark, z0) ==
    [num_steps |-> snark.num_steps, z0 |-> z0, zi |-> z0, snark |-> snark]

\* The statement of a proof is read off its SNARK after every step.
Running(snark, z0) ==
    [num_steps |-> snark.num_steps, z0 |-> z0, zi |-> snark.zi, snark |-> snark]

\* What a caller may hand in: a proof, or pieces of several: a claimed final
\* state or a SNARK that belongs to another proof.
Mixed(p, q, r) == [p EXCEPT !.zi = q.zi, !.snark = r.snark]
Stored == {Mixed(p, q, r) : p, q, r \in proofs}

\* The running proof's metadata is its SNARK's.
MetadataMatches(running) ==
    /\ running.num_steps # 0
    /\ running.num_steps = running.snark.num_steps
    /\ running.zi = running.snark.zi

\* A mutant: a genesis step may change the book.
GenesisStartsAnywhere(ab_genesis_hash, prev, next) == ab_genesis_hash = HashOf[prev]

\* Genesis: the book is the ledger's and is rotated onto itself.
GenesisAllowed(ab_genesis_hash, prev, next) ==
    ab_genesis_hash = HashOf[prev] /\ HashOf[next] = HashOf[prev]

\* The checks construct_wraps_proof makes of the books and the signature.
Admits(prev, next, hints_vk, bits, sig) ==
    /\ verify_signature(prev, compute_rotation_message(next, hints_vk), bits, sig)
    /\ prev \in ValidBooks /\ next \in ValidBooks
    /\ ~SelectsOutside(Contents[prev], bits)

\* The running proof it starts from; {} is an error.
Begin(ab_genesis_hash, prev, next, prev_proof, hints_vk, c) ==
    IF prev_proof # None
    THEN {running \in {prev_proof} : MetadataMatches(running)}
    ELSE LET z0 == <<HashOf[prev], hints_vk>>
         IN  IF GenesisAllowed(ab_genesis_hash, prev, next)
             THEN {Running(SnarkNew(c, z0), z0)}
             ELSE {}

\* The proof it ends with, once its inputs are admitted: {} is an error.
construct_wraps_proof(ab_genesis_hash, prev, next, prev_proof, hints_vk, bits, sig) ==
    LET c == [prev_ab |-> prev, bits |-> bits, sig |-> sig,
              msg |-> compute_rotation_message(next, hints_vk)]
        Advance(running) == Running(prove_step(running.snark, c), running.z0)
    IN  {p \in {Advance(running) : running \in
                   Begin(ab_genesis_hash, prev, next, prev_proof, hints_vk, c)} :
            verify_wraps_proof(p, <<ab_genesis_hash, p.z0[2]>>, hints_vk)}

-----------------------------------------------------------------------------
Init == consents = {} /\ proofs = {}

\* A member signs a rotation message it computed from a book it validated.
Consent(pk, msg) ==
    /\ Cardinality(consents) < MaxConsents
    /\ consents' = consents \cup {<<pk, msg>>}
    /\ UNCHANGED proofs

\* One call of construct_wraps_proof that succeeds.
Construct(prev, next, hints_vk, bits, sig) ==
    /\ Cardinality(proofs) < MaxProofs
    /\ Admits(prev, next, hints_vk, bits, sig)
    /\ \E genesis \in {HashOf[b] : b \in Books},
          prev_proof \in {None} \cup {p \in Stored : p.snark.num_steps < MaxSteps} :
        \E p \in construct_wraps_proof(genesis, prev, next, prev_proof, hints_vk, bits, sig) :
            proofs' = proofs \cup {p}
    /\ UNCHANGED consents

Next ==
    \/ \E pk \in Members, msg \in Messages : Consent(pk, msg)
    \/ \E prev, next \in Books, hints_vk \in HintsKeys, bits \in SUBSET Seats, sig \in Signatures :
          Construct(prev, next, hints_vk, bits, sig)

Spec == Init /\ [][Next]_vars

-----------------------------------------------------------------------------
StatementOf(p) == [z0 |-> p.z0, zi |-> p.zi, num_steps |-> p.num_steps]
Attested == {StatementOf(p) : p \in proofs}

\* Every proof's statement was reached from a genesis book by rotations that a
\* strict majority of the book in force consented to, one step at a time,
\* whichever old, foreign or mixed-up proof a construction resumed.
Chain == INSTANCE AttestedChain WITH Books <- ValidBooks, attested <- Attested
ImplementsAttestedChain == Chain!ChainSpec

\* Whatever a verifier is shown, also pieces of several proofs, what it accepts
\* is a statement that was attested, of the very ledger and hints key it asked
\* about.
AcceptedStatementsAreAttested ==
    \A p \in Stored, ledger_id \in Messages, h \in HintsKeys :
        verify_wraps_proof(p, ledger_id, h)
            => /\ StatementOf(p) \in Attested
               /\ p.z0 = ledger_id /\ p.zi[2] = h

Live(entry) == ~IsIdentity(entry.pk) /\ entry.weight > 0

\* Below the head p, the holder of a live seat of the book that r ends with
\* consented to both successors s and t.
Culprit(p, r, s, t, b, entry) ==
    /\ r.z0 = p.z0 /\ s.z0 = p.z0 /\ t.z0 = p.z0
    /\ r.num_steps < p.num_steps
    /\ s.num_steps = r.num_steps + 1 /\ t.num_steps = r.num_steps + 1
    /\ s.zi # t.zi
    /\ HashOf[b] = r.zi[1]
    /\ Live(entry) /\ {<<entry.pk, s.zi>>, <<entry.pk, t.zi>>} \subseteq consents

\* Two heads of one ledger at one height lead back to a book some member of
\* which, with weight of its own, consented to two different successors.
ForksAreAccountable ==
    \A p, q \in Attested :
        p.z0 = q.z0 /\ p.num_steps = q.num_steps /\ p.zi # q.zi =>
            \E r, s, t \in Attested, b \in Books : \E entry \in ToSet(Contents[b]) :
                Culprit(p, r, s, t, b, entry)

\* A chain is never stuck on its own proofs: from any proof ever returned, the
\* consent of a quorum of its book is enough to take the chain to the book
\* they consented to, through every check of construct_wraps_proof.
HeadsCanRotate ==
    \A p \in proofs : \A b \in {c \in ValidBooks : HashOf[c] = p.zi[1]} :
        \A bits \in Rotators[b] :
            \A msg \in {m \in Messages : \A pk \in Signers(b, bits) : <<pk, m>> \in consents},
               next \in ValidBooks :
                LET sig == [joint |-> SelectedKey[b][bits], msg |-> msg]
                IN  HashOf[next] = msg[1] =>
                        /\ Admits(b, next, msg[2], bits, sig)
                        /\ \E r \in construct_wraps_proof(p.z0[1], b, next, p, msg[2], bits, sig) :
                              StatementOf(r) = [z0 |-> p.z0, zi |-> msg,
                                                num_steps |-> p.num_steps + 1]
=============================================================================
