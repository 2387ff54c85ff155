--------------------------- MODULE RotationProofs ---------------------------
(***************************************************************************)
(* RotationChain keeps its promises for every set of books, of any weights *)
(* and sizes, and for chains of any length.                                *)
(***************************************************************************)
EXTENDS RotationChain, WeightTally, AddressBookProofs, TLAPS

\* A SNARK that verifies, and the running proof that construct_wraps_proof
\* makes of it: its metadata is the SNARK's.
Snarks == [num_steps : Nat \ {0}, z0 : Messages, zi : Messages, sat : {TRUE}]
WellFormed(p) == p.snark \in Snarks /\ p = Running(p.snark, p.snark.z0)

\* The statement a was reached from the statement r by a rotation that every
\* member of a majority of r's book consented to.
Succeeds(a, r) ==
    /\ a.z0 = r.z0 /\ a.num_steps = r.num_steps + 1
    /\ \E b \in Books : \E bits \in Rotators[b] :
          /\ HashOf[b] = r.zi[1]
          /\ \A pk \in Signers(b, bits) : <<pk, a.zi>> \in consents

Founded(a) == a.num_steps = 1 /\ a.zi = a.z0

\* The inductive invariant: proofs are well formed, and every statement leads
\* back to a genesis.
Linked == \A a \in Attested : Founded(a) \/ \E r \in Attested : Succeeds(a, r)
IInv ==
    /\ consents \subseteq Members \X Messages
    /\ \A p \in proofs : WellFormed(p)
    /\ Linked

-----------------------------------------------------------------------------
\* The statement of a well-formed proof is its SNARK's.
LEMMA WellFormedFields ==
    ASSUME NEW p, WellFormed(p)
    PROVE  /\ p.snark \in Snarks /\ p.snark.sat
           /\ p.num_steps = p.snark.num_steps /\ p.z0 = p.snark.z0 /\ p.zi = p.snark.zi
           /\ p.num_steps \in Nat \ {0} /\ p.z0 \in Messages /\ p.zi \in Messages
           /\ DOMAIN p = {"num_steps", "z0", "zi", "snark"}
<1>1. p.snark \in Snarks
  BY DEF WellFormed
<1> DEFINE s == p.snark
<1>2. p = [num_steps |-> s.num_steps, z0 |-> s.z0, zi |-> s.zi, snark |-> s]
  BY DEF WellFormed, Running
<1> HIDE DEF s
<1>3. /\ p.num_steps = s.num_steps /\ p.z0 = s.z0 /\ p.zi = s.zi
      /\ DOMAIN p = {"num_steps", "z0", "zi", "snark"}
  BY <1>2
<1> QED
  BY <1>1, <1>3 DEF s, Snarks

\* What a step of the SNARK adds, when the result still verifies: one step
\* that satisfied the circuit, with the message as the new end.
LEMMA ProveStep ==
    ASSUME NEW snark \in Snarks, NEW c, c.msg \in Messages, prove_step(snark, c).sat
    PROVE  /\ Satisfied(c, snark.zi)
           /\ prove_step(snark, c) \in Snarks
           /\ prove_step(snark, c).num_steps = snark.num_steps + 1
           /\ prove_step(snark, c).z0 = snark.z0
           /\ prove_step(snark, c).zi = c.msg
<1> DEFINE t == prove_step(snark, c)
           ok == Satisfied(c, snark.zi)
<1>1. snark.num_steps # 0 /\ snark.num_steps \in Nat /\ snark.sat = TRUE
  BY DEF Snarks
<1>2. t = [snark EXCEPT !.num_steps = @ + 1, !.zi = c.msg, !.sat = @ /\ Satisfied(c, snark.zi)]
  BY <1>1, Zenon DEF prove_step
<1>3. ok \in BOOLEAN
  BY DEF Satisfied
<1> HIDE DEF t, ok
<1>4. t = [snark EXCEPT !.num_steps = @ + 1, !.zi = c.msg, !.sat = ok]
  <2>1. (snark.sat /\ Satisfied(c, snark.zi)) = ok
    BY <1>1, <1>3 DEF ok
  <2> QED
    BY <1>2, <2>1, Zenon
<1>5. t = [num_steps |-> snark.num_steps + 1, z0 |-> snark.z0, zi |-> c.msg, sat |-> ok]
  BY <1>4 DEF Snarks
<1>6. ok = TRUE
  BY <1>3, <1>5 DEF t
<1>7. /\ t \in Snarks /\ t.num_steps = snark.num_steps + 1
      /\ t.z0 = snark.z0 /\ t.zi = c.msg
  BY <1>1, <1>5, <1>6 DEF Snarks
<1>8. Satisfied(c, snark.zi)
  BY <1>6 DEF ok
<1> QED
  BY <1>7, <1>8, Zenon DEF t

\* A first step that verifies satisfied the circuit.
LEMMA FirstStep ==
    ASSUME NEW c, NEW z0 \in Messages, c.msg \in Messages, prove_step(SnarkNew(c, z0), c).sat
    PROVE  /\ Satisfied(c, z0)
           /\ prove_step(SnarkNew(c, z0), c) =
                 [num_steps |-> 1, z0 |-> z0, zi |-> c.msg, sat |-> TRUE]
<1> DEFINE s == SnarkNew(c, z0)
           t == prove_step(s, c)
           ok == Satisfied(c, z0)
<1>1. ok \in BOOLEAN
  BY DEF Satisfied
<1>2. s = [num_steps |-> 0, z0 |-> z0, zi |-> c.msg, sat |-> ok]
  BY Zenon DEF SnarkNew
<1>3. t = IF s.num_steps = 0 THEN [s EXCEPT !.num_steps = 1]
          ELSE [s EXCEPT !.num_steps = @ + 1, !.zi = c.msg, !.sat = @ /\ Satisfied(c, s.zi)]
  BY Zenon DEF prove_step
<1> HIDE DEF s, t, ok
<1>4. s.num_steps = 0
  BY <1>2
<1>5. t = [s EXCEPT !.num_steps = 1]
  BY <1>3, <1>4, Zenon
<1>6. t = [num_steps |-> 1, z0 |-> z0, zi |-> c.msg, sat |-> ok]
  BY <1>2, <1>5
<1>7. ok = TRUE
  BY <1>1, <1>6 DEF s, t
<1> QED
  BY <1>6, <1>7 DEF s, t, ok

-----------------------------------------------------------------------------
\* A signature that verify_signature accepts was made by exactly the members
\* the bitvector names, and all of them consented.
LEMMA SignersConsented ==
    ASSUME NEW b \in Books, NEW bits \in SUBSET Seats, NEW msg, NEW sig \in Signatures,
           verify_signature(b, msg, bits, sig)
    PROVE  bits \in Rotators[b] /\ \A pk \in Signers(b, bits) : <<pk, msg>> \in consents
<1>1. PICK m \in Messages : sig \in Signable(m)
  BY DEF Signatures
<1> DEFINE willing == {pk \in Members : <<pk, m>> \in consents}
<1>2. PICK signers \in SUBSET willing : sig = [joint |-> JointKey[signers], msg |-> m]
  BY <1>1 DEF Signable
<1>3. sig.msg = msg /\ bits \in Rotators[b] /\ sig.joint = SelectedKey[b][bits]
  BY DEF verify_signature
<1>4. m = msg /\ JointKey[signers] = SelectedKey[b][bits]
  BY <1>2, <1>3
<1>5. signers \in SUBSET Members
  OBVIOUS
<1>6. signers = Signers(b, bits)
  BY <1>3, <1>4, <1>5, LedgerAssumption
<1> QED
  BY <1>3, <1>4, <1>6

\* What a call of construct_wraps_proof that succeeds returns: a well-formed
\* proof of a founding, or of a rotation of the book an earlier proof ends
\* with, whichever pieces of earlier proofs it resumed.
Grows(prev, next, hints_vk, bits, p) ==
    LET msg == compute_rotation_message(next, hints_vk)
    IN  /\ WellFormed(p)
        /\ p.zi = msg
        /\ bits \in Rotators[prev]
        /\ \A pk \in Signers(prev, bits) : <<pk, msg>> \in consents
        /\ \/ /\ p.num_steps = 1 /\ p.z0 = msg
              /\ HashOf[next] = HashOf[prev]
           \/ \E r \in proofs :
                /\ p.z0 = r.z0 /\ p.num_steps = r.num_steps + 1
                /\ HashOf[prev] = r.zi[1]

\* construct_wraps_proof does nothing else.
LEMMA ConstructGrows ==
    ASSUME \A r \in proofs : WellFormed(r),
           NEW prev \in Books, NEW next \in Books, NEW hints_vk \in HintsKeys,
           NEW bits \in SUBSET Seats, NEW sig \in Signatures,
           Construct(prev, next, hints_vk, bits, sig)
    PROVE  /\ prev \in ValidBooks /\ next \in ValidBooks
           /\ \E p : proofs' = proofs \cup {p} /\ Grows(prev, next, hints_vk, bits, p)
<1> DEFINE msg == compute_rotation_message(next, hints_vk)
           c == [prev_ab |-> prev, bits |-> bits, sig |-> sig, msg |-> msg]
<1>1. /\ verify_signature(prev, msg, bits, sig)
      /\ prev \in ValidBooks /\ next \in ValidBooks
  BY DEF Construct, Admits
<1>2. bits \in Rotators[prev] /\ \A pk \in Signers(prev, bits) : <<pk, msg>> \in consents
  BY <1>1, SignersConsented
<1>3. PICK genesis \in {HashOf[b] : b \in Books},
           prev_proof \in {None} \cup {p \in Stored : p.snark.num_steps < MaxSteps} :
         \E p \in construct_wraps_proof(genesis, prev, next, prev_proof, hints_vk, bits, sig) :
            proofs' = proofs \cup {p}
  BY DEF Construct
<1>4. PICK p \in construct_wraps_proof(genesis, prev, next, prev_proof, hints_vk, bits, sig) :
         proofs' = proofs \cup {p}
  BY <1>3
<1>5. PICK running \in Begin(genesis, prev, next, prev_proof, hints_vk, c) :
         /\ p = Running(prove_step(running.snark, c), running.z0)
         /\ verify_wraps_proof(p, <<genesis, p.z0[2]>>, hints_vk)
  BY <1>4 DEF construct_wraps_proof
<1>6. msg \in Messages /\ c.msg = msg /\ c.prev_ab = prev
  BY <1>1 DEF Messages
<1> HIDE DEF msg, c
<1> DEFINE s == prove_step(running.snark, c)
<1>7. /\ p = [num_steps |-> s.num_steps, z0 |-> running.z0, zi |-> s.zi, snark |-> s]
  BY <1>5 DEF Running
<1> HIDE DEF s
<1>8. s.sat /\ running.z0 = s.z0
  BY <1>5, <1>7 DEF verify_wraps_proof, SnarkVerifies
<1>9. s \in Snarks => WellFormed(p) /\ p.zi = s.zi /\ p.z0 = s.z0 /\ p.num_steps = s.num_steps
  BY <1>7, <1>8 DEF WellFormed, Running
<1>10. CASE prev_proof = None
  <2> DEFINE z0 == <<HashOf[prev], hints_vk>>
  <2>1. HashOf[next] = HashOf[prev] /\ running = Running(SnarkNew(c, z0), z0)
    BY <1>5, <1>10 DEF Begin, GenesisAllowed
  <2>2. z0 = msg
    BY <2>1 DEF msg, compute_rotation_message
  <2>3. s = prove_step(SnarkNew(c, z0), c)
    BY <2>1 DEF s, Running
  <2> HIDE DEF z0
  <2>4. s = [num_steps |-> 1, z0 |-> z0, zi |-> c.msg, sat |-> TRUE]
    BY <1>6, <1>8, <2>2, <2>3, FirstStep
  <2>5. s \in Snarks
    BY <1>6, <2>2, <2>4 DEF Snarks
  <2>6. WellFormed(p) /\ p.zi = msg /\ p.num_steps = 1 /\ p.z0 = msg
    BY <1>6, <1>9, <2>2, <2>4, <2>5
  <2> QED
    BY <1>1, <1>2, <1>4, <2>1, <2>6 DEF Grows, msg
<1>11. CASE prev_proof # None
  <2>1. prev_proof \in Stored /\ running = prev_proof /\ MetadataMatches(running)
    BY <1>5, <1>11 DEF Begin
  <2>2. PICK a, b, r \in proofs : running = Mixed(a, b, r)
    BY <2>1 DEF Stored
  <2>3. WellFormed(a) /\ WellFormed(r)
    BY <2>2
  <2>4. running.snark = r.snark
    BY <2>2, <2>3, WellFormedFields DEF Mixed
  <2>5. r.snark \in Snarks /\ r.z0 = r.snark.z0 /\ r.zi = r.snark.zi /\ r.num_steps = r.snark.num_steps
    BY <2>3, WellFormedFields
  <2>6. /\ Satisfied(c, r.zi) /\ s \in Snarks
        /\ s.num_steps = r.num_steps + 1 /\ s.z0 = r.z0 /\ s.zi = msg
    BY <1>6, <1>8, <2>4, <2>5, ProveStep, SMTT(30) DEF s
  <2>7. HashOf[prev] = r.zi[1]
    BY <1>6, <2>6 DEF Satisfied
  <2>8. WellFormed(p) /\ p.zi = msg /\ p.num_steps = r.num_steps + 1 /\ p.z0 = r.z0
    BY <1>9, <2>6
  <2> QED
    BY <1>1, <1>2, <1>4, <2>7, <2>8 DEF Grows, msg
<1> QED
  BY <1>10, <1>11

-----------------------------------------------------------------------------
\* A statement's predecessor stays valid: consents and proofs are never lost.
LEMMA SucceedsPersists ==
    ASSUME consents \subseteq consents', NEW a, NEW r, Succeeds(a, r)
    PROVE  Succeeds(a, r)'
  BY DEF Succeeds, Signers

\* IInv is inductive: what a construction returns is linked to the proof whose
\* SNARK it resumed.
LEMMA InvariantStep ==
    ASSUME IInv, [Next]_vars
    PROVE  IInv'
<1> USE DEF IInv
<1>1. CASE UNCHANGED vars
  <2>1. consents' = consents /\ proofs' = proofs
    BY <1>1 DEF vars
  <2>2. Attested' = Attested
    BY <2>1 DEF Attested
  <2>3. Linked'
    BY <2>1, <2>2, SMTT(30) DEF Linked, Succeeds, Signers
  <2> QED
    BY <2>1, <2>3
<1>2. ASSUME NEW pk \in Members, NEW msg \in Messages, Consent(pk, msg) PROVE IInv'
  <2>1. consents' = consents \cup {<<pk, msg>>} /\ proofs' = proofs
    BY <1>2 DEF Consent
  <2>2. Attested' = Attested
    BY <2>1 DEF Attested
  <2>3. Linked'
    <3> SUFFICES ASSUME NEW a \in Attested PROVE Founded(a) \/ \E r \in Attested : Succeeds(a, r)'
      BY <2>2 DEF Linked, Founded
    <3> QED
      BY <2>1, SucceedsPersists DEF Linked
  <2> QED
    BY <2>1, <2>3
<1>3. ASSUME NEW prev \in Books, NEW next \in Books, NEW hints_vk \in HintsKeys,
             NEW bits \in SUBSET Seats, NEW sig \in Signatures,
             Construct(prev, next, hints_vk, bits, sig)
      PROVE  IInv'
  <2>1. PICK p : proofs' = proofs \cup {p} /\ Grows(prev, next, hints_vk, bits, p)
    BY <1>3, ConstructGrows
  <2>2. consents' = consents
    BY <1>3 DEF Construct
  <2>3. Attested' = Attested \cup {StatementOf(p)}
    BY <2>1 DEF Attested
  <2>4. Founded(StatementOf(p)) \/ \E r \in Attested : Succeeds(StatementOf(p), r)'
    <3> DEFINE msg == compute_rotation_message(next, hints_vk)
               a == StatementOf(p)
    <3>1. a.z0 = p.z0 /\ a.zi = p.zi /\ a.num_steps = p.num_steps
      BY DEF StatementOf
    <3>2. /\ p.zi = msg /\ bits \in Rotators[prev]
          /\ \A pk \in Signers(prev, bits) : <<pk, msg>> \in consents
      BY <2>1 DEF Grows
    <3> HIDE DEF a, msg
    <3>3. CASE p.num_steps = 1 /\ p.z0 = msg
      BY <3>1, <3>2, <3>3 DEF Founded, a
    <3>4. ASSUME NEW r \in proofs, p.z0 = r.z0, p.num_steps = r.num_steps + 1, HashOf[prev] = r.zi[1]
          PROVE  \E x \in Attested : Succeeds(a, x)'
      <4> DEFINE x == StatementOf(r)
      <4>1. x \in Attested
        BY DEF Attested
      <4>2. x.z0 = r.z0 /\ x.zi = r.zi /\ x.num_steps = r.num_steps
        BY DEF StatementOf
      <4> HIDE DEF x
      <4>3. Succeeds(a, x)
        BY <3>1, <3>2, <3>4, <4>2 DEF Succeeds
      <4>4. Succeeds(a, x)'
        BY <2>2, <4>3, SucceedsPersists
      <4> QED
        BY <4>1, <4>4
    <3> QED
      BY <2>1, <3>3, <3>4 DEF Grows, a, msg
  <2>5. Linked'
    <3> SUFFICES ASSUME NEW a \in Attested'
                 PROVE  Founded(a) \/ \E r \in Attested' : Succeeds(a, r)'
      BY DEF Linked, Founded
    <3>1. CASE a \in Attested
      BY <2>2, <2>3, <3>1, SucceedsPersists DEF Linked
    <3>2. CASE a = StatementOf(p)
      BY <2>3, <2>4, <3>2
    <3> QED
      BY <2>3, <3>1, <3>2
  <2>6. \A q \in proofs' : WellFormed(q)
    BY <2>1 DEF Grows
  <2> QED
    BY <2>2, <2>5, <2>6
<1> QED
  BY <1>1, <1>2, <1>3 DEF Next

\* So it holds in every state of every chain.
LEMMA InvariantHolds == Spec => []IInv
<1>1. Init => IInv
  BY DEF Init, IInv, Linked, Attested
<1>2. IInv /\ [Next]_vars => IInv'
  BY InvariantStep
<1> QED
  BY <1>1, <1>2, PTL DEF Spec

-----------------------------------------------------------------------------
\* Messages are pairs: the verifiers compare them by their two halves.
LEMMA MessagePairs ==
    ASSUME NEW m \in Messages
    PROVE  m = <<m[1], m[2]>> /\ m[2] \in HintsKeys
  BY DEF Messages, compute_rotation_message

\* Whatever pieces a verifier is shown, it only accepts statements of proofs
\* that construct_wraps_proof returned, for the ledger and key it asked about.
THEOREM AcceptedAreAttested == Spec => []AcceptedStatementsAreAttested
<1>1. ASSUME IInv PROVE AcceptedStatementsAreAttested
  <2> SUFFICES ASSUME NEW p \in Stored, NEW ledger_id \in Messages, NEW h \in HintsKeys,
                      verify_wraps_proof(p, ledger_id, h)
               PROVE  StatementOf(p) \in Attested /\ p.z0 = ledger_id /\ p.zi[2] = h
    BY DEF AcceptedStatementsAreAttested
  <2>1. PICK a, b, r \in proofs : p = Mixed(a, b, r)
    BY DEF Stored
  <2>2. WellFormed(a) /\ WellFormed(b) /\ WellFormed(r)
    BY <1>1 DEF IInv
  <2>3. /\ p.num_steps = a.num_steps /\ p.z0 = a.z0 /\ p.zi = b.zi /\ p.snark = r.snark
        /\ a.z0 \in Messages
        /\ r.num_steps = r.snark.num_steps /\ r.z0 = r.snark.z0 /\ r.zi = r.snark.zi
    BY <2>1, <2>2, WellFormedFields DEF Mixed
  <2>4. /\ p.z0[1] = ledger_id[1] /\ p.z0[2] = ledger_id[2] /\ p.zi[2] = h
        /\ p.num_steps = p.snark.num_steps /\ p.z0 = p.snark.z0 /\ p.snark.zi = p.zi
    BY DEF verify_wraps_proof, SnarkVerifies
  <2>5. StatementOf(p) = StatementOf(r)
    BY <2>3, <2>4 DEF StatementOf
  <2>6. p.z0 = ledger_id
    BY <2>3, <2>4, MessagePairs
  <2> QED
    BY <2>4, <2>5, <2>6 DEF Attested
<1> QED
  BY <1>1, InvariantHolds, PTL

\* The chain of proofs implements AttestedChain: a construction without a
\* previous proof is a founding, one that resumes is a rotation of the
\* statement its SNARK ends with, and a quorum authorised it.
THEOREM ChainRefines == Spec => ImplementsAttestedChain
<1>1. Init => Chain!ChainInit
  BY DEF Init, Chain!ChainInit, Attested
<1>2. ASSUME IInv, [Next]_vars PROVE [Chain!ChainNext]_(Chain!chainVars)
  <2>1. Chain!AllMessages = Messages
    BY DEF Chain!AllMessages, Chain!Message, Messages, compute_rotation_message
  <2>2. CASE UNCHANGED vars
    BY <2>2 DEF vars, Chain!chainVars, Attested
  <2>3. ASSUME NEW pk \in Members, NEW msg \in Messages, Consent(pk, msg) PROVE Chain!Consent
    <3>1. consents' = consents \cup {<<pk, msg>>} /\ Attested' = Attested
      BY <2>3 DEF Consent, Attested
    <3> QED
      BY <2>1, <3>1 DEF Chain!Consent
  <2>4. ASSUME NEW prev \in Books, NEW next \in Books, NEW hints_vk \in HintsKeys,
               NEW bits \in SUBSET Seats, NEW sig \in Signatures,
               Construct(prev, next, hints_vk, bits, sig)
        PROVE  Chain!Found \/ Chain!Rotate
    <3> DEFINE msg == compute_rotation_message(next, hints_vk)
    <3>1. PICK p : proofs' = proofs \cup {p} /\ Grows(prev, next, hints_vk, bits, p)
      BY <1>2, <2>4, ConstructGrows DEF IInv
    <3>2. prev \in ValidBooks /\ next \in ValidBooks
      BY <1>2, <2>4, ConstructGrows DEF IInv
    <3>3. consents' = consents
      BY <2>4 DEF Construct
    <3>4. Attested' = Attested \cup {StatementOf(p)}
      BY <3>1 DEF Attested
    <3>5. Chain!Authorised(prev, msg)
      <4>1. Signers(prev, bits) \in Quorums[prev]
        BY <3>1 DEF Grows, Quorums
      <4>2. \A pk \in Signers(prev, bits) : <<pk, msg>> \in consents
        BY <3>1 DEF Grows
      <4> QED
        BY <4>1, <4>2 DEF Chain!Authorised
    <3>6. p.zi = msg /\ msg \in Messages
      BY <3>1, <3>2 DEF Grows, Messages
    <3>7. CASE p.num_steps = 1 /\ p.z0 = msg /\ HashOf[next] = HashOf[prev]
      <4>1. msg = Chain!Message(prev, hints_vk)
        BY <3>7 DEF compute_rotation_message, Chain!Message
      <4>2. StatementOf(p) = [z0 |-> msg, zi |-> msg, num_steps |-> 1]
        BY <3>6, <3>7 DEF StatementOf
      <4> QED
        BY <3>2, <3>3, <3>4, <3>5, <4>1, <4>2 DEF Chain!Found
    <3>8. ASSUME NEW r \in proofs, p.z0 = r.z0, p.num_steps = r.num_steps + 1, HashOf[prev] = r.zi[1]
          PROVE  Chain!Rotate
      <4> DEFINE a == StatementOf(r)
      <4>1. a \in Attested /\ a.z0 = r.z0 /\ a.zi = r.zi /\ a.num_steps = r.num_steps
        BY DEF Attested, StatementOf
      <4>2. StatementOf(p) = [z0 |-> a.z0, zi |-> msg, num_steps |-> a.num_steps + 1]
        BY <3>6, <3>8, <4>1 DEF StatementOf
      <4> HIDE DEF a, msg
      <4> QED
        BY <2>1, <3>2, <3>3, <3>4, <3>5, <3>6, <3>8, <4>1, <4>2 DEF Chain!Rotate
    <3> QED
      BY <3>1, <3>7, <3>8 DEF Grows
  <2> QED
    BY <1>2, <2>2, <2>3, <2>4 DEF Next, Chain!ChainNext
<1> QED
  BY <1>1, <1>2, InvariantHolds, PTL DEF Spec, ImplementsAttestedChain, Chain!ChainSpec

-----------------------------------------------------------------------------
\* The padded form of a book: its entries, then empty seats.
LEMMA PaddedBook ==
    ASSUME NEW b \in Books
    PROVE  /\ Contents[b] \in Seq(AddressBookEntry)
           /\ padded[b] = pad_address_book(Contents[b])
           /\ padded[b] \in [1 .. MAX_AB_SIZE -> AddressBookEntry]
           /\ pad_address_book(padded[b]) = padded[b]
           /\ Len(padded[b]) = MAX_AB_SIZE
           /\ \A i \in 1 .. MAX_AB_SIZE :
                 ~IsIdentity(padded[b][i].pk) =>
                    i \in DOMAIN Contents[b] /\ padded[b][i] = Contents[b][i]
<1>1. Contents[b] \in Seq(AddressBookEntry) /\ padded[b] = pad_address_book(Contents[b])
  BY LedgerAssumption DEF padded
<1>2. \A i \in 1 .. MAX_AB_SIZE : i <= Len(Contents[b]) => padded[b][i] = Contents[b][i]
  BY <1>1 DEF pad_address_book, Seats
<1>3. /\ padded[b] \in [1 .. MAX_AB_SIZE -> AddressBookEntry]
      /\ pad_address_book(padded[b]) = padded[b]
      /\ Len(padded[b]) = MAX_AB_SIZE
      /\ \A i \in 1 .. MAX_AB_SIZE :
            i > Len(Contents[b]) => IsIdentity(padded[b][i].pk)
  BY <1>1, Padding
<1>4. MAX_AB_SIZE \in Nat
  BY AddressBookAssumption
<1>5. DOMAIN Contents[b] = 1 .. Len(Contents[b]) /\ Len(Contents[b]) \in Nat
  BY <1>1
<1> QED
  BY <1>1, <1>2, <1>3, <1>4, <1>5, SMTT(30)

\* Books with one hash agree on the key and weight of every seat.
LEMMA SameHash ==
    ASSUME NEW b \in Books, NEW c \in Books, HashOf[b] = HashOf[c]
    PROVE  \A i \in 1 .. MAX_AB_SIZE :
              padded[b][i].pk = padded[c][i].pk /\ padded[b][i].weight = padded[c][i].weight
<1> DEFINE h(x) == hash_address_book(padded[x])
<1>1. \A x \in Books : HashOf[x] \in Books /\ h(HashOf[x]) = h(x)
  BY DEF HashOf
<1>2. h(b) = h(c)
  BY <1>1
<1>3. ASSUME NEW x \in Books, NEW i \in 1 .. MAX_AB_SIZE
      PROVE  h(x)[i] = <<padded[x][i].node, padded[x][i].pk, padded[x][i].weight>>
  BY PaddedBook DEF hash_address_book
<1> HIDE DEF h
<1> QED
  BY <1>2, <1>3

\* A bitvector that may rotate a book carries its strict majority, selects no
\* empty seat and names keys that do not cancel.
LEMMA RotatorsCarry ==
    ASSUME NEW b \in Books, NEW bits \in Rotators[b]
    PROVE  /\ bits \in SUBSET (1 .. MAX_AB_SIZE)
           /\ subset_weight(padded[b], bits).ok
           /\ meets_threshold(subset_weight(padded[b], bits).signing,
                              subset_weight(padded[b], bits).total)
           /\ ~IsIdentity(SelectedKey[b][bits])
           /\ \A i \in bits : ~IsIdentity(padded[b][i].pk)
<1>1. bits \in SUBSET Seats /\ SubsetMayRotate(padded[b], bits)
  BY DEF Rotators
<1>2. pad_address_book(padded[b]) = padded[b] /\ Len(padded[b]) = MAX_AB_SIZE
  BY PaddedBook
<1>3. SelectedKey[b][bits] = aggregate_key(signing_subset(padded[b], bits))
  BY <1>1 DEF SelectedKey
<1>4. /\ ~SelectsSentinel(padded[b], bits)
      /\ subset_weight(padded[b], bits).ok
      /\ meets_threshold(subset_weight(padded[b], bits).signing,
                         subset_weight(padded[b], bits).total)
      /\ ~IsIdentity(aggregate_key(signing_subset(padded[b], bits)))
  BY <1>1, <1>2, Zenon DEF SubsetMayRotate
<1>5. \A i \in bits : i <= Len(padded[b])
  BY <1>1, <1>2, AddressBookAssumption DEF Seats
<1>6. \A i \in bits : ~IsIdentity(padded[b][i].pk)
  BY <1>4, <1>5, Zenon DEF SelectsSentinel
<1>7. bits \in SUBSET (1 .. MAX_AB_SIZE)
  BY <1>1 DEF Seats
<1> QED
  BY <1>3, <1>4, <1>6, <1>7, Zenon

\* Two majorities of one book, or of two books with one hash, have a member
\* with weight of its own in common.
LEMMA RotatorsOverlap ==
    ASSUME NEW b \in Books, NEW c \in Books, HashOf[b] = HashOf[c],
           NEW A \in Rotators[b], NEW B \in Rotators[c]
    PROVE  \E entry \in ToSet(Contents[b]) :
              Live(entry) /\ entry.pk \in Signers(b, A) /\ entry.pk \in Signers(c, B)
<1>1. MAX_AB_SIZE \in Nat /\ MAX_AB_SIZE <= MAX_AB_SIZE
  BY AddressBookAssumption
<1>2. /\ padded[b] \in [1 .. MAX_AB_SIZE -> AddressBookEntry]
      /\ padded[c] \in [1 .. MAX_AB_SIZE -> AddressBookEntry]
  BY PaddedBook
<1>3. \A i \in 1 .. MAX_AB_SIZE :
         padded[b][i].pk = padded[c][i].pk /\ padded[b][i].weight = padded[c][i].weight
  BY SameHash
<1>4. /\ subset_weight(padded[b], A).ok /\ subset_weight(padded[c], B).ok
      /\ meets_threshold(subset_weight(padded[b], A).signing, subset_weight(padded[b], A).total)
      /\ meets_threshold(subset_weight(padded[c], B).signing, subset_weight(padded[c], B).total)
  BY RotatorsCarry
<1>5. PICK i \in 1 .. MAX_AB_SIZE :
         i \in A /\ i \in B /\ ~IsIdentity(padded[b][i].pk) /\ padded[b][i].weight > 0
  BY <1>1, <1>2, <1>3, <1>4, MajoritiesIntersect
<1>6. padded[b][i] \in ToSet(Contents[b])
  BY <1>5, PaddedBook DEF ToSet
<1>7. padded[b][i].pk \in Signers(b, A) /\ padded[b][i].pk \in Signers(c, B)
  BY <1>3, <1>5 DEF Signers
<1> QED
  BY <1>5, <1>6, <1>7 DEF Live

\* Two heads of one ledger at one height are the work of a member who
\* consented to two successors of one book.  The lowest fork shows it: both
\* its heads succeed one statement, and the majorities that rotated its book
\* overlap.
THEOREM ForksHaveCulprits == Spec => []ForksAreAccountable
<1>1. ASSUME IInv PROVE ForksAreAccountable
  <2> SUFFICES ASSUME NEW p \in Attested, NEW q \in Attested,
                      p.z0 = q.z0, p.num_steps = q.num_steps, p.zi # q.zi
               PROVE  \E r, s, t \in Attested, b \in Books : \E entry \in ToSet(Contents[b]) :
                         Culprit(p, r, s, t, b, entry)
    BY DEF ForksAreAccountable
  <2>1. \A a \in Attested : a.num_steps \in Nat
    BY <1>1, WellFormedFields DEF IInv, Attested, StatementOf
  <2> DEFINE ForkAt(k) == \E s, t \in Attested :
                 /\ s.z0 = p.z0 /\ t.z0 = p.z0 /\ s.num_steps = k /\ t.num_steps = k /\ s.zi # t.zi
             Forks == {k \in Nat : ForkAt(k)}
  <2>2. p.num_steps \in Forks
    BY <2>1
  <2>3. PICK k \in Forks : \A m \in Forks : k <= m
    <3> HIDE DEF Forks
    <3>1. Forks \in SUBSET Nat /\ Forks # {}
      BY <2>2 DEF Forks
    <3> QED
      BY <3>1, LeastNatural
  <2>4. PICK s \in Attested, t \in Attested :
           /\ s.z0 = p.z0 /\ t.z0 = p.z0 /\ s.num_steps = k /\ t.num_steps = k /\ s.zi # t.zi
    BY <2>3
  <2>5. k <= p.num_steps
    BY <2>2, <2>3
  <2>6. ~(Founded(s) /\ Founded(t))
    BY <2>4 DEF Founded
  <2>7. \A a \in Attested : Founded(a) \/ \E r \in Attested : Succeeds(a, r)
    BY <1>1 DEF IInv, Linked
  <2>8. \A a \in Attested : a.num_steps # 0
    BY <1>1, WellFormedFields DEF IInv, Attested, StatementOf
  <2>9. ~Founded(s) /\ ~Founded(t)
    BY <2>1, <2>4, <2>6, <2>7, <2>8 DEF Founded, Succeeds
  <2>10. PICK r \in Attested : Succeeds(s, r)
    BY <2>7, <2>9
  <2>11. PICK u \in Attested : Succeeds(t, u)
    BY <2>7, <2>9
  <2>12. /\ r.z0 = p.z0 /\ u.z0 = p.z0
         /\ s.num_steps = r.num_steps + 1 /\ t.num_steps = r.num_steps + 1
         /\ u.num_steps = r.num_steps /\ r.num_steps < k
    BY <2>1, <2>4, <2>10, <2>11 DEF Succeeds
  <2>13. r.zi = u.zi
    <3> SUFFICES ASSUME r.zi # u.zi PROVE FALSE
      OBVIOUS
    <3>1. r.num_steps \in Forks
      BY <2>1, <2>12
    <3> QED
      BY <2>1, <2>3, <2>12, <3>1
  <2>14. PICK b \in Books : \E bits \in Rotators[b] :
            HashOf[b] = r.zi[1] /\ \A pk \in Signers(b, bits) : <<pk, s.zi>> \in consents
    BY <2>10 DEF Succeeds
  <2>15. PICK A \in Rotators[b] :
            HashOf[b] = r.zi[1] /\ \A pk \in Signers(b, A) : <<pk, s.zi>> \in consents
    BY <2>14
  <2>16. PICK c \in Books : \E bits \in Rotators[c] :
            HashOf[c] = u.zi[1] /\ \A pk \in Signers(c, bits) : <<pk, t.zi>> \in consents
    BY <2>11 DEF Succeeds
  <2>17. PICK B \in Rotators[c] :
            HashOf[c] = u.zi[1] /\ \A pk \in Signers(c, B) : <<pk, t.zi>> \in consents
    BY <2>16
  <2>18. PICK entry \in ToSet(Contents[b]) :
            Live(entry) /\ entry.pk \in Signers(b, A) /\ entry.pk \in Signers(c, B)
    BY <2>13, <2>15, <2>17, RotatorsOverlap
  <2>19. {<<entry.pk, s.zi>>, <<entry.pk, t.zi>>} \subseteq consents
    BY <2>15, <2>17, <2>18
  <2>20. r.num_steps < p.num_steps
    BY <2>1, <2>5, <2>12
  <2>21. Culprit(p, r, s, t, b, entry)
    BY <2>4, <2>12, <2>15, <2>18, <2>19, <2>20 DEF Culprit
  <2> QED
    BY <2>21
<1> QED
  BY <1>1, InvariantHolds, PTL

-----------------------------------------------------------------------------
\* The SNARK of a step that satisfies the circuit.
LEMMA ProveSatisfiedStep ==
    ASSUME NEW snark \in Snarks, NEW c, c.msg \in Messages, Satisfied(c, snark.zi)
    PROVE  prove_step(snark, c) =
              [num_steps |-> snark.num_steps + 1, z0 |-> snark.z0, zi |-> c.msg, sat |-> TRUE]
<1>1. snark.num_steps # 0 /\ snark.num_steps \in Nat /\ snark.sat = TRUE
  BY DEF Snarks
<1>2. prove_step(snark, c) =
         [snark EXCEPT !.num_steps = @ + 1, !.zi = c.msg, !.sat = @ /\ Satisfied(c, snark.zi)]
  BY <1>1, Zenon DEF prove_step
<1>3. (snark.sat /\ Satisfied(c, snark.zi)) = TRUE
  BY <1>1
<1>4. prove_step(snark, c) = [snark EXCEPT !.num_steps = @ + 1, !.zi = c.msg, !.sat = TRUE]
  BY <1>2, <1>3, Zenon
<1> QED
  BY <1>4 DEF Snarks

\* A proof is never stuck: with the signature of a majority of its book,
\* construct_wraps_proof takes it to the book they signed.
THEOREM HeadsRotate == Spec => []HeadsCanRotate
<1>1. ASSUME IInv PROVE HeadsCanRotate
  <2> SUFFICES ASSUME NEW p \in proofs,
                      NEW b \in {c \in ValidBooks : HashOf[c] = p.zi[1]},
                      NEW bits \in Rotators[b],
                      NEW msg \in {m \in Messages :
                                      \A pk \in Signers(b, bits) : <<pk, m>> \in consents},
                      NEW next \in ValidBooks, HashOf[next] = msg[1]
               PROVE  LET sig == [joint |-> SelectedKey[b][bits], msg |-> msg]
                      IN  /\ Admits(b, next, msg[2], bits, sig)
                          /\ \E r \in construct_wraps_proof(p.z0[1], b, next, p, msg[2], bits, sig) :
                                StatementOf(r) = [z0 |-> p.z0, zi |-> msg,
                                                  num_steps |-> p.num_steps + 1]
    BY Zenon DEF HeadsCanRotate
  <2> DEFINE sig == [joint |-> SelectedKey[b][bits], msg |-> msg]
  <2>1. b \in Books /\ next \in Books
    BY DEF ValidBooks
  <2>2. compute_rotation_message(next, msg[2]) = msg
    BY MessagePairs DEF compute_rotation_message
  <2>3. /\ bits \in SUBSET (1 .. MAX_AB_SIZE)
        /\ subset_weight(padded[b], bits).ok
        /\ meets_threshold(subset_weight(padded[b], bits).signing,
                           subset_weight(padded[b], bits).total)
        /\ ~IsIdentity(SelectedKey[b][bits])
        /\ \A i \in bits : ~IsIdentity(padded[b][i].pk)
    BY <2>1, RotatorsCarry
  <2>4. Admits(b, next, msg[2], bits, sig)
    <3>1. verify_signature(b, msg, bits, sig)
      BY DEF verify_signature
    <3>2. \A i \in bits : i <= Len(Contents[b])
      BY <2>1, <2>3, PaddedBook, SMTT(30)
    <3>3. ~SelectsOutside(Contents[b], bits)
      <4>1. Contents[b] \in Seq(AddressBookEntry)
        BY <2>1, PaddedBook
      <4> QED
        BY <2>3, <3>2, <4>1, SMTT(30) DEF SelectsOutside
    <3> QED
      BY <2>2, <3>1, <3>3 DEF Admits
  <2> DEFINE c == [prev_ab |-> b, bits |-> bits, sig |-> sig, msg |-> msg]
             s == prove_step(p.snark, c)
             r == Running(s, p.z0)
  <2>5. WellFormed(p)
    BY <1>1 DEF IInv
  <2>6. /\ p.snark \in Snarks /\ p.snark.num_steps \in Nat \ {0}
        /\ p.num_steps = p.snark.num_steps /\ p.z0 = p.snark.z0 /\ p.zi = p.snark.zi
        /\ p # None
    <3>1. "zi" \in DOMAIN p /\ DOMAIN None = {}
      BY <2>5, WellFormedFields DEF None
    <3>2. p # None
      BY <3>1
    <3> QED
      BY <2>5, <3>2, WellFormedFields DEF Snarks
  <2>7. Satisfied(c, p.snark.zi)
    BY <2>3, <2>6 DEF Satisfied
  <2>8. s = [num_steps |-> p.snark.num_steps + 1, z0 |-> p.z0, zi |-> msg, sat |-> TRUE]
    <3>1. c.msg = msg
      OBVIOUS
    <3> HIDE DEF c
    <3> QED
      BY <2>6, <2>7, <3>1, ProveSatisfiedStep
  <2> HIDE DEF s
  <2>9. /\ r = [num_steps |-> s.num_steps, z0 |-> p.z0, zi |-> s.zi, snark |-> s]
        /\ r.snark = s /\ r.zi = msg /\ r.z0 = p.z0 /\ r.num_steps = p.num_steps + 1
    <3>1. r = [num_steps |-> s.num_steps, z0 |-> p.z0, zi |-> s.zi, snark |-> s]
      BY Zenon DEF Running
    <3>2. r.snark = s /\ r.zi = s.zi /\ r.z0 = p.z0 /\ r.num_steps = s.num_steps
      BY <3>1
    <3>3. s.zi = msg /\ s.num_steps = p.snark.num_steps + 1
      BY <2>8
    <3> QED
      BY <2>6, <3>1, <3>2, <3>3
  <2>10. verify_wraps_proof(r, <<p.z0[1], r.z0[2]>>, msg[2])
    <3>1. s.sat = TRUE /\ s.z0 = p.z0 /\ s.zi = msg /\ s.num_steps = p.snark.num_steps + 1
      BY <2>8
    <3>2. r.num_steps # 0 /\ r.num_steps = s.num_steps
      BY <2>6, <2>9, <3>1, SMTT(30)
    <3>3. SnarkVerifies(r.snark, r.num_steps, r.z0)
      BY <2>9, <3>1, <3>2, Zenon DEF SnarkVerifies
    <3>4. r.z0[1] = p.z0[1] /\ r.zi[2] = msg[2] /\ r.snark.zi = r.zi
      BY <2>9, <3>1, Zenon
    <3> HIDE DEF r
    <3> QED
      BY <3>3, <3>4 DEF verify_wraps_proof
  <2>11. p \in Begin(p.z0[1], b, next, p, msg[2], c)
    BY <2>6 DEF Begin, MetadataMatches
  <2>12. r \in construct_wraps_proof(p.z0[1], b, next, p, msg[2], bits, sig)
    BY <2>2, <2>10, <2>11 DEF construct_wraps_proof, s
  <2>13. StatementOf(r) = [z0 |-> p.z0, zi |-> msg, num_steps |-> p.num_steps + 1]
    BY <2>9 DEF StatementOf
  <2> QED
    BY <2>4, <2>12, <2>13
<1> QED
  BY <1>1, InvariantHolds, PTL

-----------------------------------------------------------------------------
(* The weighing of a book.                                                 *)

\* The seats the loops have visited.
Visited == 1 .. seat - 1

\* The circuit's sums are still far from the field's modulus: every seat that
\* is left adds at most MaxWeight.
NoWrap ==
    /\ circA.total + (MAX_AB_SIZE + 1 - seat) * MaxWeight <= MAX_AB_SIZE * MaxWeight
    /\ circA.total = circB.total
    /\ circA.signing <= circA.total
    /\ circB.signing <= circB.total

\* A native tally is the circuit's, until the total overflows a u64.
Follows(tally, circ) ==
    IF tally.ok THEN tally.signing = circ.signing /\ tally.total = circ.total
                ELSE circ.total > MaxWeight

\* As long as no held seat is in both bitvectors, the two subsets compete for
\* one total.
Disjoint ==
    (\A s \in Visited \cap bitsA \cap bitsB : ~LiveSeat(s))
        => circA.signing + circB.signing <= circA.total

Duplicate ==
    \E s, t \in Visited : s # t /\ ab[s].pk = ab[t].pk /\ ~IsIdentity(ab[s].pk)
BadProof ==
    \E s \in Visited : ~IsIdentity(ab[s].pk) /\ ~verify_knowledge(ab[s].pk, ab[s].pok)

\* What verify_address_book knows of the seats it has visited.
BookSoFar ==
    IF book.ok
    THEN /\ book.seen = {ab[s].pk : s \in {t \in Visited : ~IsIdentity(ab[t].pk)}}
         /\ book.total = circA.total
         /\ circA.total <= MaxWeight
         /\ ~Duplicate
         /\ ~BadProof
    ELSE Duplicate \/ BadProof \/ circA.total > MaxWeight

TallyInv ==
    /\ TypeOK
    /\ NoWrap
    /\ Follows(tallyA, circA)
    /\ Follows(tallyB, circB)
    /\ Disjoint
    /\ BookSoFar

-----------------------------------------------------------------------------
USE AddressBookAssumption, WeightTallyAssumption

\* Far from the modulus, a step of the circuit's sums (sum_of) is plain
\* integer addition.
LEMMA CircuitStepIsExact ==
    ASSUME NEW acc \in Sums, NEW entry \in AddressBookEntry, NEW signed \in BOOLEAN,
           acc.signing <= acc.total,
           acc.total + MaxWeight < FieldPrime
    PROVE  LET e == EffectiveWeight(entry)
               c == CircuitStep(acc, entry, signed)
           IN  /\ e \in 0 .. MaxWeight
               /\ c = [signing |-> IF signed THEN acc.signing + e ELSE acc.signing,
                       total   |-> acc.total + e]
               /\ c \in Sums
               /\ c.signing <= c.total
    BY SMTT(30) DEF Sums, AddressBookEntry, EffectiveWeight, CircuitStep, FieldAdd, Weight

\* The bound NoWrap keeps is enough for one more seat.
LEMMA RoomForOneSeat ==
    ASSUME TypeOK, NoWrap, seat \in Seats
    PROVE  /\ circA.total + MaxWeight < FieldPrime
           /\ circA.total + MaxWeight + (MAX_AB_SIZE - seat) * MaxWeight
                 <= MAX_AB_SIZE * MaxWeight
<1>1. (MAX_AB_SIZE - seat) * MaxWeight >= 0 /\ MAX_AB_SIZE * MaxWeight \in Nat
    BY DEF Seats
<1>2. (MAX_AB_SIZE + 1 - seat) * MaxWeight = MaxWeight + (MAX_AB_SIZE - seat) * MaxWeight
    BY DEF Seats
<1>3. ASSUME NEW all \in Nat, NEW rest \in Nat, NEW total \in Nat,
             FieldPrime > 2 * (all + 1),
             total + (MaxWeight + rest) <= all
      PROVE  total + MaxWeight < FieldPrime /\ total + MaxWeight + rest <= all
    BY <1>3
<1>4. /\ circA.total \in Nat
      /\ circA.total + (MaxWeight + (MAX_AB_SIZE - seat) * MaxWeight) <= MAX_AB_SIZE * MaxWeight
      /\ (MAX_AB_SIZE - seat) * MaxWeight \in Nat
    BY <1>1, <1>2 DEF NoWrap, TypeOK, Sums, Seats
<1>5. QED
    BY <1>1, <1>3, <1>4

\* TallyStep keeps following the circuit, and never leaves the u64 range.
LEMMA TallyFollows ==
    ASSUME NEW tally \in Tally, NEW acc \in Sums,
           NEW entry \in AddressBookEntry, NEW signed \in BOOLEAN,
           acc.signing <= acc.total,
           acc.total + MaxWeight < FieldPrime,
           Follows(tally, acc)
    PROVE  LET t == TallyStep(tally, entry, signed)
           IN  /\ t \in Tally
               /\ Follows(t, CircuitStep(acc, entry, signed))
<1>1. EffectiveWeight(entry) \in 0 .. MaxWeight
    BY CircuitStepIsExact
<1>2. CircuitStep(acc, entry, signed)
        = [signing |-> IF signed THEN acc.signing + EffectiveWeight(entry) ELSE acc.signing,
           total   |-> acc.total + EffectiveWeight(entry)]
    BY CircuitStepIsExact
<1> DEFINE e == EffectiveWeight(entry)
           sum == acc.total + e
           part == IF signed THEN acc.signing + e ELSE acc.signing
           circ == [signing |-> part, total |-> sum]
           stopped == [tally EXCEPT !.ok = FALSE]
<1>3. /\ e \in Nat /\ e <= MaxWeight
      /\ acc.total \in Nat /\ acc.signing \in Nat
      /\ sum \in Nat /\ part \in Nat /\ part <= sum
    BY <1>1 DEF Sums
<1>4. stopped \in Tally /\ ~stopped.ok
    BY ZenonT(60) DEF Tally
<1>5. CASE tally.ok /\ sum <= MaxWeight
    <2>1. TallyStep(tally, entry, signed) = [ok |-> TRUE, signing |-> part, total |-> sum]
        <3>1. tally.total = acc.total /\ tally.signing = acc.signing
            BY <1>5 DEF Follows
        <3>2. QED
            BY <1>3, <1>5, <3>1 DEF TallyStep
    <2>2. QED
        BY <1>2, <1>3, <1>5, <2>1, SMTT(30) DEF Tally, Weight, Follows
<1>6. CASE ~(tally.ok /\ sum <= MaxWeight)
    <2>1. TallyStep(tally, entry, signed) = stopped
        BY <1>3, <1>6 DEF TallyStep, Follows
    <2>2. circ.total > MaxWeight
        BY <1>3, <1>6 DEF Follows
    <2>3. QED
        BY <1>2, <1>4, <2>1, <2>2 DEF Follows
<1>7. QED
    BY <1>5, <1>6

\* The invariant holds before the loops visit their first seat.
LEMMA InitEstablishes == TallyInit => TallyInv
<1> SUFFICES ASSUME TallyInit PROVE TallyInv
    OBVIOUS
<1>1. TypeOK
    BY SMTT(30) DEF TallyInit, TypeOK, Sums, Tally, Weight, Seats, VerifyStart, TallyStart
<1>2. NoWrap
    BY DEF TallyInit, NoWrap
<1>3. Follows(tallyA, circA) /\ Follows(tallyB, circB)
    BY DEF TallyInit, Follows, TallyStart
<1>4. Disjoint
    BY DEF TallyInit, Disjoint
<1>5. BookSoFar
    BY SMTT(30) DEF TallyInit, BookSoFar, VerifyStart, Visited, Duplicate, BadProof
<1>6. QED
    BY <1>1, <1>2, <1>3, <1>4, <1>5 DEF TallyInv

\* verify_address_book's loop keeps BookSoFar: the heart of VerdictIsOrderFree.
LEMMA BookStep ==
    ASSUME TallyInv, VisitSeat,
           circA'.total = circA.total + EffectiveWeight(ab[seat])
    PROVE  /\ book' \in [ok : BOOLEAN, seen : SUBSET PublicKey, total : Nat]
           /\ BookSoFar'
<1> DEFINE entry == ab[seat]
<1>1. /\ entry \in AddressBookEntry /\ entry.weight \in Nat /\ entry.pk \in PublicKey
      /\ seat \in Nat /\ ab' = ab /\ Visited' = Visited \cup {seat} /\ seat \notin Visited
      /\ circA.total \in Nat
      /\ book' = VerifyStep(book, entry)
    <2>1. TypeOK
        BY DEF TallyInv
    <2>2. seat \in Seats /\ seat' = seat + 1 /\ ab' = ab /\ book' = VerifyStep(book, entry)
        BY DEF VisitSeat
    <2>3. entry \in AddressBookEntry
        BY <2>1, <2>2 DEF TypeOK
    <2>4. entry.weight \in Nat /\ entry.pk \in PublicKey
        BY <2>3 DEF AddressBookEntry, Weight
    <2>5. seat \in Nat /\ Visited' = Visited \cup {seat} /\ seat \notin Visited
        BY <2>2 DEF Seats, Visited
    <2>6. circA.total \in Nat
        BY <2>1 DEF TypeOK, Sums
    <2>7. QED
        BY <2>2, <2>3, <2>4, <2>5, <2>6
<1>2. book \in [ok : BOOLEAN, seen : SUBSET PublicKey, total : Nat]
    BY DEF TallyInv, TypeOK
<1>3. CASE ~book.ok
    <2>1. book' = book
        BY <1>1, <1>3 DEF VerifyStep
    <2>2. circA'.total >= circA.total
        BY <1>1 DEF EffectiveWeight
    <2>3. (Duplicate => Duplicate') /\ (BadProof => BadProof')
        BY <1>1 DEF Duplicate, BadProof
    <2>4. circA'.total \in Nat
        BY <1>1 DEF EffectiveWeight
    <2>5. circA.total > MaxWeight => circA'.total > MaxWeight
        BY <1>1, <2>2, <2>4, SMTT(30)
    <2>6. Duplicate' \/ BadProof' \/ circA'.total > MaxWeight
        BY <1>3, <2>3, <2>5 DEF TallyInv, BookSoFar
    <2>7. QED
        BY <1>2, <1>3, <2>1, <2>6 DEF BookSoFar
<1>4. CASE book.ok /\ IsIdentity(entry.pk)
    <2>1. book' = book /\ circA'.total = circA.total
        BY <1>1, <1>4, SMTT(30) DEF VerifyStep, EffectiveWeight
    <2>2. {t \in Visited' : ~IsIdentity(ab'[t].pk)} = {t \in Visited : ~IsIdentity(ab[t].pk)}
        BY <1>1, <1>4
    <2>3. ~Duplicate' /\ ~BadProof'
        BY <1>1, <1>4 DEF TallyInv, BookSoFar, Duplicate, BadProof, IsIdentity
    <2>4. QED
        BY <1>1, <1>2, <1>4, <2>1, <2>2, <2>3, SMTT(30) DEF TallyInv, BookSoFar
<1>5. CASE book.ok /\ ~IsIdentity(entry.pk)
    <2>1. book' = [ok    |-> /\ entry.pk \notin book.seen
                             /\ book.total + entry.weight <= MaxWeight
                             /\ verify_knowledge(entry.pk, entry.pok),
                   seen  |-> book.seen \cup {entry.pk},
                   total |-> book.total + entry.weight]
        BY <1>1, <1>5 DEF VerifyStep
    <2>2. book'.total = circA'.total
        <3>1. book.total = circA.total
            BY <1>5 DEF TallyInv, BookSoFar
        <3>2. EffectiveWeight(entry) = entry.weight
            BY <1>5 DEF EffectiveWeight
        <3>3. circA'.total = circA.total + EffectiveWeight(entry)
            OBVIOUS
        <3>4. book'.total = book.total + entry.weight
            BY <2>1
        <3>5. QED
            BY <3>1, <3>2, <3>3, <3>4
    <2>3. book'.seen = {ab'[s].pk : s \in {t \in Visited' : ~IsIdentity(ab'[t].pk)}}
        <3>1. book.seen = {ab[s].pk : s \in {t \in Visited : ~IsIdentity(ab[t].pk)}}
            BY <1>5, ZenonT(30) DEF TallyInv, BookSoFar
        <3>2. book'.seen = book.seen \cup {entry.pk}
            BY <2>1
        <3>3. {t \in Visited' : ~IsIdentity(ab'[t].pk)}
                  = {t \in Visited : ~IsIdentity(ab[t].pk)} \cup {seat}
            BY <1>1, <1>5
        <3>4. QED
            BY <1>1, <3>1, <3>2, <3>3
    <2>4. Duplicate' <=> entry.pk \in book.seen
        <3>1. /\ ~Duplicate
              /\ book.seen = {ab[s].pk : s \in {t \in Visited : ~IsIdentity(ab[t].pk)}}
            BY <1>5 DEF TallyInv, BookSoFar
        <3>2. Duplicate' <=> \E s \in Visited : ab[s].pk = entry.pk /\ ~IsIdentity(ab[s].pk)
            BY <1>1, <1>5, <3>1 DEF Duplicate
        <3>3. entry.pk \in book.seen <=>
                  \E s \in Visited : ab[s].pk = entry.pk /\ ~IsIdentity(ab[s].pk)
            BY <3>1
        <3>4. QED
            BY <3>2, <3>3
    <2>5. BadProof' <=> ~verify_knowledge(entry.pk, entry.pok)
        BY <1>1, <1>5 DEF TallyInv, BookSoFar, BadProof
    <2>6. /\ book' \in [ok : BOOLEAN, seen : SUBSET PublicKey, total : Nat]
          /\ book'.ok <=> /\ entry.pk \notin book.seen
                          /\ book'.total <= MaxWeight
                          /\ verify_knowledge(entry.pk, entry.pok)
        BY <1>1, <1>2, <2>1, SMTT(30) DEF verify_knowledge
    <2>7. QED
        BY <2>2, <2>3, <2>4, <2>5, <2>6, SMTT(30) DEF BookSoFar
<1>6. QED
    BY <1>3, <1>4, <1>5

\* One visited seat preserves the inductive invariant.
LEMMA VisitSeatPreserves ==
    ASSUME TallyInv, VisitSeat
    PROVE  TallyInv'
<1> DEFINE e == EffectiveWeight(ab[seat])
<1>1. /\ ab[seat] \in AddressBookEntry /\ seat \in Seats
      /\ circA.total + MaxWeight < FieldPrime /\ circB.total + MaxWeight < FieldPrime
      /\ circA.total + MaxWeight + (MAX_AB_SIZE - seat) * MaxWeight <= MAX_AB_SIZE * MaxWeight
      /\ circA.signing <= circA.total /\ circB.signing <= circB.total
      /\ circA.total = circB.total /\ circA \in Sums /\ circB \in Sums
    BY RoomForOneSeat DEF TallyInv, TypeOK, NoWrap, VisitSeat
<1>2. /\ e \in 0 .. MaxWeight
      /\ circA' = [signing |-> IF seat \in bitsA THEN circA.signing + e ELSE circA.signing,
                   total   |-> circA.total + e]
      /\ circA' \in Sums /\ circA'.signing <= circA'.total
    <2>1. circA' = CircuitStep(circA, ab[seat], seat \in bitsA) /\ (seat \in bitsA) \in BOOLEAN
        BY DEF VisitSeat
    <2>2. QED
        BY ZenonT(60), <1>1, <2>1, CircuitStepIsExact
<1>3. /\ circB' = [signing |-> IF seat \in bitsB THEN circB.signing + e ELSE circB.signing,
                   total   |-> circB.total + e]
      /\ circB' \in Sums /\ circB'.signing <= circB'.total
    <2>1. circB' = CircuitStep(circB, ab[seat], seat \in bitsB) /\ (seat \in bitsB) \in BOOLEAN
        BY DEF VisitSeat
    <2>2. QED
        BY ZenonT(60), <1>1, <2>1, CircuitStepIsExact
<1>4. tallyA' \in Tally /\ Follows(tallyA', circA')
    <2>1. /\ circA' = CircuitStep(circA, ab[seat], seat \in bitsA)
          /\ tallyA' = TallyStep(tallyA, ab[seat], seat \in bitsA)
          /\ (seat \in bitsA) \in BOOLEAN
          /\ tallyA \in Tally /\ Follows(tallyA, circA)
        BY DEF VisitSeat, TallyInv, TypeOK
    <2>2. QED
        BY ZenonT(60), <1>1, <2>1, TallyFollows
<1>5. tallyB' \in Tally /\ Follows(tallyB', circB')
    <2>1. /\ circB' = CircuitStep(circB, ab[seat], seat \in bitsB)
          /\ tallyB' = TallyStep(tallyB, ab[seat], seat \in bitsB)
          /\ (seat \in bitsB) \in BOOLEAN
          /\ tallyB \in Tally /\ Follows(tallyB, circB)
        BY SMTT(30) DEF VisitSeat, TallyInv, TypeOK
    <2>2. QED
        BY ZenonT(60), <1>1, <2>1, TallyFollows
<1>6. /\ book' \in [ok : BOOLEAN, seen : SUBSET PublicKey, total : Nat]
      /\ BookSoFar'
    BY <1>2, BookStep
<1>7. TypeOK'
    BY <1>2, <1>3, <1>4, <1>5, <1>6, SMTT(30) DEF TallyInv, TypeOK, VisitSeat, Seats
<1>8. NoWrap'
    <2>1. seat' = seat + 1 /\ circA.total \in Nat
        BY <1>1, SMTT(30) DEF VisitSeat, Sums
    <2>2. MAX_AB_SIZE + 1 - seat' = MAX_AB_SIZE - seat
        BY <1>1, <2>1 DEF Seats
    <2>3. (MAX_AB_SIZE - seat) * MaxWeight \in Int /\ MAX_AB_SIZE * MaxWeight \in Int
        BY <1>1 DEF Seats
    <2>4. ASSUME NEW rest \in Int, NEW all \in Int, NEW total \in Nat,
                 total + MaxWeight + rest <= all
          PROVE  total + e + rest <= all
        BY <1>2, <2>4
    <2>5. circA.total + e + (MAX_AB_SIZE - seat) * MaxWeight <= MAX_AB_SIZE * MaxWeight
        BY <1>1, <2>1, <2>3, <2>4
    <2>6. QED
        BY <1>1, <1>2, <1>3, <2>2, <2>5 DEF NoWrap
<1>9. Disjoint'
    <2> SUFFICES ASSUME \A s \in Visited' \cap bitsA' \cap bitsB' : ~LiveSeat(s)'
                 PROVE  circA'.signing + circB'.signing <= circA'.total
        BY DEF Disjoint
    <2>1. /\ Visited' = Visited \cup {seat} /\ bitsA' = bitsA /\ bitsB' = bitsB /\ ab' = ab
        BY <1>1, SMTT(30) DEF VisitSeat, Visited, Seats
    <2>2. circA.signing + circB.signing <= circA.total
        BY <2>1 DEF TallyInv, Disjoint, LiveSeat
    <2>3. seat \in bitsA \cap bitsB => e = 0
        BY <1>1, <2>1 DEF LiveSeat, EffectiveWeight, AddressBookEntry, Weight
    <2>4. QED
        BY <1>1, <1>2, <1>3, <2>2, <2>3, SMTT(30) DEF Sums
<1>10. QED
    BY <1>4, <1>5, <1>6, <1>7, <1>8, <1>9 DEF TallyInv

\* The inductive invariant holds of every run of the loops.
THEOREM TallyInvariant == TallySpec => []TallyInv
<1>1. TallyInv /\ [TallyNext]_tallyVars => TallyInv'
    <2> SUFFICES ASSUME TallyInv, [TallyNext]_tallyVars PROVE TallyInv'
        OBVIOUS
    <2>1. CASE VisitSeat
        BY <2>1, VisitSeatPreserves
    <2>2. CASE UNCHANGED tallyVars
        BY <2>2, ZenonT(30) DEF tallyVars, TallyInv, TypeOK, NoWrap, Follows, Disjoint, LiveSeat, BookSoFar,
                    Duplicate, BadProof, Visited
    <2>3. QED
        BY <2>1, <2>2 DEF TallyNext
<1>2. QED
    BY InitEstablishes, <1>1, PTL DEF TallySpec

\* The sums of every loop stay in their types: the native ones in a u64, the
\* circuit's in its field.
THEOREM TallyTypes == TallySpec => []TypeOK
    BY TallyInvariant, PTL DEF TallyInv

\* The native threshold test and the circuit's agree on every book of every
\* size: overflowing totals and wrapped differences included.
THEOREM NativeAndCircuitAgree == TallySpec => []NativeMatchesCircuit
<1>1. ASSUME NEW tally \in Tally, NEW circ \in Sums,
             Follows(tally, circ), circ.signing <= circ.total,
             2 * circ.total + 1 < FieldPrime
      PROVE  NativeAccepts(tally) <=> CircuitAccepts(circ)
    <2> DEFINE remaining == circ.total - circ.signing
    <2>1. FieldSub(circ.total, circ.signing) = remaining /\ remaining \in Nat
        BY <1>1 DEF FieldSub, Sums
    <2>2. CircuitAccepts(circ) <=> circ.total <= MaxWeight /\ circ.signing > remaining
        BY <1>1, <2>1, SMTT(30) DEF CircuitAccepts, FieldSub, InRange, Sums
    <2>3. NativeAccepts(tally) <=> circ.total <= MaxWeight /\ circ.signing > circ.total \div 2
        BY <1>1 DEF NativeAccepts, Follows, meets_threshold, Tally, Sums, Weight
    <2>4. circ.signing > circ.total \div 2 <=> circ.signing > remaining
        BY <1>1 DEF Sums
    <2>5. QED
        BY <2>2, <2>3, <2>4
<1>2. TallyInv => NativeMatchesCircuit
    <2> SUFFICES ASSUME TallyInv, Done PROVE NativeMatchesCircuit
        BY DEF NativeMatchesCircuit
    <2>1. circA.total <= MAX_AB_SIZE * MaxWeight
        BY DEF TallyInv, NoWrap, TypeOK, Sums, Done
    <2>2. ASSUME NEW all \in Nat, NEW total \in Nat, total <= all, FieldPrime > 2 * (all + 1)
          PROVE  2 * total + 1 < FieldPrime
        BY <2>2
    <2>3. 2 * circA.total + 1 < FieldPrime /\ circA.total = circB.total
        BY <2>1, <2>2, SMTT(30) DEF TallyInv, NoWrap, TypeOK, Sums
    <2>4. QED
        BY <1>1, <2>3 DEF TallyInv, TypeOK, NoWrap, NativeMatchesCircuit
<1>3. QED
    BY TallyInvariant, <1>2, PTL

\* Two subsets of one book that both carry a strict majority share a member
\* with weight.
THEOREM MajoritiesShareAMember == TallySpec => []MajoritiesOverlap
<1>1. TallyInv => MajoritiesOverlap
    <2> SUFFICES ASSUME TallyInv, Done, NativeAccepts(tallyA), NativeAccepts(tallyB)
                 PROVE  \E s \in bitsA \cap bitsB : LiveSeat(s)
        BY DEF MajoritiesOverlap
    <2>1. /\ circA.signing \in Nat /\ circA.total \in Nat /\ circB.signing \in Nat
          /\ circA.signing > circA.total \div 2 /\ circB.signing > circA.total \div 2
        BY SMTT(30) DEF TallyInv, TypeOK, NoWrap, Follows, NativeAccepts, meets_threshold, Sums
    <2>2. circA.signing + circB.signing > circA.total
        BY <2>1
    <2>3. QED
        BY <2>1, <2>2 DEF TallyInv, Disjoint
<1>2. QED
    BY TallyInvariant, <1>1, PTL

\* verify_address_book's early exit never changes its verdict.
THEOREM VerdictDoesNotDependOnOrder == TallySpec => []VerdictIsOrderFree
<1>1. TallyInv => VerdictIsOrderFree
    <2> SUFFICES ASSUME TallyInv, Done PROVE book.ok <=> ValidBook
        BY DEF VerdictIsOrderFree
    <2>1. Visited = Seats
        BY DEF Done, Visited, Seats
    <2>2. ValidBook <=> ~Duplicate /\ ~BadProof /\ circA.total <= MaxWeight
        BY <2>1 DEF ValidBook, Duplicate, BadProof
    <2>3. circA.total > MaxWeight <=> ~(circA.total <= MaxWeight)
        BY DEF TallyInv, TypeOK, Sums
    <2>4. QED
        BY <2>2, <2>3 DEF TallyInv, BookSoFar
<1>2. QED
    BY TallyInvariant, <1>1, PTL

\* A validated book has a total that every later tally reproduces.
THEOREM ValidatedBooksTally == TallySpec => []ValidBooksHaveATotal
<1>1. TallyInv => ValidBooksHaveATotal
    BY DEF TallyInv, TypeOK, Sums, Follows, BookSoFar, ValidBooksHaveATotal
<1>2. QED
    BY TallyInvariant, <1>1, PTL
=============================================================================
