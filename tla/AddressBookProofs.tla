------------------------- MODULE AddressBookProofs -------------------------
(***************************************************************************)
(* What the loops of AddressBook compute, for every book: the facts about  *)
(* signing subsets and weights that the proofs about the signing protocol  *)
(* and the chain of rotations rest on.                                     *)
(***************************************************************************)
EXTENDS AddressBook, FoldTheorems, TLAPS

USE AddressBookAssumption

\* A checked sum stays a u64.
LEMMA TallyStepType ==
    ASSUME NEW acc \in Tally, NEW entry \in AddressBookEntry, NEW signed \in BOOLEAN
    PROVE  TallyStep(acc, entry, signed) \in Tally
<1>1. /\ EffectiveWeight(entry) \in Nat
      /\ acc.ok \in BOOLEAN /\ acc.signing \in 0 .. MaxWeight /\ acc.total \in 0 .. MaxWeight
  BY DEF Tally, EffectiveWeight, AddressBookEntry, Weight
<1> HIDE DEF EffectiveWeight
<1> DEFINE total   == acc.total + EffectiveWeight(entry)
           signing == IF signed THEN acc.signing + EffectiveWeight(entry) ELSE acc.signing
<1>2. total \in Nat /\ signing \in Nat
  BY <1>1
<1>3. CASE acc.ok /\ total <= MaxWeight /\ signing <= MaxWeight
  <2>1. TallyStep(acc, entry, signed) = [ok |-> TRUE, signing |-> signing, total |-> total]
    BY <1>3 DEF TallyStep
  <2> HIDE DEF total, signing
  <2> QED
    BY <1>2, <1>3, <2>1 DEF Tally, Weight
<1>4. CASE ~(acc.ok /\ total <= MaxWeight /\ signing <= MaxWeight)
  <2>1. TallyStep(acc, entry, signed) = [acc EXCEPT !.ok = FALSE]
    BY <1>4 DEF TallyStep
  <2> QED
    BY <2>1 DEF Tally
<1> QED
  BY <1>3, <1>4

\* t is a run of the loop of subset_weight over the first n seats of ab.
IsTallyRun(t, n, ab, bits) ==
    /\ t[0] = TallyStart
    /\ \A i \in 1 .. n : t[i] = TallyStep(t[i - 1], ab[i], i \in bits)
    /\ t[n] = subset_weight(ab, bits)

\* subset_weight is what a loop over the seats that takes one TallyStep per
\* seat ends with.
LEMMA SubsetWeight ==
    ASSUME NEW n \in Nat, NEW ab \in [1 .. n -> AddressBookEntry], n <= MAX_AB_SIZE, NEW bits
    PROVE  \E t \in [0 .. n -> Tally] : IsTallyRun(t, n, ab, bits)
<1> DEFINE op(acc, i) == TallyStep(acc, ab[i], i \in bits)
           start == [TallyStart EXCEPT !.ok = Len(ab) <= MAX_AB_SIZE]
           seq == [i \in DOMAIN ab |-> i]
           step == [x \in Tally \X (1 .. n) |-> op(x[1], x[2])]
           Rec(g) == g = [s \in SUBSET DOMAIN seq |->
                             IF s = {} THEN start ELSE op(g[s \ {Max(s)}], seq[Max(s)])]
           g == CHOOSE h : Rec(h)
<1>1. subset_weight(ab, bits) = g[DOMAIN seq]
  BY Zenon DEF subset_weight, FoldLeftDomain, FoldLeft, MapThenFoldSet
<1>2. Len(ab) = n /\ DOMAIN ab = 1 .. n /\ DOMAIN seq = 1 .. n /\ \A i \in 1 .. n : seq[i] = i
  OBVIOUS
<1>3. start = TallyStart
  <2>1. (Len(ab) <= MAX_AB_SIZE) = TRUE
    BY <1>2
  <2>2. start = [TallyStart EXCEPT !.ok = TRUE]
    BY <2>1, Zenon
  <2> HIDE DEF start
  <2> QED
    BY <2>2 DEF TallyStart
<1>4. TallyStart \in Tally
  BY DEF TallyStart, Tally, Weight
<1>5. \A acc \in Tally : \A i \in 1 .. n : op(acc, i) \in Tally
  <2> TAKE acc \in Tally
  <2> TAKE i \in 1 .. n
  <2>1. ab[i] \in AddressBookEntry /\ (i \in bits) \in BOOLEAN
    OBVIOUS
  <2> QED
    BY <2>1, TallyStepType
<1> HIDE DEF op, start
<1>6. step \in [Tally \X (1 .. n) -> Tally]
  BY <1>5
<1>7. PICK f \in [SUBSET (1 .. n) -> Tally] : IsFold(f, n, TallyStart, step)
  <2> HIDE DEF step
  <2> QED
    BY <1>4, <1>6, FoldExists
<1>8. Rec(f)
  <2>1. f[{}] = TallyStart
    BY <1>7 DEF IsFold
  <2>2. ASSUME NEW s \in SUBSET (1 .. n), s # {} PROVE f[s] = op(f[s \ {Max(s)}], seq[Max(s)])
    <3>1. Max(s) \in 1 .. n /\ f[s \ {Max(s)}] \in Tally
      BY <2>2, MaxProperties
    <3>2. f[s] = step[<<f[s \ {Max(s)}], Max(s)>>]
      BY <1>7, <2>2 DEF IsFold
    <3> QED
      BY <1>2, <3>1, <3>2
  <2> HIDE DEF seq
  <2> QED
    BY <1>2, <1>3, <2>1, <2>2
<1>9. Rec(g)
  <2> HIDE DEF Rec
  <2> QED
    BY <1>8
<1> HIDE DEF g
<1>10. IsPartialFold(g, n, Tally, TallyStart, step)
  <2>1. g[{}] = TallyStart
    BY <1>2, <1>3, <1>9
  <2>2. ASSUME NEW s \in SUBSET (1 .. n), s # {}, g[s \ {Max(s)}] \in Tally
        PROVE  g[s] = step[<<g[s \ {Max(s)}], Max(s)>>]
    <3>1. Max(s) \in 1 .. n
      BY <2>2, MaxProperties
    <3> HIDE DEF seq
    <3>2. g[s] = op(g[s \ {Max(s)}], seq[Max(s)])
      BY <1>2, <1>9, <2>2
    <3> QED
      BY <1>2, <2>2, <3>1, <3>2
  <2> QED
    BY <2>1, <2>2 DEF IsPartialFold
<1> DEFINE t == PartialFolds(g, n)
<1>11. t \in [0 .. n -> Tally] /\ IsRun(t, n, TallyStart, step)
  <2> HIDE DEF step
  <2> QED
    BY <1>4, <1>6, <1>10, FoldPrefixes
<1>12. t[n] = subset_weight(ab, bits)
  BY <1>1, <1>2 DEF PartialFolds
<1> HIDE DEF t
<1>13. t[0] = TallyStart /\ \A i \in 1 .. n : t[i] = op(t[i - 1], i)
  <2>1. \A i \in 1 .. n : t[i] = step[<<t[i - 1], i>>]
    BY <1>11 DEF IsRun
  <2>2. \A i \in 1 .. n : t[i - 1] \in Tally
    BY <1>11
  <2> QED
    BY <1>11, <2>1, <2>2 DEF IsRun
<1> QED
  BY <1>11, <1>12, <1>13 DEF op, IsTallyRun

\* The effective weight of seat i goes into the total, and into the signing
\* weight if the bitvector selects the seat.
AddsWeight(acc, next, entry, i, bits) ==
    /\ next.total = acc.total + EffectiveWeight(entry)
    /\ next.signing = acc.signing + IF i \in bits THEN EffectiveWeight(entry) ELSE 0

\* That is what a step that does not fail does.
LEMMA TallyStepAdds ==
    ASSUME NEW acc \in Tally, NEW entry \in AddressBookEntry, NEW i, NEW bits, NEW next,
           next = TallyStep(acc, entry, i \in bits), next.ok
    PROVE  acc.ok /\ AddsWeight(acc, next, entry, i, bits)
<1> DEFINE effective == EffectiveWeight(entry)
           total     == acc.total + effective
           signing   == IF i \in bits THEN acc.signing + effective ELSE acc.signing
<1>0. effective \in Nat /\ acc.signing \in Nat /\ acc.total \in Nat
  BY DEF EffectiveWeight, AddressBookEntry, Tally, Weight
<1>1. CASE acc.ok /\ total <= MaxWeight /\ signing <= MaxWeight
  <2>1. next = [ok |-> TRUE, signing |-> signing, total |-> total]
    BY <1>1 DEF TallyStep
  <2> HIDE DEF total, signing
  <2>2. next.total = total /\ next.signing = signing
    BY <2>1
  <2> HIDE DEF effective
  <2> QED
    BY <1>0, <1>1, <2>2 DEF effective, total, signing, AddsWeight
<1>2. CASE ~(acc.ok /\ total <= MaxWeight /\ signing <= MaxWeight)
  <2>1. next = [acc EXCEPT !.ok = FALSE]
    BY <1>2 DEF TallyStep
  <2> QED
    BY <2>1 DEF Tally
<1> QED
  BY <1>1, <1>2

\* Two bitvectors that carry a strict majority of one book, or of two books
\* with the same keys and weights, share a seat that has weight of its own:
\* this is what the threshold of the circuit is for.
THEOREM MajoritiesIntersect ==
    ASSUME NEW n \in Nat, n <= MAX_AB_SIZE,
           NEW ab \in [1 .. n -> AddressBookEntry], NEW cd \in [1 .. n -> AddressBookEntry],
           \A i \in 1 .. n : ab[i].pk = cd[i].pk /\ ab[i].weight = cd[i].weight,
           NEW A, NEW B,
           subset_weight(ab, A).ok, subset_weight(cd, B).ok,
           meets_threshold(subset_weight(ab, A).signing, subset_weight(ab, A).total),
           meets_threshold(subset_weight(cd, B).signing, subset_weight(cd, B).total)
    PROVE  \E i \in 1 .. n : i \in A /\ i \in B /\ ~IsIdentity(ab[i].pk) /\ ab[i].weight > 0
<1> SUFFICES ASSUME \A i \in 1 .. n : i \in A /\ i \in B => EffectiveWeight(ab[i]) <= 0
             PROVE  FALSE
  BY SMTT(30) DEF EffectiveWeight, AddressBookEntry, Weight
<1>1. PICK t \in [0 .. n -> Tally] : IsTallyRun(t, n, ab, A)
  BY SubsetWeight
<1>2. PICK u \in [0 .. n -> Tally] : IsTallyRun(u, n, cd, B)
  BY SubsetWeight
<1> DEFINE Apart(m) == /\ t[m].total = u[m].total
                       /\ t[m].signing + u[m].signing <= t[m].total
           S == {m \in 0 .. n : t[m].ok /\ u[m].ok => Apart(m)}
<1>3. 0 \in S
  BY <1>1, <1>2 DEF IsTallyRun, TallyStart
<1>4. ASSUME NEW m \in 0 .. n - 1, m \in S PROVE m + 1 \in S
  <2> DEFINE i == m + 1
  <2>1. i \in 1 .. n /\ i \in 0 .. n /\ i - 1 = m
    OBVIOUS
  <2> HIDE DEF i
  <2> SUFFICES ASSUME t[i].ok, u[i].ok PROVE Apart(i)
    BY <2>1 DEF i
  <2>2. t[m] \in Tally /\ u[m] \in Tally /\ ab[i] \in AddressBookEntry /\ cd[i] \in AddressBookEntry
    BY <2>1
  <2>3a. t[i] = TallyStep(t[m], ab[i], i \in A)
    BY <1>1, <2>1 DEF IsTallyRun
  <2>3. t[m].ok /\ AddsWeight(t[m], t[i], ab[i], i, A)
    BY <2>2, <2>3a, TallyStepAdds
  <2>4a. u[i] = TallyStep(u[m], cd[i], i \in B)
    BY <1>2, <2>1 DEF IsTallyRun
  <2>4. u[m].ok /\ AddsWeight(u[m], u[i], cd[i], i, B)
    BY <2>2, <2>4a, TallyStepAdds
  <2>5. EffectiveWeight(cd[i]) = EffectiveWeight(ab[i]) /\ EffectiveWeight(ab[i]) \in Nat
    BY <2>1, <2>2 DEF EffectiveWeight, AddressBookEntry, Weight
  <2>6. Apart(m)
    BY <1>4, <2>3, <2>4
  <2>7. /\ t[m].total \in Nat /\ t[m].signing \in Nat /\ u[m].total \in Nat /\ u[m].signing \in Nat
    BY <2>2, SMTT(30) DEF Tally, Weight
  <2> QED
    BY <2>1, <2>3, <2>4, <2>5, <2>6, <2>7, SMTT(30) DEF AddsWeight
<1>5. n \in S
  <2> HIDE DEF S
  <2>1. \A m \in 0 .. n : m \in S
    BY <1>3, <1>4, UpTo
  <2> QED
    BY <2>1
<1>6. Apart(n)
  BY <1>1, <1>2, <1>5 DEF IsTallyRun
<1>7. /\ t[n].total \in Nat /\ t[n].signing \in Nat /\ u[n].total \in Nat /\ u[n].signing \in Nat
  BY DEF Tally, Weight
<1> QED
  BY <1>1, <1>2, <1>6, <1>7 DEF IsTallyRun, meets_threshold

-----------------------------------------------------------------------------
\* The states of the loop of verify_address_book: its total may overflow, in
\* the step that makes ok false.
Verified == [ok : BOOLEAN, seen : SUBSET PublicKey, total : Nat]

\* v is a run of that loop over the entries of ab.
IsVerifyRun(v, n, ab) ==
    /\ v[0] = VerifyStart
    /\ \A i \in 1 .. n : v[i] = VerifyStep(v[i - 1], ab[i])
    /\ v[n] = FoldLeft(VerifyStep, VerifyStart, ab)

\* One entry of the all() loop of verify_address_book leaves a well-formed state.
LEMMA VerifyStepType ==
    ASSUME NEW acc \in Verified, NEW entry \in AddressBookEntry
    PROVE  VerifyStep(acc, entry) \in Verified
<1>1. CASE ~acc.ok \/ IsIdentity(entry.pk)
  BY <1>1 DEF VerifyStep
<1>2. CASE ~(~acc.ok \/ IsIdentity(entry.pk))
  <2> DEFINE ok == /\ entry.pk \notin acc.seen
                   /\ acc.total + entry.weight <= MaxWeight
                   /\ verify_knowledge(entry.pk, entry.pok)
             total == acc.total + entry.weight
             seen == acc.seen \cup {entry.pk}
  <2>1. VerifyStep(acc, entry) = [ok |-> ok, seen |-> seen, total |-> total]
    BY <1>2, Zenon DEF VerifyStep
  <2>2. ok \in BOOLEAN
    BY DEF verify_knowledge
  <2>3. seen \in SUBSET PublicKey /\ total \in Nat
    BY DEF Verified, AddressBookEntry, Weight
  <2> HIDE DEF ok, seen, total
  <2> QED
    BY <2>1, <2>2, <2>3 DEF Verified
<1> QED
  BY <1>1, <1>2

\* verify_address_book is what a loop over the entries ends with.
LEMMA VerifyLoop ==
    ASSUME NEW n \in Nat, NEW ab \in [1 .. n -> AddressBookEntry]
    PROVE  \E v \in [0 .. n -> Verified] : IsVerifyRun(v, n, ab)
<1> DEFINE step == [x \in Verified \X (1 .. n) |-> VerifyStep(x[1], ab[x[2]])]
           Rec(g) == g = [s \in SUBSET DOMAIN ab |->
                             IF s = {} THEN VerifyStart
                             ELSE VerifyStep(g[s \ {Max(s)}], ab[Max(s)])]
           g == CHOOSE h : Rec(h)
<1>1. FoldLeft(VerifyStep, VerifyStart, ab) = g[DOMAIN ab]
  BY Zenon DEF FoldLeft, MapThenFoldSet
<1>2. DOMAIN ab = 1 .. n
  OBVIOUS
<1>4. VerifyStart \in Verified
  BY DEF VerifyStart, Verified
<1>6. step \in [Verified \X (1 .. n) -> Verified]
  BY VerifyStepType
<1>7. PICK f \in [SUBSET (1 .. n) -> Verified] : IsFold(f, n, VerifyStart, step)
  <2> HIDE DEF step
  <2> QED
    BY <1>4, <1>6, FoldExists
<1>8. Rec(f)
  <2>1. ASSUME NEW s \in SUBSET (1 .. n), s # {}
        PROVE  f[s] = VerifyStep(f[s \ {Max(s)}], ab[Max(s)])
    <3>1. Max(s) \in 1 .. n /\ f[s \ {Max(s)}] \in Verified
      BY <2>1, MaxProperties
    <3>2. f[s] = step[<<f[s \ {Max(s)}], Max(s)>>]
      BY <1>7, <2>1 DEF IsFold
    <3> QED
      BY <3>1, <3>2
  <2>2. f[{}] = VerifyStart
    BY <1>7 DEF IsFold
  <2> QED
    BY <1>2, <2>1, <2>2
<1>9. Rec(g)
  BY <1>8, Zenon
<1> HIDE DEF g
<1>10. IsPartialFold(g, n, Verified, VerifyStart, step)
  <2>1. g[{}] = VerifyStart
    BY <1>2, <1>9
  <2>2. ASSUME NEW s \in SUBSET (1 .. n), s # {}, g[s \ {Max(s)}] \in Verified
        PROVE  g[s] = step[<<g[s \ {Max(s)}], Max(s)>>]
    <3>1. Max(s) \in 1 .. n
      BY <2>2, MaxProperties
    <3>2. g[s] = VerifyStep(g[s \ {Max(s)}], ab[Max(s)])
      BY <1>2, <1>9, <2>2
    <3> QED
      BY <2>2, <3>1, <3>2
  <2> QED
    BY <2>1, <2>2 DEF IsPartialFold
<1> DEFINE v == PartialFolds(g, n)
<1>11. v \in [0 .. n -> Verified] /\ IsRun(v, n, VerifyStart, step)
  <2> HIDE DEF step
  <2> QED
    BY <1>4, <1>6, <1>10, FoldPrefixes
<1>12. v[n] = FoldLeft(VerifyStep, VerifyStart, ab)
  BY <1>1, <1>2 DEF PartialFolds
<1> HIDE DEF v
<1>13. v[0] = VerifyStart /\ \A i \in 1 .. n : v[i] = VerifyStep(v[i - 1], ab[i])
  <2>1. \A i \in 1 .. n : v[i] = step[<<v[i - 1], i>>]
    BY <1>11 DEF IsRun
  <2>2. \A i \in 1 .. n : v[i - 1] \in Verified
    BY <1>11
  <2> QED
    BY <1>11, <2>1, <2>2 DEF IsRun
<1> QED
  BY <1>11, <1>12, <1>13 DEF IsVerifyRun

-----------------------------------------------------------------------------
\* The keys that a bitvector selects from a book.
SelectedPks(n, ab, bits) == {ab[i].pk : i \in {j \in (1 .. n) \cap bits : ~IsIdentity(ab[j].pk)}}

\* The step of signing_subset at seat i.
AddKey(keys, ab, bits, i) ==
    IF i \in bits /\ ~IsIdentity(ab[i].pk) THEN Append(keys, ab[i].pk) ELSE keys

\* q is a run of the loop of signing_subset over the first n seats of ab.
IsSubsetRun(q, n, ab, bits) ==
    /\ q[0] = <<>>
    /\ \A i \in 1 .. n : q[i] = AddKey(q[i - 1], ab, bits, i)
    /\ q[n] = signing_subset(ab, bits)

\* signing_subset is what a loop over the seats ends with; it lists keys that
\* the bitvector selects.
LEMMA SigningSubset ==
    ASSUME NEW n \in Nat, NEW ab \in [1 .. n -> AddressBookEntry], NEW bits
    PROVE  \E q \in [0 .. n -> Seq(SelectedPks(n, ab, bits))] : IsSubsetRun(q, n, ab, bits)
<1> DEFINE V == Seq(SelectedPks(n, ab, bits))
           op(keys, i) == AddKey(keys, ab, bits, i)
           seq == [i \in DOMAIN ab |-> i]
           step == [x \in V \X (1 .. n) |-> op(x[1], x[2])]
           Rec(g) == g = [s \in SUBSET DOMAIN seq |->
                             IF s = {} THEN <<>> ELSE op(g[s \ {Max(s)}], seq[Max(s)])]
           g == CHOOSE h : Rec(h)
<1>1. signing_subset(ab, bits) = g[DOMAIN seq]
  BY Zenon DEF signing_subset, FoldLeftDomain, FoldLeft, MapThenFoldSet, AddKey
<1>2. DOMAIN ab = 1 .. n /\ DOMAIN seq = 1 .. n /\ \A i \in 1 .. n : seq[i] = i
  OBVIOUS
<1>4. <<>> \in V
  OBVIOUS
<1>5. ASSUME NEW keys \in V, NEW i \in 1 .. n PROVE op(keys, i) \in V
  <2>1. CASE i \in bits /\ ~IsIdentity(ab[i].pk)
    <3>1. ab[i].pk \in SelectedPks(n, ab, bits)
      BY <2>1 DEF SelectedPks
    <3>2. op(keys, i) = Append(keys, ab[i].pk)
      BY <2>1 DEF AddKey
    <3> HIDE DEF op
    <3> QED
      BY <3>1, <3>2
  <2>2. CASE ~(i \in bits /\ ~IsIdentity(ab[i].pk))
    BY <2>2 DEF AddKey
  <2> QED
    BY <2>1, <2>2
<1> HIDE DEF op, V
<1>6. step \in [V \X (1 .. n) -> V]
  BY <1>5
<1>7. PICK f \in [SUBSET (1 .. n) -> V] : IsFold(f, n, <<>>, step)
  <2> HIDE DEF step
  <2> QED
    BY <1>4, <1>6, FoldExists
<1>8. Rec(f)
  <2>1. f[{}] = <<>>
    BY <1>7 DEF IsFold
  <2>2. ASSUME NEW s \in SUBSET (1 .. n), s # {} PROVE f[s] = op(f[s \ {Max(s)}], seq[Max(s)])
    <3>1. Max(s) \in 1 .. n /\ f[s \ {Max(s)}] \in V
      BY <2>2, MaxProperties
    <3>2. f[s] = step[<<f[s \ {Max(s)}], Max(s)>>]
      BY <1>7, <2>2 DEF IsFold
    <3> QED
      BY <1>2, <3>1, <3>2
  <2> HIDE DEF seq
  <2> QED
    BY <1>2, <2>1, <2>2
<1>9. Rec(g)
  <2> HIDE DEF Rec
  <2> QED
    BY <1>8
<1> HIDE DEF g
<1>10. IsPartialFold(g, n, V, <<>>, step)
  <2>1. g[{}] = <<>>
    BY <1>2, <1>9
  <2>2. ASSUME NEW s \in SUBSET (1 .. n), s # {}, g[s \ {Max(s)}] \in V
        PROVE  g[s] = step[<<g[s \ {Max(s)}], Max(s)>>]
    <3>1. Max(s) \in 1 .. n
      BY <2>2, MaxProperties
    <3> HIDE DEF seq
    <3>2. g[s] = op(g[s \ {Max(s)}], seq[Max(s)])
      BY <1>2, <1>9, <2>2
    <3> QED
      BY <1>2, <2>2, <3>1, <3>2
  <2> QED
    BY <2>1, <2>2 DEF IsPartialFold
<1> DEFINE q == PartialFolds(g, n)
<1>11. q \in [0 .. n -> V] /\ IsRun(q, n, <<>>, step)
  <2> HIDE DEF step
  <2> QED
    BY <1>4, <1>6, <1>10, FoldPrefixes
<1>12. q[n] = signing_subset(ab, bits)
  BY <1>1, <1>2 DEF PartialFolds
<1> HIDE DEF q
<1>13. q[0] = <<>> /\ \A i \in 1 .. n : q[i] = op(q[i - 1], i)
  <2>1. \A i \in 1 .. n : q[i] = step[<<q[i - 1], i>>]
    BY <1>11 DEF IsRun
  <2>2. \A i \in 1 .. n : q[i - 1] \in V
    BY <1>11
  <2> QED
    BY <1>11, <2>1, <2>2 DEF IsRun
<1> QED
  BY <1>11, <1>12, <1>13 DEF op, V, IsSubsetRun

-----------------------------------------------------------------------------
\* A padded book has MAX_AB_SIZE seats, and padding it again changes nothing.
LEMMA Padding ==
    ASSUME NEW ab \in Seq(AddressBookEntry)
    PROVE  /\ pad_address_book(ab) \in [1 .. MAX_AB_SIZE -> AddressBookEntry]
           /\ Len(pad_address_book(ab)) = MAX_AB_SIZE
           /\ pad_address_book(pad_address_book(ab)) = pad_address_book(ab)
           /\ \A i \in 1 .. MAX_AB_SIZE :
                 i > Len(ab) => IsIdentity(pad_address_book(ab)[i].pk)
<1>1. padding_entry \in AddressBookEntry /\ IsIdentity(padding_entry.pk)
  BY DEF padding_entry, AddressBookEntry, PublicKey, Weight, Identity, IsIdentity
<1>2. \A i \in 1 .. MAX_AB_SIZE : i <= Len(ab) => ab[i] \in AddressBookEntry
  OBVIOUS
<1>3. pad_address_book(ab) \in [1 .. MAX_AB_SIZE -> AddressBookEntry]
  BY <1>1, <1>2 DEF pad_address_book, Seats
<1>4. Len(pad_address_book(ab)) = MAX_AB_SIZE
  BY <1>3
<1>5. pad_address_book(pad_address_book(ab)) = pad_address_book(ab)
  <2> DEFINE p == pad_address_book(ab)
  <2>1. pad_address_book(p) = [i \in Seats |-> IF i <= Len(p) THEN p[i] ELSE padding_entry]
    BY DEF pad_address_book
  <2> HIDE DEF p
  <2>2. p \in [Seats -> AddressBookEntry] /\ \A i \in Seats : i <= Len(p)
    BY <1>3, <1>4 DEF p, Seats
  <2>3. pad_address_book(p) = [i \in Seats |-> p[i]]
    BY <2>1, <2>2
  <2> QED
    BY <2>2, <2>3 DEF p
<1>6. ASSUME NEW i \in 1 .. MAX_AB_SIZE, i > Len(ab)
      PROVE  IsIdentity(pad_address_book(ab)[i].pk)
  <2>1. pad_address_book(ab)[i] = padding_entry
    BY <1>6 DEF pad_address_book, Seats
  <2> QED
    BY <1>1, <2>1
<1> QED
  BY <1>3, <1>4, <1>5, <1>6

\* A run of length n, continued by its last state.
Extended(v, n, i) == v[IF i <= n THEN i ELSE n]

\* A step of verify_address_book that does not fail follows one that did not,
\* and adds the entry's effective weight without overflow.
LEMMA VerifyStepAdds ==
    ASSUME NEW acc \in Verified, NEW entry \in AddressBookEntry, VerifyStep(acc, entry).ok,
           acc.total <= MaxWeight
    PROVE  /\ acc.ok
           /\ VerifyStep(acc, entry).total = acc.total + EffectiveWeight(entry)
           /\ VerifyStep(acc, entry).total <= MaxWeight
<1>1. CASE ~acc.ok \/ IsIdentity(entry.pk)
  BY <1>1 DEF VerifyStep, EffectiveWeight, Verified
<1>2. CASE ~(~acc.ok \/ IsIdentity(entry.pk))
  <2> DEFINE ok == /\ entry.pk \notin acc.seen
                   /\ acc.total + entry.weight <= MaxWeight
                   /\ verify_knowledge(entry.pk, entry.pok)
             total == acc.total + entry.weight
             seen == acc.seen \cup {entry.pk}
  <2>1. VerifyStep(acc, entry) = [ok |-> ok, seen |-> seen, total |-> total]
    BY <1>2, Zenon DEF VerifyStep
  <2> HIDE DEF ok, seen, total
  <2>2. ok /\ VerifyStep(acc, entry).total = total
    BY <2>1
  <2>3. total <= MaxWeight
    BY <2>2, Zenon DEF ok, total
  <2>4. EffectiveWeight(entry) = entry.weight
    BY <1>2 DEF EffectiveWeight
  <2> QED
    BY <1>2, <2>2, <2>3, <2>4 DEF total
<1> QED
  BY <1>1, <1>2

\* A step of subset_weight does not fail while the total fits.
LEMMA TallyStepFits ==
    ASSUME NEW acc \in Tally, NEW entry \in AddressBookEntry, NEW i, NEW bits,
           acc.ok, acc.signing <= acc.total, acc.total + EffectiveWeight(entry) <= MaxWeight
    PROVE  TallyStep(acc, entry, i \in bits).ok
<1> DEFINE effective == EffectiveWeight(entry)
           total     == acc.total + effective
           signing   == IF i \in bits THEN acc.signing + effective ELSE acc.signing
<1>1. effective \in Nat /\ acc.signing \in Nat /\ acc.total \in Nat
  BY DEF EffectiveWeight, AddressBookEntry, Tally, Weight
<1>2. total <= MaxWeight /\ signing <= MaxWeight
  <2>1. total <= MaxWeight
    BY DEF total
  <2> HIDE DEF effective
  <2> QED
    BY <1>1, <2>1
<1>3. TallyStep(acc, entry, i \in bits) = [ok |-> TRUE, signing |-> signing, total |-> total]
  BY <1>2 DEF TallyStep
<1> HIDE DEF signing, total
<1> QED
  BY <1>3

\* The weights of a book that verify_address_book accepts can be summed up:
\* subset_weight never returns None for it, whoever signs.
THEOREM ValidBooksTally ==
    ASSUME NEW ab \in Seq(AddressBookEntry), verify_address_book(ab), NEW bits
    PROVE  subset_weight(pad_address_book(ab), bits).ok
<1> DEFINE n == MAX_AB_SIZE
           len == Len(ab)
           p == pad_address_book(ab)
<1>1. /\ n \in Nat /\ n <= MAX_AB_SIZE /\ len \in Nat /\ len <= n
      /\ ab \in [1 .. len -> AddressBookEntry]
  BY DEF verify_address_book
<1>2. /\ p \in [1 .. n -> AddressBookEntry]
      /\ \A i \in 1 .. n : i > len => IsIdentity(p[i].pk)
  BY Padding
<1>3. \A i \in 1 .. len : p[i] = ab[i]
  BY <1>1 DEF pad_address_book, Seats
<1> HIDE DEF n, len, p
<1>4. PICK v \in [0 .. len -> Verified] : IsVerifyRun(v, len, ab)
  BY <1>1, VerifyLoop
<1>5. PICK t \in [0 .. n -> Tally] : IsTallyRun(t, n, p, bits)
  BY <1>1, <1>2, SubsetWeight
<1> DEFINE w(i) == Extended(v, len, i)
           Fits(m) == /\ t[m].ok /\ t[m].signing <= t[m].total
                      /\ t[m].total = w(m).total /\ t[m].total <= MaxWeight
           S == {m \in 0 .. n : w(m).ok => Fits(m)}
<1>6. 0 \in S
  BY <1>1, <1>4, <1>5 DEF IsVerifyRun, IsTallyRun, TallyStart, VerifyStart, Extended
<1>7. ASSUME NEW m \in 0 .. n - 1, m \in S PROVE m + 1 \in S
  <2> DEFINE i == m + 1
  <2>1. i \in 1 .. n /\ i \in 0 .. n /\ i - 1 = m
    BY <1>1
  <2> HIDE DEF i
  <2> SUFFICES ASSUME w(i).ok PROVE Fits(i)
    BY <2>1 DEF i
  <2>2. t[i] = TallyStep(t[m], p[i], i \in bits)
    BY <1>5, <2>1 DEF IsTallyRun
  <2>3a. t[m] \in Tally /\ t[i] \in Tally /\ p[i] \in AddressBookEntry
    BY <1>1, <1>2, <2>1
  <2>3. /\ t[m] \in Tally /\ t[i] \in Tally /\ p[i] \in AddressBookEntry
        /\ t[m].signing \in Nat /\ t[m].total \in 0 .. MaxWeight
        /\ EffectiveWeight(p[i]) \in Nat
    BY <2>3a DEF Tally, Weight, EffectiveWeight, AddressBookEntry
  <2>4. /\ w(m).ok /\ w(i).total = w(m).total + EffectiveWeight(p[i])
        /\ w(m).total <= MaxWeight => w(i).total <= MaxWeight
    <3>1. CASE i <= len
      <4>1. i \in 1 .. len /\ m \in 0 .. len /\ w(i) = v[i] /\ w(m) = v[m]
        BY <1>1, <2>1, <3>1 DEF Extended
      <4>2. v[m] \in Verified /\ v[i] = VerifyStep(v[m], p[i])
        BY <1>3, <1>4, <2>1, <4>1 DEF IsVerifyRun
      <4>3. v[m].ok
        BY <2>3, <4>1, <4>2 DEF VerifyStep
      <4>4. v[m].total <= MaxWeight
        BY <1>7, <4>1, <4>3
      <4> QED
        BY <2>3, <4>1, <4>2, <4>3, <4>4, VerifyStepAdds
    <3>2. CASE i > len
      <4>1. m \in 0 .. n /\ w(i) = v[len] /\ w(m) = v[len] /\ v[len] \in Verified
        BY <1>1, <2>1, <3>2 DEF Extended
      <4>2. EffectiveWeight(p[i]) = 0
        BY <1>2, <2>1, <3>2 DEF EffectiveWeight
      <4> QED
        BY <4>1, <4>2 DEF Verified
    <3> QED
      BY <1>1, <2>1, <3>1, <3>2
  <2>5. Fits(m)
    BY <1>7, <2>4
  <2>6. w(i).total <= MaxWeight
    BY <2>4, <2>5
  <2>7. t[i].ok
    <3>1. t[m].ok /\ t[m].signing <= t[m].total /\ t[m].total + EffectiveWeight(p[i]) <= MaxWeight
      BY <2>4, <2>5, <2>6
    <3> QED
      BY <2>2, <2>3, <3>1, TallyStepFits
  <2>8. AddsWeight(t[m], t[i], p[i], i, bits)
    BY <2>2, <2>3, <2>7, TallyStepAdds
  <2> HIDE DEF w
  <2> QED
    BY <2>3, <2>4, <2>5, <2>6, <2>7, <2>8 DEF AddsWeight
<1>8. n \in S
  <2> HIDE DEF S
  <2>1. \A m \in 0 .. n : m \in S
    BY <1>1, <1>6, <1>7, UpTo
  <2> QED
    BY <1>1, <2>1
<1>9. w(n).ok
  <2>1. w(n) = v[len]
    BY <1>1 DEF Extended
  <2> QED
    BY <1>4, <2>1 DEF IsVerifyRun, verify_address_book
<1>10. t[n].ok
  BY <1>8, <1>9
<1> QED
  BY <1>5, <1>10 DEF IsTallyRun, p

\* Empty seats name nobody: padding does not change the signing subset.
LEMMA SubsetOfPadded ==
    ASSUME NEW ab \in Seq(AddressBookEntry), Len(ab) <= MAX_AB_SIZE, NEW bits
    PROVE  signing_subset(pad_address_book(ab), bits) = signing_subset(ab, bits)
<1> DEFINE n == MAX_AB_SIZE
           len == Len(ab)
           p == pad_address_book(ab)
<1>1. n \in Nat /\ len \in Nat /\ len <= n /\ ab \in [1 .. len -> AddressBookEntry]
  OBVIOUS
<1>2. /\ p \in [1 .. n -> AddressBookEntry]
      /\ \A i \in 1 .. n : i > len => IsIdentity(p[i].pk)
  BY Padding
<1>3. \A i \in 1 .. len : p[i] = ab[i]
  BY <1>1 DEF pad_address_book, Seats
<1> HIDE DEF n, len, p
<1>4. PICK v \in [0 .. len -> Seq(SelectedPks(len, ab, bits))] : IsSubsetRun(v, len, ab, bits)
  BY <1>1, SigningSubset
<1>5. PICK q \in [0 .. n -> Seq(SelectedPks(n, p, bits))] : IsSubsetRun(q, n, p, bits)
  BY <1>1, <1>2, SigningSubset
<1> DEFINE S == {m \in 0 .. n : q[m] = Extended(v, len, m)}
<1>6. 0 \in S
  BY <1>1, <1>4, <1>5 DEF IsSubsetRun, Extended
<1>7. ASSUME NEW m \in 0 .. n - 1, m \in S PROVE m + 1 \in S
  <2> DEFINE i == m + 1
  <2>1. i \in 1 .. n /\ i \in 0 .. n /\ i - 1 = m
    BY <1>1
  <2> HIDE DEF i
  <2> SUFFICES q[i] = Extended(v, len, i)
    BY <2>1 DEF i
  <2>2. q[i] = AddKey(q[m], p, bits, i)
    BY <1>5, <2>1 DEF IsSubsetRun
  <2>3. CASE i <= len
    <3>1. i \in 1 .. len /\ Extended(v, len, i) = v[i] /\ Extended(v, len, m) = v[m]
      BY <1>1, <2>1, <2>3 DEF Extended
    <3>2. v[i] = AddKey(v[m], ab, bits, i)
      BY <1>4, <2>1, <3>1 DEF IsSubsetRun
    <3> QED
      BY <1>3, <1>7, <2>2, <3>1, <3>2 DEF AddKey
  <2>4. CASE i > len
    <3>1. Extended(v, len, i) = v[len] /\ Extended(v, len, m) = v[len]
      BY <1>1, <2>1, <2>4 DEF Extended
    <3>2. q[i] = q[m]
      BY <1>2, <2>1, <2>2, <2>4 DEF AddKey
    <3> QED
      BY <1>7, <3>1, <3>2
  <2> QED
    BY <1>1, <2>1, <2>3, <2>4
<1>8. n \in S
  <2> HIDE DEF S
  <2>1. \A m \in 0 .. n : m \in S
    BY <1>1, <1>6, <1>7, UpTo
  <2> QED
    BY <1>1, <2>1
<1>9. q[n] = v[len]
  BY <1>1, <1>8 DEF Extended
<1> QED
  BY <1>4, <1>5, <1>9 DEF IsSubsetRun, p

\* A book that verify_address_book accepts has no key on two seats.
THEOREM ValidBooksDistinct ==
    ASSUME NEW ab \in Seq(AddressBookEntry), verify_address_book(ab)
    PROVE  \A i, j \in DOMAIN ab :
              ~IsIdentity(ab[i].pk) /\ ab[i].pk = ab[j].pk => i = j
<1> DEFINE n == Len(ab)
<1>1. n \in Nat /\ DOMAIN ab = 1 .. n /\ ab \in [1 .. n -> AddressBookEntry]
  OBVIOUS
<1>2. PICK v \in [0 .. n -> Verified] : IsVerifyRun(v, n, ab)
  BY <1>1, VerifyLoop
<1> HIDE DEF n
<1> DEFINE Recorded(m) == \A i \in 1 .. m : ~IsIdentity(ab[i].pk) => ab[i].pk \in v[m].seen
           Distinct(m) == \A i, j \in 1 .. m :
                             ~IsIdentity(ab[i].pk) /\ ab[i].pk = ab[j].pk => i = j
           S == {m \in 0 .. n : v[m].ok => Recorded(m) /\ Distinct(m)}
<1>3. 0 \in S
  BY <1>1
<1>4. ASSUME NEW m \in 0 .. n - 1, m \in S PROVE m + 1 \in S
  <2> DEFINE k == m + 1
  <2>1. k \in 1 .. n /\ k \in 0 .. n /\ k - 1 = m /\ \A i \in 1 .. k : i = k \/ i \in 1 .. m
    BY <1>1
  <2>2. v[k] = VerifyStep(v[m], ab[k]) /\ v[m] \in Verified
    BY <1>1, <1>2, <2>1 DEF IsVerifyRun
  <2> HIDE DEF k
  <2> SUFFICES ASSUME v[k].ok PROVE Recorded(k) /\ Distinct(k)
    BY <2>1 DEF k
  <2>3. CASE ~v[m].ok \/ IsIdentity(ab[k].pk)
    <3>1. v[k] = v[m]
      BY <2>2, <2>3 DEF VerifyStep
    <3>2. IsIdentity(ab[k].pk) /\ Recorded(m) /\ Distinct(m)
      BY <1>4, <2>3, <3>1
    <3> QED
      BY <2>1, <3>1, <3>2 DEF IsIdentity
  <2>4. CASE v[m].ok /\ ~IsIdentity(ab[k].pk)
    <3> DEFINE ok == /\ ab[k].pk \notin v[m].seen
                     /\ v[m].total + ab[k].weight <= MaxWeight
                     /\ verify_knowledge(ab[k].pk, ab[k].pok)
               total == v[m].total + ab[k].weight
               seen == v[m].seen \cup {ab[k].pk}
    <3>1. v[k] = [ok |-> ok, seen |-> seen, total |-> total]
      BY <2>2, <2>4, Zenon DEF VerifyStep
    <3> HIDE DEF ok, seen, total
    <3>2. ok /\ v[k].seen = seen
      BY <3>1
    <3>3. ab[k].pk \notin v[m].seen /\ v[k].seen = v[m].seen \cup {ab[k].pk}
      BY <3>2 DEF ok, seen
    <3>4. Recorded(m) /\ Distinct(m)
      BY <1>4, <2>4
    <3> QED
      BY <2>1, <2>4, <3>3, <3>4
  <2> QED
    BY <2>3, <2>4
<1>5. n \in S
  <2> HIDE DEF S
  <2>1. \A m \in 0 .. n : m \in S
    BY <1>1, <1>3, <1>4, UpTo
  <2> QED
    BY <1>1, <2>1
<1>6. v[n].ok
  BY <1>2 DEF IsVerifyRun, verify_address_book
<1> QED
  BY <1>1, <1>5, <1>6
=============================================================================
