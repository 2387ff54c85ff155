------------------------ MODULE SyncAggregateProofs -------------------------
(***************************************************************************)
(* The verdict on an aggregate signature is right for every order of the   *)
(* groups, any sync committee and any fault of the caller.                 *)
(***************************************************************************)
EXTENDS SyncAggregate, FoldTheorems, TLAPS

-----------------------------------------------------------------------------
\* The keys of a committee, and the sum of some of them.

Keys == 0 .. Q - 1

\* Adding two keys, by their discrete logarithms.
LEMMA AddingKeys ==
    ASSUME NEW a \in Keys, NEW b \in Keys
    PROVE  /\ blst_add_or_double(a, b) \in Keys
           /\ blst_add_or_double(a, b) = IF a + b < Q THEN a + b ELSE (a + b) - Q
BY SyncAssumption DEF blst_add_or_double, Keys

\* Negating a key.
LEMMA NegatedKey ==
    ASSUME NEW b \in Keys
    PROVE  /\ blst_cneg(b) \in Keys
           /\ blst_cneg(b) = IF b = 0 THEN 0 ELSE Q - b
BY SyncAssumption DEF blst_cneg, Keys

\* Adding the negated key takes the key off again.
LEMMA AddThenTakeOff ==
    ASSUME NEW a \in Keys, NEW b \in Keys
    PROVE  blst_add_or_double(blst_add_or_double(a, b), blst_cneg(b)) = a
<1> DEFINE s == blst_add_or_double(a, b)
           m == blst_cneg(b)
<1>1. s \in Keys /\ s = IF a + b < Q THEN a + b ELSE (a + b) - Q
  BY AddingKeys
<1>2. m \in Keys /\ m = IF b = 0 THEN 0 ELSE Q - b
  BY NegatedKey
<1> HIDE DEF s, m
<1>3. blst_add_or_double(s, m) = IF s + m < Q THEN s + m ELSE (s + m) - Q
  BY <1>1, <1>2, AddingKeys
<1>4. blst_add_or_double(s, m) = a
  BY <1>1, <1>2, <1>3, SyncAssumption DEF Keys
<1> QED
  BY <1>4 DEF s, m

\* The order in which two keys are added does not count.
LEMMA AddingCommutes ==
    ASSUME NEW a \in Keys, NEW b \in Keys, NEW c \in Keys
    PROVE  blst_add_or_double(blst_add_or_double(a, b), c) = blst_add_or_double(blst_add_or_double(a, c), b)
<1> DEFINE s == blst_add_or_double(a, b)
           t == blst_add_or_double(a, c)
<1>1. s \in Keys /\ s = IF a + b < Q THEN a + b ELSE (a + b) - Q
  BY AddingKeys
<1>2. t \in Keys /\ t = IF a + c < Q THEN a + c ELSE (a + c) - Q
  BY AddingKeys
<1> HIDE DEF s, t
<1>3. /\ blst_add_or_double(s, c) = IF s + c < Q THEN s + c ELSE (s + c) - Q
      /\ blst_add_or_double(t, b) = IF t + b < Q THEN t + b ELSE (t + b) - Q
  BY <1>1, <1>2, AddingKeys
<1>4. blst_add_or_double(s, c) = blst_add_or_double(t, b)
  BY <1>1, <1>2, <1>3, SyncAssumption DEF Keys
<1> QED
  BY <1>4 DEF s, t

\* w[i] is the sum of the keys in seats up to i.
IsSumRun(w, n, keys, seats) ==
    /\ w[0] = 0
    /\ \A i \in 1 .. n : w[i] = IF i \in seats THEN blst_add_or_double(w[i - 1], keys[i]) ELSE w[i - 1]
    /\ w[n] = SumOf(keys, seats)

\* The loop that adds up the keys of some seats, as a run of partial sums.
LEMMA SumLoop ==
    ASSUME NEW n \in Nat, NEW keys \in [1 .. n -> Keys], NEW seats
    PROVE  \E w \in [0 .. n -> Keys] : IsSumRun(w, n, keys, seats)
<1> DEFINE op(sum, i) == IF i \in seats THEN blst_add_or_double(sum, keys[i]) ELSE sum
           seq == [i \in DOMAIN keys |-> i]
           step == [x \in Keys \X (1 .. n) |-> op(x[1], x[2])]
           Rec(g) == g = [s \in SUBSET DOMAIN seq |->
                             IF s = {} THEN 0 ELSE op(g[s \ {Max(s)}], seq[Max(s)])]
           g == CHOOSE h : Rec(h)
<1>1. SumOf(keys, seats) = g[DOMAIN seq]
  BY Zenon DEF SumOf, FoldLeftDomain, FoldLeft, MapThenFoldSet
<1>2. DOMAIN keys = 1 .. n /\ DOMAIN seq = 1 .. n /\ \A i \in 1 .. n : seq[i] = i
  OBVIOUS
<1>3. 0 \in Keys
  BY SyncAssumption DEF Keys
<1>4. \A sum \in Keys : \A i \in 1 .. n : op(sum, i) \in Keys
  BY AddingKeys
<1> HIDE DEF op
<1>5. step \in [Keys \X (1 .. n) -> Keys]
  BY <1>4
<1>6. PICK f \in [SUBSET (1 .. n) -> Keys] : IsFold(f, n, 0, step)
  <2> HIDE DEF step
  <2> QED
    BY <1>3, <1>5, FoldExists
<1>7. Rec(f)
  <2>1. f[{}] = 0
    BY <1>6 DEF IsFold
  <2>2. ASSUME NEW s \in SUBSET (1 .. n), s # {} PROVE f[s] = op(f[s \ {Max(s)}], seq[Max(s)])
    <3>1. Max(s) \in 1 .. n /\ f[s \ {Max(s)}] \in Keys
      BY <2>2, MaxProperties
    <3>2. f[s] = step[<<f[s \ {Max(s)}], Max(s)>>]
      BY <1>6, <2>2 DEF IsFold
    <3> QED
      BY <1>2, <3>1, <3>2
  <2> HIDE DEF seq
  <2> QED
    BY <1>2, <2>1, <2>2
<1>8. Rec(g)
  <2> HIDE DEF Rec
  <2> QED
    BY <1>7
<1> HIDE DEF g
<1>9. IsPartialFold(g, n, Keys, 0, step)
  <2>1. g[{}] = 0
    BY <1>2, <1>8
  <2>2. ASSUME NEW s \in SUBSET (1 .. n), s # {}, g[s \ {Max(s)}] \in Keys
        PROVE  g[s] = step[<<g[s \ {Max(s)}], Max(s)>>]
    <3>1. Max(s) \in 1 .. n
      BY <2>2, MaxProperties
    <3>2. g[s] = op(g[s \ {Max(s)}], Max(s))
      BY <1>2, <1>8, <2>2, <3>1
    <3> QED
      BY <2>2, <3>1, <3>2
  <2> QED
    BY <2>1, <2>2 DEF IsPartialFold
<1> DEFINE w == PartialFolds(g, n)
<1>10. w \in [0 .. n -> Keys] /\ IsRun(w, n, 0, step)
  <2> HIDE DEF step
  <2> QED
    BY <1>3, <1>5, <1>9, FoldPrefixes
<1>11. w[n] = SumOf(keys, seats)
  BY <1>1, <1>2 DEF PartialFolds
<1> HIDE DEF w
<1>12. w[0] = 0 /\ \A i \in 1 .. n : w[i] = op(w[i - 1], i)
  <2>1. \A i \in 1 .. n : w[i] = step[<<w[i - 1], i>>]
    BY <1>10 DEF IsRun
  <2>2. \A i \in 1 .. n : w[i - 1] \in Keys
    BY <1>10
  <2> QED
    BY <1>10, <2>1, <2>2 DEF IsRun
<1> QED
  BY <1>10, <1>11, <1>12 DEF op, IsSumRun

\* Taking a seat's key off the sum leaves the sum of the other seats.
LEMMA SumLess ==
    ASSUME NEW n \in Nat, NEW keys \in [1 .. n -> Keys],
           NEW seats \in SUBSET (1 .. n), NEW s \in seats
    PROVE  SumOf(keys, seats \ {s}) = blst_add_or_double(SumOf(keys, seats), blst_cneg(keys[s]))
<1> DEFINE rest == seats \ {s}
<1>1. PICK w \in [0 .. n -> Keys] : IsSumRun(w, n, keys, seats)
  BY SumLoop
<1>2. PICK v \in [0 .. n -> Keys] : IsSumRun(v, n, keys, rest)
  <2> HIDE DEF rest
  <2> QED
    BY SumLoop
<1> DEFINE Ahead(i) == w[i] = IF i < s THEN v[i] ELSE blst_add_or_double(v[i], keys[s])
           S == {i \in 0 .. n : Ahead(i)}
<1>3. /\ w[0] = 0 /\ v[0] = 0
      /\ \A i \in 1 .. n : w[i] = IF i \in seats THEN blst_add_or_double(w[i - 1], keys[i]) ELSE w[i - 1]
      /\ \A i \in 1 .. n : v[i] = IF i \in rest THEN blst_add_or_double(v[i - 1], keys[i]) ELSE v[i - 1]
  BY <1>1, <1>2 DEF IsSumRun
<1>4. 0 \in S
  BY <1>3
<1>5. ASSUME NEW i \in 0 .. n - 1, i \in S PROVE i + 1 \in S
  <2> DEFINE j == i + 1
  <2>1. j \in 1 .. n /\ j - 1 = i /\ j \in 0 .. n /\ i \in 0 .. n /\ s \in 1 .. n
    OBVIOUS
  <2>2. /\ w[j] = IF j \in seats THEN blst_add_or_double(w[i], keys[j]) ELSE w[i]
        /\ v[j] = IF j \in rest THEN blst_add_or_double(v[i], keys[j]) ELSE v[i]
    <3> HIDE DEF j, rest
    <3> QED
      BY <1>3, <2>1
  <2>3. Ahead(i)
    BY <1>5
  <2>4. CASE j < s
    <3>1. i < s /\ (j \in seats <=> j \in rest)
      BY <2>4
    <3> QED
      BY <2>1, <2>2, <2>3, <2>4, <3>1
  <2>5. CASE j = s
    <3>1. i < s /\ j \in seats /\ j \notin rest /\ ~(j < s)
      BY <2>5
    <3> QED
      BY <2>1, <2>2, <2>3, <2>5, <3>1
  <2>6. CASE j > s
    <3>1. ~(i < s) /\ ~(j < s) /\ (j \in seats <=> j \in rest)
      BY <2>6
    <3>2. w[i] = blst_add_or_double(v[i], keys[s])
      BY <2>3, <3>1
    <3>3. v[i] \in Keys /\ keys[s] \in Keys /\ keys[j] \in Keys
      BY <2>1
    <3>4. blst_add_or_double(w[i], keys[j]) = blst_add_or_double(blst_add_or_double(v[i], keys[j]), keys[s])
      BY <3>2, <3>3, AddingCommutes
    <3>5. Ahead(j)
      <4> HIDE DEF j, rest
      <4> QED
        BY <2>2, <3>1, <3>2, <3>4
    <3> QED
      BY <2>1, <3>5
  <2> QED
    BY <2>1, <2>4, <2>5, <2>6
<1>6. Ahead(n)
  <2>1. \A m \in 0 .. n : m \in S
    <3> HIDE DEF S
    <3> QED
      BY <1>4, <1>5, UpTo
  <2>2. n \in 0 .. n
    OBVIOUS
  <2> QED
    BY <2>1, <2>2
<1>7. w[n] = SumOf(keys, seats) /\ v[n] = SumOf(keys, rest) /\ v[n] \in Keys /\ keys[s] \in Keys
  BY <1>1, <1>2 DEF IsSumRun
<1>8. w[n] = blst_add_or_double(v[n], keys[s])
  BY <1>6
<1> HIDE DEF rest
<1>9. blst_add_or_double(w[n], blst_cneg(keys[s])) = v[n]
  BY <1>7, <1>8, AddThenTakeOff
<1>10. SumOf(keys, rest) = blst_add_or_double(SumOf(keys, seats), blst_cneg(keys[s]))
  BY <1>7, <1>9
<1> QED
  BY <1>10 DEF rest

-----------------------------------------------------------------------------
\* What the arrays decode to.

Names(g) == IF g = 1 THEN <<"x", "y">> ELSE <<"x.c0", "x.c1", "y.c0", "y.c1">>
Arrays(g) == 1 .. 2 * g

\* The elements of an encoded point.
LEMMA Encoded ==
    ASSUME NEW g \in {1, 2}, NEW log \in {OffSubgroup} \cup Keys
    PROVE  /\ DOMAIN to_eip2537(Point(g, log)) = Arrays(g)
           /\ Len(to_eip2537(Point(g, log))) = 2 * g
           /\ \A i \in Arrays(g) :
                 to_eip2537(Point(g, log))[i] =
                     Element(IF log = 0 THEN <<"zero", 0>> ELSE <<Names(g)[i], log>>)
           /\ \A i \in Arrays(g) : to_eip2537(Point(g, log))[i] = Element(Coordinates(Point(g, log))[i])
           /\ to_eip2537(Point(g, log)) = [i \in Arrays(g) |-> to_eip2537(Point(g, log))[i]]
<1>1. DOMAIN Names(g) = Arrays(g)
  <2>1. CASE g = 1
    BY <2>1 DEF Names, Arrays
  <2>2. CASE g = 2
    BY <2>2 DEF Names, Arrays
  <2> QED
    BY <2>1, <2>2
<1>2. Coordinates(Point(g, log)) =
          [i \in Arrays(g) |-> IF log = 0 THEN <<"zero", 0>> ELSE <<Names(g)[i], log>>]
  BY <1>1, Zenon DEF Coordinates, Point, Names
<1>5. \A i \in Arrays(g) : to_eip2537(Point(g, log))[i] = Element(Coordinates(Point(g, log))[i])
  BY <1>2 DEF to_eip2537
<1>3. to_eip2537(Point(g, log)) =
          [i \in Arrays(g) |-> Element(IF log = 0 THEN <<"zero", 0>> ELSE <<Names(g)[i], log>>)]
  BY <1>2 DEF to_eip2537
<1>4. 2 * g \in Nat
  OBVIOUS
<1> QED
  BY <1>3, <1>4, <1>5 DEF Arrays

\* Every array is read, each once.
LEMMA ReadOrder ==
    ASSUME NEW g \in {1, 2}
    PROVE  /\ Len(ZCashOrder(g)) = 2 * g /\ DOMAIN ZCashOrder(g) = Arrays(g)
           /\ \A i \in Arrays(g) : ZCashOrder(g)[i] \in Arrays(g)
           /\ \A j \in Arrays(g) : \E i \in Arrays(g) : ZCashOrder(g)[i] = j
           /\ 1 \in Arrays(g)
<1>1. CASE g = 1
  BY <1>1 DEF ZCashOrder, Arrays
<1>2. CASE g = 2
  BY <1>2 DEF ZCashOrder, Arrays
<1> QED
  BY <1>1, <1>2

\* g1_from_eip2537 and g2_from_eip2537.
Decoded(g, array) ==
    {p \in UNION {blst_deserialize(g, s) : s \in eip2537_to_zcash(array, ZCashOrder(g))} :
        p.log # OffSubgroup}

\* Both decoders are one decoder, which differs in the order it reads.
LEMMA DecodedIs ==
    ASSUME NEW array
    PROVE  g1_from_eip2537(array) = Decoded(1, array) /\ g2_from_eip2537(array) = Decoded(2, array)
<1>1. ZCashOrder(1) = <<1, 2>> /\ ZCashOrder(2) = <<2, 1, 4, 3>>
  BY DEF ZCashOrder
<1> QED
  BY <1>1, Zenon DEF Decoded, g1_from_eip2537, g2_from_eip2537

IsArrays(g, array) ==
    DOMAIN array = Arrays(g) /\ Len(array) = 2 * g /\ array = [i \in Arrays(g) |-> array[i]]

\* An array decodes to the point it is the encoding of, if there is one.
LEMMA Decoding ==
    ASSUME NEW g \in {1, 2}, NEW array, IsArrays(g, array), NEW p
    PROVE  p \in Decoded(g, array) <=>
               \E log \in Keys \ {0} : p = Point(g, log) /\ array = to_eip2537(Point(g, log))
<1> DEFINE order == ZCashOrder(g)
           serialized == [i \in DOMAIN order |-> array[order[i]]]
           Zeros == \A i \in DOMAIN array : array[i] = Element(<<"zero", 0>>)
           Bits == (\E i \in DOMAIN array : array[i].pad) \/ array[order[1]].high
<1>0. DOMAIN array = Arrays(g) /\ Len(array) = 2 * g /\ array = [i \in Arrays(g) |-> array[i]]
  BY DEF IsArrays
<1>1. /\ Len(order) = 2 * g /\ DOMAIN order = Arrays(g)
      /\ \A i \in Arrays(g) : order[i] \in Arrays(g)
      /\ \A j \in Arrays(g) : \E i \in Arrays(g) : order[i] = j
      /\ 1 \in Arrays(g)
  BY ReadOrder
<1>2. eip2537_to_zcash(array, order) = IF Zeros \/ Bits THEN {} ELSE {serialized}
  <2>1. ~(Len(array) # Len(order))
    BY <1>0, <1>1
  <2> QED
    BY <2>1, Zenon DEF eip2537_to_zcash
<1>3. p \in Decoded(g, array) <=>
          ~Zeros /\ ~Bits /\ p \in blst_deserialize(g, serialized) /\ p.log # OffSubgroup
  <2> HIDE DEF order, serialized, Zeros, Bits
  <2>1. p \in Decoded(g, array) <=>
            (\E s \in eip2537_to_zcash(array, order) : p \in blst_deserialize(g, s)) /\ p.log # OffSubgroup
    BY Zenon DEF Decoded, order
  <2> QED
    BY <1>2, <2>1
<1>4. p \in blst_deserialize(g, serialized) <=>
          p \in Points(g) /\ \A j \in Arrays(g) : array[j] = Element(Coordinates(p)[j])
  <2>1. p \in blst_deserialize(g, serialized) <=>
            p \in Points(g) /\ \A i \in Arrays(g) : array[order[i]] = Element(Coordinates(p)[order[i]])
    BY <1>1 DEF blst_deserialize
  <2> HIDE DEF order, serialized
  <2> QED
    BY <1>1, <2>1
<1>5. ASSUME p \in Decoded(g, array)
      PROVE  \E log \in Keys \ {0} : p = Point(g, log) /\ array = to_eip2537(Point(g, log))
  <2>1. PICK log \in {OffSubgroup} \cup Keys : p = Point(g, log)
    BY <1>3, <1>4, <1>5 DEF Points, Keys
  <2>2. \A j \in Arrays(g) : array[j] = to_eip2537(Point(g, log))[j]
    BY <1>3, <1>4, <1>5, <2>1, Encoded
  <2>3. array = to_eip2537(Point(g, log))
    BY <1>0, <2>2, Encoded
  <2>4. log # OffSubgroup
    BY <1>3, <1>5, <2>1 DEF Point
  <2>5. log # 0
    <3>1. ASSUME log = 0 PROVE Zeros
      BY <1>0, <2>3, <3>1, Encoded
    <3> QED
      BY <1>3, <1>5, <3>1
  <2> QED
    BY <2>1, <2>3, <2>4, <2>5
<1>6. ASSUME NEW log \in Keys \ {0}, p = Point(g, log), array = to_eip2537(Point(g, log))
      PROVE  p \in Decoded(g, array)
  <2>1. \A i \in Arrays(g) : array[i] = Element(<<Names(g)[i], log>>)
    BY <1>6, Encoded
  <2>2. \A i \in Arrays(g) : ~array[i].pad /\ ~array[i].high /\ array[i] # Element(<<"zero", 0>>)
    BY <1>0, <2>1 DEF Element, Keys
  <2>3. ~Zeros /\ ~Bits
    BY <1>0, <1>1, <2>2
  <2>4. p \in Points(g) /\ p.log # OffSubgroup
    BY <1>6, SyncAssumption DEF Points, Point, Keys, OffSubgroup
  <2>5. \A j \in Arrays(g) : array[j] = Element(Coordinates(p)[j])
    BY <1>6, Encoded
  <2> QED
    BY <1>3, <1>4, <2>3, <2>4, <2>5
<1> QED
  BY <1>5, <1>6

\* An array of another length does not decode.
LEMMA UndecodedLength ==
    ASSUME NEW g \in {1, 2}, NEW array, Len(array) # 2 * g
    PROVE  Decoded(g, array) = {}
<1>1. Len(ZCashOrder(g)) = 2 * g
  BY ReadOrder
<1>2. eip2537_to_zcash(array, ZCashOrder(g)) = {}
  BY <1>1 DEF eip2537_to_zcash
<1> QED
  BY <1>2, Zenon DEF Decoded

\* An array that encodes no key of the subgroup does not decode.
LEMMA Undecoded ==
    ASSUME NEW g \in {1, 2}, NEW array, IsArrays(g, array),
           \A log \in Keys \ {0} : array # to_eip2537(Point(g, log))
    PROVE  Decoded(g, array) = {}
<1>2. ASSUME NEW p, p \in Decoded(g, array) PROVE FALSE
  <2>1. \E log \in Keys \ {0} : p = Point(g, log) /\ array = to_eip2537(Point(g, log))
    BY <1>2, Decoding
  <2> QED
    BY <2>1
<1> QED
  BY <1>2

\* The fields of an encoded field element.
LEMMA ElementFields ==
    ASSUME NEW fp
    PROVE  Element(fp).pad = FALSE /\ Element(fp).high = FALSE /\ Element(fp).fp = fp
BY DEF Element

\* What an encoding is made of.
LEMMA EncodedElements ==
    ASSUME NEW g \in {1, 2}, NEW log \in Keys \ {0}, NEW array, array = to_eip2537(Point(g, log))
    PROVE  /\ \A i \in Arrays(g) : array[i].pad = FALSE /\ array[i].high = FALSE
           /\ array[1].fp = <<Names(g)[1], log>>
           /\ array[1].fp # <<"zero", 0>>
           /\ array[1].fp[1] # Names(g)[2]
<1>1. \A i \in Arrays(g) : array[i] = Element(<<Names(g)[i], log>>)
  BY Encoded
<1>2. 1 \in Arrays(g)
  BY ReadOrder
<1>3. Names(g)[1] # Names(g)[2]
  BY DEF Names
<1>4. array[1].fp = <<Names(g)[1], log>>
  BY <1>1, <1>2, ElementFields, Zenon
<1>5. \A i \in Arrays(g) : array[i].pad = FALSE /\ array[i].high = FALSE
  <2> TAKE i \in Arrays(g)
  <2>1. array[i] = Element(<<Names(g)[i], log>>)
    BY <1>1
  <2> QED
    BY <2>1, ElementFields, ZenonT(30)
<1>6. log # 0
  OBVIOUS
<1> QED
  BY <1>3, <1>4, <1>5, <1>6

\* The coordinates by which the encodings of two points differ.
LEMMA FirstElement ==
    ASSUME NEW g \in {1, 2}, NEW log \in Keys
    PROVE  /\ to_eip2537(Point(g, log))[2].fp = IF log = 0 THEN <<"zero", 0>> ELSE <<Names(g)[2], log>>
           /\ to_eip2537(Point(g, 0))[1].fp = <<"zero", 0>>
           /\ to_eip2537(Point(g, OffSubgroup))[1].fp = <<Names(g)[1], OffSubgroup>>
<1>1. 1 \in Arrays(g) /\ 2 \in Arrays(g)
  BY DEF Arrays
<1>2. 0 \in Keys /\ OffSubgroup # 0
  BY SyncAssumption DEF Keys, OffSubgroup
<1>3. /\ to_eip2537(Point(g, log))[2] = Element(IF log = 0 THEN <<"zero", 0>> ELSE <<Names(g)[2], log>>)
      /\ to_eip2537(Point(g, 0))[1] = Element(<<"zero", 0>>)
      /\ to_eip2537(Point(g, OffSubgroup))[1] = Element(<<Names(g)[1], OffSubgroup>>)
  <2>1. ASSUME NEW l \in {OffSubgroup} \cup Keys, NEW i \in Arrays(g)
        PROVE  to_eip2537(Point(g, l))[i] = Element(IF l = 0 THEN <<"zero", 0>> ELSE <<Names(g)[i], l>>)
    BY Encoded, Zenon
  <2> QED
    BY <1>1, <1>2, <2>1
<1> QED
  BY <1>3 DEF Element

IsReplaced(g, array, f, i, v) == f = [array EXCEPT ![i] = v]

\* An array with one element replaced has its length and the new element.
LEMMA Replaced ==
    ASSUME NEW g \in {1, 2}, NEW array, IsArrays(g, array), NEW f, NEW i \in Arrays(g), NEW v,
           IsReplaced(g, array, f, i, v)
    PROVE  IsArrays(g, f) /\ f[i] = v
<1>0. f = [array EXCEPT ![i] = v]
  BY DEF IsReplaced
<1>1. array = [j \in Arrays(g) |-> array[j]]
  BY DEF IsArrays
<1>2. f = [j \in Arrays(g) |-> IF j = i THEN v ELSE array[j]]
  BY <1>0, <1>1
<1>3. DOMAIN f = Arrays(g) /\ f[i] = v /\ f = [j \in Arrays(g) |-> f[j]]
  BY <1>2
<1>4. 2 * g \in Nat
  OBVIOUS
<1>5. Len(f) = 2 * g
  <2> DEFINE n == 2 * g
  <2>1. n \in Nat /\ DOMAIN f = 1 .. n
    BY <1>3, <1>4 DEF Arrays
  <2> HIDE DEF n
  <2>2. Len(f) = n
    BY <1>3, <2>1
  <2> QED
    BY <2>2 DEF n
<1> QED
  BY <1>3, <1>5 DEF IsArrays

\* An array the caller got wrong decodes to nothing.
LEMMA WrongArray ==
    ASSUME NEW g \in {1, 2}, NEW log \in Keys, NEW how \in Faults
    PROVE  LET array == Wrong(to_eip2537(Point(g, log)), g, how)
           IN  /\ HasLength(array, 2 * g) <=> how \notin {"null", "short"}
               /\ Decoded(g, array) = IF how = "none" /\ log # 0 THEN {Point(g, log)} ELSE {}
<1> DEFINE right == to_eip2537(Point(g, log))
           array == Wrong(right, g, how)
<1>0. 2 * g \in Nat /\ 2 * g # 0 /\ 2 * g \in Arrays(g) /\ 1 \in Arrays(g) /\ 2 \in Arrays(g)
  BY DEF Arrays
<1>1. IsArrays(g, right)
  BY Encoded DEF IsArrays
<1>2. \A a : IsArrays(g, a) => HasLength(a, 2 * g)
  BY <1>0 DEF IsArrays, HasLength, Null
<1>3. ASSUME IsArrays(g, array), how # "none", how \notin {"null", "short"},
             \A l \in Keys \ {0} : array # to_eip2537(Point(g, l))
      PROVE  HasLength(array, 2 * g) /\ Decoded(g, array) = {}
  <2> HIDE DEF array
  <2> QED
    BY <1>2, <1>3, Undecoded
<1> DEFINE Claim == /\ HasLength(array, 2 * g) <=> how \notin {"null", "short"}
                    /\ Decoded(g, array) = IF how = "none" /\ log # 0 THEN {Point(g, log)} ELSE {}
<1>4. ASSUME how = "none" PROVE Claim
  <2>1. array = right
    BY <1>4 DEF Wrong
  <2> HIDE DEF right, array
  <2>2. HasLength(array, 2 * g)
    BY <1>1, <1>2, <2>1
  <2>3. Decoded(g, right) = IF log # 0 THEN {Point(g, log)} ELSE {}
    <3>2. \A p : p \in Decoded(g, right) <=>
                     \E l \in Keys \ {0} : p = Point(g, l) /\ right = to_eip2537(Point(g, l))
      BY <1>1, Decoding
    <3>3. ASSUME NEW l \in Keys \ {0}, right = to_eip2537(Point(g, l)) PROVE l = log /\ log # 0
      <4>1. to_eip2537(Point(g, l))[1] = Element(<<Names(g)[1], l>>)
        BY <1>0, Encoded
      <4>2. right[1] = Element(IF log = 0 THEN <<"zero", 0>> ELSE <<Names(g)[1], log>>)
        BY <1>0, Encoded DEF right
      <4>3. Names(g)[1] # "zero"
        BY DEF Names
      <4> QED
        BY <3>3, <4>1, <4>2, <4>3 DEF Element
    <3>4. log # 0 => Point(g, log) \in Decoded(g, right)
      BY <3>2 DEF right
    <3> QED
      BY <3>2, <3>3, <3>4
  <2> QED
    BY <1>4, <2>1, <2>2, <2>3
<1>5. ASSUME how = "null" PROVE Claim
  <2>1. array = <<>>
    BY <1>5 DEF Wrong, Null
  <2> HIDE DEF array
  <2>2. Len(array) = 0
    BY <2>1
  <2> QED
    BY <1>0, <1>5, <2>1, <2>2, UndecodedLength DEF HasLength, Null
<1>6. ASSUME how = "short" PROVE Claim
  <2>1. array = Tail(right)
    BY <1>6 DEF Wrong
  <2>2. Len(Tail(right)) # 2 * g
    <3> HIDE DEF right
    <3>1. Len(right) = 2 * g /\ right \in Seq({right[i] : i \in Arrays(g)})
      BY <1>1 DEF IsArrays, Arrays
    <3> QED
      BY <1>0, <3>1
  <2> HIDE DEF array
  <2> QED
    BY <1>6, <2>1, <2>2, UndecodedLength DEF HasLength
<1>14. right = [i \in Arrays(g) |-> right[i]] /\ Len(right) = 2 * g
  BY <1>1 DEF IsArrays
<1>16. \A i \in Arrays(g) : [right[i] EXCEPT !.pad = TRUE].pad = TRUE /\ [right[i] EXCEPT !.high = TRUE].high = TRUE
  BY Encoded DEF Element
<1>7. ASSUME how = "padded" PROVE Claim
  <2>1. array = [right EXCEPT ![Len(right)].pad = TRUE]
    BY <1>7 DEF Wrong
  <2> HIDE DEF right, array
  <2> DEFINE i == 2 * g
             v == [right[i] EXCEPT !.pad = TRUE]
  <2>5. array = [right EXCEPT ![i] = v]
    BY <1>14, <2>1
  <2>7. v.pad = TRUE
    BY <1>0, <1>16
  <2>8. i \in Arrays(g)
    BY <1>0
  <2> HIDE DEF i, v
  <2>6. IsArrays(g, array) /\ array[i] = v
    <3>1. IsReplaced(g, right, array, i, v)
      BY <2>5 DEF IsReplaced
    <3> QED
      BY <1>1, <2>8, <3>1, Replaced
  <2>2. IsArrays(g, array) /\ array[2 * g].pad = TRUE
    BY <2>6, <2>7 DEF i
  <2>3. \A l \in Keys \ {0} : array # to_eip2537(Point(g, l))
    BY <1>0, <2>2, EncodedElements
  <2> QED
    BY <1>3, <1>7, <2>2, <2>3
<1>8. ASSUME how = "flags" PROVE Claim
  <2>1. array = [right EXCEPT ![ZCashOrder(g)[1]].high = TRUE]
    BY <1>8 DEF Wrong
  <2>2. ZCashOrder(g)[1] \in Arrays(g)
    BY <1>0, ReadOrder
  <2> HIDE DEF right, array
  <2> DEFINE i == ZCashOrder(g)[1]
             v == [right[i] EXCEPT !.high = TRUE]
  <2>5. array = [right EXCEPT ![i] = v]
    BY <2>1
  <2>7. v.high = TRUE
    BY <1>16, <2>2
  <2>8. i \in Arrays(g)
    BY <2>2
  <2> HIDE DEF i, v
  <2>6. IsArrays(g, array) /\ array[i] = v
    <3>1. IsReplaced(g, right, array, i, v)
      BY <2>5 DEF IsReplaced
    <3> QED
      BY <1>1, <2>8, <3>1, Replaced
  <2>3. IsArrays(g, array) /\ array[ZCashOrder(g)[1]].high = TRUE
    BY <2>6, <2>7 DEF i
  <2>4. \A l \in Keys \ {0} : array # to_eip2537(Point(g, l))
    BY <2>2, <2>3, EncodedElements
  <2> QED
    BY <1>3, <1>8, <2>3, <2>4
<1>9. ASSUME how = "high" PROVE Claim
  <2>1. array = [right EXCEPT ![Len(right)].high = TRUE]
    BY <1>9 DEF Wrong
  <2> HIDE DEF right, array
  <2> DEFINE i == 2 * g
             v == [right[i] EXCEPT !.high = TRUE]
  <2>5. array = [right EXCEPT ![i] = v]
    BY <1>14, <2>1
  <2>7. v.high = TRUE
    BY <1>0, <1>16
  <2>8. i \in Arrays(g)
    BY <1>0
  <2> HIDE DEF i, v
  <2>6. IsArrays(g, array) /\ array[i] = v
    <3>1. IsReplaced(g, right, array, i, v)
      BY <2>5 DEF IsReplaced
    <3> QED
      BY <1>1, <2>8, <3>1, Replaced
  <2>2. IsArrays(g, array) /\ array[2 * g].high = TRUE
    BY <2>6, <2>7 DEF i
  <2>3. \A l \in Keys \ {0} : array # to_eip2537(Point(g, l))
    BY <1>0, <2>2, EncodedElements
  <2> QED
    BY <1>3, <1>9, <2>2, <2>3
<1>10. ASSUME how = "mixed" PROVE Claim
  <2>1. array = [right EXCEPT ![1] = right[2]]
    BY <1>10 DEF Wrong
  <2>2. right[2].fp = IF log = 0 THEN <<"zero", 0>> ELSE <<Names(g)[2], log>>
    BY FirstElement
  <2> HIDE DEF right, array
  <2>3. IsArrays(g, array) /\ array[1] = right[2]
    <3> DEFINE v == right[2]
    <3>1. array = [right EXCEPT ![1] = v]
      BY <2>1
    <3> HIDE DEF v
    <3>2. IsArrays(g, array) /\ array[1] = v
      <4>1. IsReplaced(g, right, array, 1, v)
        BY <3>1 DEF IsReplaced
      <4> QED
        BY <1>0, <1>1, <4>1, Replaced
    <3> QED
      BY <3>2 DEF v
  <2>4. \A l \in Keys \ {0} : array # to_eip2537(Point(g, l))
    <3> SUFFICES ASSUME NEW l \in Keys \ {0}, array = to_eip2537(Point(g, l)) PROVE FALSE
      OBVIOUS
    <3>1. array[1].fp # <<"zero", 0>> /\ array[1].fp[1] # Names(g)[2]
      BY EncodedElements
    <3>2. array[1].fp = IF log = 0 THEN <<"zero", 0>> ELSE <<Names(g)[2], log>>
      BY <2>2, <2>3
    <3> QED
      BY <3>1, <3>2
  <2> QED
    BY <1>3, <1>10, <2>3, <2>4
<1>11. ASSUME how = "offSubgroup" PROVE Claim
  <2>1. array = to_eip2537(Point(g, OffSubgroup))
    BY <1>11 DEF Wrong
  <2>2. array[1].fp = <<Names(g)[1], OffSubgroup>>
    BY <2>1, FirstElement
  <2> HIDE DEF array
  <2>3. IsArrays(g, array)
    BY <2>1, Encoded DEF IsArrays
  <2>4. \A l \in Keys \ {0} : array # to_eip2537(Point(g, l))
    <3> SUFFICES ASSUME NEW l \in Keys \ {0}, array = to_eip2537(Point(g, l)) PROVE FALSE
      OBVIOUS
    <3>1. array[1].fp = <<Names(g)[1], l>>
      BY EncodedElements
    <3>2. l # OffSubgroup
      BY SyncAssumption DEF Keys, OffSubgroup
    <3> QED
      BY <2>2, <3>1, <3>2
  <2> QED
    BY <1>3, <1>11, <2>3, <2>4
<1>12. ASSUME how = "identity" PROVE Claim
  <2>1. array = to_eip2537(Point(g, 0)) /\ 0 \in Keys
    BY <1>12, SyncAssumption DEF Wrong, Keys
  <2>2. array[1].fp = <<"zero", 0>>
    BY <2>1, FirstElement
  <2>3. IsArrays(g, array)
    BY <2>1, Encoded DEF IsArrays
  <2> HIDE DEF array
  <2>4. \A l \in Keys \ {0} : array # to_eip2537(Point(g, l))
    BY <2>2, EncodedElements
  <2> QED
    BY <1>3, <1>12, <2>3, <2>4
<1> HIDE DEF Claim
<1>13. Claim
  BY <1>4, <1>5, <1>6, <1>7, <1>8, <1>9, <1>10, <1>11, <1>12 DEF Faults
<1> QED
  BY <1>13 DEF Claim

-----------------------------------------------------------------------------
\* The caller's points, as they are sent and decoded.

Intact(of, i) == fault.of # of \/ i # 1 \/ fault.how = "none"
Sized(of, i) == fault.of # of \/ i # 1 \/ fault.how \notin {"null", "short"}

\* What is sent has its length and decodes to the caller's point, unless it
\* is the array at fault or the point at infinity.
LEMMA SentArray ==
    ASSUME NEW g \in {1, 2}, NEW log \in Keys, NEW of, NEW i, fault.how \in Faults
    PROVE  /\ HasLength(Sent(g, log, of, i), 2 * g) <=> Sized(of, i)
           /\ Decoded(g, Sent(g, log, of, i)) = IF Intact(of, i) /\ log # 0 THEN {Point(g, log)} ELSE {}
<1> DEFINE right == to_eip2537(Point(g, log))
           how == IF fault.of = of /\ i = 1 THEN fault.how ELSE "none"
<1>1. log # OffSubgroup /\ "none" \in Faults
  BY SyncAssumption DEF Keys, OffSubgroup, Faults
<1>2. decompress(Point(g, log)) = {right}
  BY <1>1 DEF decompress, Point
<1> HIDE DEF right
<1>3. (CHOOSE a \in decompress(Point(g, log)) : TRUE) = right
  BY <1>2
<1>4. Wrong(right, g, "none") = right
  BY DEF Wrong
<1>5. Sent(g, log, of, i) = Wrong(right, g, how)
  BY <1>3, <1>4, Zenon DEF Sent
<1>6. /\ how \in Faults
      /\ how = "none" <=> Intact(of, i)
      /\ how \notin {"null", "short"} <=> Sized(of, i)
  BY <1>1 DEF Intact, Sized
<1> HIDE DEF how
<1>7. /\ HasLength(Wrong(right, g, how), 2 * g) <=> how \notin {"null", "short"}
      /\ Decoded(g, Wrong(right, g, how)) = IF how = "none" /\ log # 0 THEN {Point(g, log)} ELSE {}
  BY <1>6, WrongArray DEF right
<1> QED
  BY <1>5, <1>6, <1>7

\* What Init picks.
Caller ==
    /\ committee \in Committees
    /\ \E n \in 0 .. Len(committee) : absent \in Injection(1 .. n, Seats)
    /\ signed \in SUBSET Seats
    /\ fault \in {[of |-> of, how |-> how] : of \in {"aggregate", "absent", "signature"}, how \in Faults}

\* The fault is one the caller can make.
LEMMA FaultType ==
    ASSUME Caller
    PROVE  fault.of \in {"aggregate", "absent", "signature"} /\ fault.how \in Faults
BY DEF Caller

\* The committee is an array of keys, none of them the identity.
LEMMA CommitteeType ==
    ASSUME Caller
    PROVE  /\ Len(committee) \in Nat /\ Seats = 1 .. Len(committee)
           /\ committee \in [1 .. Len(committee) -> Keys]
           /\ \A i \in Seats : committee[i] # 0
<1>1. committee \in Seq(1 .. Q - 1)
  BY SyncAssumption DEF Caller
<1> QED
  BY <1>1, SyncAssumption DEF Seats, Keys

\* The list of absent seats names no seat twice.
LEMMA AbsentType ==
    ASSUME Caller
    PROVE  /\ Len(absent) \in Nat /\ DOMAIN absent = 1 .. Len(absent)
           /\ absent \in [1 .. Len(absent) -> Seats]
           /\ \A i, j \in 1 .. Len(absent) : i # j => absent[i] # absent[j]
<1>1. PICK n \in 0 .. Len(committee) : absent \in Injection(1 .. n, Seats)
  BY DEF Caller
<1>2. n \in Nat
  BY CommitteeType
<1>3. /\ absent \in [1 .. n -> Seats]
      /\ \A i, j \in 1 .. n : i # j => absent[i] # absent[j]
  BY <1>1 DEF Injection, IsInjective
<1>4. Len(absent) = n
  BY <1>2, <1>3
<1> QED
  BY <1>2, <1>3, <1>4

\* Keys add up to a key.
LEMMA KeyType ==
    ASSUME Caller, NEW seats
    PROVE  KeyOf(seats) \in Keys
<1>1. PICK w \in [0 .. Len(committee) -> Keys] : IsSumRun(w, Len(committee), committee, seats)
  BY CommitteeType, SumLoop
<1>2. w[Len(committee)] \in Keys
  BY <1>1, CommitteeType
<1> QED
  BY <1>1, <1>2 DEF IsSumRun, KeyOf

SentArrays ==
    [aggregate |-> Sent(1, KeyOf(Seats), "aggregate", 1),
     absent |-> [i \in DOMAIN absent |-> Sent(1, committee[absent[i]], "absent", i)],
     signature |-> Sent(2, KeyOf(signed), "signature", 1)]

\* What the arrays sent by the caller decode to.
LEMMA ArraysDecode ==
    ASSUME Caller, arrays = SentArrays
    PROVE  /\ HasLength(arrays.aggregate, 2) <=> Sized("aggregate", 1)
           /\ allHaveLength(arrays.absent, 2) <=> \A i \in DOMAIN absent : Sized("absent", i)
           /\ HasLength(arrays.signature, 4) <=> Sized("signature", 1)
           /\ g1_from_eip2537(arrays.aggregate) =
                  IF Intact("aggregate", 1) /\ KeyOf(Seats) # 0 THEN {Point(1, KeyOf(Seats))} ELSE {}
           /\ \A i \in DOMAIN absent : g1_from_eip2537(arrays.absent[i]) =
                  IF Intact("absent", i) THEN {Point(1, committee[absent[i]])} ELSE {}
           /\ g2_from_eip2537(arrays.signature) =
                  IF Intact("signature", 1) /\ KeyOf(signed) # 0 THEN {Point(2, KeyOf(signed))} ELSE {}
           /\ DOMAIN arrays.absent = DOMAIN absent /\ Len(arrays.absent) = Len(absent)
<1>1. /\ arrays.aggregate = Sent(1, KeyOf(Seats), "aggregate", 1)
      /\ arrays.absent = [i \in DOMAIN absent |-> Sent(1, committee[absent[i]], "absent", i)]
      /\ arrays.signature = Sent(2, KeyOf(signed), "signature", 1)
  BY Zenon DEF SentArrays
<1>2. fault.how \in Faults /\ KeyOf(Seats) \in Keys /\ KeyOf(signed) \in Keys
  BY FaultType, KeyType
<1>3. /\ HasLength(arrays.aggregate, 2) <=> Sized("aggregate", 1)
      /\ Decoded(1, arrays.aggregate) =
             IF Intact("aggregate", 1) /\ KeyOf(Seats) # 0 THEN {Point(1, KeyOf(Seats))} ELSE {}
  BY <1>1, <1>2, SentArray
<1>4. /\ HasLength(arrays.signature, 4) <=> Sized("signature", 1)
      /\ Decoded(2, arrays.signature) =
             IF Intact("signature", 1) /\ KeyOf(signed) # 0 THEN {Point(2, KeyOf(signed))} ELSE {}
  BY <1>1, <1>2, SentArray
<1>5. DOMAIN arrays.absent = DOMAIN absent /\ Len(arrays.absent) = Len(absent)
  BY <1>1, AbsentType
<1>6. ASSUME NEW i \in DOMAIN absent
      PROVE  /\ HasLength(arrays.absent[i], 2) <=> Sized("absent", i)
             /\ Decoded(1, arrays.absent[i]) = IF Intact("absent", i) THEN {Point(1, committee[absent[i]])} ELSE {}
  <2>1. arrays.absent[i] = Sent(1, committee[absent[i]], "absent", i)
    BY <1>1
  <2> DEFINE log == committee[absent[i]]
  <2>2. log \in Keys /\ log # 0
    BY AbsentType, CommitteeType
  <2> HIDE DEF log
  <2>3. /\ HasLength(Sent(1, log, "absent", i), 2 * 1) <=> Sized("absent", i)
        /\ Decoded(1, Sent(1, log, "absent", i)) = IF Intact("absent", i) /\ log # 0 THEN {Point(1, log)} ELSE {}
    BY <1>2, <2>2, SentArray
  <2>4. /\ HasLength(Sent(1, log, "absent", i), 2) <=> Sized("absent", i)
        /\ Decoded(1, Sent(1, log, "absent", i)) = IF Intact("absent", i) THEN {Point(1, log)} ELSE {}
    BY <2>2, <2>3
  <2> QED
    BY <2>1, <2>4 DEF log
<1>7. allHaveLength(arrays.absent, 2) <=> \A i \in DOMAIN absent : Sized("absent", i)
  BY <1>5, <1>6 DEF allHaveLength
<1> QED
  BY <1>3, <1>4, <1>5, <1>6, <1>7, DecodedIs

-----------------------------------------------------------------------------
\* The calls.

\* The verdict that is due.
Verifies ==
    /\ Untouched
    /\ KeyOf(Seats) # 0 /\ KeyOf(Signers) # 0
    /\ KeyOf(signed) = KeyOf(Signers)
    /\ message = signedMessage

\* All public keys decode.
KeysDecode ==
    Intact("aggregate", 1) /\ KeyOf(Seats) # 0 /\ \A i \in DOMAIN absent : Intact("absent", i)

\* The seats whose keys are left when k keys have been taken off.
Left(k) == Seats \ {absent[i] : i \in 1 .. k}

Looping ==
    /\ Intact("aggregate", 1) /\ KeyOf(Seats) # 0
    /\ Intact("signature", 1) /\ KeyOf(signed) # 0
    /\ next \in 1 .. Len(absent) + 1
    /\ \A i \in 1 .. next - 1 : Intact("absent", i)
    /\ signers = KeyOf(Left(next - 1))

\* The inductive invariant.
SyncInv ==
    /\ Caller
    /\ phase \in {"start", "arrays", "loop", "done"}
    /\ phase = "start" => validated = FALSE
    /\ phase \in {"start", "arrays"} => next = 1
    /\ phase \in {"arrays", "loop"} => arrays = SentArrays
    /\ validated => KeysDecode
    /\ phase = "loop" => Looping
    /\ VerdictIsFastAggregateVerify
    /\ ValidatedKeysAreTaken

\* Nothing about the caller changes in a step that leaves its inputs alone.
LEMMA InputsKept ==
    ASSUME UNCHANGED inputs
    PROVE  /\ Caller' <=> Caller
           /\ Verifies' <=> Verifies
           /\ KeysDecode' <=> KeysDecode
           /\ Untouched' <=> Untouched
           /\ SentArrays' = SentArrays
           /\ KeyOf(Seats)' = KeyOf(Seats) /\ KeyOf(signed)' = KeyOf(signed)
           /\ fault' = fault
<1>1. /\ committee' = committee /\ absent' = absent /\ signed' = signed /\ message' = message
      /\ signedMessage' = signedMessage /\ fault' = fault
  BY DEF inputs
<1>2. Caller' <=> Caller
  <2>1. Seats' = Seats
    BY <1>1, Zenon DEF Seats
  <2> QED
    BY <1>1, <2>1 DEF Caller
<1>3. Untouched' <=> Untouched
  BY <1>1, Zenon DEF Untouched
<1>4. KeyOf(Seats)' = KeyOf(Seats) /\ KeyOf(signed)' = KeyOf(signed) /\ KeyOf(Signers)' = KeyOf(Signers)
  BY <1>1, Zenon DEF KeyOf, Seats, Signers
<1>5. Verifies' <=> Verifies
  BY <1>1, <1>3, <1>4, Zenon DEF Verifies
<1>6. KeysDecode' <=> KeysDecode
  BY <1>1, <1>4, Zenon DEF KeysDecode, Intact
<1>7. SentArrays' = SentArrays
  <2>1. \A g, log, of, i : Sent(g, log, of, i)' = Sent(g, log, of, i)
    BY <1>1 DEF Sent
  <2> QED
    BY <1>1, <1>4, <2>1 DEF SentArrays
<1> QED
  BY <1>1, <1>2, <1>3, <1>4, <1>5, <1>6, <1>7

\* verifySyncAggregate returns false.
LEMMA RefusedCall ==
    ASSUME SyncInv, NEW why, Refuse(why), ~Verifies,
           validated => why \notin {"aggregate", "absent"} /\ (why = "arguments" => fault.of = "signature"),
           Untouched => /\ why \notin {"arguments", "absent"}
                        /\ why = "aggregate" => KeyOf(Seats) = 0
                        /\ why = "signature" => KeyOf(signed) = 0
    PROVE  SyncInv'
<1>1. /\ phase' = "done" /\ verdict' = FALSE /\ refused' = why
      /\ UNCHANGED inputs /\ validated' = validated
  BY DEF Refuse
<1>2. Caller' /\ ~Verifies' /\ (validated' => KeysDecode')
  BY <1>1, InputsKept DEF SyncInv
<1>3. VerdictIsFastAggregateVerify'
  BY <1>1, <1>2 DEF VerdictIsFastAggregateVerify, Verifies
<1>4. ValidatedKeysAreTaken'
  BY <1>1, InputsKept DEF ValidatedKeysAreTaken
<1> QED
  BY <1>1, <1>2, <1>3, <1>4 DEF SyncInv

\* The invariant holds before the call.
LEMMA SyncInitial == SyncInit => SyncInv
<1> SUFFICES ASSUME SyncInit PROVE SyncInv
  OBVIOUS
<1>1. Caller
  BY DEF SyncInit, Caller
<1> QED
  BY <1>1 DEF SyncInit, SyncInv, VerdictIsFastAggregateVerify, ValidatedKeysAreTaken

\* Encoding the arguments keeps the invariant.
LEMMA PrepareStep ==
    ASSUME SyncInv, Prepare
    PROVE  SyncInv'
<1>1. /\ phase = "start" /\ phase' = "arrays" /\ arrays' = SentArrays
      /\ UNCHANGED inputs /\ validated' = validated /\ next' = next
  BY DEF Prepare, SentArrays
<1>2. Caller' /\ arrays' = SentArrays' /\ validated' = FALSE
  BY <1>1, InputsKept DEF SyncInv
<1> QED
  BY <1>1, <1>2 DEF SyncInv, VerdictIsFastAggregateVerify, ValidatedKeysAreTaken

\* Validating the keys keeps the invariant.
LEMMA ValidateStep ==
    ASSUME SyncInv, Validate
    PROVE  SyncInv'
<1>1. /\ phase = "arrays" /\ validateG1Eip2537PublicKeys(<<arrays.aggregate>> \o arrays.absent)
      /\ UNCHANGED <<inputs, phase, arrays, next>>
  BY DEF Validate
<1> DEFINE keys == <<arrays.aggregate>> \o arrays.absent
<1>2. Caller /\ arrays = SentArrays
  BY <1>1 DEF SyncInv
<1>3. DOMAIN arrays.absent = 1 .. Len(absent) /\ Len(absent) \in Nat
  BY <1>2, ArraysDecode, AbsentType
<1>4. /\ DOMAIN keys = 1 .. Len(absent) + 1
      /\ keys[1] = arrays.aggregate
      /\ \A i \in 1 .. Len(absent) : keys[i + 1] = arrays.absent[i]
  <2> DEFINE a == arrays.aggregate
             b == arrays.absent
             n == Len(absent)
  <2>1. b = [i \in 1 .. n |-> b[i]] /\ n \in Nat
    BY <1>2, <1>3 DEF SentArrays
  <2>2. Len(b) = n
    BY <1>2, ArraysDecode
  <2> HIDE DEF a, b, n
  <2>3. b \in Seq({b[i] : i \in 1 .. n} \cup {a}) /\ <<a>> \in Seq({b[i] : i \in 1 .. n} \cup {a})
    BY <2>1
  <2>4. /\ DOMAIN (<<a>> \o b) = 1 .. n + 1
        /\ (<<a>> \o b)[1] = a
        /\ \A i \in 1 .. n : (<<a>> \o b)[i + 1] = b[i]
    BY <2>1, <2>2, <2>3
  <2> QED
    BY <2>4 DEF a, b, n
<1>5. \A i \in DOMAIN keys : g1_from_eip2537(keys[i]) # {}
  BY <1>1 DEF validateG1Eip2537PublicKeys
<1> HIDE DEF keys
<1>6. /\ g1_from_eip2537(arrays.aggregate) # {}
      /\ \A i \in DOMAIN absent : g1_from_eip2537(arrays.absent[i]) # {}
  <2>1. 1 \in 1 .. Len(absent) + 1 /\ \A i \in 1 .. Len(absent) : i + 1 \in 1 .. Len(absent) + 1
    BY <1>3
  <2> QED
    BY <1>2, <1>4, <1>5, <2>1, AbsentType
<1>7. KeysDecode
  BY <1>2, <1>6, ArraysDecode DEF KeysDecode
<1> QED
  BY <1>1, <1>7, InputsKept DEF SyncInv, VerdictIsFastAggregateVerify, ValidatedKeysAreTaken

\* Nothing was damaged if every array arrived as it was encoded.
LEMMA UntouchedIs ==
    ASSUME Caller
    PROVE  Untouched <=> /\ Intact("aggregate", 1) /\ Intact("signature", 1)
                         /\ \A i \in DOMAIN absent : Intact("absent", i)
<1>1. absent = <<>> <=> ~(1 \in DOMAIN absent)
  BY AbsentType
<1>2. (\A i \in DOMAIN absent : Intact("absent", i)) <=> (1 \in DOMAIN absent => Intact("absent", 1))
  BY DEF Intact
<1> QED
  BY <1>1, <1>2, FaultType DEF Untouched, Intact

\* Entering the verifier, or being refused by it, keeps the invariant.
LEMMA VerifyStep ==
    ASSUME SyncInv, Verify
    PROVE  SyncInv'
<1>1. phase = "arrays" /\ Caller /\ arrays = SentArrays /\ next = 1 /\ (validated => KeysDecode)
  BY DEF Verify, SyncInv
<1> DEFINE Wanting == \/ ~HasLength(arrays.aggregate, 2) \/ ~allHaveLength(arrays.absent, 2)
                      \/ ~HasLength(arrays.signature, 4)
<1>2. CASE Wanting
  <2>1. Refuse("arguments")
    BY <1>2 DEF Verify
  <2>2. ~Sized("aggregate", 1) \/ (\E i \in DOMAIN absent : ~Sized("absent", i)) \/ ~Sized("signature", 1)
    BY <1>1, <1>2, ArraysDecode
  <2>3. \A of, i : ~Sized(of, i) => ~Intact(of, i) /\ fault.of = of
    BY DEF Sized, Intact
  <2>4. ~Untouched /\ (KeysDecode => fault.of = "signature")
    BY <1>1, <2>2, <2>3, UntouchedIs DEF KeysDecode
  <2> QED
    BY <1>1, <2>1, <2>4, RefusedCall DEF Verifies
<1>3. CASE ~Wanting /\ g1_from_eip2537(arrays.aggregate) = {}
  <2>1. Refuse("aggregate")
    BY <1>3 DEF Verify
  <2>2. ~Intact("aggregate", 1) \/ KeyOf(Seats) = 0
    BY <1>1, <1>3, ArraysDecode
  <2> QED
    BY <1>1, <2>1, <2>2, UntouchedIs, RefusedCall DEF Verifies, KeysDecode
<1>4. CASE ~Wanting /\ g1_from_eip2537(arrays.aggregate) # {} /\ g2_from_eip2537(arrays.signature) = {}
  <2>1. Refuse("signature")
    BY <1>4 DEF Verify
  <2>2. ~Intact("signature", 1) \/ KeyOf(signed) = 0
    BY <1>1, <1>4, ArraysDecode
  <2> QED
    BY <1>1, <2>1, <2>2, UntouchedIs, RefusedCall DEF Verifies
<1>5. CASE ~Wanting /\ g1_from_eip2537(arrays.aggregate) # {} /\ g2_from_eip2537(arrays.signature) # {}
  <2>1. /\ \E p \in g1_from_eip2537(arrays.aggregate) : signers' = p.log
        /\ phase' = "loop"
        /\ UNCHANGED <<inputs, arrays, validated, next, verdict, refused>>
    BY <1>5 DEF Verify
  <2>2. /\ Intact("aggregate", 1) /\ KeyOf(Seats) # 0
        /\ Intact("signature", 1) /\ KeyOf(signed) # 0
        /\ g1_from_eip2537(arrays.aggregate) = {Point(1, KeyOf(Seats))}
    BY <1>1, <1>5, ArraysDecode
  <2>3. signers' = KeyOf(Seats)
    BY <2>1, <2>2 DEF Point
  <2>4. Left(0) = Seats
    BY DEF Left
  <2>5. Looping'
    <3>1. next' - 1 = 0 /\ next' \in 1 .. Len(absent') + 1
      BY <1>1, <2>1, AbsentType DEF inputs
    <3>2. signers' = KeyOf(Left(next - 1))'
      BY <2>1, <2>3, <2>4, <3>1 DEF inputs, KeyOf, Left, Seats
    <3> QED
      BY <2>1, <2>2, <3>1, <3>2, InputsKept DEF Looping, Intact
  <2> QED
    BY <1>1, <2>1, <2>5, InputsKept DEF SyncInv, VerdictIsFastAggregateVerify, ValidatedKeysAreTaken
<1> QED
  BY <1>2, <1>3, <1>4, <1>5

\* Taking one absent key off the aggregate keeps the invariant.
LEMMA TakeOffStep ==
    ASSUME SyncInv, TakeOff
    PROVE  SyncInv'
<1>1. phase = "loop" /\ Caller /\ arrays = SentArrays /\ (validated => KeysDecode) /\ Looping
  BY DEF TakeOff, SyncInv
<1>2. next \in DOMAIN absent /\ next \in 1 .. Len(absent)
  <2>1. Len(arrays.absent) = Len(absent)
    BY <1>1, ArraysDecode
  <2> QED
    BY <1>1, <2>1, AbsentType DEF TakeOff, Looping
<1> DEFINE key == g1_from_eip2537(arrays.absent[next])
<1>3. key = IF Intact("absent", next) THEN {Point(1, committee[absent[next]])} ELSE {}
  BY <1>1, <1>2, ArraysDecode
<1>4. CASE key = {}
  <2>1. Refuse("absent")
    BY <1>4 DEF TakeOff
  <2>2. ~Intact("absent", next)
    BY <1>3, <1>4
  <2> QED
    BY <1>1, <1>2, <2>1, <2>2, UntouchedIs, RefusedCall DEF Verifies, KeysDecode
<1>5. CASE key # {}
  <2>1. /\ \E p \in key : signers' = blst_add_or_double(signers, blst_cneg(p.log))
        /\ next' = next + 1
        /\ UNCHANGED <<inputs, phase, arrays, validated, verdict, refused>>
    BY <1>5 DEF TakeOff
  <2>2. Intact("absent", next) /\ key = {Point(1, committee[absent[next]])}
    BY <1>3, <1>5
  <2>3. signers' = blst_add_or_double(signers, blst_cneg(committee[absent[next]]))
    <3> HIDE DEF key
    <3> QED
      BY <2>1, <2>2 DEF Point
  <2>4. signers = KeyOf(Left(next - 1))
    BY <1>1 DEF Looping
  <2>5. /\ absent[next] \in Left(next - 1) /\ Left(next - 1) \in SUBSET Seats
        /\ Left(next) = Left(next - 1) \ {absent[next]}
    <3>1. 1 .. next = 1 .. (next - 1) \cup {next} /\ 1 .. next \subseteq 1 .. Len(absent)
      BY <1>1, <1>2, AbsentType
    <3>2. absent[next] \in Seats /\ \A i \in 1 .. next - 1 : absent[i] # absent[next]
      BY <1>1, <1>2, AbsentType
    <3> QED
      BY <3>1, <3>2 DEF Left
  <2>6. KeyOf(Left(next)) = signers'
    BY <1>1, <2>3, <2>4, <2>5, CommitteeType, SumLess DEF KeyOf
  <2>7. Looping'
    <3>1. next' - 1 = next /\ next' \in 1 .. Len(absent') + 1
      BY <1>1, <1>2, <2>1, AbsentType DEF inputs
    <3>2. signers' = KeyOf(Left(next - 1))'
      BY <2>1, <2>6, <3>1 DEF inputs, KeyOf, Left, Seats
    <3>3. \A i \in 1 .. next : Intact("absent", i)
      BY <1>1, <1>2, <2>2 DEF Looping
    <3> QED
      BY <1>1, <2>1, <3>1, <3>2, <3>3, InputsKept DEF Looping, Intact
  <2> HIDE DEF key
  <2> QED
    BY <1>1, <2>1, <2>7, InputsKept DEF SyncInv, VerdictIsFastAggregateVerify, ValidatedKeysAreTaken
<1> QED
  BY <1>4, <1>5

\* The pairing check keeps the invariant.
LEMMA PairingStep ==
    ASSUME SyncInv, verify_signers
    PROVE  SyncInv'
<1>1. phase = "loop" /\ Caller /\ arrays = SentArrays /\ (validated => KeysDecode) /\ Looping
  BY DEF verify_signers, SyncInv
<1>2. next = Len(absent) + 1
  <2>1. Len(arrays.absent) = Len(absent)
    BY <1>1, ArraysDecode
  <2> QED
    BY <1>1, <2>1, AbsentType DEF verify_signers, Looping
<1>3. signers = KeyOf(Signers)
  <2>1. next - 1 = Len(absent) /\ DOMAIN absent = 1 .. Len(absent)
    BY <1>1, <1>2, AbsentType
  <2>2. Left(next - 1) = Signers
    BY <2>1 DEF Left, Signers, ToSet
  <2> QED
    BY <1>1, <2>2 DEF Looping
<1>4. Untouched
  <2>1. \A i \in DOMAIN absent : Intact("absent", i)
    BY <1>1, <1>2, AbsentType DEF Looping
  <2> QED
    BY <1>1, <2>1, UntouchedIs DEF Looping
<1>5. CASE signers = 0
  <2>1. Refuse("identity")
    BY <1>5 DEF verify_signers
  <2> QED
    BY <1>3, <1>5, <2>1, RefusedCall DEF Verifies
<1>6. CASE signers # 0
  <2>1. /\ verdict' = \E p \in g2_from_eip2537(arrays.signature) :
                             p.log = signers /\ message = signedMessage
        /\ refused' = IF verdict' THEN "no" ELSE "pairing"
        /\ phase' = "done"
        /\ UNCHANGED <<inputs, arrays, validated, signers, next>>
    BY <1>6, Zenon DEF verify_signers
  <2>2. g2_from_eip2537(arrays.signature) = {Point(2, KeyOf(signed))} /\ KeyOf(Seats) # 0
    BY <1>1, ArraysDecode DEF Looping
  <2>3. verdict' <=> KeyOf(signed) = signers /\ message = signedMessage
    BY <2>1, <2>2 DEF Point
  <2>4. verdict' <=> Verifies
    BY <1>3, <1>4, <1>6, <2>2, <2>3 DEF Verifies
  <2>5. refused' \in {"no", "pairing"}
    BY <2>1
  <2>6. Caller' /\ (Verifies' <=> Verifies) /\ (validated' => KeysDecode')
    BY <1>1, <2>1, InputsKept
  <2>7. VerdictIsFastAggregateVerify'
    BY <2>4, <2>6 DEF VerdictIsFastAggregateVerify, Verifies
  <2>8. ValidatedKeysAreTaken'
    BY <2>5 DEF ValidatedKeysAreTaken
  <2> QED
    BY <2>1, <2>6, <2>7, <2>8 DEF SyncInv
<1> QED
  BY <1>5, <1>6

\* A stuttering step keeps the invariant.
LEMMA SyncStutter ==
    ASSUME SyncInv, UNCHANGED syncVars
    PROVE  SyncInv'
<1>1. UNCHANGED <<inputs, phase, arrays, validated, signers, next, verdict, refused>>
  BY DEF syncVars
<1>2. phase = "loop" => Looping'
  BY <1>1 DEF SyncInv, Looping, inputs, Intact, KeyOf, Left, Seats
<1>3. VerdictIsFastAggregateVerify'
  BY <1>1, InputsKept DEF SyncInv, VerdictIsFastAggregateVerify, Verifies
<1>4. ValidatedKeysAreTaken'
  BY <1>1, InputsKept DEF SyncInv, ValidatedKeysAreTaken
<1> QED
  BY <1>1, <1>2, <1>3, <1>4, InputsKept DEF SyncInv

\* The invariant holds throughout the verification.
LEMMA SyncInvariant == SyncSpec => []SyncInv
<1>1. SyncInv /\ [SyncNext]_syncVars => SyncInv'
  BY PrepareStep, ValidateStep, VerifyStep, TakeOffStep, PairingStep, SyncStutter DEF SyncNext
<1> QED
  BY <1>1, SyncInitial, PTL DEF SyncSpec

\* For every committee, whatever keys sit in it and however often, every list of
\* absent seats in any order, every set that signed and every way the caller may
\* get an array wrong: verifySyncAggregate answers as FastAggregateVerify would.
THEOREM VerdictIsCorrect == SyncSpec => []VerdictIsFastAggregateVerify
<1>1. SyncInv => VerdictIsFastAggregateVerify
  BY DEF SyncInv
<1> QED
  BY <1>1, SyncInvariant, PTL

\* Keys that validateG1Eip2537PublicKeys let through are not refused by
\* verifySyncAggregate, and decompressed points only if they are the identity.
THEOREM ValidatedKeysAreNotRefused == SyncSpec => []ValidatedKeysAreTaken
<1>1. SyncInv => ValidatedKeysAreTaken
  BY DEF SyncInv
<1> QED
  BY <1>1, SyncInvariant, PTL
=============================================================================
