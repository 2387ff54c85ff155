---------------------------- MODULE FoldTheorems ----------------------------
(***************************************************************************)
(* Induction and recursion for the proofs about data.  The loops of the    *)
(* code are folds over sequences; what a fold computes is found by         *)
(* induction over the prefixes it has visited.  The induction principles   *)
(* here speak of sets and functions, never of operators, so that the       *)
(* provers can instantiate them.                                           *)
(***************************************************************************)
EXTENDS Lists, FiniteSetTheorems, WellFoundedInduction, TLAPS

\* A nonempty set of naturals has a least element.
LEMMA LeastNatural ==
    ASSUME NEW T \in SUBSET Nat, T # {}
    PROVE  \E n \in T : \A m \in T : n <= m
<1>1. IsWellFoundedOn(OpToRel(<, Nat), Nat)
  BY NatLessThanWellFounded
<1>2. PICK n \in T : \A m \in T : ~ (<<m, n>> \in OpToRel(<, Nat))
  BY <1>1, WFMin
<1>3. \A m \in T : ~(m < n)
  BY <1>2 DEF OpToRel
<1> QED
  BY <1>3

\* Induction up to n, for a property given as the set of numbers that have it.
LEMMA UpTo ==
    ASSUME NEW n \in Nat, NEW S,
           0 \in S,
           \A m \in 0 .. n - 1 : m \in S => m + 1 \in S
    PROVE  \A m \in 0 .. n : m \in S
<1> DEFINE Missing == {m \in 0 .. n : m \notin S}
<1>1. CASE Missing = {}
  BY <1>1
<1>2. CASE Missing # {}
  <2>1. PICK m \in Missing : \A k \in Missing : m <= k
    <3>1. Missing \in SUBSET Nat
      OBVIOUS
    <3> HIDE DEF Missing
    <3> QED
      BY <1>2, <3>1, LeastNatural
  <2>2. m # 0 /\ m - 1 \in 0 .. n - 1
    BY <2>1
  <2>3. m - 1 \in S
    BY <2>1, <2>2
  <2> QED
    BY <2>2, <2>3
<1> QED
  BY <1>1, <1>2

\* f[i] is what a loop holds after i steps.
IsRun(f, n, base, step) ==
    f[0] = base /\ \A i \in 1 .. n : f[i] = step[<<f[i - 1], i>>]

\* There is a function that steps from base as a loop of n steps does.
LEMMA RecursionExists ==
    ASSUME NEW n \in Nat, NEW V, NEW base \in V, NEW step \in [V \X (1 .. n) -> V]
    PROVE  \E f \in [0 .. n -> V] : IsRun(f, n, base, step)
<1> DEFINE Steps(f, m) == f[0] = base /\ \A i \in 1 .. m : f[i] = step[<<f[i - 1], i>>]
<1> DEFINE S == {m \in 0 .. n : \E f \in [0 .. m -> V] : Steps(f, m)}
<1>0. \A m \in 0 .. n : \A f \in [0 .. m -> V] : Steps(f, m) => m \in S
  OBVIOUS
<1>1. 0 \in S
  <2> DEFINE f == [i \in 0 .. 0 |-> base]
  <2>1. f \in [0 .. 0 -> V] /\ Steps(f, 0)
    OBVIOUS
  <2>2. 0 \in 0 .. n
    OBVIOUS
  <2> HIDE DEF f, S, Steps
  <2> QED
    BY <2>1, <2>2, <1>0, Zenon
<1>2. ASSUME NEW m \in 0 .. n - 1, m \in S PROVE m + 1 \in S
  <2>1. PICK f \in [0 .. m -> V] : Steps(f, m)
    BY <1>2
  <2> DEFINE g == [i \in 0 .. m + 1 |-> IF i = m + 1 THEN step[<<f[m], m + 1>>] ELSE f[i]]
  <2>2. g \in [0 .. m + 1 -> V]
    OBVIOUS
  <2>3. Steps(g, m + 1)
    <3>1. g[0] = base
      BY <2>1
    <3>2. ASSUME NEW i \in 1 .. m + 1 PROVE g[i] = step[<<g[i - 1], i>>]
      <4>1. CASE i = m + 1
        <5>1. g[m + 1] = step[<<f[m], m + 1>>] /\ g[m] = f[m]
          OBVIOUS
        <5>2. i - 1 = m
          BY <4>1
        <5> HIDE DEF g
        <5> QED
          BY <4>1, <5>1, <5>2
      <4>2. CASE i # m + 1
        <5>1. i \in 1 .. m /\ i - 1 \in 0 .. m
          BY <4>2
        <5>2. g[i] = f[i] /\ g[i - 1] = f[i - 1]
          BY <5>1
        <5> QED
          BY <2>1, <5>1, <5>2
      <4> QED
        BY <4>1, <4>2
    <3> QED
      BY <3>1, <3>2
  <2> HIDE DEF g, S, Steps
  <2> QED
    BY <2>2, <2>3, <1>0
<1>3. n \in S
  <2> HIDE DEF S
  <2> QED
    BY <1>1, <1>2, UpTo
<1> QED
  BY <1>3 DEF IsRun

\* Max of a nonempty set of positions is its largest element.
LEMMA MaxProperties ==
    ASSUME NEW n \in Nat, NEW s \in SUBSET (1 .. n), s # {}
    PROVE  Max(s) \in s /\ \A y \in s : y <= Max(s)
<1> DEFINE T == {n - y : y \in s}
<1>1. T \in SUBSET Nat /\ T # {}
  <2>1. \A y \in s : n - y \in Nat
    OBVIOUS
  <2>2. PICK y \in s : TRUE
    OBVIOUS
  <2>3. n - y \in T
    OBVIOUS
  <2> QED
    BY <2>1, <2>3
<1>2. PICK d \in T : \A m \in T : d <= m
  <2> HIDE DEF T
  <2> QED
    BY <1>1, LeastNatural
<1>3. PICK x \in s : d = n - x
  OBVIOUS
<1>4. \A y \in s : x >= y
  <2> SUFFICES ASSUME NEW y \in s PROVE x >= y
    OBVIOUS
  <2>1. n - y \in T
    OBVIOUS
  <2> QED
    BY <1>2, <1>3, <2>1
<1>5. Max(s) \in s /\ \A y \in s : Max(s) >= y
  BY <1>4 DEF Max
<1> QED
  BY <1>5

\* f[s] is the fold over the positions in s, lowest first, as Folds defines it.
IsFold(f, n, base, step) ==
    /\ f[{}] = base
    /\ \A s \in SUBSET (1 .. n) :
          s # {} => f[s] = step[<<f[s \ {Max(s)}], Max(s)>>]

\* The recursion by which FoldLeft is defined has a solution.
LEMMA FoldExists ==
    ASSUME NEW n \in Nat, NEW V, NEW base \in V, NEW step \in [V \X (1 .. n) -> V]
    PROVE  \E f \in [SUBSET (1 .. n) -> V] : IsFold(f, n, base, step)
<1> DEFINE Steps(s, h) ==
              /\ h[0] = base
              /\ \A i \in 1 .. n : h[i] = IF i \in s THEN step[<<h[i - 1], i>>] ELSE h[i - 1]
<1> DEFINE H(s) == CHOOSE h \in [0 .. n -> V] : Steps(s, h)
<1>1. ASSUME NEW s \in SUBSET (1 .. n) PROVE H(s) \in [0 .. n -> V] /\ Steps(s, H(s))
  <2> DEFINE stepIn == [x \in V \X (1 .. n) |-> IF x[2] \in s THEN step[x] ELSE x[1]]
  <2>1. stepIn \in [V \X (1 .. n) -> V]
    OBVIOUS
  <2>2. PICK h \in [0 .. n -> V] : IsRun(h, n, base, stepIn)
    <3> HIDE DEF stepIn
    <3> QED
      BY <2>1, RecursionExists
  <2>3. \A i \in 1 .. n : h[i] = IF i \in s THEN step[<<h[i - 1], i>>] ELSE h[i - 1]
    <3> SUFFICES ASSUME NEW i \in 1 .. n
                 PROVE  h[i] = IF i \in s THEN step[<<h[i - 1], i>>] ELSE h[i - 1]
      OBVIOUS
    <3>1. <<h[i - 1], i>> \in V \X (1 .. n)
      OBVIOUS
    <3>2. h[i] = stepIn[<<h[i - 1], i>>]
      BY <2>2 DEF IsRun
    <3> QED
      BY <3>1, <3>2
  <2>4. Steps(s, h)
    BY <2>2, <2>3 DEF IsRun
  <2> HIDE DEF Steps
  <2> QED
    BY <2>4
<1> HIDE DEF H
\* Below k, only what s has below k counts.
<1>2. ASSUME NEW s \in SUBSET (1 .. n), NEW t \in SUBSET (1 .. n), NEW k \in 0 .. n,
             \A i \in 1 .. k : i \in s <=> i \in t
      PROVE  H(s)[k] = H(t)[k]
  <2> DEFINE S == {i \in 0 .. k : H(s)[i] = H(t)[i]}
  <2>1. 0 \in S
    BY <1>1
  <2>2. ASSUME NEW i \in 0 .. k - 1, i \in S PROVE i + 1 \in S
    <3>1. i + 1 \in 1 .. n /\ i + 1 \in 1 .. k /\ (i + 1) - 1 = i
      OBVIOUS
    <3>2. /\ H(s)[i + 1] = IF i + 1 \in s THEN step[<<H(s)[i], i + 1>>] ELSE H(s)[i]
          /\ H(t)[i + 1] = IF i + 1 \in t THEN step[<<H(t)[i], i + 1>>] ELSE H(t)[i]
      BY <1>1, <3>1
    <3> QED
      BY <1>2, <2>2, <3>1, <3>2
  <2>3. k \in S
    <3> HIDE DEF S
    <3> QED
      BY <2>1, <2>2, UpTo
  <2> QED
    BY <2>3
\* Past the last element of s nothing changes.
<1>3. ASSUME NEW s \in SUBSET (1 .. n), NEW k \in 0 .. n, \A i \in s : i <= k
      PROVE  H(s)[n] = H(s)[k]
  <2> DEFINE S == {i \in 0 .. n - k : H(s)[k + i] = H(s)[k]}
  <2>1. 0 \in S
    OBVIOUS
  <2>2. ASSUME NEW i \in 0 .. (n - k) - 1, i \in S PROVE i + 1 \in S
    <3>1. k + i + 1 \in 1 .. n /\ (k + i + 1) - 1 = k + i /\ k + i + 1 \notin s
      BY <1>3
    <3>2. H(s)[k + i + 1] = H(s)[k + i]
      <4> DEFINE j == k + i + 1
      <4>1. \A l \in 1 .. n : l \notin s => H(s)[l] = H(s)[l - 1]
        BY <1>1
      <4>2. H(s)[j] = H(s)[j - 1]
        BY <3>1, <4>1
      <4> QED
        BY <3>1, <4>2
    <3> QED
      BY <2>2, <3>1, <3>2
  <2>3. n - k \in S
    <3> HIDE DEF S
    <3> QED
      BY <2>1, <2>2, UpTo
  <2> QED
    BY <2>3
<1> DEFINE f == [s \in SUBSET (1 .. n) |-> H(s)[n]]
<1>4. f \in [SUBSET (1 .. n) -> V]
  BY <1>1
<1>5. f[{}] = base
  <2>1. H({})[n] = H({})[0]
    BY <1>3
  <2> QED
    BY <1>1, <2>1
<1>6. ASSUME NEW s \in SUBSET (1 .. n), s # {}
      PROVE  f[s] = step[<<f[s \ {Max(s)}], Max(s)>>]
  <2> DEFINE x == Max(s)
  <2>1. x \in s /\ x \in 1 .. n /\ \A y \in s : y <= x
    BY <1>6, MaxProperties
  <2> HIDE DEF x
  <2> DEFINE t == s \ {x}
  <2>2. H(s)[n] = H(s)[x]
    BY <1>3, <2>1
  <2>3. H(s)[x] = step[<<H(s)[x - 1], x>>]
    BY <1>1, <2>1
  <2>4. H(s)[x - 1] = H(t)[x - 1]
    BY <1>2, <2>1
  <2>5. H(t)[n] = H(t)[x - 1]
    BY <1>3, <2>1
  <2>6. f[s] = step[<<f[t], x>>]
    BY <2>2, <2>3, <2>4, <2>5
  <2> QED
    BY <2>6 DEF x
<1> HIDE DEF f
<1> QED
  BY <1>4, <1>5, <1>6 DEF IsFold

\* The same recursion, of a function not known to have values in V.
IsPartialFold(f, n, V, base, step) ==
    /\ f[{}] = base
    /\ \A s \in SUBSET (1 .. n) :
          s # {} /\ f[s \ {Max(s)}] \in V => f[s] = step[<<f[s \ {Max(s)}], Max(s)>>]

PartialFolds(f, n) == [i \in 0 .. n |-> f[1 .. i]]

\* A fold runs over its prefixes.
LEMMA FoldPrefixes ==
    ASSUME NEW n \in Nat, NEW V, NEW base \in V, NEW step \in [V \X (1 .. n) -> V],
           NEW f, IsPartialFold(f, n, V, base, step)
    PROVE  PartialFolds(f, n) \in [0 .. n -> V] /\ IsRun(PartialFolds(f, n), n, base, step)
<1>0. /\ f[{}] = base
      /\ \A s \in SUBSET (1 .. n) :
            s # {} /\ f[s \ {Max(s)}] \in V => f[s] = step[<<f[s \ {Max(s)}], Max(s)>>]
  BY DEF IsPartialFold
<1> DEFINE t == [i \in 0 .. n |-> f[1 .. i]]
<1>1. ASSUME NEW i \in 1 .. n, t[i - 1] \in V PROVE t[i] \in V /\ t[i] = step[<<t[i - 1], i>>]
  <2>1. 1 .. i \in SUBSET (1 .. n) /\ 1 .. i # {}
    OBVIOUS
  <2>2. Max(1 .. i) = i
    <3>1. Max(1 .. i) \in 1 .. i /\ \A y \in 1 .. i : y <= Max(1 .. i)
      BY <2>1, MaxProperties
    <3>2. i \in 1 .. i
      OBVIOUS
    <3> QED
      BY <3>1, <3>2
  <2>3. (1 .. i) \ {i} = 1 .. (i - 1)
    OBVIOUS
  <2>4. t[i] = f[1 .. i] /\ t[i - 1] = f[1 .. (i - 1)]
    OBVIOUS
  <2>5. f[1 .. i] = step[<<f[1 .. (i - 1)], i>>]
    BY <1>0, <1>1, <2>1, <2>2, <2>3, <2>4
  <2> QED
    BY <1>1, <2>4, <2>5
<1>2. t[0] = base
  <2>1. 1 .. 0 = {}
    OBVIOUS
  <2> QED
    BY <1>0, <2>1
<1> HIDE DEF t
<1> DEFINE S == {i \in 0 .. n : t[i] \in V}
<1>3. 0 \in S
  BY <1>2
<1>4. ASSUME NEW i \in 0 .. n - 1, i \in S PROVE i + 1 \in S
  <2> DEFINE j == i + 1
  <2>1. j \in 1 .. n /\ j - 1 = i /\ j \in 0 .. n
    OBVIOUS
  <2>2. t[j - 1] \in V
    BY <1>4, <2>1
  <2> HIDE DEF j
  <2>3. j \in S
    BY <1>1, <2>1, <2>2
  <2> QED
    BY <2>3 DEF j
<1>5. \A i \in 0 .. n : i \in S
  <2> HIDE DEF S
  <2> QED
    BY <1>3, <1>4, UpTo
<1>6. t \in [0 .. n -> V]
  BY <1>5 DEF t
<1>7. \A i \in 1 .. n : t[i] = step[<<t[i - 1], i>>]
  BY <1>1, <1>5
<1> QED
  BY <1>2, <1>6, <1>7 DEF IsRun, PartialFolds, t

-----------------------------------------------------------------------------
\* A list without repetitions has as many elements as positions.
LEMMA DistinctCount ==
    ASSUME NEW n \in Nat, NEW S, NEW f \in [1 .. n -> S],
           \A i, j \in 1 .. n : i < j => f[i] # f[j]
    PROVE  LET T == {f[i] : i \in 1 .. n} IN IsFiniteSet(T) /\ Cardinality(T) = n
<1> DEFINE T == {f[i] : i \in 1 .. n}
<1>1. IsFiniteSet(1 .. n) /\ Cardinality(1 .. n) = n
  <2>1. IsFiniteSet(1 .. n) /\ Cardinality(1 .. n) = IF 1 > n THEN 0 ELSE n - 1 + 1
    BY FS_Interval
  <2> QED
    BY <2>1
<1>2. f \in [1 .. n -> T] /\ \A i, j \in 1 .. n : f[i] = f[j] => i = j
  OBVIOUS
<1>3. f \in Bijection(1 .. n, T)
  BY <1>2 DEF Bijection, Injection, IsInjective, Surjection
<1>4. ExistsBijection(1 .. n, T)
  BY <1>3 DEF ExistsBijection
<1> HIDE DEF T
<1>5. IsFiniteSet(T) /\ Cardinality(T) = n
  BY <1>1, <1>4, FS_Bijection
<1> QED
  BY <1>5 DEF T

\* The elements of a list that grew by one.
LEMMA ElementsOfAppend ==
    ASSUME NEW S, NEW s \in Seq(S), NEW v \in S
    PROVE  ToSet(Append(s, v)) = ToSet(s) \cup {v}
<1> DEFINE n == Len(s)
           t == Append(s, v)
<1>1. n \in Nat /\ DOMAIN s = 1 .. n /\ DOMAIN t = 1 .. n + 1
  OBVIOUS
<1>2. t[n + 1] = v /\ \A i \in 1 .. n : t[i] = s[i]
  OBVIOUS
<1>3. 1 .. n + 1 = (1 .. n) \cup {n + 1}
  BY <1>1
<1> HIDE DEF n, t
<1>4. ToSet(t) = {t[i] : i \in 1 .. n + 1} /\ ToSet(s) = {s[i] : i \in 1 .. n}
  BY <1>1 DEF ToSet
<1>5. \A x : x \in ToSet(t) <=> x \in ToSet(s) \/ x = v
  BY <1>2, <1>3, <1>4
<1> QED
  BY <1>5 DEF t
=============================================================================
