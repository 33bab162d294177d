---------------------------- MODULE ReadingProofs ---------------------------
(***************************************************************************)
(* What is read page by page, for every value of the constants: the pages of *)
(* a result set over a store that changes (ResultPaging), the pages of a   *)
(* federation of stores (StoredFederation) and the slices of an eager union *)
(* (FederatedUnion).  Each invariant says what a query in progress has so far *)
(* in terms of what it is asked: the part up to where it stands.           *)
(***************************************************************************)
EXTENDS ResultPaging, StoredFederation, FederatedUnion, FiniteSetTheorems,
        WellFoundedInduction, SequenceTheorems, TLAPS

-----------------------------------------------------------------------------
(* Orders: ORDER BY, LIMIT and the beginnings of a sorted list.            *)

StrictOrder(S, before) ==
  /\ \A x \in S : <<x, x>> \notin before
  /\ \A x, y, z \in S : <<x, y>> \in before /\ <<y, z>> \in before => <<x, z>> \in before
  /\ \A x, y \in S : x # y => <<x, y>> \in before \/ <<y, x>> \in before
Rank(x, S, before) == Cardinality(Preceding(x, S, before))

\* In a strict order the number of rows before a row tells it from every other one.
LEMMA Ranks ==
  ASSUME NEW S, NEW before, IsFiniteSet(S), StrictOrder(S, before)
  PROVE  /\ Cardinality(S) \in Nat
         /\ \A x \in S : Rank(x, S, before) \in 0..(Cardinality(S) - 1)
         /\ \A x, y \in S : <<x, y>> \in before <=> Rank(x, S, before) < Rank(y, S, before)
         /\ \A n \in 0..(Cardinality(S) - 1) : \E x \in S : Rank(x, S, before) = n
<1> DEFINE N == Cardinality(S)
           P(x) == Preceding(x, S, before)
           rank == [x \in S |-> Cardinality(P(x))]
<1>1. N \in Nat
  BY FS_CardinalityType
<1>2. \A x \in S : IsFiniteSet(P(x)) /\ Cardinality(P(x)) \in Nat /\ Cardinality(P(x)) < N
  <2> TAKE x \in S
  <2>1. P(x) \in SUBSET S
    BY DEF Preceding
  <2>2. x \notin P(x)
    BY DEF Preceding, StrictOrder
  <2>3. IsFiniteSet(P(x)) /\ Cardinality(P(x)) <= N /\ (N = Cardinality(P(x)) => S = P(x))
    <3> HIDE DEF P
    <3> QED BY <2>1, FS_Subset
  <2>4. Cardinality(P(x)) \in Nat
    BY <2>3, FS_CardinalityType
  <2> HIDE DEF P
  <2> QED BY <1>1, <2>2, <2>3, <2>4
<1>3. \A x, y \in S : <<x, y>> \in before => Cardinality(P(x)) < Cardinality(P(y))
  <2> TAKE x, y \in S
  <2> HAVE <<x, y>> \in before
  <2>1. P(x) \in SUBSET P(y)
    BY DEF Preceding, StrictOrder
  <2>2. x \in P(y) /\ x \notin P(x)
    BY DEF Preceding, StrictOrder
  <2>3. Cardinality(P(x)) <= Cardinality(P(y)) /\ (Cardinality(P(y)) = Cardinality(P(x)) => P(y) = P(x))
    <3> HIDE DEF P
    <3> QED BY <1>2, <2>1, FS_Subset
  <2> HIDE DEF P
  <2> QED BY <1>2, <2>2, <2>3
<1>4. \A x, y \in S : <<x, y>> \in before <=> Cardinality(P(x)) < Cardinality(P(y))
  <2> TAKE x, y \in S
  <2>1. x = y \/ <<x, y>> \in before \/ <<y, x>> \in before
    BY DEF StrictOrder
  <2>2. x = y => <<x, y>> \notin before
    BY DEF StrictOrder
  <2> HIDE DEF P
  <2> QED BY <1>2, <1>3, <2>1, <2>2
<1>5. \A x, y \in S : x # y => Cardinality(P(x)) # Cardinality(P(y))
  <2> TAKE x, y \in S
  <2>1. x # y => <<x, y>> \in before \/ <<y, x>> \in before
    BY DEF StrictOrder
  <2> HIDE DEF P
  <2> QED BY <1>2, <1>3, <2>1
<1>6. rank \in Injection(S, 0..(N - 1))
  <2>1. rank \in [S -> 0..(N - 1)]
    <3> HIDE DEF P, N
    <3> QED BY <1>1, <1>2
  <2>2. \A x, y \in S : rank[x] = rank[y] => x = y
    <3> HIDE DEF P
    <3> QED BY <1>5
  <2> HIDE DEF rank
  <2> QED BY <2>1, <2>2 DEF Injection, IsInjective
<1>7. IsFiniteSet(0..(N - 1)) /\ Cardinality(0..(N - 1)) = N
  <2> HIDE DEF N
  <2>1. IsFiniteSet(0..(N - 1)) /\ Cardinality(0..(N - 1)) = IF 0 > N - 1 THEN 0 ELSE N - 1 - 0 + 1
    BY <1>1, FS_Interval
  <2> QED BY <1>1, <2>1
<1>8. rank \in Surjection(S, 0..(N - 1))
  <2> HIDE DEF rank
  <2> QED BY <1>6, <1>7, FS_Injection
<1>9. \A n \in 0..(N - 1) : \E x \in S : rank[x] = n
  <2> HIDE DEF rank, N
  <2> QED BY <1>8 DEF Surjection
<1> QED
  <2>1. \A x \in S : rank[x] = Rank(x, S, before)
    BY DEF Rank
  <2>2. \A x \in S : Cardinality(P(x)) = Rank(x, S, before)
    BY DEF Rank
  <2> HIDE DEF rank, P
  <2> QED BY <1>1, <1>2, <1>4, <1>9, <2>1, <2>2

\* ORDER BY lists each row of the set once, in the order.
LEMMA Ordered ==
  ASSUME NEW S, NEW before, IsFiniteSet(S), StrictOrder(S, before)
  PROVE  /\ OrderBy(S, before) \in [1..Cardinality(S) -> S]
         /\ OrderBy(S, before) \in Seq(S)
         /\ Len(OrderBy(S, before)) = Cardinality(S)
         /\ Cardinality(S) \in Nat
         /\ \A i \in 1..Cardinality(S) : Rank(OrderBy(S, before)[i], S, before) = i - 1
         /\ \A i, j \in 1..Cardinality(S) :
              <<OrderBy(S, before)[i], OrderBy(S, before)[j]>> \in before <=> i < j
         /\ \A x \in S : \E i \in 1..Cardinality(S) : OrderBy(S, before)[i] = x
<1> DEFINE N == Cardinality(S)
           s == OrderBy(S, before)
<1>1. /\ N \in Nat
      /\ \A x \in S : Rank(x, S, before) \in 0..(N - 1)
      /\ \A x, y \in S : <<x, y>> \in before <=> Rank(x, S, before) < Rank(y, S, before)
      /\ \A n \in 0..(N - 1) : \E x \in S : Rank(x, S, before) = n
  BY Ranks
<1>2. s = [i \in 1..N |-> CHOOSE x \in S : Rank(x, S, before) = i - 1]
  BY DEF OrderBy, Rank
<1>3. \A i \in 1..N : s[i] \in S /\ Rank(s[i], S, before) = i - 1
  <2> HIDE DEF N, s
  <2> TAKE i \in 1..N
  <2>1. s[i] = CHOOSE x \in S : Rank(x, S, before) = i - 1
    BY <1>2
  <2>2. i - 1 \in 0..(N - 1)
    BY <1>1
  <2>3. \E x \in S : Rank(x, S, before) = i - 1
    BY <1>1, <2>2
  <2> QED BY <2>1, <2>3
<1>4. s \in [1..N -> S]
  <2>1. DOMAIN s = 1..N /\ s = [i \in 1..N |-> s[i]]
    BY <1>2
  <2> HIDE DEF N, s
  <2> QED BY <1>3, <2>1
<1>5. \A i, j \in 1..N : <<s[i], s[j]>> \in before <=> i < j
  <2> HIDE DEF N, s
  <2> TAKE i, j \in 1..N
  <2>1. <<s[i], s[j]>> \in before <=> Rank(s[i], S, before) < Rank(s[j], S, before)
    BY <1>1, <1>3
  <2> QED BY <1>1, <1>3, <2>1
<1>6. \A x \in S : \E i \in 1..N : s[i] = x
  <2> HIDE DEF N, s
  <2> TAKE x \in S
  <2>1. PICK i \in 1..N : Rank(x, S, before) = i - 1
    <3>1. Rank(x, S, before) \in 0..(N - 1)
      BY <1>1
    <3>2. \A r \in 0..(N - 1) : r + 1 \in 1..N /\ r = (r + 1) - 1
      BY <1>1
    <3> QED BY <3>1, <3>2
  <2>2. Rank(s[i], S, before) = i - 1 /\ s[i] \in S
    BY <1>3
  <2>3. ~(<<x, s[i]>> \in before) /\ ~(<<s[i], x>> \in before)
    BY <1>1, <2>1, <2>2
  <2> QED BY <2>2, <2>3 DEF StrictOrder
<1> HIDE DEF N, s
<1>7. s \in Seq(S) /\ Len(s) = N
  BY <1>1, <1>4
<1> QED BY <1>1, <1>3, <1>4, <1>5, <1>6, <1>7 DEF N, s

IsListed(S, before, o) ==
  /\ o \in [1..Cardinality(S) -> S] /\ Cardinality(S) \in Nat
  /\ \A i, j \in 1..Cardinality(S) : <<o[i], o[j]>> \in before <=> i < j
  /\ \A x \in S : \E i \in 1..Cardinality(S) : o[i] = x

\* The same of the list as a whole.
LEMMA Listed ==
  ASSUME NEW S, NEW before, IsFiniteSet(S), StrictOrder(S, before)
  PROVE  IsListed(S, before, OrderBy(S, before))
BY Ordered DEF IsListed

\* What a sequence enumerates without repetition is as large as the sequence is long.
LEMMA Enumerated ==
  ASSUME NEW T, NEW n \in Nat, NEW s \in [1..n -> T],
         \A i, j \in 1..n : s[i] = s[j] => i = j,
         \A t \in T : \E i \in 1..n : s[i] = t
  PROVE  IsFiniteSet(T) /\ Cardinality(T) = n
<1>1. s \in Bijection(1..n, T)
  BY DEF Bijection, Injection, IsInjective, Surjection
<1>2. ExistsBijection(1..n, T)
  BY <1>1 DEF ExistsBijection
<1>3. IsFiniteSet(1..n) /\ Cardinality(1..n) = n
  <2>1. IsFiniteSet(1..n) /\ Cardinality(1..n) = IF 1 > n THEN 0 ELSE n - 1 + 1
    BY FS_Interval
  <2> QED BY <2>1
<1> QED BY <1>2, <1>3, FS_Bijection

\* LIMIT keeps the least rows, as many as it names unless there are fewer.
LEMMA LimitedRows ==
  ASSUME NEW S, NEW before, IsFiniteSet(S), StrictOrder(S, before), NEW n \in Nat
  PROVE  /\ Limited(S, before, n) \subseteq S
         /\ IsFiniteSet(Limited(S, before, n))
         /\ Cardinality(Limited(S, before, n)) \in Nat
         /\ Cardinality(Limited(S, before, n)) <= n
         /\ Limited(S, before, n) = S \/ Cardinality(Limited(S, before, n)) = n
         /\ \A x \in S \ Limited(S, before, n), y \in Limited(S, before, n) : <<y, x>> \in before
<1> DEFINE N == Cardinality(S)
           s == OrderBy(S, before)
           T == Limited(S, before, n)
           m == IF n < N THEN n ELSE N
<1>1. /\ s \in [1..N -> S]
      /\ N \in Nat
      /\ \A i \in 1..N : Rank(s[i], S, before) = i - 1
      /\ \A i, j \in 1..N : <<s[i], s[j]>> \in before <=> i < j
      /\ \A x \in S : \E i \in 1..N : s[i] = x
  BY Ordered
<1>2. T = {x \in S : Rank(x, S, before) < n}
  BY DEF Limited, Rank
<1> HIDE DEF s, T, N
<1>3. \A i \in 1..N : s[i] \in T <=> i <= n
  <2> TAKE i \in 1..N
  <2>1. s[i] \in S /\ Rank(s[i], S, before) = i - 1
    BY <1>1
  <2> QED BY <1>1, <1>2, <2>1
<1>4. m \in Nat /\ m <= n /\ m <= N
  BY <1>1
<1>5. T = {s[i] : i \in 1..m}
  <2>1. \A i \in 1..m : s[i] \in T
    BY <1>1, <1>3, <1>4
  <2>2. \A x \in T : \E i \in 1..m : x = s[i]
    <3> TAKE x \in T
    <3>1. x \in S
      BY <1>2
    <3>2. PICK i \in 1..N : s[i] = x
      BY <1>1, <3>1
    <3>3. i <= n
      BY <1>3, <3>2
    <3>4. i \in 1..m
      BY <1>1, <3>3
    <3> QED BY <3>2, <3>4
  <2> HIDE DEF m
  <2> QED BY <2>1, <2>2
<1>6. \A i, j \in 1..N : s[i] = s[j] => i = j
  <2> TAKE i, j \in 1..N
  <2>1. i < j \/ j < i \/ i = j
    BY <1>1
  <2>2. s[i] \in S /\ s[j] \in S
    BY <1>1
  <2> QED BY <1>1, <2>1, <2>2 DEF StrictOrder
<1>7. IsFiniteSet(T) /\ Cardinality(T) = m
  <2> DEFINE u == [k \in 1..m |-> s[k]]
  <2>1. u \in [1..m -> T] /\ \A t \in T : \E i \in 1..m : u[i] = t
    <3> HIDE DEF m
    <3> QED BY <1>4, <1>5
  <2>2. \A i, j \in 1..m : u[i] = u[j] => i = j
    <3> HIDE DEF m
    <3> QED BY <1>1, <1>4, <1>6
  <2> HIDE DEF m, u
  <2> QED BY <1>4, <2>1, <2>2, Enumerated
<1>8. T \subseteq S
  BY <1>2
<1>9. T = S \/ Cardinality(T) = n
  <2>1. CASE n < N
    BY <1>7, <2>1
  <2>2. CASE ~(n < N)
    <3>1. \A i \in 1..N : i <= n
      BY <1>1, <2>2
    <3>2. S \subseteq T
      BY <1>1, <1>3, <3>1
    <3> QED BY <1>8, <3>2
  <2> QED BY <2>1, <2>2
<1>10. \A x \in S \ T, y \in T : <<y, x>> \in before
  <2> TAKE x \in S \ T, y \in T
  <2>1. PICK i \in 1..N : s[i] = x
    BY <1>1
  <2>2. PICK j \in 1..N : s[j] = y
    BY <1>1, <1>8
  <2>3. ~(i <= n) /\ j <= n
    BY <1>3, <2>1, <2>2
  <2>4. j < i
    BY <1>1, <2>3
  <2> QED BY <1>1, <2>1, <2>2, <2>4
<1>11. Cardinality(T) \in Nat /\ Cardinality(T) <= n
  <2> HIDE DEF m
  <2> QED BY <1>4, <1>7
<1> QED BY <1>7, <1>8, <1>9, <1>10, <1>11 DEF T

\* A list in order that misses nothing before its last element.
Begins(t, S, before) ==
  /\ t \in Seq(S)
  /\ \A i, j \in 1..Len(t) : i < j => <<t[i], t[j]>> \in before
  /\ \A i \in 1..Len(t), x \in S : <<x, t[i]>> \in before => \E j \in 1..Len(t) : t[j] = x

\* A sorted list that holds what comes before any of its elements is a beginning of ORDER BY.
LEMMA SortedBeginning ==
  ASSUME NEW S, NEW before, IsFiniteSet(S), StrictOrder(S, before),
         NEW t, Begins(t, S, before)
  PROVE  Len(t) <= Cardinality(S) /\ \A i \in 1..Len(t) : t[i] = OrderBy(S, before)[i]
<1> DEFINE N == Cardinality(S)
           s == OrderBy(S, before)
<1>0. PICK n \in Nat : n = Len(t)
  BY DEF Begins
<1>01. /\ t \in [1..n -> S]
       /\ \A i, j \in 1..n : i < j => <<t[i], t[j]>> \in before
       /\ \A i \in 1..n, x \in S : <<x, t[i]>> \in before => \E j \in 1..n : t[j] = x
  BY <1>0 DEF Begins
<1>1. /\ s \in [1..N -> S]
      /\ N \in Nat
      /\ \A i \in 1..N : Rank(s[i], S, before) = i - 1
      /\ \A i, j \in 1..N : <<s[i], s[j]>> \in before <=> i < j
      /\ \A x \in S : \E i \in 1..N : s[i] = x
  BY Ordered
<1> HIDE DEF s, N
<1>2. \A i, j \in 1..n : t[i] = t[j] => i = j
  <2> TAKE i, j \in 1..n
  <2>1. i < j \/ j < i \/ i = j
    OBVIOUS
  <2>2. t[i] \in S /\ t[j] \in S
    BY <1>01
  <2> QED BY <1>01, <2>1, <2>2 DEF StrictOrder
<1>3. \A i \in 1..n : Rank(t[i], S, before) = i - 1
  <2> TAKE i \in 1..n
  <2> DEFINE u == [k \in 1..(i - 1) |-> t[k]]
  <2> DEFINE P == Preceding(t[i], S, before)
  <2>1. u \in [1..(i - 1) -> P] /\ \A x \in P : \E k \in 1..(i - 1) : u[k] = x
    <3>1. \A k \in 1..(i - 1) : t[k] \in S /\ <<t[k], t[i]>> \in before
      BY <1>01
    <3>2. \A x \in S : <<x, t[i]>> \in before => \E k \in 1..(i - 1) : t[k] = x
      <4> TAKE x \in S
      <4> HAVE <<x, t[i]>> \in before
      <4>1. PICK j \in 1..n : t[j] = x
        BY <1>01
      <4>2. ~(i < j)
        <5> SUFFICES ASSUME i < j PROVE FALSE
          OBVIOUS
        <5>1. <<t[i], x>> \in before /\ t[i] \in S
          BY <1>01, <4>1
        <5> QED BY <5>1 DEF StrictOrder
      <4>3. i # j
        <5> SUFFICES ASSUME i = j PROVE FALSE
          OBVIOUS
        <5>1. <<x, x>> \in before
          BY <4>1
        <5> QED BY <5>1 DEF StrictOrder
      <4>4. j \in 1..(i - 1)
        BY <4>2, <4>3
      <4> QED BY <4>1, <4>4
    <3>3. \A x \in P : x \in S /\ <<x, t[i]>> \in before
      BY DEF Preceding
    <3>4. \A k \in 1..(i - 1) : t[k] \in P
      BY <3>1 DEF Preceding
    <3> HIDE DEF P
    <3> QED BY <3>2, <3>3, <3>4
  <2>2. i - 1 \in Nat
    OBVIOUS
  <2>3. \A j, k \in 1..(i - 1) : u[j] = u[k] => j = k
    BY <1>2
  <2> HIDE DEF u, P
  <2>4. Cardinality(P) = i - 1
    BY <2>1, <2>2, <2>3, Enumerated
  <2> QED BY <2>4 DEF Rank, P
<1>4. \A i \in 1..n : t[i] \in S /\ \E j \in 1..N : s[j] = t[i] /\ i = j
  <2> TAKE i \in 1..n
  <2>1. t[i] \in S
    BY <1>01
  <2>2. PICK j \in 1..N : s[j] = t[i]
    BY <1>1, <2>1
  <2>3. j - 1 = i - 1
    BY <1>1, <1>3, <2>2
  <2>4. i = j
    BY <1>1, <2>3
  <2> QED BY <2>1, <2>2, <2>4
<1>5. n <= N
  <2>1. CASE n = 0
    BY <1>1, <2>1
  <2>2. CASE n # 0
    <3>1. n \in 1..n
      BY <2>2
    <3>2. n \in 1..N
      BY <1>4, <3>1
    <3> QED BY <1>1, <3>2
  <2> QED BY <2>1, <2>2
<1> QED BY <1>0, <1>4, <1>5 DEF s, N

-----------------------------------------------------------------------------
(* Lists: concatenation, beginnings, numbers.                              *)

\* A set with zero and every successor has the natural numbers.
LEMMA NatSet ==
  ASSUME NEW T, 0 \in T, \A n \in Nat : n \in T => n + 1 \in T
  PROVE  Nat \subseteq T
<1> DEFINE U == Nat \ T
<1> SUFFICES ASSUME U # {} PROVE FALSE
  OBVIOUS
<1>1. PICK m \in U : \A y \in U : ~(<<y, m>> \in OpToRel(<, Nat))
  <2>1. U \subseteq Nat
    OBVIOUS
  <2> HIDE DEF U
  <2> QED BY <2>1, NatLessThanWellFounded, WFMin
<1>2. OpToRel(<, Nat) = {p \in Nat \X Nat : p[1] < p[2]}
  BY Zenon DEF OpToRel
<1>3. m \in Nat /\ m # 0 /\ m \notin T
  OBVIOUS
<1>4. m - 1 \in Nat /\ (m - 1) + 1 = m
  BY <1>3
<1>5. m - 1 \in U
  BY <1>3, <1>4
<1>6. <<m - 1, m>> \in {p \in Nat \X Nat : p[1] < p[2]}
  BY <1>3, <1>4
<1> QED BY <1>1, <1>2, <1>5, <1>6, Zenon

FlatStep(ss, n, f) == f = [i \in 1..n |-> IF i = 1 THEN ss[i] ELSE f[i - 1] \o ss[i]]

\* The steps of a concatenation can be taken.
LEMMA FlatExists ==
  ASSUME NEW ss, NEW n \in Nat
  PROVE  \E f : FlatStep(ss, n, f)
<1> DEFINE T == {k \in Nat : \E f : FlatStep(ss, k, f)}
<1>1. 0 \in T
  <2>1. FlatStep(ss, 0, [i \in 1..0 |-> ss])
    BY DEF FlatStep
  <2> QED BY <2>1
<1>2. \A k \in Nat : k \in T => k + 1 \in T
  <2> TAKE k \in Nat
  <2> HAVE k \in T
  <2>1. PICK g : FlatStep(ss, k, g)
    OBVIOUS
  <2> DEFINE f == [i \in 1..(k + 1) |-> IF i <= k THEN g[i] ELSE IF i = 1 THEN ss[i] ELSE g[k] \o ss[i]]
  <2>2. \A i \in 1..k : g[i] = IF i = 1 THEN ss[i] ELSE g[i - 1] \o ss[i]
    BY <2>1 DEF FlatStep
  <2>3. f = [i \in 1..(k + 1) |-> IF i = 1 THEN ss[i] ELSE f[i - 1] \o ss[i]]
    <3>1. \A i \in 1..(k + 1) : f[i] = IF i = 1 THEN ss[i] ELSE f[i - 1] \o ss[i]
      <4> TAKE i \in 1..(k + 1)
      <4>1. CASE i <= k
        BY <2>2, <4>1
      <4>2. CASE i = k + 1
        BY <4>2
      <4> QED BY <4>1, <4>2
    <3>2. f = [i \in 1..(k + 1) |-> f[i]]
      OBVIOUS
    <3> HIDE DEF f
    <3> QED BY <3>1, <3>2
  <2> HIDE DEF f
  <2>4. FlatStep(ss, k + 1, f)
    BY <2>3 DEF FlatStep
  <2> QED BY <2>4
<1> HIDE DEF T
<1>3. n \in T
  BY <1>1, <1>2, NatSet
<1> QED BY <1>3 DEF T

\* Equal lists concatenate equally, step by step.
LEMMA FlatUnique ==
  ASSUME NEW ss, NEW tt, NEW f, NEW g, NEW m \in Nat,
         \A i \in 1..m : ss[i] = tt[i], FlatStep(ss, m, f), FlatStep(tt, m, g) \/ FlatStep(tt, m + 1, g)
  PROVE  \A i \in 1..m : f[i] = g[i]
<1> DEFINE T == {k \in Nat : \A i \in 1..m : i <= k => f[i] = g[i]}
<1>1. \A i \in 1..m : f[i] = IF i = 1 THEN ss[i] ELSE f[i - 1] \o ss[i]
  BY DEF FlatStep
<1>2. \A i \in 1..m : g[i] = IF i = 1 THEN tt[i] ELSE g[i - 1] \o tt[i]
  <2>1. CASE FlatStep(tt, m, g)
    BY <2>1 DEF FlatStep
  <2>2. CASE FlatStep(tt, m + 1, g)
    <3>1. \A i \in 1..(m + 1) : g[i] = IF i = 1 THEN tt[i] ELSE g[i - 1] \o tt[i]
      BY <2>2 DEF FlatStep
    <3> QED BY <3>1
  <2> QED BY <2>1, <2>2
<1>3. 0 \in T
  OBVIOUS
<1>4. \A k \in Nat : k \in T => k + 1 \in T
  <2> TAKE k \in Nat
  <2> HAVE k \in T
  <2>1. \A i \in 1..m : i <= k => f[i] = g[i]
    OBVIOUS
  <2>2. k + 1 \in 1..m => f[k + 1] = g[k + 1]
    BY <1>1, <1>2, <2>1
  <2> QED BY <2>1, <2>2
<1> HIDE DEF T
<1>5. m \in T
  BY <1>3, <1>4, NatSet
<1> QED BY <1>5 DEF T

\* What the steps of a concatenation end at is the concatenation.
LEMMA FlatIs ==
  ASSUME NEW ss, NEW f, Len(ss) \in Nat, Len(ss) # 0, FlatStep(ss, Len(ss), f)
  PROVE  FlattenSeq(ss) = f[Len(ss)]
<1>1. \E h : FlatStep(ss, Len(ss), h)
  BY FlatExists
<1>2. PICK h : /\ FlatStep(ss, Len(ss), h)
               /\ FlattenSeq(ss) = h[Len(ss)]
  BY <1>1, Zenon DEF FlattenSeq, FlatStep
<1>3. \A i \in 1..Len(ss) : f[i] = h[i]
  BY <1>2, FlatUnique
<1> QED BY <1>2, <1>3

\* One more list is added at the end of a concatenation.
LEMMA FlatAppend ==
  ASSUME NEW S, NEW ss \in Seq(Seq(S)), NEW s \in Seq(S)
  PROVE  FlattenSeq(Append(ss, s)) = FlattenSeq(ss) \o s
<1> DEFINE n == Len(ss)
           tt == Append(ss, s)
<1>1. n \in Nat /\ Len(tt) = n + 1 /\ tt[n + 1] = s /\ \A i \in 1..n : ss[i] = tt[i]
  OBVIOUS
<1>2. PICK g : FlatStep(tt, n + 1, g)
  <2> HIDE DEF tt, n
  <2>1. n + 1 \in Nat
    BY <1>1
  <2> QED BY <2>1, FlatExists
<1>3. g[n + 1] = IF n + 1 = 1 THEN s ELSE g[n] \o s
  <2> HIDE DEF tt, n
  <2>1. n + 1 \in 1..(n + 1) /\ (n + 1) - 1 = n
    BY <1>1
  <2>2. \A i \in 1..(n + 1) : g[i] = IF i = 1 THEN tt[i] ELSE g[i - 1] \o tt[i]
    BY <1>2 DEF FlatStep
  <2>3. g[n + 1] = IF n + 1 = 1 THEN tt[n + 1] ELSE g[(n + 1) - 1] \o tt[n + 1]
    BY <2>1, <2>2
  <2> QED BY <1>1, <2>1, <2>3
<1>4. FlattenSeq(tt) = g[n + 1]
  <2> HIDE DEF tt, n
  <2> QED BY <1>1, <1>2, FlatIs
<1>5. CASE n = 0
  <2>1. FlattenSeq(ss) = ss /\ ss = <<>>
    BY <1>5 DEF FlattenSeq
  <2> QED BY <1>3, <1>4, <1>5, <2>1
<1>6. CASE n # 0
  <2>1. PICK f : FlatStep(ss, n, f)
    BY <1>1, FlatExists
  <2>2. FlattenSeq(ss) = f[n]
    BY <1>1, <1>6, <2>1, FlatIs
  <2>3. \A i \in 1..n : f[i] = g[i]
    <3> HIDE DEF tt, n
    <3>1. n \in Nat
      BY <1>1
    <3>2. \A i \in 1..n : ss[i] = tt[i]
      BY <1>1
    <3>3. FlatStep(ss, n, f)
      BY <2>1
    <3>4. FlatStep(tt, n, g) \/ FlatStep(tt, n + 1, g)
      BY <1>2
    <3> QED BY ONLY <3>1, <3>2, <3>3, <3>4, FlatUnique
  <2>4. n \in 1..n /\ n + 1 # 1
    BY <1>1, <1>6
  <2> HIDE DEF tt, n
  <2>5. f[n] = g[n]
    BY <2>3, <2>4
  <2> QED BY <1>3, <1>4, <2>2, <2>4, <2>5 DEF tt
<1> QED BY <1>5, <1>6

\* A concatenation holds what its lists hold.
LEMMA FlatType ==
  ASSUME NEW S, NEW ss \in Seq(Seq(S))
  PROVE  FlattenSeq(ss) \in Seq(S)
<1> DEFINE n == Len(ss)
<1>1. n \in Nat
  OBVIOUS
<1>2. CASE n = 0
  <2>1. FlattenSeq(ss) = ss
    BY <1>2 DEF FlattenSeq
  <2>2. ss = <<>>
    BY <1>2
  <2>3. <<>> \in Seq(S)
    OBVIOUS
  <2> QED BY <2>1, <2>2, <2>3
<1>3. CASE n # 0
  <2>1. PICK f : FlatStep(ss, n, f)
    BY <1>1, FlatExists
  <2> DEFINE T == {k \in Nat : k \in 1..n => f[k] \in Seq(S)}
  <2>2. \A i \in 1..n : f[i] = IF i = 1 THEN ss[i] ELSE f[i - 1] \o ss[i]
    BY <2>1 DEF FlatStep
  <2>3. \A i \in 1..n : ss[i] \in Seq(S)
    OBVIOUS
  <2>4. 0 \in T
    OBVIOUS
  <2>5. \A k \in Nat : k \in T => k + 1 \in T
    <3> HIDE DEF n
    <3> TAKE k \in Nat
    <3> HAVE k \in T
    <3> SUFFICES ASSUME k + 1 \in 1..n PROVE f[k + 1] \in Seq(S)
      OBVIOUS
    <3>1. CASE k = 0
      BY <2>2, <2>3, <3>1
    <3>2. CASE k # 0
      <4>1. k \in 1..n /\ f[k] \in Seq(S)
        BY <1>1, <3>2
      <4>2. f[k + 1] = f[k] \o ss[k + 1]
        <5>1. k + 1 # 1 /\ (k + 1) - 1 = k
          BY <3>2
        <5> QED BY <2>2, <5>1
      <4>3. ss[k + 1] \in Seq(S)
        BY <2>3
      <4> QED BY <4>1, <4>2, <4>3
    <3> QED BY <3>1, <3>2
  <2> HIDE DEF T
  <2>6. n \in T
    BY <1>1, <2>4, <2>5, NatSet
  <2>7. f[n] \in Seq(S)
    BY <1>1, <1>3, <2>6 DEF T
  <2>8. FlattenSeq(ss) = f[n]
    BY <1>1, <1>3, <2>1, FlatIs
  <2> QED BY <2>7, <2>8
<1> QED BY <1>2, <1>3

\* The order of numbers is a strict order.
LEMMA AscendingOrder ==
  ASSUME NEW N \in SUBSET Int
  PROVE  StrictOrder(N, Ascending(N))
BY DEF StrictOrder, Ascending

\* A finite set of integers has a least and a greatest one.
LEMMA MinMax ==
  ASSUME NEW N \in SUBSET Int, IsFiniteSet(N), N # {}
  PROVE  /\ Min(N) \in N /\ \A n \in N : Min(N) <= n
         /\ Max(N) \in N /\ \A n \in N : n <= Max(N)
<1> DEFINE s == OrderBy(N, Ascending(N))
           m == Cardinality(N)
<1>1. /\ s \in [1..m -> N]
      /\ m \in Nat
      /\ \A i, j \in 1..m : <<s[i], s[j]>> \in Ascending(N) <=> i < j
      /\ \A x \in N : \E i \in 1..m : s[i] = x
  BY Ordered, AscendingOrder
<1>2. \A i, j \in 1..m : s[i] < s[j] <=> i < j
  <2> HIDE DEF s, m
  <2>1. \A i \in 1..m : s[i] \in N
    BY <1>1
  <2> QED BY <1>1, <2>1 DEF Ascending
<1> HIDE DEF s, m
<1>3. m # 0
  <2>1. PICK x \in N : TRUE
    OBVIOUS
  <2>2. PICK i \in 1..m : s[i] = x
    BY <1>1
  <2> QED BY <1>1, <2>2
<1>4. s[1] \in N /\ s[m] \in N
  BY <1>1, <1>3
<1>5. \A x \in N : s[1] <= x /\ x <= s[m]
  <2> TAKE x \in N
  <2>1. PICK i \in 1..m : s[i] = x
    BY <1>1
  <2>2. ~(i < 1) /\ ~(m < i) /\ 1 \in 1..m /\ m \in 1..m
    BY <1>1, <1>3
  <2>3. ~(s[i] < s[1]) /\ ~(s[m] < s[i])
    BY <1>2, <2>2
  <2>4. s[1] \in Int /\ s[m] \in Int /\ x \in Int
    BY <1>4
  <2> QED BY <2>1, <2>3, <2>4
<1>6. \E x \in N : \A n \in N : x <= n
  BY <1>4, <1>5
<1>7. \E x \in N : \A n \in N : n <= x
  BY <1>4, <1>5
<1>8. \E x \in N : \A n \in N : x >= n
  BY <1>7
<1>9. Max(N) \in N /\ \A n \in N : Max(N) >= n
  BY <1>8, Zenon DEF Max
<1>10. Min(N) \in N /\ \A n \in N : Min(N) <= n
  BY <1>6, Zenon DEF Min
<1> QED BY <1>9, <1>10

\* A part of a sequence, its length and its members.
LEMMA PartType ==
  ASSUME NEW S, NEW s \in Seq(S), NEW m \in Nat \ {0}, NEW n \in Int, n <= Len(s)
  PROVE  /\ SubSeq(s, m, n) \in Seq(S)
         /\ Len(SubSeq(s, m, n)) = IF m <= n THEN n - m + 1 ELSE 0
         /\ \A i \in 1..(n - m + 1) : SubSeq(s, m, n)[i] = s[i + m - 1]
OBVIOUS

\* The beginning of a list, its length and its members.
LEMMA FirstOfIs ==
  ASSUME NEW S, NEW s \in Seq(S), NEW n \in Int
  PROVE  /\ FirstOf(s, n) \in Seq(S)
         /\ Len(FirstOf(s, n)) = IF n < 0 THEN 0 ELSE IF Len(s) > n THEN n ELSE Len(s)
         /\ \A i \in DOMAIN FirstOf(s, n) : FirstOf(s, n)[i] = s[i]
<1> DEFINE m == IF Len(s) > n THEN n ELSE Len(s)
           t == FirstOf(s, n)
<1>1. m \in Int /\ m <= Len(s) /\ 1 \in Nat \ {0}
  OBVIOUS
<1>2. t = SubSeq(s, 1, m)
  BY DEF FirstOf
<1> HIDE DEF m, t
<1>3. /\ t \in Seq(S)
      /\ Len(t) = IF 1 <= m THEN m - 1 + 1 ELSE 0
      /\ \A i \in 1..(m - 1 + 1) : t[i] = s[i + 1 - 1]
  BY <1>1, <1>2, PartType
<1>4. DOMAIN t = 1..Len(t) /\ Len(t) \in Nat /\ Len(s) \in Nat
  BY <1>3
<1>5. \A i \in DOMAIN t : i \in 1..(m - 1 + 1) /\ i + 1 - 1 = i
  BY <1>1, <1>3, <1>4
<1>6. Len(t) = IF n < 0 THEN 0 ELSE IF Len(s) > n THEN n ELSE Len(s)
  BY <1>1, <1>3, <1>4 DEF m
<1> QED BY <1>3, <1>5, <1>6 DEF t

\* Sequences of the same length with the same members are the same.
LEMMA SameSeq ==
  ASSUME NEW S, NEW s \in Seq(S), NEW t \in Seq(S), Len(s) = Len(t), \A i \in 1..Len(s) : s[i] = t[i]
  PROVE  s = t
OBVIOUS
-----------------------------------------------------------------------------
(* Stored-entry federation: no duplicate is hidden.  The rows of a stream  *)
(* only ever grow at its end, so an id two streams hold stays ahead of both *)
(* walks of the audit, and a claim on a row of the page stays to be probed. *)

FRow == [id : Ids, at : Nat]
Candidate == [stream : DOMAIN Streams, id : Ids]
QueryCall == [kind : {"query"}, phase : {"count", "fetch", "probe"}, q : Queries,
              as_of : Int \cup {Null}, k : Nat \ {0}, counts : Seq(Nat), total : Nat,
              skipped : Nat, out : Seq(Candidate), left : SUBSET Candidate, page : Seq(Candidate),
              more : BOOLEAN, probed : Nat, twice : SUBSET Nat]
AuditCall == [kind : {"audit"}, buffer : [Audited -> SUBSET Ids], last : [Audited -> Nat],
              done : [Audited -> BOOLEAN], known : SUBSET Candidate]

StoredType ==
  /\ sources \in Federations
  /\ stored \in [DOMAIN Streams -> Seq(FRow)]
  /\ open \in [DOMAIN sources -> {Null} \cup [stream : DOMAIN Streams, row : FRow]]
  /\ clock \in Nat /\ cutoff \in Int \cup {Null}
CallType ==
  /\ req \in {Idle} \cup QueryCall \cup AuditCall
  /\ req.kind = "query" =>
       /\ req.k <= Len(Streams) + 1
       /\ Len(req.counts) = IF req.phase = "count" THEN req.k - 1 ELSE Len(Streams)

HoldsId(k, id) == \E i \in DOMAIN stored[k] : stored[k][i].id = id
Ahead(k, id) ==
  \/ id \in req.buffer[k]
  \/ ~req.done[k] /\ id > req.last[k] /\ HoldsId(k, id)
AuditInv ==
  req.kind = "audit" =>
    /\ \A k \in Audited : IsFiniteSet(req.buffer[k]) /\ \A id \in req.buffer[k] : id <= req.last[k]
    /\ \A c \in req.known : \E j, k \in Audited :
         j # k /\ PrefixOf(j) = PrefixOf(k) /\ Ahead(j, c.id) /\ Ahead(k, c.id)
ProbeInv ==
  req.kind = "query" =>
    /\ req.phase # "probe" => req.probed = 0 /\ req.twice = {}
    /\ \A i \in req.twice :
         /\ i \in DOMAIN req.page /\ i > req.probed
         /\ \A c \in {req.page[i]}, as_of \in {req.as_of} : ClaimedTwice(c, as_of)

HiddenInv == StoredType /\ CallType /\ AuditInv /\ ProbeInv /\ NoHiddenDuplicate

\* A stream is one of a source of the federation.
LEMMA StreamsType ==
  ASSUME sources \in Federations
  PROVE  /\ Streams \in Seq([source : DOMAIN sources, backing : Nat])
         /\ DOMAIN Streams = 1..Len(Streams) /\ Len(Streams) \in Nat
         /\ \A k \in DOMAIN Streams : /\ Streams[k].source \in DOMAIN sources
                                      /\ ResolutionOf(k) \in Nat /\ PrefixOf(k) \in Nat
         /\ \A s \in DOMAIN sources : sources[s].resolution \in Nat
<1> DEFINE R == [source : DOMAIN sources, backing : Nat]
           ss == [s \in DOMAIN sources |-> [b \in 1..sources[s].backings |-> [source |-> s, backing |-> b]]]
<1>1. sources \in Seq([prefix : Nat, backings : Nat, resolution : Nat])
  BY FederationAssumption
<1>0. /\ \A s \in DOMAIN sources : sources[s] \in [prefix : Nat, backings : Nat, resolution : Nat]
      /\ DOMAIN sources = 1..Len(sources) /\ Len(sources) \in Nat
  <2> DEFINE F == [prefix : Nat, backings : Nat, resolution : Nat]
  <2>1. sources \in Seq(F)
    BY <1>1
  <2> HIDE DEF F
  <2>2. \A s \in DOMAIN sources : sources[s] \in F
    BY <2>1
  <2> QED BY <2>1, <2>2 DEF F
<1>2. ss \in Seq(Seq(R))
  <2>1. \A s \in DOMAIN sources : sources[s].backings \in Nat
    BY <1>0
  <2>2. \A s \in DOMAIN sources : [b \in 1..sources[s].backings |-> [source |-> s, backing |-> b]] \in Seq(R)
    <3> TAKE s \in DOMAIN sources
    <3> DEFINE n == sources[s].backings
    <3>1. n \in Nat
      BY <2>1
    <3>2. [b \in 1..n |-> [source |-> s, backing |-> b]] \in [1..n -> R]
      <4>1. \A b \in 1..n : [source |-> s, backing |-> b] \in R
        BY <3>1
      <4> HIDE DEF R, n
      <4> QED BY <4>1
    <3> HIDE DEF R, n
    <3>3. [b \in 1..n |-> [source |-> s, backing |-> b]] \in Seq(R)
      BY <3>1, <3>2
    <3> QED BY <3>3 DEF n
  <2>3. DOMAIN sources = 1..Len(sources) /\ Len(sources) \in Nat
    BY <1>0
  <2>4. ss \in [1..Len(sources) -> Seq(R)]
    <3> HIDE DEF R
    <3> QED BY <2>2, <2>3
  <2> HIDE DEF ss, R
  <2> QED BY <2>3, <2>4
<1>3. Streams = FlattenSeq(ss)
  BY DEF Streams
<1>4. Streams \in Seq(R)
  <2> HIDE DEF ss, R
  <2> QED BY <1>2, <1>3, FlatType
<1>5. DOMAIN Streams = 1..Len(Streams) /\ Len(Streams) \in Nat
  <2> HIDE DEF R
  <2> QED BY <1>4
<1>6. \A k \in DOMAIN Streams : Streams[k] \in R
  <2> HIDE DEF R
  <2> QED BY <1>4
<1>7. \A k \in DOMAIN Streams : Streams[k].source \in DOMAIN sources
  BY <1>6
<1>8. \A s \in DOMAIN sources : sources[s].resolution \in Nat /\ sources[s].prefix \in Nat
  BY <1>0
<1> QED BY <1>4, <1>5, <1>7, <1>8 DEF ResolutionOf, PrefixOf

\* What a stream serves are some of its rows.
LEMMA ServedRows ==
  ASSUME StoredType, NEW k \in DOMAIN Streams, NEW as_of
  PROVE  /\ DOMAIN stored[k] = 1..Len(stored[k]) /\ Len(stored[k]) \in Nat
         /\ \A i \in DOMAIN stored[k] : stored[k][i] \in FRow
         /\ Served(k, as_of) \subseteq DOMAIN stored[k]
         /\ IsFiniteSet(Served(k, as_of))
         /\ Held(k, as_of) \subseteq Candidate
         /\ IsFiniteSet(DOMAIN stored[k])
<1>1. stored[k] \in Seq(FRow)
  BY DEF StoredType
<1>2. DOMAIN stored[k] = 1..Len(stored[k]) /\ Len(stored[k]) \in Nat
  BY <1>1
<1>3. \A i \in DOMAIN stored[k] : stored[k][i] \in FRow
  BY <1>1
<1>4. Served(k, as_of) \subseteq DOMAIN stored[k]
  BY DEF Served
<1>5. IsFiniteSet(DOMAIN stored[k])
  BY <1>2, FS_Interval
<1>6. Held(k, as_of) \subseteq Candidate
  BY <1>3, <1>4 DEF Held, CandidateAt, Candidate, FRow
<1> QED BY <1>2, <1>3, <1>4, <1>5, <1>6, FS_Subset

\* A stream lists a candidate for each row it serves.
LEMMA CandidatesType ==
  ASSUME StoredType, NEW k \in DOMAIN Streams, NEW as_of
  PROVE  /\ Candidates(k, as_of) \in Seq(Candidate)
         /\ Len(Candidates(k, as_of)) = Cardinality(Served(k, as_of))
         /\ Cardinality(Served(k, as_of)) \in Nat
<1> DEFINE N == Served(k, as_of)
           at == OrderBy(N, Ascending(N))
           m == Cardinality(N)
<1>1. N \in SUBSET Int /\ IsFiniteSet(N) /\ N \subseteq DOMAIN stored[k]
  BY ServedRows
<1>2. at \in [1..m -> N] /\ m \in Nat
  <2> HIDE DEF N
  <2> QED BY <1>1, Ordered, AscendingOrder
<1>3. Candidates(k, as_of) = [n \in 1..m |-> CandidateAt(k, at[n])]
  <2>1. DOMAIN at = 1..m
    BY <1>2
  <2> QED BY <2>1 DEF Candidates
<1>4. \A i \in N : CandidateAt(k, i) \in Candidate
  BY ServedRows DEF Held
<1> HIDE DEF N, at, m
<1>5. Candidates(k, as_of) \in [1..m -> Candidate]
  BY <1>2, <1>3, <1>4
<1>6. Candidates(k, as_of) \in Seq(Candidate) /\ Len(Candidates(k, as_of)) = m
  BY <1>2, <1>5
<1> QED BY <1>2, <1>6 DEF m, N

\* The streams of a federation do not change.
LEMMA SameStreams ==
  ASSUME sources' = sources
  PROVE  /\ Streams' = Streams /\ Candidate' = Candidate /\ Audited' = Audited
         /\ \A k : /\ Sharing(k)' = Sharing(k) /\ PrefixOf(k)' = PrefixOf(k)
                   /\ ResolutionOf(k)' = ResolutionOf(k) /\ OtherSources(k)' = OtherSources(k)
                   /\ Colliding(k)' = Colliding(k)
         /\ QueryCall' = QueryCall /\ AuditCall' = AuditCall
<1>1. Streams' = Streams
  BY DEF Streams
<1>2. \A k : PrefixOf(k)' = PrefixOf(k) /\ ResolutionOf(k)' = ResolutionOf(k)
  BY <1>1 DEF PrefixOf, ResolutionOf
<1>3. \A k : Sharing(k)' = Sharing(k)
  BY <1>1, <1>2 DEF Sharing
<1>4. \A k : OtherSources(k)' = OtherSources(k) /\ Colliding(k)' = Colliding(k)
  BY <1>1, <1>2, <1>3 DEF OtherSources, Colliding
<1>5. Audited' = Audited
  BY <1>1, <1>3 DEF Audited
<1>6. Candidate' = Candidate
  BY <1>1 DEF Candidate
<1>7. QueryCall' = QueryCall
  BY <1>6 DEF QueryCall
<1>8. AuditCall' = AuditCall
  BY <1>5, <1>6 DEF AuditCall
<1> QED BY <1>1, <1>2, <1>3, <1>4, <1>5, <1>6, <1>7, <1>8

\* A stream only ever gets rows at its end.
LEMMA StoredStep ==
  ASSUME StoredType, [FederationNext]_federationVars
  PROVE  /\ StoredType' /\ sources' = sources
         /\ \A k \in DOMAIN Streams :
              /\ DOMAIN stored[k] \subseteq DOMAIN stored'[k]
              /\ \A i \in DOMAIN stored[k] : stored'[k][i] = stored[k][i]
<1> DEFINE Goal == /\ StoredType' /\ sources' = sources
                   /\ \A k \in DOMAIN Streams :
                        /\ DOMAIN stored[k] \subseteq DOMAIN stored'[k]
                        /\ \A i \in DOMAIN stored[k] : stored'[k][i] = stored[k][i]
<1> DEFINE Txn == [stream : DOMAIN Streams, row : FRow]
<1>1. sources' = sources => Streams' = Streams
  BY SameStreams
<1>2. CASE UNCHANGED worldVars
  BY <1>1, <1>2 DEF StoredType, worldVars
<1>3. CASE Tick
  BY <1>1, <1>3 DEF StoredType, Tick
<1>4. CASE TakeCutoff
  <2>1. UNCHANGED <<sources, stored, open, clock>> /\ cutoff' = SnapshotCutoff(clock) /\ Capable # {}
    BY <1>4 DEF TakeCutoff
  <2>2. SnapshotCutoff(clock) = Min(CompletedBuckets(clock)) - 1
    BY <2>1 DEF SnapshotCutoff
  <2>3. CompletedBuckets(clock) \in SUBSET Int /\ IsFiniteSet(CompletedBuckets(clock)) /\ CompletedBuckets(clock) # {}
    <3>1. IsFiniteSet(DOMAIN sources) /\ \A s \in Capable : s \in DOMAIN sources /\ sources[s].resolution \in Nat \ {0}
      <4>1. sources \in Federations
        BY DEF StoredType
      <4>2. sources \in Seq([prefix : Nat, backings : Nat, resolution : Nat])
        BY <4>1, FederationAssumption
      <4>3. DOMAIN sources = 1..Len(sources) /\ Len(sources) \in Nat
        <5> DEFINE F == [prefix : Nat, backings : Nat, resolution : Nat]
        <5>1. sources \in Seq(F)
          BY <4>2
        <5> HIDE DEF F
        <5> QED BY <5>1
      <4>4. IsFiniteSet(DOMAIN sources)
        BY <4>3, FS_Interval
      <4> QED BY <4>1, <4>4, StreamsType DEF Capable
    <3>2. IsFiniteSet(Capable)
      <4>1. Capable \in SUBSET DOMAIN sources
        BY DEF Capable
      <4> QED BY <3>1, <4>1, FS_Subset
    <3>3. \A s \in Capable : (clock \div sources[s].resolution) * sources[s].resolution \in Int
      <4> TAKE s \in Capable
      <4>1. sources[s].resolution \in Nat \ {0} /\ clock \in Nat
        BY <3>1 DEF StoredType
      <4>2. clock \div sources[s].resolution \in Int
        BY <4>1
      <4> QED BY <4>1, <4>2
    <3> DEFINE f == [s \in Capable |-> (clock \div sources[s].resolution) * sources[s].resolution]
               B == CompletedBuckets(clock)
    <3>4. f \in [Capable -> B] /\ \A b \in B : \E s \in Capable : f[s] = b
      BY DEF CompletedBuckets
    <3>5. f \in Surjection(Capable, B)
      <4> HIDE DEF f, B
      <4> QED BY <3>4 DEF Surjection
    <3>6. IsFiniteSet(B)
      <4> HIDE DEF f, B
      <4> QED BY <3>2, <3>5, FS_Surjection
    <3>7. B \subseteq Int /\ B # {}
      BY <2>1, <3>3 DEF CompletedBuckets
    <3> QED BY <3>6, <3>7
  <2>4. Min(CompletedBuckets(clock)) \in Int
    BY <2>3, MinMax
  <2>5. cutoff' \in Int
    BY <2>1, <2>2, <2>4
  <2> QED BY <1>1, <2>1, <2>5 DEF StoredType
<1>5. CASE \E k \in DOMAIN Streams, id \in Ids : Open(k, id)
  <2> PICK k \in DOMAIN Streams, id \in Ids : Open(k, id)
    BY <1>5
  <2> DEFINE s == Streams[k].source
             row == [id |-> id, at |-> IF ResolutionOf(k) = 0 THEN 0 ELSE clock \div ResolutionOf(k)]
  <2>1. /\ UNCHANGED <<sources, stored, clock, cutoff>>
        /\ open' = [open EXCEPT ![s] = [stream |-> k, row |-> row]]
    BY DEF Open
  <2>2. ResolutionOf(k) \in Nat /\ clock \in Nat /\ s \in DOMAIN sources
    BY StreamsType DEF StoredType
  <2>3. ResolutionOf(k) # 0 => clock \div ResolutionOf(k) \in Nat
    BY <2>2
  <2>4. row \in FRow
    BY <2>3 DEF FRow
  <2>5. [stream |-> k, row |-> row] \in Txn
    <3> HIDE DEF row
    <3> QED BY <2>4
  <2>6. open \in [DOMAIN sources -> {Null} \cup Txn]
    BY DEF StoredType
  <2>7. open' \in [DOMAIN sources -> {Null} \cup Txn]
    <3> HIDE DEF Txn, row, s
    <3> QED BY <2>1, <2>2, <2>5, <2>6
  <2> QED BY <1>1, <2>1, <2>7 DEF StoredType
<1>6. CASE \E s \in DOMAIN sources : Commit(s)
  <2> PICK s \in DOMAIN sources : Commit(s)
    BY <1>6
  <2> DEFINE k == open[s].stream
             row == open[s].row
  <2>1. /\ UNCHANGED <<sources, clock, cutoff>> /\ open[s] # Null
        /\ stored' = [stored EXCEPT ![k] = Append(@, row)]
        /\ open' = [open EXCEPT ![s] = Null]
    BY DEF Commit
  <2>2. k \in DOMAIN Streams /\ row \in FRow
    BY <2>1 DEF StoredType
  <2>3. stored \in [DOMAIN Streams -> Seq(FRow)] /\ open \in [DOMAIN sources -> {Null} \cup Txn]
    BY DEF StoredType
  <2> HIDE DEF k, row, Txn
  <2>4. stored' \in [DOMAIN Streams -> Seq(FRow)] /\ open' \in [DOMAIN sources -> {Null} \cup Txn]
    BY <2>1, <2>2, <2>3
  <2>5. \A j \in DOMAIN Streams : DOMAIN stored[j] \subseteq DOMAIN stored'[j]
    BY <2>1, <2>2, <2>3
  <2>6. \A j \in DOMAIN Streams : \A i \in DOMAIN stored[j] : stored'[j][i] = stored[j][i]
    BY <2>1, <2>2, <2>3
  <2>7. StoredType'
    BY <1>1, <2>1, <2>4 DEF StoredType, Txn
  <2> QED BY <2>1, <2>5, <2>6, <2>7
<1>7. UNCHANGED federationVars => UNCHANGED worldVars
  BY DEF federationVars, worldVars
<1>8. CASE FederationNext
  BY <1>2, <1>3, <1>4, <1>5, <1>6, <1>8 DEF FederationNext, Query, CountStream, AllCounted, FetchUnsorted,
       FetchSorted, PopLeast, CutPage, Probe, Page, Audit, AuditBatch, AuditGroup, Fetch
<1> QED BY <1>2, <1>7, <1>8

\* Ids are numbers, and a batch of them is not empty.
LEMMA IdsNat == Ids \subseteq Nat \ {0} /\ Ids \subseteq Int /\ BatchSize \in Nat \ {0}
BY FederationAssumption

\* A batch of the audit is the next ids of the stream, and short only at its end.
LEMMA BatchIs ==
  ASSUME StoredType, NEW k \in DOMAIN Streams, req.last[k] \in Nat
  PROVE  /\ Batch(k) \subseteq Ids /\ IsFiniteSet(Batch(k))
         /\ \A id \in Batch(k) : id > req.last[k]
         /\ \A id : HoldsId(k, id) /\ id > req.last[k] /\ id \notin Batch(k)
              => ~(Cardinality(Batch(k)) < BatchSize) /\ \A b \in Batch(k) : b < id
<1> DEFINE D == DOMAIN stored[k]
           all == {stored[k][i].id : i \in D}
           pool == {id \in {c.id : c \in Held(k, Null)} : id > req.last[k]}
<1>1. Served(k, Null) = D
  BY DEF Served
<1>2. {c.id : c \in Held(k, Null)} = all
  <2>1. Held(k, Null) = {CandidateAt(k, i) : i \in D}
    BY <1>1 DEF Held
  <2>2. \A i : CandidateAt(k, i).id = stored[k][i].id
    BY DEF CandidateAt
  <2> HIDE DEF D
  <2> QED BY <2>1, <2>2
<1>3. IsFiniteSet(D) /\ \A i \in D : stored[k][i].id \in Ids
  BY ServedRows DEF FRow
<1>4. IsFiniteSet(all) /\ all \subseteq Ids
  <2> DEFINE f == [i \in D |-> stored[k][i].id]
  <2>1. f \in [D -> all] /\ \A x \in all : \E i \in D : f[i] = x
    OBVIOUS
  <2>2. f \in Surjection(D, all)
    <3> HIDE DEF f, D, all
    <3> QED BY <2>1 DEF Surjection
  <2>3. all \subseteq Ids
    BY <1>3
  <2> HIDE DEF f, D, all
  <2> QED BY <1>3, <2>2, <2>3, FS_Surjection
<1>5. pool = {id \in all : id > req.last[k]}
  BY <1>2
<1>6. IsFiniteSet(pool) /\ pool \subseteq Ids /\ pool \in SUBSET Int
  <2>1. pool \in SUBSET all
    BY <1>5
  <2>2. IsFiniteSet(pool)
    <3> HIDE DEF all, pool
    <3> QED BY <1>4, <2>1, FS_Subset
  <2> HIDE DEF all, pool
  <2> QED BY <1>4, <2>1, <2>2, FederationAssumption
<1>7. Batch(k) = Limited(pool, Ascending(pool), BatchSize)
  BY DEF Batch
<1>8. \A id : HoldsId(k, id) /\ id > req.last[k] => id \in pool
  BY <1>5 DEF HoldsId
<1>9. \A id \in pool : id > req.last[k]
  OBVIOUS
<1> HIDE DEF D, all, pool
<1>10. BatchSize \in Nat
  BY FederationAssumption
<1>11. StrictOrder(pool, Ascending(pool))
  BY <1>6, AscendingOrder
<1> DEFINE batch == Batch(k)
<1>12. /\ batch \subseteq pool /\ IsFiniteSet(batch) /\ Cardinality(batch) \in Nat
       /\ batch = pool \/ Cardinality(batch) = BatchSize
       /\ \A x \in pool \ batch, y \in batch : <<y, x>> \in Ascending(pool)
  BY <1>6, <1>7, <1>10, <1>11, LimitedRows
<1> HIDE DEF batch
<1>13. \A x \in pool \ batch, y \in batch : y < x
  BY <1>12 DEF Ascending
<1> QED
  <2>1. batch \subseteq Ids /\ IsFiniteSet(batch) /\ \A id \in batch : id > req.last[k]
    BY <1>6, <1>9, <1>12
  <2>2. ASSUME NEW id, HoldsId(k, id), id > req.last[k], id \notin batch
        PROVE  ~(Cardinality(batch) < BatchSize) /\ \A b \in batch : b < id
    <3>1. id \in pool \ batch
      BY <1>8, <2>2
    <3> QED BY <1>10, <1>12, <1>13, <3>1
  <2> QED BY <2>1, <2>2 DEF batch

\* What is merged and what the page shows are candidates.
LEMMA PageType ==
  ASSUME req \in QueryCall
  PROVE  Merged \in Seq(Candidate) /\ Visible \in Seq(Candidate)
<1>1. Merged \in Seq(Candidate)
  <2>1. req.out \in Seq(Candidate) /\ req.q.offset \in Nat
    BY FederationAssumption DEF QueryCall
  <2>2. SubSeq(req.out, req.q.offset + 1, Len(req.out)) \in Seq(Candidate)
    <3>1. req.q.offset + 1 \in Nat \ {0} /\ Len(req.out) \in Int /\ Len(req.out) <= Len(req.out)
      BY <2>1
    <3> QED BY <2>1, <3>1, PartType
  <2> QED BY <2>1, <2>2 DEF Merged
<1>2. req.q.limit # Null => req.q.limit \in Int
  BY FederationAssumption DEF QueryCall
<1>3. req.q.limit # Null => FirstOf(Merged, req.q.limit) \in Seq(Candidate)
  BY <1>1, <1>2, FirstOfIs
<1> QED BY <1>1, <1>3 DEF Visible

\* A call keeps its type.
LEMMA CallStep ==
  ASSUME StoredType, CallType, [FederationNext]_federationVars
  PROVE  CallType'
<1>0. StoredType' /\ sources' = sources
  BY StoredStep
<1>1. Streams' = Streams /\ Candidate' = Candidate /\ Audited' = Audited
      /\ QueryCall' = QueryCall /\ AuditCall' = AuditCall
  BY <1>0, SameStreams
<1>2. Len(Streams) \in Nat /\ DOMAIN Streams = 1..Len(Streams)
  BY StreamsType DEF StoredType
<1> DEFINE Goal == /\ req' \in {Idle} \cup QueryCall \cup AuditCall
                   /\ req'.kind = "query" =>
                        /\ req'.k <= Len(Streams) + 1
                        /\ Len(req'.counts) = IF req'.phase = "count" THEN req'.k - 1 ELSE Len(Streams)
<1> SUFFICES Goal
  BY <1>1 DEF CallType
<1> USE DEF Idle
<1>3. CASE req' = req \/ req' = Idle
  BY <1>3 DEF CallType
<1>18. req.kind = "query" => /\ req.k <= Len(Streams) + 1
                            /\ Len(req.counts) = IF req.phase = "count" THEN req.k - 1 ELSE Len(Streams)
  BY DEF CallType
<1>4. req.kind = "query" => req \in QueryCall
  BY DEF CallType, AuditCall, QueryCall
<1>5. ASSUME NEW q \in Queries, NEW as_of \in {Null, cutoff}, Query(q, as_of) PROVE Goal
  <2>1. as_of \in Int \cup {Null} /\ q.offset \in Nat
    BY FederationAssumption DEF StoredType
  <2>2. req' \in QueryCall /\ req'.phase = "count" /\ req'.k = 1 /\ req'.counts = <<>>
    BY <1>5, <2>1 DEF Query, QueryCall
  <2> QED BY <1>2, <2>2
<1>6. CASE CountStream
  <2>1. req \in QueryCall /\ req.k \in DOMAIN Streams /\ req.phase = "count"
    BY <1>2, <1>4, <1>6 DEF CountStream, QueryCall
  <2> DEFINE count == Cardinality(Served(req.k, req.as_of))
  <2>2. count \in Nat
    BY <2>1, CandidatesType
  <2>3. req' = [req EXCEPT !.counts = Append(@, count), !.total = @ + count, !.k = @ + 1]
    BY <1>6 DEF CountStream
  <2> HIDE DEF count
  <2>4. req.counts \in Seq(Nat) /\ req.total \in Nat /\ req.k \in Nat
    BY <2>1 DEF QueryCall
  <2>5. Append(req.counts, count) \in Seq(Nat) /\ req.total + count \in Nat /\ req.k + 1 \in Nat \ {0}
    BY <2>2, <2>4
  <2>6. req' \in QueryCall /\ req'.phase = "count" /\ req'.k = req.k + 1
        /\ req'.counts = Append(req.counts, count)
    BY <2>1, <2>3, <2>5 DEF QueryCall
  <2>7. req.kind = "query" /\ Len(req.counts) = req.k - 1 /\ Len(req'.counts) = Len(req.counts) + 1
    BY <1>18, <2>1, <2>4, <2>6 DEF QueryCall
  <2> QED BY <1>2, <2>1, <2>4, <2>6, <2>7
<1>7. CASE AllCounted
  <2>1. req \in QueryCall /\ req.phase = "count" /\ req.kind = "query" /\ req.k > Len(Streams)
    BY <1>4, <1>7 DEF AllCounted
  <2>2. req.k \in Nat
    BY <2>1 DEF QueryCall
  <2>3. req' = [req EXCEPT !.phase = "fetch", !.k = 1]
    BY <1>7 DEF AllCounted
  <2>5. PICK n \in Nat \ {0} : n = 1
    OBVIOUS
  <2>6. req' = [req EXCEPT !.phase = "fetch", !.k = n]
    BY <2>3, <2>5
  <2>7. req' \in QueryCall /\ req'.k = n /\ req'.phase = "fetch" /\ req'.counts = req.counts
    BY <2>1, <2>6 DEF QueryCall
  <2>4. req' \in QueryCall /\ req'.k = 1 /\ req'.phase = "fetch" /\ req'.counts = req.counts
    BY <2>5, <2>7
  <2> QED BY <1>2, <1>18, <2>1, <2>2, <2>4
<1>8. CASE FetchUnsorted
  <2>1. req \in QueryCall /\ req.k \in DOMAIN Streams /\ req.phase = "fetch" /\ req.kind = "query"
    BY <1>2, <1>4, <1>8 DEF FetchUnsorted, QueryCall
  <2>2. /\ req.counts \in Seq(Nat) /\ Len(req.counts) = Len(Streams) /\ req.counts[req.k] \in Nat
        /\ req.skipped \in Nat /\ req.out \in Seq(Candidate) /\ req.k \in Nat
    BY <1>2, <1>18, <2>1 DEF QueryCall
  <2>3. UnsortedPart \in Seq(Candidate)
    <3> DEFINE all == Candidates(req.k, req.as_of)
               rest == SubSeq(all, req.skipped + 1, Len(all))
               left == req.counts[req.k] - req.skipped
               take == IF Wanted = Null THEN left
                       ELSE IF left < Wanted - Len(req.out) THEN left ELSE Wanted - Len(req.out)
    <3>1. all \in Seq(Candidate)
      BY <2>1, CandidatesType
    <3>2. rest \in Seq(Candidate)
      <4> HIDE DEF all
      <4>1. req.skipped + 1 \in Nat \ {0} /\ Len(all) \in Int /\ Len(all) <= Len(all)
        BY <2>2, <3>1
      <4> QED BY <3>1, <4>1, PartType
    <3>3. Wanted # Null => Wanted \in Int
      BY <2>1, FederationAssumption DEF Wanted, QueryCall
    <3>4. take \in Int
      BY <2>2, <3>3
    <3>5. FirstOf(rest, take) \in Seq(Candidate)
      <4> HIDE DEF take, rest
      <4> QED BY <3>2, <3>4, FirstOfIs
    <3>6. UnsortedPart = IF req.skipped >= req.counts[req.k] THEN <<>> ELSE FirstOf(rest, take)
      BY DEF UnsortedPart
    <3>7. <<>> \in Seq(Candidate)
      OBVIOUS
    <3> HIDE DEF rest, take
    <3> QED BY <3>5, <3>6, <3>7
  <2> DEFINE skip == IF req.skipped >= req.counts[req.k] THEN req.skipped - req.counts[req.k] ELSE 0
  <2>4. req.out \o UnsortedPart \in Seq(Candidate) /\ skip \in Nat /\ req.k + 1 \in Nat \ {0}
    BY <2>2, <2>3
  <2>5. req' = [req EXCEPT !.out = @ \o UnsortedPart, !.k = @ + 1, !.skipped = skip]
    BY <1>8, <2>1 DEF FetchUnsorted, QueryCall
  <2> HIDE DEF skip
  <2>6. req' \in QueryCall /\ req'.counts = req.counts /\ req'.phase = req.phase /\ req'.k = req.k + 1
    BY <2>1, <2>4, <2>5 DEF QueryCall
  <2> QED BY <1>2, <2>1, <2>2, <2>6
<1>9. CASE FetchSorted
  <2>1. req \in QueryCall /\ req.k \in DOMAIN Streams /\ req.phase = "fetch" /\ req.kind = "query"
    BY <1>2, <1>4, <1>9 DEF FetchSorted, QueryCall
  <2>2. SortedPart \subseteq Held(req.k, req.as_of)
    BY DEF SortedPart, Limited
  <2>3. SortedPart \subseteq Candidate
    BY <2>1, <2>2, ServedRows
  <2>4. req' = [req EXCEPT !.left = @ \cup SortedPart, !.k = @ + 1]
    BY <1>9 DEF FetchSorted
  <2>5. req.left \cup SortedPart \in SUBSET Candidate /\ req.k + 1 \in Nat \ {0}
    BY <2>1, <2>3 DEF QueryCall
  <2>6. req' \in QueryCall /\ req'.counts = req.counts /\ req'.phase = req.phase /\ req'.k = req.k + 1
    BY <2>1, <2>4, <2>5 DEF QueryCall
  <2> QED BY <1>2, <1>18, <2>1, <2>6
<1>10. CASE PopLeast
  <2>1. req \in QueryCall /\ req.phase = "fetch" /\ req.kind = "query"
    BY <1>4, <1>10 DEF PopLeast
  <2>2. PICK c \in req.left : req' = [req EXCEPT !.out = Append(@, c), !.left = @ \ {c}]
    BY <1>10 DEF PopLeast
  <2>3. Append(req.out, c) \in Seq(Candidate) /\ req.left \ {c} \in SUBSET Candidate
    BY <2>1 DEF QueryCall
  <2>4. req' \in QueryCall /\ req'.counts = req.counts /\ req'.phase = req.phase /\ req'.k = req.k
    BY <2>1, <2>2, <2>3 DEF QueryCall
  <2> QED BY <1>18, <2>1, <2>4
<1>11. CASE CutPage
  <2>1. req \in QueryCall /\ req.phase = "fetch" /\ req.kind = "query"
    BY <1>4, <1>11 DEF CutPage
  <2>2. Visible \in Seq(Candidate)
    BY <2>1, PageType
  <2> DEFINE more == Len(Merged) > Len(Visible)
             twice == {i \in DOMAIN Visible : ClaimedTwice(Visible[i], req.as_of)}
  <2>3. more \in BOOLEAN
    OBVIOUS
  <2>4. twice \in SUBSET Nat
    BY <2>2
  <2>5. req' = [req EXCEPT !.phase = "probe", !.page = Visible, !.more = more, !.twice = twice]
    BY <1>11 DEF CutPage
  <2> HIDE DEF more, twice
  <2>6. req' \in QueryCall /\ req'.phase = "probe" /\ req'.counts = req.counts /\ req'.k = req.k
    BY <2>1, <2>2, <2>3, <2>4, <2>5 DEF QueryCall
  <2> QED BY <1>18, <2>1, <2>6
<1>12. CASE Probe
  <2>1. req \in QueryCall /\ req.phase = "probe" /\ req.kind = "query" /\ req.probed \in Nat
    BY <1>4, <1>12 DEF Probe, QueryCall
  <2>2. req' = Idle \/ req' = [req EXCEPT !.probed = @ + 1]
    BY <1>12 DEF Probe
  <2>3. CASE req' = [req EXCEPT !.probed = @ + 1]
    <3>1. req.probed + 1 \in Nat
      BY <2>1
    <3>2. req' \in QueryCall /\ req'.phase = req.phase /\ req'.counts = req.counts /\ req'.k = req.k
      BY <2>1, <2>3, <3>1 DEF QueryCall
    <3> QED BY <1>18, <2>1, <3>2
  <2> QED BY <1>3, <2>2, <2>3
<1>13. CASE Audit
  <2> DEFINE known == {c \in UNION {Held(k, Null) : k \in Audited} : Origins(c, Null, Sharing(c.stream)) # {}}
  <2>1. known \in SUBSET Candidate
    <3>1. \A k \in Audited : Held(k, Null) \subseteq Candidate
      BY ServedRows DEF Audited
    <3> QED BY <3>1
  <2>2. req' = [kind |-> "audit",
             buffer |-> [k \in Audited |-> {}], last |-> [k \in Audited |-> 0],
             done |-> [k \in Audited |-> FALSE],
             known |-> known]
    BY <1>13 DEF Audit
  <2> HIDE DEF known
  <2>3. req' \in AuditCall
    BY <2>1, <2>2 DEF AuditCall
  <2> QED BY <2>3 DEF AuditCall
<1>14. req.kind = "audit" => req \in AuditCall
  BY DEF CallType, AuditCall, QueryCall
<1>15. CASE AuditBatch
  <2>1. req \in AuditCall
    BY <1>14, <1>15 DEF AuditBatch
  <2>2. PICK k \in Audited :
          req' = [req EXCEPT !.buffer[k] = Batch(k), !.done[k] = Cardinality(Batch(k)) < BatchSize,
                             !.last[k] = IF Batch(k) = {} THEN @ ELSE Max(Batch(k))]
    BY <1>15 DEF AuditBatch
  <2>3. Batch(k) \subseteq Ids /\ IsFiniteSet(Batch(k))
    BY <2>1, BatchIs DEF AuditCall, Audited
  <2>4. Batch(k) # {} => Max(Batch(k)) \in Nat
    <3>1. Batch(k) \in SUBSET Int
      BY <2>3, IdsNat
    <3>2. Batch(k) # {} => Max(Batch(k)) \in Batch(k)
      BY <2>3, <3>1, MinMax
    <3> QED BY <2>3, <3>2, IdsNat
  <2> DEFINE batch == Batch(k)
             done == Cardinality(batch) < BatchSize
             last == IF batch = {} THEN req.last[k] ELSE Max(batch)
  <2>5. done \in BOOLEAN /\ last \in Nat
    BY <2>1, <2>4 DEF AuditCall
  <2>6. req' = [req EXCEPT !.buffer[k] = batch, !.done[k] = done, !.last[k] = last]
    BY <2>1, <2>2 DEF AuditCall
  <2> HIDE DEF batch, done, last
  <2>7. batch \in SUBSET Ids
    BY <2>3 DEF batch
  <2>8. req' \in AuditCall
    BY <2>1, <2>5, <2>6, <2>7 DEF AuditCall
  <2> QED BY <2>8 DEF AuditCall
<1>16. CASE AuditGroup
  <2>1. req \in AuditCall
    BY <1>14, <1>16 DEF AuditGroup
  <2>2. \/ req' = Idle
        \/ \E c \in Heads : req' = [req EXCEPT !.buffer[c.stream] = @ \ {c.id}]
    BY <1>16 DEF AuditGroup
  <2>3. ASSUME NEW c \in Heads, req' = [req EXCEPT !.buffer[c.stream] = @ \ {c.id}] PROVE req' \in AuditCall
    <3>1. c.stream \in Audited
      BY DEF Heads
    <3> QED BY <2>1, <2>3, <3>1 DEF AuditCall
  <2>4. req' = Idle \/ req' \in AuditCall
    BY <2>2, <2>3
  <2> QED BY <2>4 DEF AuditCall
<1>17. CASE Tick \/ TakeCutoff \/ (\E k \in DOMAIN Streams, id \in Ids : Open(k, id) \/ Fetch(k, id))
            \/ (\E s \in DOMAIN sources : Commit(s)) \/ Page \/ UNCHANGED federationVars
  BY <1>3, <1>17 DEF Tick, TakeCutoff, Open, Fetch, Commit, Page, federationVars
<1> QED BY <1>5, <1>6, <1>7, <1>8, <1>9, <1>10, <1>11, <1>12, <1>13, <1>15, <1>16, <1>17 DEF FederationNext

\* An id that is held stays held, and what claims a candidate goes on claiming it.
LEMMA RowsStay ==
  ASSUME StoredType, [FederationNext]_federationVars
  PROVE  /\ \A k \in DOMAIN Streams : \A id : HoldsId(k, id) => HoldsId(k, id)'
         /\ \A k \in DOMAIN Streams : \A as_of : Served(k, as_of) \subseteq Served(k, as_of)'
         /\ \A c, as_of : ClaimedTwice(c, as_of) => ClaimedTwice(c, as_of)'
<1>1. /\ sources' = sources
      /\ \A k \in DOMAIN Streams :
              /\ DOMAIN stored[k] \subseteq DOMAIN stored'[k]
              /\ \A i \in DOMAIN stored[k] : stored'[k][i] = stored[k][i]
  BY StoredStep
<1>2. \A k \in DOMAIN Streams : \A id : HoldsId(k, id) => HoldsId(k, id)'
  BY <1>1 DEF HoldsId
<1>3. \A k \in DOMAIN Streams : \A as_of : Served(k, as_of) \subseteq Served(k, as_of)'
  <2> TAKE k \in DOMAIN Streams
  <2> TAKE as_of
  <2>1. ResolutionOf(k)' = ResolutionOf(k)
    BY <1>1, SameStreams
  <2> QED BY <1>1, <2>1 DEF Served
<1>4. \A c, as_of : ClaimedTwice(c, as_of) => ClaimedTwice(c, as_of)'
  <2> SUFFICES ASSUME NEW c, NEW as_of, ClaimedTwice(c, as_of) PROVE ClaimedTwice(c, as_of)'
    OBVIOUS
  <2>1. PICK k \in OtherSources(c.stream) \ {c.stream} :
          \E i \in Served(k, as_of) : stored[k][i].id = c.id
    BY DEF ClaimedTwice, Origins
  <2>2. PICK i \in Served(k, as_of) : stored[k][i].id = c.id
    BY <2>1
  <2>3. k \in DOMAIN Streams /\ i \in DOMAIN stored[k]
    BY DEF OtherSources, Served
  <2>4. i \in Served(k, as_of)' /\ stored'[k][i].id = c.id
    BY <1>1, <1>3, <2>2, <2>3
  <2>5. OtherSources(c.stream)' = OtherSources(c.stream)
    BY <1>1, SameStreams
  <2> QED BY <2>4, <2>5 DEF ClaimedTwice, Origins
<1> QED BY <1>2, <1>3, <1>4

\* A candidate that two streams claim is found by the probe.
LEMMA ClaimedIsProbed ==
  ASSUME NEW c, NEW as_of, ClaimedTwice(c, as_of)
  PROVE  Origins(c, as_of, Colliding(c.stream)) # {}
<1>1. PICK k \in OtherSources(c.stream) \ {c.stream} :
        \E i \in Served(k, as_of) : stored[k][i].id = c.id
  BY DEF ClaimedTwice, Origins
<1>2. k \in Sharing(c.stream) /\ Streams[k].source # Streams[c.stream].source
  BY DEF OtherSources, Sharing
<1>3. Colliding(c.stream) = Sharing(c.stream)
  BY <1>2 DEF Colliding
<1>4. k \in Origins(c, as_of, Colliding(c.stream))
  BY <1>1, <1>2, <1>3 DEF Origins
<1> QED BY <1>4

\* What the probe has still to find is a row it has not come to.
LEMMA ProbeStep ==
  ASSUME StoredType, CallType, ProbeInv, [FederationNext]_federationVars
  PROVE  ProbeInv'
<1>0. \A c, as_of : ClaimedTwice(c, as_of) => ClaimedTwice(c, as_of)'
  BY RowsStay
<1> USE DEF Idle
<1>1. CASE req' = req
  <2>1. CASE req.kind = "query"
    <3>1. /\ req.phase # "probe" => req.probed = 0 /\ req.twice = {}
          /\ \A i \in req.twice : /\ i \in DOMAIN req.page /\ i > req.probed
                                  /\ ClaimedTwice(req.page[i], req.as_of)
      BY <2>1 DEF ProbeInv
    <3> QED BY <1>0, <1>1, <3>1 DEF ProbeInv
  <2> QED BY <1>1, <2>1 DEF ProbeInv
<1>2. CASE req'.kind # "query"
  BY <1>2 DEF ProbeInv
<1>4. req.kind = "query" => req \in QueryCall
  BY DEF CallType, AuditCall, QueryCall
<1>14. req.kind = "query" =>
         /\ req.phase # "probe" => req.probed = 0 /\ req.twice = {}
         /\ \A i \in req.twice : /\ i \in DOMAIN req.page /\ i > req.probed
                                 /\ ClaimedTwice(req.page[i], req.as_of)
  BY DEF ProbeInv
<1>5. CASE CountStream \/ FetchUnsorted \/ FetchSorted \/ PopLeast \/ AllCounted
  <2>1. req \in QueryCall /\ req.phase # "probe" /\ req.kind = "query"
    BY <1>4, <1>5 DEF CountStream, FetchUnsorted, FetchSorted, PopLeast, AllCounted
  <2>2. req'.probed = req.probed /\ req'.twice = req.twice
    BY <1>5, <2>1 DEF CountStream, FetchUnsorted, FetchSorted, PopLeast, AllCounted, QueryCall
  <2>3. req'.probed = 0 /\ req'.twice = {}
    BY <1>14, <2>1, <2>2
  <2> QED BY <2>3 DEF ProbeInv
<1>6. CASE CutPage
  <2>1. req \in QueryCall /\ req.probed = 0
    BY <1>4, <1>14, <1>6 DEF CutPage
  <2> DEFINE more == Len(Merged) > Len(Visible)
             twice == {i \in DOMAIN Visible : ClaimedTwice(Visible[i], req.as_of)}
  <2>2. req' = [req EXCEPT !.phase = "probe", !.page = Visible, !.more = more, !.twice = twice]
    BY <1>6 DEF CutPage
  <2> HIDE DEF more, twice
  <2>3. req'.page = Visible /\ req'.twice = twice /\ req'.as_of = req.as_of /\ req'.probed = 0
        /\ req'.phase = "probe"
    BY <2>1, <2>2 DEF QueryCall
  <2>4. \A i \in twice : i \in DOMAIN Visible /\ ClaimedTwice(Visible[i], req.as_of)
    BY DEF twice
  <2>5. \A i \in twice : \A c, as_of : c = Visible[i] /\ as_of = req.as_of => ClaimedTwice(c, as_of)'
    BY <1>0, <2>4
  <2>6. \A i \in twice : i > 0
    <3>1. Visible \in Seq(Candidate)
      BY <2>1, PageType
    <3> QED BY <2>4, <3>1
  <2> QED BY <2>3, <2>4, <2>5, <2>6 DEF ProbeInv
<1>7. CASE Probe
  <2>1. req \in QueryCall /\ req.phase = "probe" /\ req.kind = "query" /\ req.probed \in Nat
    BY <1>4, <1>7 DEF Probe, QueryCall
  <2>2. CASE req' = Idle
    BY <1>2, <2>2
  <2>3. CASE req' # Idle
    <3> DEFINE c == req.page[req.probed + 1]
    <3>1. Origins(c, req.as_of, Colliding(c.stream)) = {} /\ req' = [req EXCEPT !.probed = @ + 1]
      BY <1>7, <2>3 DEF Probe
    <3>2. ~ClaimedTwice(c, req.as_of)
      BY <3>1, ClaimedIsProbed
    <3>3. /\ req'.page = req.page /\ req'.twice = req.twice /\ req'.as_of = req.as_of
          /\ req'.probed = req.probed + 1
      BY <2>1, <3>1 DEF QueryCall
    <3>4. \A i \in req.twice : /\ i \in DOMAIN req.page /\ i > req.probed
                               /\ ClaimedTwice(req.page[i], req.as_of)
      BY <1>14, <2>1
    <3>5. \A i \in req.twice : i # req.probed + 1 /\ i \in Nat
      BY <2>1, <3>2, <3>4 DEF QueryCall
    <3>6. \A i \in req.twice : i > req.probed + 1
      BY <2>1, <3>4, <3>5
    <3>7. \A i \in req.twice : \A e, as_of : e = req.page[i] /\ as_of = req.as_of => ClaimedTwice(e, as_of)'
      BY <1>0, <3>4
    <3>8. req'.phase = "probe"
      BY <2>1, <3>1 DEF QueryCall
    <3> HIDE DEF c
    <3> QED BY <3>3, <3>4, <3>6, <3>7, <3>8 DEF ProbeInv
  <2> QED BY <2>2, <2>3
<1>8. CASE Page \/ Audit
  BY <1>2, <1>8 DEF Page, Audit
<1>9. req.kind = "audit" => req \in AuditCall
  BY DEF CallType, AuditCall, QueryCall
<1>10. CASE AuditBatch
  <2>1. req'.kind = "audit"
    BY <1>9, <1>10 DEF AuditBatch, AuditCall
  <2> QED BY <1>2, <2>1
<1>11. CASE AuditGroup
  <2>1. req'.kind # "query"
    BY <1>9, <1>11 DEF AuditGroup, AuditCall
  <2> QED BY <1>2, <2>1
<1>12. CASE \E q \in Queries, as_of \in {Null, cutoff} : Query(q, as_of)
  <2>1. req'.kind = "query" /\ req'.phase = "count" /\ req'.probed = 0 /\ req'.twice = {}
    BY <1>12 DEF Query
  <2> QED BY <2>1 DEF ProbeInv
<1>13. CASE Tick \/ TakeCutoff \/ (\E k \in DOMAIN Streams, id \in Ids : Open(k, id) \/ Fetch(k, id))
            \/ (\E s \in DOMAIN sources : Commit(s)) \/ UNCHANGED federationVars
  BY <1>1, <1>13 DEF Tick, TakeCutoff, Open, Fetch, Commit, federationVars
<1> QED BY <1>5, <1>6, <1>7, <1>8, <1>10, <1>11, <1>12, <1>13 DEF FederationNext

\* The audit walks all streams that share a prefix, and an id both hold is ahead in both.
LEMMA AuditStep ==
  ASSUME StoredType, CallType, AuditInv, [FederationNext]_federationVars
  PROVE  AuditInv'
<1>0. \A k \in DOMAIN Streams : \A id : HoldsId(k, id) => HoldsId(k, id)'
  BY RowsStay
<1>1. /\ Streams' = Streams /\ Audited' = Audited /\ \A k : PrefixOf(k)' = PrefixOf(k)
  BY StoredStep, SameStreams
<1>2. Audited \subseteq DOMAIN Streams
  BY DEF Audited
<1> USE DEF Idle
<1>3. CASE req' = req
  <2> SUFFICES ASSUME req.kind = "audit" PROVE AuditInv'
    BY <1>3 DEF AuditInv
  <2>1. \A k \in Audited : \A id : Ahead(k, id) => Ahead(k, id)'
    BY <1>0, <1>2, <1>3 DEF Ahead
  <2> QED BY <1>1, <1>3, <2>1 DEF AuditInv
<1>4. CASE req'.kind # "audit"
  BY <1>4 DEF AuditInv
<1>5. req.kind = "query" => req \in QueryCall
  BY DEF CallType, AuditCall, QueryCall
<1>6. CASE CountStream \/ FetchUnsorted \/ FetchSorted \/ PopLeast \/ AllCounted
  <2>1. req \in QueryCall
    BY <1>5, <1>6 DEF CountStream, FetchUnsorted, FetchSorted, PopLeast, AllCounted
  <2>2. req'.kind # "audit"
    BY <1>6, <2>1 DEF CountStream, FetchUnsorted, FetchSorted, PopLeast, AllCounted, QueryCall
  <2> QED BY <1>4, <2>2
<1>12. CASE CutPage \/ Probe
  <2>1. req \in QueryCall
    BY <1>5, <1>12 DEF CutPage, Probe
  <2>2. CASE CutPage
    <3> DEFINE more == Len(Merged) > Len(Visible)
               twice == {i \in DOMAIN Visible : ClaimedTwice(Visible[i], req.as_of)}
    <3>1. req' = [req EXCEPT !.phase = "probe", !.page = Visible, !.more = more, !.twice = twice]
      BY <2>2 DEF CutPage
    <3> HIDE DEF more, twice
    <3>2. req'.kind # "audit"
      BY <2>1, <3>1 DEF QueryCall
    <3> QED BY <1>4, <3>2
  <2>3. CASE Probe
    <3>1. req' = Idle \/ req' = [req EXCEPT !.probed = @ + 1]
      BY <2>3 DEF Probe
    <3>2. req'.kind # "audit"
      BY <2>1, <3>1 DEF QueryCall
    <3> QED BY <1>4, <3>2
  <2> QED BY <1>12, <2>2, <2>3
<1>7. CASE Page \/ (\E q \in Queries, as_of \in {Null, cutoff} : Query(q, as_of))
  BY <1>4, <1>7 DEF Page, Query
<1>8. CASE Audit
  <2> DEFINE known == {c \in UNION {Held(k, Null) : k \in Audited} : Origins(c, Null, Sharing(c.stream)) # {}}
  <2>1. req' = [kind |-> "audit",
             buffer |-> [k \in Audited |-> {}], last |-> [k \in Audited |-> 0],
             done |-> [k \in Audited |-> FALSE],
             known |-> known]
    BY <1>8 DEF Audit
  <2>2. \A k \in Audited : \A id : HoldsId(k, id) => Ahead(k, id)'
    <3> TAKE k \in Audited
    <3> TAKE id
    <3> HAVE HoldsId(k, id)
    <3>1. id \in Ids
      BY <1>2, ServedRows DEF HoldsId, FRow
    <3>2. id > 0
      BY <3>1, IdsNat
    <3>3. HoldsId(k, id)'
      BY <1>0, <1>2
    <3>4. ~req'.done[k] /\ req'.last[k] = 0
      BY <2>1
    <3> QED BY <3>2, <3>3, <3>4 DEF Ahead
  <2>3. \A c \in known : \E j, k \in Audited :
          j # k /\ PrefixOf(j) = PrefixOf(k) /\ HoldsId(j, c.id) /\ HoldsId(k, c.id)
    <3> TAKE c \in known
    <3>1. PICK j \in Audited : c \in Held(j, Null)
      OBVIOUS
    <3>2. c.stream = j /\ HoldsId(j, c.id)
      BY <3>1 DEF Held, Served, CandidateAt, HoldsId
    <3>3. PICK k \in Sharing(j) \ {j} : HoldsId(k, c.id)
      BY <3>2 DEF Origins, HoldsId, Served
    <3>4. k \in DOMAIN Streams /\ PrefixOf(k) = PrefixOf(j) /\ j \in Sharing(k)
      BY <1>2 DEF Sharing
    <3>5. k \in Audited
      BY <3>4 DEF Audited
    <3> QED BY <3>2, <3>3, <3>4, <3>5
  <2> HIDE DEF known
  <2>4. \A k \in Audited : req'.buffer[k] = {}
    BY <2>1
  <2>5. IsFiniteSet({})
    BY FS_EmptySet
  <2>6. req'.known = known
    BY <2>1
  <2> QED BY <1>1, <2>2, <2>3, <2>4, <2>5, <2>6 DEF AuditInv
<1>9. req.kind = "audit" => req \in AuditCall
  BY DEF CallType, AuditCall, QueryCall
<1>10. CASE AuditBatch
  <2>1. req \in AuditCall /\ req.kind = "audit"
    BY <1>9, <1>10 DEF AuditBatch
  <2>2. PICK k \in Audited : /\ req.buffer[k] = {} /\ ~req.done[k]
                             /\ req' = [req EXCEPT !.buffer[k] = Batch(k),
                                          !.done[k] = Cardinality(Batch(k)) < BatchSize,
                                          !.last[k] = IF Batch(k) = {} THEN @ ELSE Max(Batch(k))]
    BY <1>10 DEF AuditBatch
  <2>3. stored' = stored
    BY <1>10 DEF AuditBatch, worldVars
  <2> DEFINE batch == Batch(k)
             done == Cardinality(batch) < BatchSize
             last == IF batch = {} THEN req.last[k] ELSE Max(batch)
  <2>4. req.last[k] \in Nat
    BY <2>1 DEF AuditCall
  <2>5. /\ batch \subseteq Ids /\ IsFiniteSet(batch)
        /\ \A id \in batch : id > req.last[k]
        /\ \A id : HoldsId(k, id) /\ id > req.last[k] /\ id \notin batch
             => ~done /\ \A b \in batch : b < id
    BY <1>2, <2>4, BatchIs
  <2>6. batch # {} => Max(batch) \in batch /\ \A b \in batch : b <= Max(batch)
    <3>1. batch \in SUBSET Int
      BY <2>5, IdsNat
    <3> HIDE DEF batch
    <3> QED BY <2>5, <3>1, MinMax
  <2>7. req' = [req EXCEPT !.buffer[k] = batch, !.done[k] = done, !.last[k] = last]
    BY <2>1, <2>2 DEF AuditCall
  <2> HIDE DEF batch, done
  <2>8. /\ req'.known = req.known
        /\ \A j \in Audited : /\ req'.buffer[j] = IF j = k THEN batch ELSE req.buffer[j]
                              /\ req'.done[j] = IF j = k THEN done ELSE req.done[j]
                              /\ req'.last[j] = IF j = k THEN last ELSE req.last[j]
    <3> HIDE DEF last
    <3> QED BY <2>1, <2>7 DEF AuditCall
  <2>9. \A j \in Audited : \A id : Ahead(j, id) => Ahead(j, id)'
    <3> SUFFICES ASSUME NEW j \in Audited, NEW id, Ahead(j, id) PROVE Ahead(j, id)'
      OBVIOUS
    <3>1. CASE j # k
      BY <2>3, <2>8, <3>1 DEF Ahead, HoldsId
    <3>2. CASE j = k
      <4>1. id > req.last[k] /\ HoldsId(k, id)
        BY <2>2, <3>2 DEF Ahead
      <4>2. CASE id \in batch
        BY <2>8, <3>2, <4>2 DEF Ahead
      <4>3. CASE id \notin batch
        <5>1. ~done /\ \A b \in batch : b < id
          BY <2>5, <4>1, <4>3
        <5>2. id > last
          BY <2>6, <4>1, <5>1 DEF last
        <5>3. HoldsId(k, id)'
          BY <2>3, <4>1 DEF HoldsId
        <5> HIDE DEF last
        <5> QED BY <2>8, <3>2, <5>1, <5>2, <5>3 DEF Ahead
      <4> QED BY <4>2, <4>3
    <3> QED BY <3>1, <3>2
  <2>10. \A j \in Audited : IsFiniteSet(req'.buffer[j]) /\ \A id \in req'.buffer[j] : id <= req'.last[j]
    <3>1. \A j \in Audited : IsFiniteSet(req.buffer[j]) /\ \A id \in req.buffer[j] : id <= req.last[j]
      BY <2>1 DEF AuditInv
    <3>2. \A id \in batch : id <= last
      BY <2>6 DEF last
    <3> HIDE DEF last
    <3> QED BY <2>5, <2>8, <3>1, <3>2
  <2>11. \A c \in req.known : \E i, j \in Audited :
           i # j /\ PrefixOf(i) = PrefixOf(j) /\ Ahead(i, c.id) /\ Ahead(j, c.id)
    BY <2>1 DEF AuditInv
  <2> HIDE DEF last
  <2> QED BY <1>1, <2>8, <2>9, <2>10, <2>11 DEF AuditInv
<1>11. CASE AuditGroup
  <2>1. req \in AuditCall /\ req.kind = "audit"
    BY <1>9, <1>11 DEF AuditGroup
  <2>2. CASE req' = Idle
    BY <1>4, <2>2
  <2>3. CASE req' # Idle
    <3>1. PICK c \in Heads : /\ \A d \in Heads : ~IdBefore(PublicId(d.stream, d.id), PublicId(c.stream, c.id))
                             /\ Group(c) = {c}
                             /\ req' = [req EXCEPT !.buffer[c.stream] = @ \ {c.id}]
      BY <1>11, <2>3 DEF AuditGroup
    <3>2. /\ stored' = stored /\ \A k \in Audited : req.buffer[k] # {} \/ req.done[k]
      BY <1>11 DEF AuditGroup, worldVars
    <3> DEFINE j == c.stream
    <3>3. j \in Audited /\ c.id = Min(req.buffer[j]) /\ req.buffer[j] # {} /\ c = [stream |-> j, id |-> c.id]
      BY DEF Heads
    <3>4. /\ req'.known = req.known /\ req'.done = req.done /\ req'.last = req.last
          /\ \A k \in Audited : req'.buffer[k] = IF k = j THEN req.buffer[j] \ {c.id} ELSE req.buffer[k]
      BY <2>1, <3>1, <3>3 DEF AuditCall
    <3>5. \A k \in Audited : IsFiniteSet(req.buffer[k]) /\ \A id \in req.buffer[k] : id <= req.last[k]
      BY <2>1 DEF AuditInv
    <3>6. \A k \in Audited : req.buffer[k] \in SUBSET Int
      BY <2>1, IdsNat DEF AuditCall
    <3>7. \A k \in Audited : req.buffer[k] # {} =>
            Min(req.buffer[k]) \in req.buffer[k] /\ \A id \in req.buffer[k] : Min(req.buffer[k]) <= id
      BY <3>5, <3>6, MinMax
    <3>8. ASSUME NEW k \in Audited, k # j, PrefixOf(k) = PrefixOf(j) PROVE ~Ahead(k, c.id)
      <4> SUFFICES ASSUME Ahead(k, c.id) PROVE FALSE
        OBVIOUS
      <4>1. req.buffer[k] # {}
        BY <3>2 DEF Ahead
      <4> DEFINE h == Min(req.buffer[k])
                 d == [stream |-> k, id |-> h]
      <4>2. h \in req.buffer[k] /\ \A id \in req.buffer[k] : h <= id
        BY <3>7, <4>1
      <4>3. d \in Heads
        BY <4>1 DEF Heads
      <4>4. h \in Int /\ c.id \in Int /\ req.last[k] \in Int
        <5>1. c.id \in req.buffer[j]
          BY <3>3, <3>7
        <5>2. h \in Int /\ c.id \in Int
          BY <3>3, <3>6, <4>2, <5>1
        <5> QED BY <2>1, <5>2 DEF AuditCall
      <4>5. h <= c.id
        <5>1. CASE c.id \in req.buffer[k]
          BY <4>2, <5>1
        <5>2. CASE c.id > req.last[k]
          <6>1. h <= req.last[k]
            BY <3>5, <4>2
          <6> QED BY <4>4, <5>2, <6>1
        <5> QED BY <5>1, <5>2 DEF Ahead
      <4>6. ~IdBefore(PublicId(k, h), PublicId(j, c.id))
        <5>1. d.stream = k /\ d.id = h
          OBVIOUS
        <5> HIDE DEF d, h
        <5> QED BY <3>1, <4>3, <5>1
      <4>7. ~(h < c.id)
        BY <3>8, <4>6 DEF IdBefore, PublicId
      <4>8. h = c.id
        BY <4>4, <4>5, <4>7
      <4>9. d \in Group(c)
        BY <3>8, <4>3, <4>8 DEF Group, PublicId
      <4>10. d # c
        BY <3>8
      <4> QED BY <3>1, <4>9, <4>10
    <3>9. \A k \in Audited : \A id : Ahead(k, id) /\ ~(k = j /\ id = c.id) => Ahead(k, id)'
      BY <3>2, <3>4 DEF Ahead, HoldsId
    <3>10. \A e \in req.known : \E i, k \in Audited :
             i # k /\ PrefixOf(i) = PrefixOf(k) /\ Ahead(i, e.id)' /\ Ahead(k, e.id)'
      <4> TAKE e \in req.known
      <4>1. PICK i, k \in Audited : i # k /\ PrefixOf(i) = PrefixOf(k) /\ Ahead(i, e.id) /\ Ahead(k, e.id)
        BY <2>1 DEF AuditInv
      <4>2. ~(i = j /\ e.id = c.id) /\ ~(k = j /\ e.id = c.id)
        <5> HIDE DEF j
        <5> QED BY <3>8, <4>1
      <4> QED BY <3>9, <4>1, <4>2
    <3>11. \A k \in Audited : IsFiniteSet(req'.buffer[k]) /\ \A id \in req'.buffer[k] : id <= req'.last[k]
      <4>1. IsFiniteSet(req.buffer[j] \ {c.id})
        BY <3>3, <3>5, FS_RemoveElement
      <4> QED BY <3>4, <3>5, <4>1
    <3> QED BY <1>1, <3>4, <3>10, <3>11 DEF AuditInv
  <2> QED BY <2>2, <2>3
<1>13. CASE Tick \/ TakeCutoff \/ (\E k \in DOMAIN Streams, id \in Ids : Open(k, id) \/ Fetch(k, id))
            \/ (\E s \in DOMAIN sources : Commit(s)) \/ UNCHANGED federationVars
  BY <1>3, <1>13 DEF Tick, TakeCutoff, Open, Fetch, Commit, federationVars
<1> QED BY <1>6, <1>7, <1>8, <1>10, <1>11, <1>12, <1>13 DEF FederationNext

\* No step returns a page that hides a duplicate.
LEMMA HiddenStep ==
  ASSUME HiddenInv, [FederationNext]_federationVars
  PROVE  NoHiddenDuplicate'
<1> USE DEF HiddenInv
<1>1. CASE result' = result
  BY <1>1 DEF NoHiddenDuplicate
<1>2. CASE Page
  <2>1. req.kind = "query" /\ req.phase = "probe" /\ req.probed = Len(req.page) /\ result'.twice = req.twice
        /\ result'.kind = "page"
    BY <1>2 DEF Page
  <2>2. req \in QueryCall
    BY <2>1 DEF CallType, AuditCall, QueryCall, Idle
  <2>3. DOMAIN req.page = 1..Len(req.page) /\ Len(req.page) \in Nat
    BY <2>2 DEF QueryCall
  <2>4. \A i \in req.twice : i \in 1..Len(req.page) /\ i > Len(req.page)
    BY <2>1, <2>3 DEF ProbeInv
  <2>5. req.twice = {}
    BY <2>3, <2>4
  <2> QED BY <2>1, <2>5 DEF NoHiddenDuplicate
<1>3. CASE AuditGroup
  <2>1. CASE Heads = {}
    <3>1. /\ req.kind = "audit" /\ \A k \in Audited : req.buffer[k] # {} \/ req.done[k]
          /\ result' = [kind |-> "clean", known |-> req.known]
      BY <1>3, <2>1 DEF AuditGroup
    <3>2. \A k \in Audited : req.buffer[k] = {}
      BY <2>1 DEF Heads
    <3>3. \A k \in Audited : \A id : ~Ahead(k, id)
      BY <3>1, <3>2 DEF Ahead
    <3>4. req.known = {}
      BY <3>1, <3>3 DEF AuditInv
    <3> QED BY <3>1, <3>4 DEF NoHiddenDuplicate
  <2>2. CASE Heads # {}
    <3>1. result' = result \/ \E ids : result' = [kind |-> "duplicate", ids |-> ids]
      BY <1>3, <2>2 DEF AuditGroup
    <3>2. result' = result \/ result'.kind = "duplicate"
      BY <3>1
    <3> QED BY <1>1, <3>2 DEF NoHiddenDuplicate
  <2> QED BY <2>1, <2>2
<1>4. CASE Probe
  <2>1. result' = result \/ \E ids : result' = [kind |-> "duplicate", ids |-> ids]
    BY <1>4 DEF Probe
  <2>2. result' = result \/ result'.kind = "duplicate"
    BY <2>1
  <2> QED BY <1>1, <2>2 DEF NoHiddenDuplicate
<1>5. ASSUME NEW k \in DOMAIN Streams, NEW id \in Ids, Fetch(k, id) PROVE NoHiddenDuplicate'
  <2>1. \/ result' = NoResult
        \/ \E ids : result' = [kind |-> "duplicate", ids |-> ids]
        \/ \E row : result' = [kind |-> "fetched", row |-> row]
    BY <1>5 DEF Fetch
  <2>2. result'.kind \in {"none", "duplicate", "fetched"}
    BY <2>1 DEF NoResult
  <2> QED BY <2>2 DEF NoHiddenDuplicate
<1>6. CASE UNCHANGED federationVars
  BY <1>1, <1>6 DEF federationVars
<1>7. CASE CountStream \/ AllCounted \/ FetchUnsorted \/ FetchSorted \/ PopLeast \/ CutPage \/ Audit \/ AuditBatch
  BY <1>1, <1>7 DEF CountStream, AllCounted, FetchUnsorted, FetchSorted, PopLeast, CutPage, Audit, AuditBatch
<1>8. CASE \/ Tick \/ TakeCutoff
           \/ \E k \in DOMAIN Streams, id \in Ids : Open(k, id)
           \/ \E s \in DOMAIN sources : Commit(s)
           \/ \E q \in Queries, as_of \in {Null, cutoff} : Query(q, as_of)
  BY <1>1, <1>8 DEF Tick, TakeCutoff, Open, Commit, Query
<1> QED BY <1>2, <1>3, <1>4, <1>5, <1>6, <1>7, <1>8 DEF FederationNext

\* At first no page is returned.
LEMMA HiddenInit ==
  ASSUME FederationInit
  PROVE  HiddenInv
<1>1. sources \in Federations
  BY DEF FederationInit
<1>2. stored \in [DOMAIN Streams -> Seq(FRow)]
  <2>1. \A id \in Early : <<[id |-> id, at |-> 0]>> \in Seq(FRow)
    <3> TAKE id \in Early
    <3>1. [id |-> id, at |-> 0] \in FRow
      BY FederationAssumption DEF FRow
    <3> QED BY <3>1
  <2>2. <<>> \in Seq(FRow)
    OBVIOUS
  <2>3. {<<>>} \cup {<<[id |-> id, at |-> 0]>> : id \in Early} \subseteq Seq(FRow)
    BY <2>1, <2>2
  <2> QED BY <2>3 DEF FederationInit
<1>3. StoredType
  BY <1>1, <1>2, FederationAssumption DEF FederationInit, StoredType
<1>4. req = Idle /\ result = NoResult
  BY DEF FederationInit
<1> QED BY <1>3, <1>4 DEF HiddenInv, CallType, AuditInv, ProbeInv, NoHiddenDuplicate, Idle, NoResult

\* A page or an audit that raises no error has met no id that two sources
\* claimed when the page was put together or when the audit began: the
\* probes and batches read later, and rows are only added.
THEOREM NoDuplicateHidden == FederationSpec => []NoHiddenDuplicate
<1>1. FederationInit => HiddenInv
  BY HiddenInit
<1>2. HiddenInv /\ [FederationNext]_federationVars => HiddenInv'
  <2> SUFFICES ASSUME HiddenInv, [FederationNext]_federationVars PROVE HiddenInv'
    OBVIOUS
  <2>1. StoredType' /\ CallType' /\ AuditInv' /\ ProbeInv'
    BY StoredStep, CallStep, AuditStep, ProbeStep DEF HiddenInv
  <2> QED BY <2>1, HiddenStep DEF HiddenInv
<1>3. HiddenInv => NoHiddenDuplicate
  BY DEF HiddenInv
<1> QED BY <1>1, <1>2, <1>3, PTL DEF FederationSpec
-----------------------------------------------------------------------------
(* Stored-entry federation: pages of a snapshot.  What was counted stays the *)
(* beginning of what a stream lists.  As of a cutoff nobody straddled nothing *)
(* is added: every unfinished row is in a bucket above it.  Then an unsorted *)
(* fetch is a window of the concatenation, and a sorted merge the beginning *)
(* of all rows in order.                                                   *)

UniqueInv ==
  /\ \A k \in DOMAIN Streams : \A i, j \in DOMAIN stored[k] : stored[k][i].id = stored[k][j].id => i = j
  /\ \A s \in DOMAIN sources : open[s] # Null =>
       /\ Streams[open[s].stream].source = s
       /\ \A i \in DOMAIN stored[open[s].stream] : stored[open[s].stream][i].id # open[s].row.id

\* As of a cutoff nobody straddled, in a federation with timestamps, nothing is added.
Steady(as_of) == as_of # Null /\ ~straddled /\ Capable = DOMAIN sources

SnapInv ==
  \A c \in {cutoff} : c # Null =>
    /\ c \in Int
    /\ \A s \in Capable : c \div sources[s].resolution < clock \div sources[s].resolution
    /\ Steady(c) =>
         /\ snap = [k \in DOMAIN Streams |-> Candidates(k, c)]
         /\ \A s \in DOMAIN sources : open[s] # Null =>
              open[s].row.at > c \div sources[s].resolution

CountedLists(as_of, counts) == [k \in DOMAIN counts |-> FirstOf(Candidates(k, as_of), counts[k])]
Firsts(lists, n) == [i \in 1..n |-> lists[i]]
All(as_of) == UNION {Held(k, as_of) : k \in DOMAIN Streams}
InAll(as_of, sort) == OrderBy(All(as_of), SortedAs(sort, All(as_of)))

CountsHold(as_of, counts, total) ==
  /\ as_of \in {Null, cutoff}
  /\ \A k \in DOMAIN counts :
       /\ counts[k] <= Len(Candidates(k, as_of))
       /\ Steady(as_of) => counts[k] = Len(Candidates(k, as_of))
  /\ total = Len(FlattenSeq(CountedLists(as_of, counts)))

WantedOf(q) == IF q.limit = Null THEN Null ELSE q.limit + 1
Cut(list, offset, wanted) ==
  LET rest == SubSeq(list, offset + 1, Len(list)) IN IF wanted = Null THEN rest ELSE FirstOf(rest, wanted)

Skipping(q, lists, k, skipped, out) ==
  LET done == FlattenSeq(Firsts(lists, k - 1))
  IN /\ out = Cut(done, q.offset, WantedOf(q))
     /\ skipped = IF q.offset > Len(done) THEN q.offset - Len(done) ELSE 0

PartOf(k, as_of, q) ==
  LET all == Held(k, as_of)
  IN IF q.limit = Null THEN all ELSE Limited(all, SortedAs(q.sort, all), q.offset + q.limit + 1)

Merging(q, as_of, k, out, left) ==
  LET U == UNION {PartOf(j, as_of, q) : j \in 1..(k - 1)}
  IN /\ left \subseteq U
     /\ \A x \in U : x \in left \/ \E i \in DOMAIN out : out[i] = x
     /\ \A i \in DOMAIN out : out[i] \in U \ left /\ \A x \in left : SortKeyBefore(q.sort, out[i], x)
     /\ \A i, j \in DOMAIN out : i < j => SortKeyBefore(q.sort, out[i], out[j])
     /\ q.limit # Null => Len(out) <= q.offset + q.limit + 1
     /\ k <= Len(Streams) => out = <<>>

PageHolds(p) ==
  IF p.q.sort = "none" THEN IsPageOf(p, FlattenSeq(CountedLists(p.as_of, p.counts)))
  ELSE Steady(p.as_of) => IsPageOf(p, InAll(p.as_of, p.q.sort))

PageOf(r) == [rows |-> r.page, q |-> r.q, as_of |-> r.as_of, total |-> r.total,
              counts |-> r.counts, more |-> r.more]

Sound(r) ==
  /\ CountsHold(r.as_of, r.counts, r.total)
  /\ r.phase = "count" => r.out = <<>> /\ r.left = {} /\ r.skipped = r.q.offset
  /\ r.phase = "fetch" =>
       IF r.q.sort = "none" THEN Skipping(r.q, CountedLists(r.as_of, r.counts), r.k, r.skipped, r.out)
       ELSE Steady(r.as_of) => Merging(r.q, r.as_of, r.k, r.out, r.left)
  /\ r.phase = "probe" => PageHolds(PageOf(r))

SoundPage(p) ==
  /\ CountsHold(p.as_of, p.counts, p.total) /\ p.q \in Queries
  /\ p.counts \in Seq(Nat) /\ Len(p.counts) = Len(Streams)
  /\ PageHolds(p)

QueryInv == req.kind = "query" => \A r \in {req} : Sound(r)
ResultInv == result.kind = "page" => \A p \in {result} : SoundPage(p)

\* The window of a list, its length and its rows.
LEMMA CutIs ==
  ASSUME NEW S, NEW list \in Seq(S), NEW o \in Nat, NEW w \in Nat \cup {Null}
  PROVE  /\ Cut(list, o, w) \in Seq(S) /\ Len(Cut(list, o, w)) \in Nat
         /\ Len(Cut(list, o, w)) = LET n == IF Len(list) > o THEN Len(list) - o ELSE 0
                                   IN IF w = Null THEN n ELSE IF n > w THEN w ELSE n
         /\ \A i \in 1..Len(Cut(list, o, w)) : Cut(list, o, w)[i] = list[i + o]
<1> DEFINE rest == SubSeq(list, o + 1, Len(list))
           n == IF Len(list) > o THEN Len(list) - o ELSE 0
<1>0. o + 1 \in Nat \ {0} /\ Len(list) \in Nat /\ Len(list) <= Len(list)
  OBVIOUS
<1>1. /\ rest \in Seq(S)
      /\ Len(rest) = IF o + 1 <= Len(list) THEN Len(list) - (o + 1) + 1 ELSE 0
      /\ \A i \in 1..(Len(list) - (o + 1) + 1) : rest[i] = list[i + (o + 1) - 1]
  BY <1>0, PartType
<1>2. Len(rest) = n /\ n \in Nat /\ \A i \in 1..n : rest[i] = list[i + o]
  <2> HIDE DEF rest
  <2>1. Len(rest) = n /\ n \in Nat
    BY <1>0, <1>1
  <2>2. \A i \in 1..n : i \in 1..(Len(list) - (o + 1) + 1) /\ i + (o + 1) - 1 = i + o
    BY <1>0
  <2> QED BY <1>1, <2>1, <2>2
<1>3. Cut(list, o, w) = IF w = Null THEN rest ELSE FirstOf(rest, w)
  BY DEF Cut
<1> HIDE DEF rest, n
<1>4. CASE w = Null
  BY <1>1, <1>2, <1>3, <1>4 DEF n
<1>5. CASE w # Null
  <2>1. w \in Nat /\ w \in Int
    BY <1>5
  <2>2. /\ FirstOf(rest, w) \in Seq(S)
        /\ Len(FirstOf(rest, w)) = IF w < 0 THEN 0 ELSE IF Len(rest) > w THEN w ELSE Len(rest)
        /\ \A i \in DOMAIN FirstOf(rest, w) : FirstOf(rest, w)[i] = rest[i]
    BY <1>1, <2>1, FirstOfIs
  <2> DEFINE c == FirstOf(rest, w)
  <2> HIDE DEF c
  <2>3. c \in Seq(S) /\ Len(c) = (IF n > w THEN w ELSE n) /\ Len(c) \in Nat /\ DOMAIN c = 1..Len(c)
    BY <1>2, <2>1, <2>2 DEF c
  <2>4. \A i \in 1..Len(c) : i \in 1..n /\ c[i] = rest[i]
    <3>1. \A i \in 1..Len(c) : i \in 1..n
      BY <1>2, <2>1, <2>3
    <3>2. \A i \in DOMAIN c : c[i] = rest[i]
      BY <2>2 DEF c
    <3> QED BY <2>3, <3>1, <3>2
  <2>5. Cut(list, o, w) = c
    BY <1>3, <1>5 DEF c
  <2> QED BY <1>2, <1>5, <2>3, <2>4, <2>5 DEF n
<1> QED BY <1>4, <1>5

IsCut(S, list, o, w, c) ==
  /\ c \in Seq(S) /\ Len(c) \in Nat
  /\ Len(c) = LET n == IF Len(list) > o THEN Len(list) - o ELSE 0
              IN IF w = Null THEN n ELSE IF n > w THEN w ELSE n
  /\ \A i \in 1..Len(c) : c[i] = list[i + o]

\* The same of the window as a whole.
LEMMA CutHas ==
  ASSUME NEW S, NEW list \in Seq(S), NEW o \in Nat, NEW w \in Nat \cup {Null}
  PROVE  IsCut(S, list, o, w, Cut(list, o, w))
BY CutIs DEF IsCut

CutArgs(S, done, all, count, o, w) ==
  /\ done \in Seq(S) /\ all \in Seq(S) /\ count \in Nat /\ count <= Len(all)
  /\ o \in Nat /\ w \in Nat \cup {Null}

\* The window of a list goes on with what one more list adds to it.
LEMMA CutStep ==
  ASSUME NEW S, NEW done, NEW all, NEW count, NEW o, NEW w, CutArgs(S, done, all, count, o, w)
  PROVE  LET l == FirstOf(all, count)
             out == Cut(done, o, w)
             skipped == IF o > Len(done) THEN o - Len(done) ELSE 0
             left == count - skipped
             take == IF w = Null THEN left ELSE IF left < w - Len(out) THEN left ELSE w - Len(out)
             part == IF skipped >= count THEN <<>> ELSE FirstOf(SubSeq(all, skipped + 1, Len(all)), take)
         IN /\ Cut(done \o l, o, w) = out \o part
            /\ l \in Seq(S) /\ Len(l) = count
            /\ (IF skipped >= count THEN skipped - count ELSE 0)
                 = IF o > Len(done \o l) THEN o - Len(done \o l) ELSE 0
<1>0. /\ done \in Seq(S) /\ all \in Seq(S) /\ count \in Nat /\ count <= Len(all)
      /\ o \in Nat /\ w \in Nat \cup {Null}
  BY DEF CutArgs
<1> USE <1>0
<1> DEFINE l == FirstOf(all, count)
           out == Cut(done, o, w)
           skipped == IF o > Len(done) THEN o - Len(done) ELSE 0
           left == count - skipped
           take == IF w = Null THEN left ELSE IF left < w - Len(out) THEN left ELSE w - Len(out)
           rest == SubSeq(all, skipped + 1, Len(all))
           part == IF skipped >= count THEN <<>> ELSE FirstOf(rest, take)
           d == Len(done)
           m == Len(out)
           new == Cut(done \o l, o, w)
<1>1. l \in Seq(S) /\ Len(l) = count /\ \A i \in 1..count : l[i] = all[i]
  <2>1. count \in Int /\ ~(count < 0) /\ Len(all) \in Nat
    OBVIOUS
  <2>2. /\ l \in Seq(S) /\ Len(l) = IF count < 0 THEN 0 ELSE IF Len(all) > count THEN count ELSE Len(all)
        /\ \A i \in DOMAIN l : l[i] = all[i]
    BY <2>1, FirstOfIs
  <2> HIDE DEF l
  <2> QED BY <2>1, <2>2
<1> HIDE DEF l
<1>2. /\ done \o l \in Seq(S) /\ Len(done \o l) = d + count /\ d \in Nat
      /\ \A i \in 1..d : (done \o l)[i] = done[i]
      /\ \A i \in 1..count : (done \o l)[d + i] = l[i]
  BY <1>1
<1>3. /\ out \in Seq(S) /\ m \in Nat
      /\ m = LET n == IF d > o THEN d - o ELSE 0 IN IF w = Null THEN n ELSE IF n > w THEN w ELSE n
      /\ \A i \in 1..m : out[i] = done[i + o]
  BY CutIs
<1>4. /\ new \in Seq(S) /\ Len(new) \in Nat
      /\ Len(new) = LET n == IF d + count > o THEN d + count - o ELSE 0
                    IN IF w = Null THEN n ELSE IF n > w THEN w ELSE n
      /\ \A i \in 1..Len(new) : new[i] = (done \o l)[i + o]
  <2> DEFINE dl == done \o l
  <2> HIDE DEF dl
  <2>1. dl \in Seq(S) /\ Len(dl) = d + count
    BY <1>2 DEF dl
  <2>2. /\ Cut(dl, o, w) \in Seq(S) /\ Len(Cut(dl, o, w)) \in Nat
        /\ Len(Cut(dl, o, w)) = LET n == IF Len(dl) > o THEN Len(dl) - o ELSE 0
                                   IN IF w = Null THEN n ELSE IF n > w THEN w ELSE n
        /\ \A i \in 1..Len(Cut(dl, o, w)) : Cut(dl, o, w)[i] = dl[i + o]
    BY <2>1, CutIs
  <2> QED BY <2>1, <2>2 DEF dl
<1> HIDE DEF out, new
<1>5. skipped \in Nat /\ Len(all) \in Nat /\ Null \notin Int /\ d \in Nat
  BY <1>2, FederationAssumption
<1>12. (IF skipped >= count THEN skipped - count ELSE 0)
         = IF o > Len(done \o l) THEN o - Len(done \o l) ELSE 0
  BY <1>2, <1>5
<1>51. (o > d => skipped = o - d) /\ (o <= d => skipped = 0)
  BY <1>5
<1>52. /\ w = Null => (d > o => m = d - o) /\ (d <= o => m = 0)
       /\ w # Null => /\ w \in Nat
                      /\ d > o => (d - o > w => m = w) /\ (d - o <= w => m = d - o)
                      /\ d <= o => m = 0
  BY <1>3, <1>5
<1>53. /\ w = Null => take = count - skipped
       /\ w # Null => \/ take = count - skipped /\ take <= w - m
                      \/ take = w - m /\ take <= count - skipped
  <2> HIDE DEF skipped
  <2>0. m \in Nat
    BY <1>3
  <2>1. CASE w = Null
    BY <2>1
  <2>2. CASE w # Null
    <3>1. w \in Nat
      BY <2>2
    <3>2. take = IF left < w - m THEN left ELSE w - m
      BY <2>2
    <3>3. left \in Int /\ w - m \in Int /\ left = count - skipped
      BY <1>5, <2>0, <3>1
    <3> HIDE DEF left, take, m
    <3>4. \/ take = left /\ take <= w - m
          \/ take = w - m /\ take <= left
      BY <3>2, <3>3
    <3> QED BY <2>2, <3>3, <3>4
  <2> QED BY <2>1, <2>2
<1>54. /\ w = Null => (d + count > o => Len(new) = d + count - o) /\ (d + count <= o => Len(new) = 0)
       /\ w # Null => /\ d + count > o => (d + count - o > w => Len(new) = w) /\ (d + count - o <= w => Len(new) = d + count - o)
                      /\ d + count <= o => Len(new) = 0
  BY <1>4, <1>5
<1>55. rest = SubSeq(all, skipped + 1, Len(all)) /\ (skipped >= count => part = <<>>)
       /\ (skipped < count => part = FirstOf(rest, take))
  <2> HIDE DEF take
  <2>1. skipped < count => ~(skipped >= count)
    BY <1>5
  <2> HIDE DEF skipped
  <2> QED BY <2>1
<1> HIDE DEF skipped, take, rest, part
<1>6. skipped < count => /\ take \in Int
                         /\ part \in Seq(S) /\ Len(part) = (IF take < 0 THEN 0 ELSE take)
                         /\ \A i \in 1..Len(part) : part[i] = all[i + skipped]
  <2> HAVE skipped < count
  <2>1. take \in Int /\ take <= count - skipped
    BY <1>3, <1>5, <1>52, <1>53
  <2>2. skipped + 1 \in Nat \ {0} /\ Len(all) \in Int /\ Len(all) <= Len(all)
    BY <1>5
  <2>3. /\ rest \in Seq(S) /\ Len(rest) = IF skipped + 1 <= Len(all) THEN Len(all) - (skipped + 1) + 1 ELSE 0
        /\ \A i \in 1..(Len(all) - (skipped + 1) + 1) : rest[i] = all[i + (skipped + 1) - 1]
    BY <1>55, <2>2, PartType
  <2>4. Len(rest) = Len(all) - skipped /\ \A i \in 1..Len(rest) : rest[i] = all[i + skipped]
    <3>1. Len(rest) = Len(all) - skipped
      BY <1>5, <2>3
    <3>2. \A i \in 1..Len(rest) : i \in 1..(Len(all) - (skipped + 1) + 1) /\ i + (skipped + 1) - 1 = i + skipped
      BY <1>5, <3>1
    <3> QED BY <2>3, <3>1, <3>2
  <2>5. part = FirstOf(rest, take)
    BY <1>55
  <2>6. /\ part \in Seq(S) /\ Len(part) = IF take < 0 THEN 0 ELSE IF Len(rest) > take THEN take ELSE Len(rest)
        /\ \A i \in DOMAIN part : part[i] = rest[i]
    BY <2>1, <2>3, <2>5, FirstOfIs
  <2>7. Len(part) = (IF take < 0 THEN 0 ELSE take)
    BY <1>5, <2>1, <2>4, <2>6
  <2>8. DOMAIN part = 1..Len(part) /\ \A i \in 1..Len(part) : i \in 1..Len(rest)
    BY <1>5, <2>1, <2>4, <2>6, <2>7
  <2> QED BY <2>1, <2>4, <2>6, <2>7, <2>8
<1>7. skipped >= count => part = <<>> /\ part \in Seq(S) /\ Len(part) = 0
  BY <1>55
<1>8. (skipped < count \/ skipped >= count) /\ part \in Seq(S) /\ Len(part) \in Nat
  <2>1. skipped < count \/ skipped >= count
    BY <1>5
  <2>2. part \in Seq(S)
    BY <1>6, <1>7, <2>1
  <2> QED BY <2>1, <2>2
<1>9. Len(new) = m + Len(part)
  <2>1. CASE skipped >= count
    BY <1>3, <1>5, <1>51, <1>52, <1>54, <1>7, <2>1
  <2>2. CASE skipped < count
    <3>1. take \in Int /\ Len(part) = (IF take < 0 THEN 0 ELSE take)
      BY <1>6, <2>2
    <3>2. CASE w = Null
      BY <1>3, <1>5, <1>51, <1>52, <1>53, <1>54, <2>2, <3>1, <3>2
    <3>3. CASE w # Null
      <4>1. w \in Nat /\ m \in Nat /\ Len(new) \in Nat /\ Len(part) \in Nat
        BY <1>3, <1>4, <1>8, <3>3
      <4>2. CASE o > d
        BY <1>5, <1>51, <1>52, <1>53, <1>54, <2>2, <3>1, <3>3, <4>1, <4>2
      <4>3. CASE o <= d
        <5>1. skipped = 0 /\ d + count > o /\ d - o \in Nat /\ (d - o > w => m = w) /\ (d - o <= w => m = d - o)
          <6>1. CASE o < d
            BY <1>5, <1>51, <1>52, <2>2, <3>3, <4>1, <6>1
          <6>2. CASE o = d
            BY <1>5, <1>51, <1>52, <2>2, <3>3, <4>1, <6>2
          <6> QED BY <1>5, <4>3, <6>1, <6>2
        <5>2. (d + count - o > w => Len(new) = w) /\ (d + count - o <= w => Len(new) = d + count - o)
          BY <1>54, <3>3, <5>1
        <5>3. (take = count /\ take <= w - m) \/ (take = w - m /\ take <= count)
          BY <1>53, <3>3, <5>1
        <5>4. m <= w /\ Len(part) = take
          BY <1>5, <3>1, <4>1, <5>1, <5>3
        <5>5. CASE d - o > w
          BY <1>5, <4>1, <5>1, <5>2, <5>3, <5>4, <5>5
        <5>6. CASE d - o <= w
          <6>1. m = d - o
            BY <5>1, <5>6
          <6>2. CASE d + count - o > w
            BY <1>5, <4>1, <5>2, <5>3, <5>4, <6>1, <6>2
          <6>3. CASE d + count - o <= w
            BY <1>5, <4>1, <5>2, <5>3, <5>4, <6>1, <6>3
          <6> QED BY <1>5, <4>1, <6>2, <6>3
        <5> QED BY <1>5, <4>1, <5>5, <5>6
      <4> QED BY <1>5, <4>2, <4>3
    <3> QED BY <3>2, <3>3
  <2> QED BY <1>8, <2>1, <2>2
<1>10. \A i \in 1..Len(new) : new[i] = (out \o part)[i]
  <2> TAKE i \in 1..Len(new)
  <2>0. i \in Nat /\ i >= 1 /\ Len(new) \in Nat /\ i <= Len(new)
    BY <1>4
  <2>1. CASE i <= m
    <3>1. (out \o part)[i] = out[i] /\ out[i] = done[i + o]
      BY <1>3, <1>8, <2>0, <2>1
    <3>2. i + o \in 1..d
      BY <1>3, <1>5, <1>52, <2>0, <2>1
    <3> QED BY <1>2, <1>4, <3>1, <3>2
  <2>2. CASE i > m
    <3>0. skipped < count
      BY <1>3, <1>7, <1>8, <1>9, <2>0, <2>2
    <3>1. i - m \in 1..Len(part)
      BY <1>3, <1>8, <1>9, <2>0, <2>2
    <3>10. (out \o part)[i] = part[i - m]
      <4>1. out \in Seq(S) /\ part \in Seq(S) /\ i \in Nat /\ i > Len(out) /\ i <= Len(out) + Len(part)
        BY <1>3, <1>8, <1>9, <2>0, <2>2
      <4>2. (out \o part)[i] = part[i - Len(out)]
        BY ONLY <4>1
      <4> QED BY <4>2
    <3>2. part[i - m] = all[(i - m) + skipped]
      BY <1>6, <3>0, <3>1
    <3>3. (i - m) + skipped \in 1..count /\ i + o = d + ((i - m) + skipped)
      <4>1. take \in Int /\ Len(part) = (IF take < 0 THEN 0 ELSE take)
        BY <1>6, <3>0
      <4>2. CASE w = Null
        BY <1>3, <1>5, <1>51, <1>52, <1>53, <1>8, <2>0, <2>2, <3>0, <3>1, <4>1, <4>2
      <4>3. CASE w # Null
        <5>1. w \in Nat /\ m \in Nat /\ Len(part) \in Nat /\ i - m \in Nat /\ i - m <= Len(part)
          BY <1>3, <1>8, <2>0, <2>2, <3>1, <4>3
        <5>4. PICK a \in Nat : a = i - m /\ 1 <= a /\ a <= Len(part)
          <6>1. i - m \in Nat /\ 1 <= i - m /\ i - m <= Len(part)
            BY <2>0, <2>2, <5>1
          <6> QED BY <6>1
        <5>5. a <= take /\ 1 <= take
          BY <4>1, <5>1, <5>4
        <5>6. take <= w - m /\ take <= count - skipped
          BY <1>5, <1>53, <4>1, <4>3, <5>1
        <5>7. m < w /\ a + skipped <= count
          BY <1>5, <4>1, <5>1, <5>4, <5>5, <5>6
        <5>8. a + skipped \in 1..count
          BY <1>5, <5>4, <5>7
        <5>2. CASE o > d
          <6>1. m = 0 /\ skipped = o - d
            BY <1>5, <1>51, <1>52, <4>3, <5>2
          <6> QED BY <1>5, <2>0, <5>1, <5>2, <5>4, <5>8, <6>1
        <5>3. CASE o <= d
          <6>1. m = d - o /\ skipped = 0
            <7>1. CASE o < d
              BY <1>5, <1>51, <1>52, <4>3, <5>1, <5>7, <7>1
            <7>2. CASE o = d
              BY <1>5, <1>51, <1>52, <4>3, <5>1, <7>2
            <7> QED BY <1>5, <5>3, <7>1, <7>2
          <6> QED BY <1>5, <2>0, <5>1, <5>3, <5>4, <5>8, <6>1
        <5> QED BY <1>5, <5>2, <5>3
      <4> QED BY <4>2, <4>3
    <3>4. new[i] = (done \o l)[d + ((i - m) + skipped)]
      BY <1>4, <3>3
    <3>5. PICK j \in 1..count : j = (i - m) + skipped
      BY <3>3
    <3>6. new[i] = l[j] /\ l[j] = all[j]
      BY <1>1, <1>2, <3>4, <3>5
    <3>7. part[i - m] = all[j]
      BY <3>2, <3>5
    <3> QED BY <3>10, <3>6, <3>7
  <2>3. i <= m \/ i > m
    BY <1>3, <2>0
  <2> QED BY <2>1, <2>2, <2>3
<1>11. new = out \o part
  <2> DEFINE op == out \o part
  <2>1. op \in Seq(S)
    BY <1>3, <1>8
  <2>2. Len(op) = m + Len(part)
    <3>1. out \in Seq(S) /\ part \in Seq(S)
      BY <1>3, <1>8
    <3> HIDE DEF op
    <3>2. Len(out \o part) = Len(out) + Len(part)
      BY <3>1
    <3> QED BY <3>2 DEF op
  <2>3. \A i \in 1..Len(new) : new[i] = op[i]
    BY <1>10
  <2> HIDE DEF op
  <2>4. new = op
    BY <1>4, <1>9, <2>1, <2>2, <2>3, SameSeq
  <2> QED BY <2>4 DEF op
<1> QED BY <1>1, <1>11, <1>12 DEF l, out, new, part, skipped, take, rest

\* A query with a limit wants one row more than the limit.
LEMMA QueryType ==
  ASSUME NEW q \in Queries
  PROVE  /\ q.offset \in Nat /\ q.limit \in Nat \cup {Null} /\ Null \notin Int
         /\ WantedOf(q) \in Nat \cup {Null}
         /\ q.limit = Null => WantedOf(q) = Null
         /\ q.limit # Null => q.limit \in Nat /\ WantedOf(q) = q.limit + 1 /\ WantedOf(q) # Null
<1>1. q.offset \in Nat /\ q.limit \in Nat \cup {Null} /\ Null \notin Int
  BY FederationAssumption
<1> QED BY <1>1 DEF WantedOf

\* A page is the window of the list, and more is left if the window is longer.
LEMMA PageOfCut ==
  ASSUME NEW S, NEW list \in Seq(S), NEW q \in Queries, NEW p, NEW merged,
         merged = Cut(list, q.offset, WantedOf(q)), p.q = q, p.total = Len(list),
         p.rows = IF q.limit = Null THEN merged ELSE FirstOf(merged, q.limit),
         p.more = (Len(merged) > Len(p.rows))
  PROVE  IsPageOf(p, list)
<1> DEFINE o == q.offset
           rest == SubSeq(list, o + 1, Len(list))
           n == IF Len(list) > o THEN Len(list) - o ELSE 0
<1>1. /\ o \in Nat /\ q.limit \in Nat \cup {Null} /\ Null \notin Int
      /\ WantedOf(q) \in Nat \cup {Null}
      /\ q.limit = Null => WantedOf(q) = Null
      /\ q.limit # Null => q.limit \in Nat /\ WantedOf(q) = q.limit + 1 /\ WantedOf(q) # Null
  BY QueryType
<1>2. rest = Cut(list, o, Null)
  BY DEF Cut
<1> HIDE DEF o
<1>3. /\ rest \in Seq(S) /\ Len(rest) \in Nat /\ Len(rest) = n
      /\ \A i \in 1..Len(rest) : rest[i] = list[i + o]
  <2>1. Null \in Nat \cup {Null}
    OBVIOUS
  <2> DEFINE c == Cut(list, o, Null)
  <2>2. /\ c \in Seq(S) /\ Len(c) \in Nat /\ Len(c) = n
        /\ \A i \in 1..Len(c) : c[i] = list[i + o]
    <3>1. IsCut(S, list, o, Null, c)
      BY <1>1, <2>1, CutHas
    <3> HIDE DEF c
    <3> QED BY ONLY <3>1 DEF IsCut, n
  <2> QED BY <1>2, <2>2
<1>4. merged \in Seq(S) /\ Len(merged) \in Nat
      /\ Len(merged) = (IF WantedOf(q) = Null THEN n ELSE IF n > WantedOf(q) THEN WantedOf(q) ELSE n)
      /\ \A i \in 1..Len(merged) : merged[i] = list[i + o]
  <2> DEFINE w == WantedOf(q)
             c == Cut(list, o, w)
  <2>1. w \in Nat \cup {Null} /\ merged = c
    BY <1>1 DEF o
  <2> HIDE DEF w
  <2>2. /\ c \in Seq(S) /\ Len(c) \in Nat
        /\ Len(c) = IF w = Null THEN n ELSE IF n > w THEN w ELSE n
        /\ \A i \in 1..Len(c) : c[i] = list[i + o]
    <3>1. IsCut(S, list, o, w, c)
      BY <1>1, <2>1, CutHas
    <3> HIDE DEF c
    <3> QED BY ONLY <3>1 DEF IsCut, n
  <2> QED BY <2>1, <2>2 DEF w
<1> HIDE DEF rest, n
<1>5. CASE q.limit = Null
  <2>1. merged = rest
    <3>1. merged \in Seq(S) /\ rest \in Seq(S) /\ Len(merged) = Len(rest)
      BY <1>1, <1>3, <1>4, <1>5
    <3>2. \A i \in 1..Len(merged) : merged[i] = rest[i]
      BY <1>3, <1>4, <3>1
    <3> QED BY ONLY <3>1, <3>2, SameSeq
  <2>2. p.rows = rest
    BY <1>5, <2>1
  <2>3. p.more = FALSE
    <3>1. Len(merged) = Len(p.rows)
      BY <2>1, <2>2
    <3>2. (Len(merged) > Len(p.rows)) = FALSE
      BY <1>4, <3>1
    <3>3. p.more = (Len(merged) > Len(p.rows))
      OBVIOUS
    <3> QED BY <3>2, <3>3, Zenon
  <2> QED BY <1>5, <2>2, <2>3 DEF IsPageOf, rest, o
<1>6. CASE q.limit # Null
  <2> DEFINE m == q.limit
             u == FirstOf(merged, m)
             v == FirstOf(rest, m)
  <2>1. m \in Nat /\ m \in Int /\ ~(m < 0) /\ Len(merged) = (IF n > m + 1 THEN m + 1 ELSE n) /\ Len(rest) = n
    BY <1>1, <1>3, <1>4, <1>6
  <2> HIDE DEF m
  <2>2. /\ u \in Seq(S) /\ Len(u) = (IF Len(merged) > m THEN m ELSE Len(merged))
        /\ \A i \in DOMAIN u : u[i] = merged[i]
    BY <1>4, <2>1, FirstOfIs
  <2>3. /\ v \in Seq(S) /\ Len(v) = (IF Len(rest) > m THEN m ELSE Len(rest))
        /\ \A i \in DOMAIN v : v[i] = rest[i]
    BY <1>3, <2>1, FirstOfIs
  <2> HIDE DEF u, v
  <2>4. Len(u) = Len(v) /\ Len(u) \in Nat
    <3>1. n \in Nat
      BY <1>3
    <3>2. CASE n > m
      <4>1. Len(merged) > m /\ Len(rest) > m
        BY <1>3, <2>1, <3>1, <3>2
      <4> QED BY <2>1, <2>2, <2>3, <4>1
    <3>3. CASE ~(n > m)
      <4>1. Len(merged) = n /\ Len(rest) = n
        BY <2>1, <3>1, <3>3
      <4> QED BY <2>1, <2>2, <2>3, <3>1, <3>3, <4>1
    <3> QED BY <3>2, <3>3
  <2>5. \A i \in 1..Len(u) : u[i] = v[i]
    <3> TAKE i \in 1..Len(u)
    <3>1. i \in DOMAIN u /\ i \in DOMAIN v
      BY <2>2, <2>3, <2>4
    <3>2. i \in 1..Len(merged) /\ i \in 1..Len(rest)
      BY <1>3, <1>4, <2>1, <2>2, <2>3, <2>4
    <3>3. u[i] = merged[i] /\ v[i] = rest[i]
      BY <2>2, <2>3, <3>1
    <3>4. merged[i] = list[i + o] /\ rest[i] = list[i + o]
      BY <1>3, <1>4, <3>2
    <3> QED BY <3>3, <3>4
  <2>6. u = v
    BY <2>2, <2>3, <2>4, <2>5, SameSeq
  <2>7. p.rows = v
    BY <1>6, <2>6 DEF u, m
  <2>8. (Len(merged) > Len(u)) <=> (Len(rest) > m)
    BY <1>3, <1>4, <2>1, <2>2
  <2>9. p.more = (Len(rest) > m)
    <3>1. p.more = (Len(merged) > Len(u))
      BY <2>6, <2>7
    <3> QED BY <2>8, <3>1
  <2>10. IsPageOf(p, list) <=> /\ p.total = Len(list)
                             /\ p.rows = v
                             /\ p.more = (m # Null /\ Len(rest) > m)
    BY <1>6 DEF IsPageOf, rest, o, v, m
  <2> QED BY <1>6, <2>7, <2>9, <2>10 DEF m
<1> QED BY <1>5, <1>6

\* The beginning of a list, as long as the window needs, has the same window.
LEMMA CutOfFirst ==
  ASSUME NEW S, NEW list \in Seq(S), NEW out \in Seq(S), NEW q \in Queries,
         q.limit = Null => Len(out) = Len(list),
         q.limit # Null =>
           Len(out) = LET n == q.offset + q.limit + 1 IN IF Len(list) > n THEN n ELSE Len(list),
         \A i \in 1..Len(out) : out[i] = list[i]
  PROVE  SubSeq(out, q.offset + 1, Len(out)) = Cut(list, q.offset, WantedOf(q))
<1> DEFINE o == q.offset
           w == WantedOf(q)
           a == Cut(out, o, Null)
           b == Cut(list, o, w)
<1>1. /\ o \in Nat /\ q.limit \in Nat \cup {Null} /\ Null \notin Int /\ w \in Nat \cup {Null}
      /\ q.limit = Null => w = Null
      /\ q.limit # Null => q.limit \in Nat /\ w = q.limit + 1 /\ w # Null
  BY QueryType
<1>2. SubSeq(out, o + 1, Len(out)) = a
  BY DEF Cut
<1>3. Null \in Nat \cup {Null} /\ Len(out) \in Nat /\ Len(list) \in Nat
  OBVIOUS
<1> HIDE DEF o, w
<1>4. /\ a \in Seq(S) /\ Len(a) \in Nat /\ Len(a) = (IF Len(out) > o THEN Len(out) - o ELSE 0)
      /\ \A i \in 1..Len(a) : a[i] = out[i + o]
  <2> DEFINE c == Cut(out, o, Null)
  <2>1. Null \in Nat \cup {Null}
    OBVIOUS
  <2>2. /\ c \in Seq(S) /\ Len(c) \in Nat /\ Len(c) = (IF Len(out) > o THEN Len(out) - o ELSE 0)
        /\ \A i \in 1..Len(c) : c[i] = out[i + o]
    <3>1. IsCut(S, out, o, Null, c)
      BY <1>1, <2>1, CutHas
    <3> HIDE DEF c
    <3> QED BY ONLY <3>1 DEF IsCut
  <2> QED BY <2>2
<1>5. /\ b \in Seq(S) /\ Len(b) \in Nat
      /\ Len(b) = LET n == IF Len(list) > o THEN Len(list) - o ELSE 0
                  IN IF w = Null THEN n ELSE IF n > w THEN w ELSE n
      /\ \A i \in 1..Len(b) : b[i] = list[i + o]
  <2>1. IsCut(S, list, o, w, b)
    BY <1>1, CutHas
  <2> HIDE DEF b
  <2> QED BY ONLY <2>1 DEF IsCut
<1> HIDE DEF a, b
<1>6. Len(a) = Len(b)
  <2>1. CASE q.limit = Null
    BY <1>1, <1>3, <1>4, <1>5, <2>1
  <2>2. CASE q.limit # Null
    <3>1. q.limit \in Nat /\ Len(out) = IF Len(list) > o + q.limit + 1 THEN o + q.limit + 1 ELSE Len(list)
      BY <1>1, <2>2 DEF o
    <3>2. w \in Nat /\ w # Null /\ w = q.limit + 1
      BY <1>1, <2>2
    <3>3. Len(b) = LET n == IF Len(list) > o THEN Len(list) - o ELSE 0 IN IF n > w THEN w ELSE n
      BY <1>5, <3>2
    <3> QED BY <1>1, <1>3, <1>4, <3>1, <3>2, <3>3
  <2> QED BY <2>1, <2>2
<1>7. \A i \in 1..Len(a) : a[i] = b[i]
  <2> TAKE i \in 1..Len(a)
  <2>1. i + o \in 1..Len(out)
    BY <1>1, <1>3, <1>4
  <2>2. a[i] = out[i + o] /\ out[i + o] = list[i + o] /\ b[i] = list[i + o]
    BY <1>4, <1>5, <1>6, <2>1
  <2> QED BY <2>2
<1>8. a = b
  BY <1>4, <1>5, <1>6, <1>7, SameSeq
<1> QED BY <1>2, <1>8 DEF b, o, w

\* The sort of a federated query is a strict order of candidates.
LEMMA SortOrder ==
  ASSUME sources \in Federations, NEW sort, NEW S \in SUBSET Candidate
  PROVE  /\ StrictOrder(S, SortedAs(sort, S))
         /\ \A c, d \in S : <<c, d>> \in SortedAs(sort, S) <=> SortKeyBefore(sort, c, d)
<1>1. \A c, d \in S : <<c, d>> \in SortedAs(sort, S) <=> SortKeyBefore(sort, c, d)
  BY DEF SortedAs
<1> DEFINE V(c) == SortValue[c.id]
           P(c) == PrefixOf(c.stream)
           desc == sort = "desc"
           I(c, d) == P(c) < P(d) \/ (P(c) = P(d) /\ c.id < d.id)
           K(c, d) == \/ ValueBefore(desc, V(c), V(d))
                      \/ V(c) = V(d) /\ I(c, d)
                      \/ V(c) = V(d) /\ P(c) = P(d) /\ c.id = d.id /\ c.stream < d.stream
<1>2. \A c, d : SortKeyBefore(sort, c, d) <=> K(c, d)
  <2> TAKE c, d
  <2>1. IdBefore(PublicId(c.stream, c.id), PublicId(d.stream, d.id)) <=> I(c, d)
    BY DEF IdBefore, PublicId
  <2>2. PublicId(c.stream, c.id) = PublicId(d.stream, d.id) <=> P(c) = P(d) /\ c.id = d.id
    BY DEF PublicId
  <2>3. SortKeyBefore(sort, c, d) <=>
          \/ ValueBefore(desc, V(c), V(d))
          \/ V(c) = V(d) /\ IdBefore(PublicId(c.stream, c.id), PublicId(d.stream, d.id))
          \/ V(c) = V(d) /\ PublicId(c.stream, c.id) = PublicId(d.stream, d.id) /\ c.stream < d.stream
    BY Zenon DEF SortKeyBefore
  <2> HIDE DEF V, P, I, desc
  <2> QED BY <2>1, <2>2, <2>3
<1>3. \A c \in S : /\ V(c) \in Int \cup {Null} /\ P(c) \in Nat /\ c.id \in Nat /\ c.stream \in Nat
                   /\ c = [stream |-> c.stream, id |-> c.id]
  <2> TAKE c \in S
  <2>1. c \in Candidate
    OBVIOUS
  <2>2. c.id \in Ids /\ c.stream \in DOMAIN Streams /\ c = [stream |-> c.stream, id |-> c.id]
    BY <2>1 DEF Candidate
  <2>3. P(c) \in Nat /\ c.stream \in Nat
    BY <2>2, StreamsType
  <2>4. V(c) \in Int \cup {Null}
    BY <2>2, FederationAssumption
  <2> QED BY <2>2, <2>3, <2>4, IdsNat
<1>4. Null \notin Int
  BY FederationAssumption
<1>5. desc \in BOOLEAN
  OBVIOUS
<1> HIDE DEF V, P, desc
<1>6. \A u, v, w \in Int \cup {Null} :
        /\ ~ValueBefore(desc, u, u)
        /\ ValueBefore(desc, u, v) /\ ValueBefore(desc, v, w) => ValueBefore(desc, u, w)
        /\ u = v \/ ValueBefore(desc, u, v) \/ ValueBefore(desc, v, u)
  BY <1>4, <1>5 DEF ValueBefore
<1>7. \A c \in S : ~K(c, c)
  <2> TAKE c \in S
  <2>1. ~ValueBefore(desc, V(c), V(c))
    BY <1>3, <1>6
  <2>2. ~I(c, c) /\ ~(c.stream < c.stream)
    BY <1>3
  <2> QED BY <2>1, <2>2
<1>8. \A c, d, e \in S : K(c, d) /\ K(d, e) => K(c, e)
  <2> TAKE c, d, e \in S
  <2>1. ValueBefore(desc, V(c), V(d)) /\ ValueBefore(desc, V(d), V(e)) => ValueBefore(desc, V(c), V(e))
    BY <1>3, <1>6
  <2>2. /\ I(c, d) /\ I(d, e) => I(c, e)
        /\ P(c) = P(d) /\ c.id = d.id => (I(d, e) <=> I(c, e))
        /\ P(d) = P(e) /\ d.id = e.id => (I(c, d) <=> I(c, e))
    BY <1>3
  <2>3. c.stream < d.stream /\ d.stream < e.stream => c.stream < e.stream
    BY <1>3
  <2> HIDE DEF I
  <2> QED BY <2>1, <2>2, <2>3
<1>9. \A c, d \in S : c # d => K(c, d) \/ K(d, c)
  <2> TAKE c, d \in S
  <2> HAVE c # d
  <2>1. V(c) = V(d) \/ ValueBefore(desc, V(c), V(d)) \/ ValueBefore(desc, V(d), V(c))
    BY <1>3, <1>6
  <2>2. I(c, d) \/ I(d, c) \/ (P(c) = P(d) /\ c.id = d.id)
    BY <1>3
  <2>3. c.id = d.id => c.stream # d.stream
    BY <1>3
  <2>4. c.id = d.id => c.stream < d.stream \/ d.stream < c.stream
    BY <1>3, <2>3
  <2> HIDE DEF I
  <2> QED BY <2>1, <2>2, <2>4
<1> HIDE DEF K
<1> QED BY <1>1, <1>2, <1>7, <1>8, <1>9 DEF StrictOrder

Apart(S, n, ls) ==
  /\ n \in Nat /\ ls \in [1..n -> Seq(S)]
  /\ \A k \in 1..n : \A i, j \in DOMAIN ls[k] : ls[k][i] = ls[k][j] => i = j
  /\ \A k, l \in 1..n : \A i \in DOMAIN ls[k], j \in DOMAIN ls[l] : ls[k][i] = ls[l][j] => k = l

\* What flattened lists hold, when nothing is in two of them or twice in one.
LEMMA FlatSet ==
  ASSUME NEW S, NEW n, NEW ls, Apart(S, n, ls)
  PROVE  LET f == FlattenSeq(ls)
         IN /\ f \in Seq(S)
            /\ \A i, j \in DOMAIN f : f[i] = f[j] => i = j
            /\ \A i \in DOMAIN f : \E k \in 1..n : \E j \in DOMAIN ls[k] : ls[k][j] = f[i]
            /\ \A k \in 1..n : \A j \in DOMAIN ls[k] : \E i \in DOMAIN f : f[i] = ls[k][j]
<1> USE DEF Apart
<1> DEFINE F(m) == FlattenSeq(Firsts(ls, m))
           Ok(m) == /\ F(m) \in Seq(S)
                    /\ \A i, j \in DOMAIN F(m) : F(m)[i] = F(m)[j] => i = j
                    /\ \A i \in DOMAIN F(m) : \E k \in 1..m : \E j \in DOMAIN ls[k] : ls[k][j] = F(m)[i]
                    /\ \A k \in 1..m : \A j \in DOMAIN ls[k] : \E i \in DOMAIN F(m) : F(m)[i] = ls[k][j]
           T == {m \in Nat : m <= n => Ok(m)}
<1>1. 0 \in T
  <2>1. Firsts(ls, 0) = <<>>
    BY DEF Firsts
  <2>2. F(0) = <<>>
    BY <2>1 DEF FlattenSeq
  <2>3. <<>> \in Seq(S) /\ DOMAIN <<>> = {}
    OBVIOUS
  <2> HIDE DEF F
  <2>4. Ok(0)
    <3>1. F(0) \in Seq(S) /\ DOMAIN F(0) = {}
      BY <2>2, <2>3
    <3>2. 1..0 = {}
      OBVIOUS
    <3> QED BY <3>1, <3>2
  <2> HIDE DEF Ok
  <2> QED BY <2>4
<1>2. \A m \in Nat : m \in T => m + 1 \in T
  <2> TAKE m \in Nat
  <2> HAVE m \in T
  <2>0. m + 1 <= n => Ok(m)
    <3>1. m <= n => Ok(m)
      OBVIOUS
    <3> HIDE DEF Ok
    <3> QED BY <3>1
  <2> SUFFICES ASSUME m + 1 <= n PROVE Ok(m + 1)
    <3>1. m + 1 \in Nat
      OBVIOUS
    <3> HIDE DEF Ok
    <3> QED BY <3>1
  <2> DEFINE l == ls[m + 1]
             f == F(m)
             g == F(m + 1)
  <2>1. m + 1 \in 1..n /\ l \in Seq(S) /\ \A k \in 1..m : k \in 1..n /\ k # m + 1
    OBVIOUS
  <2>2. Firsts(ls, m) \in Seq(Seq(S)) /\ Firsts(ls, m + 1) = Append(Firsts(ls, m), l)
    <3>1. Firsts(ls, m) \in [1..m -> Seq(S)]
      BY <2>1 DEF Firsts
    <3>2. Firsts(ls, m + 1) = Append(Firsts(ls, m), l)
      BY <3>1 DEF Firsts
    <3> QED BY <3>1, <3>2
  <2>3. g = f \o l
    <3> DEFINE a == Firsts(ls, m)
    <3>1. a \in Seq(Seq(S))
      BY <2>2
    <3> HIDE DEF a
    <3>2. FlattenSeq(Append(a, l)) = FlattenSeq(a) \o l
      BY <2>1, <3>1, FlatAppend
    <3> QED BY <2>2, <3>2 DEF a
  <2>4. /\ f \in Seq(S)
        /\ \A i, j \in DOMAIN f : f[i] = f[j] => i = j
        /\ \A i \in DOMAIN f : \E k \in 1..m : \E j \in DOMAIN ls[k] : ls[k][j] = f[i]
        /\ \A k \in 1..m : \A j \in DOMAIN ls[k] : \E i \in DOMAIN f : f[i] = ls[k][j]
    BY <2>0
  <2> HIDE DEF l, F
  <2>50. f \in Seq(S) /\ l \in Seq(S) /\ g = f \o l
    BY <2>1, <2>3, <2>4
  <2> HIDE DEF f, g
  <2>5. /\ g \in Seq(S)
        /\ DOMAIN f = 1..Len(f) /\ Len(f) \in Nat /\ DOMAIN l = 1..Len(l) /\ Len(l) \in Nat
        /\ DOMAIN g = 1..(Len(f) + Len(l))
    BY <2>50
  <2>51. /\ \A i \in DOMAIN f : i \in DOMAIN g /\ g[i] = f[i]
         /\ \A i \in DOMAIN l : Len(f) + i \in DOMAIN g /\ g[Len(f) + i] = l[i]
    BY <2>5, <2>50
  <2>52. \A i \in DOMAIN g : \/ i \in DOMAIN f /\ g[i] = f[i]
                             \/ i - Len(f) \in DOMAIN l /\ g[i] = l[i - Len(f)] /\ i \in Nat
    BY <2>5, <2>50
  <2>6. \A i \in DOMAIN f, j \in DOMAIN l : f[i] # l[j]
    BY <2>1, <2>4 DEF l
  <2>7. \A i, j \in DOMAIN l : l[i] = l[j] => i = j
    BY <2>1 DEF l
  <2>8. \A i, j \in DOMAIN g : g[i] = g[j] => i = j
    <3> SUFFICES ASSUME NEW i \in DOMAIN g, NEW j \in DOMAIN g, g[i] = g[j] PROVE i = j
      OBVIOUS
    <3>1. CASE i \in DOMAIN f /\ g[i] = f[i]
      <4>1. j \in DOMAIN f /\ g[j] = f[j]
        <5> SUFFICES ASSUME j - Len(f) \in DOMAIN l, g[j] = l[j - Len(f)] PROVE FALSE
          BY <2>52
        <5> QED BY <2>6, <3>1
      <4> QED BY <2>4, <3>1, <4>1
    <3>2. CASE i - Len(f) \in DOMAIN l /\ g[i] = l[i - Len(f)] /\ i \in Nat
      <4>1. j - Len(f) \in DOMAIN l /\ g[j] = l[j - Len(f)] /\ j \in Nat
        <5> SUFFICES ASSUME j \in DOMAIN f, g[j] = f[j] PROVE FALSE
          BY <2>52
        <5>1. f[j] = l[i - Len(f)]
          BY <3>2
        <5> QED BY <2>6, <3>2, <5>1
      <4>2. i - Len(f) = j - Len(f)
        BY <2>7, <3>2, <4>1
      <4> QED BY <2>5, <3>2, <4>1, <4>2
    <3> QED BY <2>52, <3>1, <3>2
  <2>9. \A i \in DOMAIN g : \E k \in 1..(m + 1) : \E j \in DOMAIN ls[k] : ls[k][j] = g[i]
    <3> TAKE i \in DOMAIN g
    <3>1. CASE i \in DOMAIN f /\ g[i] = f[i]
      <4>1. PICK k \in 1..m : \E j \in DOMAIN ls[k] : ls[k][j] = f[i]
        BY <2>4, <3>1
      <4>2. k \in 1..(m + 1)
        OBVIOUS
      <4> QED BY <3>1, <4>1, <4>2
    <3>2. CASE i - Len(f) \in DOMAIN l /\ g[i] = l[i - Len(f)]
      <4>1. m + 1 \in 1..(m + 1)
        OBVIOUS
      <4> QED BY <3>2, <4>1 DEF l
    <3> QED BY <2>52, <3>1, <3>2
  <2>10. \A k \in 1..(m + 1) : \A j \in DOMAIN ls[k] : \E i \in DOMAIN g : g[i] = ls[k][j]
    <3> TAKE k \in 1..(m + 1)
    <3> TAKE j \in DOMAIN ls[k]
    <3>1. CASE k \in 1..m
      <4>1. PICK i \in DOMAIN f : f[i] = ls[k][j]
        BY <2>4, <3>1
      <4> QED BY <2>51, <4>1
    <3>2. CASE k = m + 1
      <4>1. j \in DOMAIN l /\ l[j] = ls[k][j]
        BY <3>2 DEF l
      <4> QED BY <2>51, <4>1
    <3> QED BY <3>1, <3>2
  <2> QED BY <2>5, <2>8, <2>9, <2>10 DEF g
<1> HIDE DEF T, Ok
<1>3. n \in T
  BY <1>1, <1>2, NatSet
<1>4. Ok(n)
  BY <1>3 DEF T
<1>5. Firsts(ls, n) = ls
  BY DEF Firsts
<1> QED BY <1>4, <1>5 DEF Ok

\* Bringing times to the unit of a source keeps their order.
LEMMA DivFacts ==
  \A a, b \in Int : \A R \in Nat \ {0} :
    /\ a \div R \in Int
    /\ a <= b => a \div R <= b \div R
    /\ \A q \in Int : a < q * R => a \div R < q
<1> TAKE a, b \in Int
<1> TAKE R \in Nat \ {0}
<1>1. \A x \in Int : /\ x \div R \in Int /\ x % R \in Int /\ x = (R * (x \div R)) + (x % R)
                     /\ 0 <= x % R /\ x % R < R
  OBVIOUS
<1>2. \A q \in Int : a < q * R => a \div R < q
  <2> TAKE q \in Int
  <2> HAVE a < q * R
  <2> DEFINE d == a \div R
             m == a % R
  <2>1. d \in Int /\ m \in Int /\ a = (R * d) + m /\ 0 <= m
    BY <1>1
  <2> HIDE DEF d, m
  <2> SUFFICES ASSUME q <= d PROVE FALSE
    BY <2>1
  <2>2. R * q <= R * d
    BY <2>1
  <2> QED BY <2>1, <2>2
<1>3. a <= b => a \div R <= b \div R
  <2> HAVE a <= b
  <2> DEFINE d == a \div R
             m == a % R
             e == b \div R
             n == b % R
  <2>1. d \in Int /\ m \in Int /\ a = (R * d) + m /\ 0 <= m
    BY <1>1
  <2>2. e \in Int /\ n \in Int /\ b = (R * e) + n /\ n < R
    BY <1>1
  <2> HIDE DEF d, m, e, n
  <2> SUFFICES ASSUME e + 1 <= d PROVE FALSE
    BY <2>1, <2>2
  <2>3. R * (e + 1) <= R * d
    BY <2>1, <2>2
  <2>4. R * (e + 1) = (R * e) + R
    BY <2>2
  <2>5. R * e \in Int /\ R * d \in Int
    BY <2>1, <2>2
  <2> QED BY <2>1, <2>2, <2>3, <2>4, <2>5
<1> QED BY <1>1, <1>2, <1>3

\* A stream lists its candidates in native order, each of them once.
LEMMA CandidatesAre ==
  ASSUME StoredType, NEW k \in DOMAIN Streams, NEW as_of
  PROVE  LET cs == Candidates(k, as_of)
             at == OrderBy(Served(k, as_of), Ascending(Served(k, as_of)))
         IN /\ cs \in Seq(Candidate) /\ Len(cs) = Cardinality(Served(k, as_of)) /\ Len(cs) \in Nat
            /\ at \in [1..Len(cs) -> Served(k, as_of)]
            /\ \A i \in 1..Len(cs) : cs[i] = CandidateAt(k, at[i]) /\ cs[i] \in Held(k, as_of)
            /\ \A i, j \in 1..Len(cs) : i < j => at[i] < at[j]
            /\ \A c \in Held(k, as_of) : \E i \in 1..Len(cs) : cs[i] = c
            /\ UniqueInv => \A i, j \in 1..Len(cs) : cs[i] = cs[j] => i = j
<1> DEFINE N == Served(k, as_of)
           at == OrderBy(N, Ascending(N))
           m == Cardinality(N)
           cs == Candidates(k, as_of)
<1>1. N \in SUBSET Int /\ IsFiniteSet(N) /\ N \subseteq DOMAIN stored[k]
  BY ServedRows
<1>2. /\ at \in [1..m -> N] /\ m \in Nat
      /\ \A i, j \in 1..m : <<at[i], at[j]>> \in Ascending(N) <=> i < j
      /\ \A x \in N : \E i \in 1..m : at[i] = x
  <2> HIDE DEF N
  <2>1. StrictOrder(N, Ascending(N))
    BY <1>1, AscendingOrder
  <2>2. PICK before : before = Ascending(N)
    OBVIOUS
  <2>3. /\ OrderBy(N, before) \in [1..m -> N] /\ m \in Nat
        /\ \A i, j \in 1..m : <<OrderBy(N, before)[i], OrderBy(N, before)[j]>> \in before <=> i < j
        /\ \A x \in N : \E i \in 1..m : OrderBy(N, before)[i] = x
    <3>1. IsFiniteSet(N) /\ StrictOrder(N, before)
      BY <1>1, <2>1, <2>2
    <3>2. IsListed(N, before, OrderBy(N, before))
      BY <3>1, Listed
    <3> QED BY ONLY <3>2 DEF IsListed
  <2> QED BY <2>2, <2>3
<1>3. cs = [n \in 1..m |-> CandidateAt(k, at[n])]
  <2>1. DOMAIN at = 1..m
    BY <1>2
  <2> QED BY <2>1 DEF Candidates
<1>4. cs \in Seq(Candidate) /\ Len(cs) = m
  BY <1>2, CandidatesType
<1>5. \A i \in N : CandidateAt(k, i) \in Held(k, as_of)
  BY DEF Held
<1>6. \A c \in Held(k, as_of) : \E i \in N : CandidateAt(k, i) = c
  BY DEF Held
<1>7. \A i, j \in 1..m : i < j => at[i] < at[j]
  BY <1>2 DEF Ascending
<1> HIDE DEF N, m, at, cs
<1>8. \A i \in 1..m : cs[i] = CandidateAt(k, at[i]) /\ cs[i] \in Held(k, as_of)
  BY <1>2, <1>3, <1>5
<1>9. \A c \in Held(k, as_of) : \E i \in 1..m : cs[i] = c
  BY <1>2, <1>6, <1>8
<1>10. UniqueInv => \A i, j \in 1..m : cs[i] = cs[j] => i = j
  <2> SUFFICES ASSUME UniqueInv, NEW i \in 1..m, NEW j \in 1..m, cs[i] = cs[j] PROVE i = j
    OBVIOUS
  <2>1. at[i] \in DOMAIN stored[k] /\ at[j] \in DOMAIN stored[k]
    BY <1>1, <1>2
  <2>2. stored[k][at[i]].id = stored[k][at[j]].id
    <3>1. CandidateAt(k, at[i]) = CandidateAt(k, at[j])
      BY <1>8
    <3> QED BY <3>1 DEF CandidateAt
  <2>3. at[i] = at[j]
    BY <2>1, <2>2 DEF UniqueInv
  <2>4. at[i] \in Int
    BY <1>1, <1>2
  <2>5. ~(i < j) /\ ~(j < i)
    BY <1>7, <2>3, <2>4
  <2> QED BY <1>2, <2>5
<1> QED BY <1>2, <1>4, <1>7, <1>8, <1>9, <1>10 DEF at, N, m, cs

\* A set of numbers that is the beginning of another is listed as its beginning.
LEMMA AscendingBeginning ==
  ASSUME NEW D \in SUBSET Int, NEW E \in SUBSET Int, IsFiniteSet(D), IsFiniteSet(E), D \subseteq E,
         \A i \in D, x \in E : x < i => x \in D
  PROVE  /\ Cardinality(D) \in Nat /\ Cardinality(D) <= Cardinality(E)
         /\ \A i \in 1..Cardinality(D) :
              OrderBy(D, Ascending(D))[i] \in D /\ OrderBy(D, Ascending(D))[i] = OrderBy(E, Ascending(E))[i]
<1> DEFINE n == Cardinality(D)
           at == OrderBy(D, Ascending(D))
<1>1. /\ at \in [1..n -> D] /\ n \in Nat
      /\ \A i, j \in 1..n : <<at[i], at[j]>> \in Ascending(D) <=> i < j
      /\ \A x \in D : \E i \in 1..n : at[i] = x
  BY Ordered, AscendingOrder
<1>2. StrictOrder(E, Ascending(E))
  BY AscendingOrder
<1> HIDE DEF n, at
<1>3. at \in [1..n -> E]
  BY <1>1
<1>4. \A i, j \in 1..n : i < j => <<at[i], at[j]>> \in Ascending(E)
  BY <1>1, <1>3 DEF Ascending
<1>5. \A i \in 1..n, x \in E : <<x, at[i]>> \in Ascending(E) => \E j \in 1..n : at[j] = x
  <2> TAKE i \in 1..n, x \in E
  <2> HAVE <<x, at[i]>> \in Ascending(E)
  <2>1. x < at[i] /\ at[i] \in D
    BY <1>1 DEF Ascending
  <2> QED BY <1>1, <2>1
<1>6. n <= Cardinality(E) /\ \A i \in 1..n : at[i] = OrderBy(E, Ascending(E))[i]
  <2>1. at \in Seq(E) /\ Len(at) = n
    BY <1>1, <1>3
  <2>2. Begins(at, E, Ascending(E))
    BY <1>4, <1>5, <2>1 DEF Begins
  <2>3. Len(at) <= Cardinality(E) /\ \A i \in 1..Len(at) : at[i] = OrderBy(E, Ascending(E))[i]
    BY <1>2, <2>2, SortedBeginning
  <2> QED BY <2>1, <2>3
<1> QED BY <1>1, <1>6 DEF n, at

\* Rows are added behind the rows a stream serves.
LEMMA CandidatesStay ==
  ASSUME StoredType, [FederationNext]_federationVars, NEW k \in DOMAIN Streams, NEW as_of
  PROVE  /\ Candidates(k, as_of) \in Seq(Candidate) /\ Candidates(k, as_of)' \in Seq(Candidate)
         /\ Len(Candidates(k, as_of)) <= Len(Candidates(k, as_of)')
         /\ \A i \in 1..Len(Candidates(k, as_of)) : Candidates(k, as_of)'[i] = Candidates(k, as_of)[i]
         /\ Served(k, as_of)' = Served(k, as_of) =>
              Candidates(k, as_of)' = Candidates(k, as_of) /\ Held(k, as_of)' = Held(k, as_of)
<1>1. /\ StoredType' /\ sources' = sources
      /\ DOMAIN stored[k] \subseteq DOMAIN stored'[k]
      /\ \A i \in DOMAIN stored[k] : stored'[k][i] = stored[k][i]
  BY StoredStep
<1>2. /\ Streams' = Streams /\ Candidate' = Candidate /\ ResolutionOf(k)' = ResolutionOf(k)
      /\ k \in DOMAIN Streams'
  BY <1>1, SameStreams
<1>3. Served(k, as_of) \subseteq Served(k, as_of)'
  BY RowsStay
<1>4. /\ Served(k, as_of) \subseteq DOMAIN stored[k] /\ DOMAIN stored[k] = 1..Len(stored[k])
      /\ Len(stored[k]) \in Nat /\ IsFiniteSet(Served(k, as_of))
  BY ServedRows
<1>5. /\ Served(k, as_of)' \subseteq DOMAIN stored'[k] /\ DOMAIN stored'[k] = 1..Len(stored'[k])
      /\ Len(stored'[k]) \in Nat /\ IsFiniteSet(Served(k, as_of)')
  <2>1. stored' \in [DOMAIN Streams' -> Seq(FRow)]
    BY <1>1 DEF StoredType
  <2>2. stored'[k] \in Seq(FRow)
    BY <1>2, <2>1
  <2>3. DOMAIN stored'[k] = 1..Len(stored'[k]) /\ Len(stored'[k]) \in Nat
    BY <2>2
  <2>4. Served(k, as_of)' \subseteq DOMAIN stored'[k]
    BY DEF Served
  <2>5. IsFiniteSet(DOMAIN stored'[k])
    BY <2>3, FS_Interval
  <2>6. PICK E, M : E = Served(k, as_of)' /\ M = DOMAIN stored'[k]
    OBVIOUS
  <2>7. IsFiniteSet(E)
    BY <2>4, <2>5, <2>6, FS_Subset
  <2> QED BY <2>3, <2>4, <2>6, <2>7
<1>6. \A i \in Served(k, as_of), x \in Served(k, as_of)' : x < i => x \in Served(k, as_of)
  <2> TAKE i \in Served(k, as_of), x \in Served(k, as_of)'
  <2> HAVE x < i
  <2>1. x \in DOMAIN stored[k]
    BY <1>4, <1>5
  <2>2. stored'[k][x] = stored[k][x]
    BY <1>1, <2>1
  <2> QED BY <1>2, <2>1, <2>2 DEF Served
<1>7. PICK D, E : D = Served(k, as_of) /\ E = Served(k, as_of)'
  OBVIOUS
<1> DEFINE n == Cardinality(D)
           m == Cardinality(E)
           at == OrderBy(D, Ascending(D))
           to == OrderBy(E, Ascending(E))
<1>8. n \in Nat /\ n <= m /\ \A i \in 1..n : at[i] \in D /\ at[i] = to[i]
  <2>1. D \in SUBSET Int /\ E \in SUBSET Int /\ IsFiniteSet(D) /\ IsFiniteSet(E) /\ D \subseteq E
    BY <1>3, <1>4, <1>5, <1>7
  <2>2. \A i \in D, x \in E : x < i => x \in D
    BY <1>6, <1>7
  <2> QED BY <2>1, <2>2, AscendingBeginning
<1>9. PICK a, b : a = Candidates(k, as_of) /\ b = Candidates(k, as_of)'
  OBVIOUS
<1>10. a \in Seq(Candidate) /\ Len(a) = n /\ \A i \in 1..n : a[i] = CandidateAt(k, at[i])
  <2>1. /\ a \in Seq(Candidate) /\ Len(a) = Cardinality(Served(k, as_of))
        /\ \A i \in 1..Len(a) : a[i] = CandidateAt(k, OrderBy(Served(k, as_of), Ascending(Served(k, as_of)))[i])
    BY <1>9, CandidatesAre
  <2> QED BY <1>7, <2>1
<1>11. b \in Seq(Candidate) /\ Len(b) = m
       /\ \A i \in 1..m : b[i] = [stream |-> k, id |-> stored'[k][to[i]].id]
  <2>1. E \in SUBSET Int /\ IsFiniteSet(E)
    BY <1>5, <1>7
  <2>2. to \in [1..m -> E] /\ m \in Nat
    <3>1. StrictOrder(E, Ascending(E))
      BY <2>1, AscendingOrder
    <3> QED BY <2>1, <3>1, Ordered
  <2>3. b = [i \in DOMAIN to |-> [stream |-> k, id |-> stored'[k][to[i]].id]]
    BY <1>7, <1>9 DEF Candidates, CandidateAt
  <2>4. \A i \in E : stored'[k][i].id \in Ids
    <3>1. stored' \in [DOMAIN Streams' -> Seq(FRow)]
      BY <1>1 DEF StoredType
    <3>2. stored'[k] \in Seq(FRow)
      BY <1>2, <3>1
    <3>3. \A i \in DOMAIN stored'[k] : stored'[k][i] \in FRow
      BY <3>2
    <3> QED BY <1>5, <1>7, <3>3 DEF FRow
  <2> HIDE DEF to, m
  <2>5. \A i \in 1..m : [stream |-> k, id |-> stored'[k][to[i]].id] \in Candidate
    BY <2>2, <2>4 DEF Candidate
  <2>6. b \in [1..m -> Candidate]
    BY <2>2, <2>3, <2>5
  <2> QED BY <2>2, <2>3, <2>6
<1>12. \A i \in D : CandidateAt(k, i) = [stream |-> k, id |-> stored'[k][i].id]
  BY <1>1, <1>4, <1>7 DEF CandidateAt
<1> HIDE DEF n, m, at, to
<1>13. \A i \in 1..n : b[i] = a[i]
  <2> TAKE i \in 1..n
  <2>0. i \in 1..m
    <3>1. m \in Int
      BY <1>11
    <3> QED BY <1>8, <3>1
  <2>1. at[i] \in D /\ to[i] = at[i]
    BY <1>8
  <2> QED BY <1>10, <1>11, <1>12, <2>0, <2>1
<1>14. E = D => b = a /\ Held(k, as_of)' = Held(k, as_of)
  <2> HAVE E = D
  <2>1. Len(a) = Len(b)
    BY <1>10, <1>11 DEF n, m
  <2>2. b = a
    BY <1>10, <1>11, <1>13, <2>1, SameSeq
  <2>3. Held(k, as_of)' = {[stream |-> k, id |-> stored'[k][i].id] : i \in D}
    BY <1>7 DEF Held, CandidateAt
  <2>4. Held(k, as_of) = {CandidateAt(k, i) : i \in D}
    BY <1>7 DEF Held
  <2> QED BY <1>12, <2>2, <2>3, <2>4
<1> QED BY <1>7, <1>8, <1>9, <1>10, <1>11, <1>13, <1>14

\* The types of what the sources hold.
LEMMA Types ==
  ASSUME StoredType
  PROVE  /\ stored \in [DOMAIN Streams -> Seq(FRow)]
         /\ open \in [DOMAIN sources -> {Null} \cup [stream : DOMAIN Streams, row : FRow]]
         /\ clock \in Nat /\ cutoff \in Int \cup {Null} /\ Null \notin Int
         /\ \A k \in DOMAIN Streams : ResolutionOf(k) \in Nat /\ Streams[k].source \in DOMAIN sources
         /\ \A s \in DOMAIN sources : sources[s].resolution \in Nat
         /\ \A s \in DOMAIN sources : open[s] # Null => open[s].stream \in DOMAIN Streams /\ open[s].row \in FRow
<1>1. sources \in Federations
  BY DEF StoredType
<1>2. /\ \A k \in DOMAIN Streams : ResolutionOf(k) \in Nat /\ Streams[k].source \in DOMAIN sources
      /\ \A s \in DOMAIN sources : sources[s].resolution \in Nat
  BY <1>1, StreamsType
<1>3. Null \notin Int
  BY FederationAssumption
<1>4. \A s \in DOMAIN sources : open[s] # Null => open[s].stream \in DOMAIN Streams /\ open[s].row \in FRow
  BY DEF StoredType
<1> QED BY <1>2, <1>3, <1>4 DEF StoredType

\* What the steps of a call leave alone.
LEMMA WorldSteps ==
  ASSUME [FederationNext]_federationVars
  PROVE  \/ UNCHANGED worldVars
         \/ Tick \/ TakeCutoff
         \/ \E k \in DOMAIN Streams, id \in Ids : Open(k, id)
         \/ \E s \in DOMAIN sources : Commit(s)
<1>1. UNCHANGED federationVars => UNCHANGED worldVars
  BY DEF federationVars, worldVars
<1> QED BY <1>1 DEF FederationNext, Query, CountStream, AllCounted, FetchUnsorted,
       FetchSorted, PopLeast, CutPage, Probe, Page, Audit, AuditBatch, AuditGroup, Fetch

\* No stream gets an id that it holds.
LEMMA UniqueStep ==
  ASSUME StoredType, UniqueInv, [FederationNext]_federationVars
  PROVE  UniqueInv'
<1>1. sources' = sources /\ Streams' = Streams
  BY StoredStep, SameStreams
<1>2. CASE UNCHANGED <<stored, open>>
  BY <1>1, <1>2 DEF UniqueInv
<1>3. ASSUME NEW k \in DOMAIN Streams, NEW id \in Ids, Open(k, id) PROVE UniqueInv'
  <2> DEFINE s == Streams[k].source
             at == IF ResolutionOf(k) = 0 THEN 0 ELSE clock \div ResolutionOf(k)
             t == [stream |-> k, row |-> [id |-> id, at |-> at]]
  <2>1. /\ stored' = stored /\ open' = [open EXCEPT ![s] = t]
        /\ \A j \in DOMAIN Streams : Streams[j].source = s => id \notin {r.id : r \in ToSet(stored[j])}
    BY <1>3 DEF Open
  <2>2. \A i \in DOMAIN stored[k] : stored[k][i].id # id
    <3>1. id \notin {r.id : r \in ToSet(stored[k])}
      BY <2>1
    <3> QED BY <3>1 DEF ToSet
  <2>3. t.stream = k /\ t.row.id = id
    OBVIOUS
  <2>4. open \in [DOMAIN sources -> {Null} \cup [stream : DOMAIN Streams, row : FRow]]
    BY Types
  <2> HIDE DEF t
  <2>5. \A u \in DOMAIN sources : open'[u] = IF u = s THEN t ELSE open[u]
    BY <2>1, <2>4
  <2>6. \A u \in DOMAIN sources : open'[u] # Null =>
          /\ Streams[open'[u].stream].source = u
          /\ \A i \in DOMAIN stored[open'[u].stream] : stored[open'[u].stream][i].id # open'[u].row.id
    <3> TAKE u \in DOMAIN sources
    <3>1. CASE u = s
      <4>1. open'[u] = t
        BY <2>5, <3>1
      <4> QED BY <2>2, <2>3, <3>1, <4>1
    <3>2. CASE u # s
      <4>1. open'[u] = open[u]
        BY <2>5, <3>2
      <4> QED BY <4>1 DEF UniqueInv
    <3> QED BY <3>1, <3>2
  <2> QED BY <1>1, <2>1, <2>6 DEF UniqueInv
<1>4. ASSUME NEW s \in DOMAIN sources, Commit(s) PROVE UniqueInv'
  <2> DEFINE k == open[s].stream
             row == open[s].row
  <2>1. /\ open[s] # Null /\ stored' = [stored EXCEPT ![k] = Append(@, row)]
        /\ open' = [open EXCEPT ![s] = Null]
    BY <1>4 DEF Commit
  <2>2. /\ stored \in [DOMAIN Streams -> Seq(FRow)] /\ k \in DOMAIN Streams
        /\ open \in [DOMAIN sources -> {Null} \cup [stream : DOMAIN Streams, row : FRow]]
    BY <2>1, Types
  <2>3. Streams[k].source = s /\ \A i \in DOMAIN stored[k] : stored[k][i].id # row.id
    BY <2>1 DEF UniqueInv
  <2> HIDE DEF k, row
  <2>4. \A j \in DOMAIN Streams : stored'[j] = IF j = k THEN Append(stored[k], row) ELSE stored[j]
    BY <2>1, <2>2
  <2>5. \A u \in DOMAIN sources : open'[u] = IF u = s THEN Null ELSE open[u]
    BY <2>1, <2>2
  <2>6. \A j \in DOMAIN Streams : \A i, l \in DOMAIN stored'[j] : stored'[j][i].id = stored'[j][l].id => i = l
    <3> TAKE j \in DOMAIN Streams
    <3>1. CASE j # k
      BY <2>4, <3>1 DEF UniqueInv
    <3>2. CASE j = k
      <4> DEFINE old == stored[k]
                 new == stored'[k]
      <4>1. old \in Seq(FRow) /\ new = Append(old, row)
        BY <2>2, <2>4
      <4>2. \A i, l \in DOMAIN old : old[i].id = old[l].id => i = l
        BY <2>2 DEF UniqueInv
      <4>3. \A i \in DOMAIN old : old[i].id # row.id
        BY <2>3
      <4> HIDE DEF old, new
      <4>4. /\ DOMAIN old = 1..Len(old) /\ Len(old) \in Nat /\ DOMAIN new = 1..(Len(old) + 1)
            /\ new[Len(old) + 1] = row
            /\ \A i \in 1..Len(old) : new[i] = old[i]
        BY <4>1
      <4>5. \A i, l \in DOMAIN new : new[i].id = new[l].id => i = l
        BY <4>2, <4>3, <4>4
      <4> QED BY <3>2, <4>5 DEF new
    <3> QED BY <3>1, <3>2
  <2>7. \A u \in DOMAIN sources : open'[u] # Null =>
          /\ Streams[open'[u].stream].source = u
          /\ \A i \in DOMAIN stored'[open'[u].stream] : stored'[open'[u].stream][i].id # open'[u].row.id
    <3> TAKE u \in DOMAIN sources
    <3> HAVE open'[u] # Null
    <3>1. u # s /\ open'[u] = open[u] /\ open[u] # Null
      BY <2>5
    <3>2. Streams[open[u].stream].source = u /\ open[u].stream \in DOMAIN Streams
      BY <3>1, Types DEF UniqueInv
    <3>3. stored'[open[u].stream] = stored[open[u].stream]
      BY <2>3, <2>4, <3>1, <3>2
    <3> QED BY <3>1, <3>2, <3>3 DEF UniqueInv
  <2> QED BY <1>1, <2>6, <2>7 DEF UniqueInv
<1> QED BY <1>2, <1>3, <1>4, WorldSteps DEF worldVars, Tick, TakeCutoff

\* A cutoff that is taken is below the present bucket of every source with timestamps.
LEMMA CutoffBelow ==
  ASSUME StoredType, Capable # {}
  PROVE  /\ SnapshotCutoff(clock) \in Int
         /\ \A s \in Capable : SnapshotCutoff(clock) \div sources[s].resolution < clock \div sources[s].resolution
<1> DEFINE B == CompletedBuckets(clock)
           bucket(s) == (clock \div sources[s].resolution) * sources[s].resolution
<1>1. SnapshotCutoff(clock) = Min(B) - 1
  BY DEF SnapshotCutoff
<1>2. \A s \in Capable : s \in DOMAIN sources /\ sources[s].resolution \in Nat \ {0}
  <2>1. \A s \in DOMAIN sources : sources[s].resolution \in Nat
    BY Types
  <2> QED BY <2>1 DEF Capable
<1>3. \A s \in Capable : clock \div sources[s].resolution \in Int /\ bucket(s) \in Int
  <2> TAKE s \in Capable
  <2>1. clock \in Int
    BY Types
  <2>2. clock \div sources[s].resolution \in Int
    BY <1>2, <2>1, DivFacts
  <2> QED BY <1>2, <2>2
<1>4. B \in SUBSET Int /\ B # {} /\ IsFiniteSet(B)
  <2>1. B = {bucket(s) : s \in Capable}
    BY DEF CompletedBuckets
  <2>2. IsFiniteSet(Capable)
    <3>1. sources \in Seq([prefix : Nat, backings : Nat, resolution : Nat])
      BY FederationAssumption DEF StoredType
    <3> DEFINE F == [prefix : Nat, backings : Nat, resolution : Nat]
    <3>2. sources \in Seq(F)
      BY <3>1
    <3> HIDE DEF F
    <3>3. DOMAIN sources = 1..Len(sources) /\ Len(sources) \in Nat
      BY <3>2
    <3>4. IsFiniteSet(DOMAIN sources)
      BY <3>3, FS_Interval
    <3>5. Capable \in SUBSET DOMAIN sources
      BY DEF Capable
    <3> QED BY <3>4, <3>5, FS_Subset
  <2>3. IsFiniteSet(B)
    <3> DEFINE f == [s \in Capable |-> bucket(s)]
    <3>1. f \in [Capable -> B] /\ \A b \in B : \E s \in Capable : f[s] = b
      BY <2>1
    <3>2. f \in Surjection(Capable, B)
      <4> HIDE DEF f, B
      <4> QED BY <3>1 DEF Surjection
    <3> HIDE DEF f, B
    <3> QED BY <2>2, <3>2, FS_Surjection
  <2> HIDE DEF bucket
  <2> QED BY <1>3, <2>1, <2>3
<1>5. Min(B) \in Int /\ \A b \in B : Min(B) <= b
  <2> HIDE DEF B
  <2> QED BY <1>4, MinMax
<1>6. \A s \in Capable : bucket(s) \in B
  BY DEF CompletedBuckets
<1>7. ASSUME NEW s \in Capable
      PROVE  SnapshotCutoff(clock) \div sources[s].resolution < clock \div sources[s].resolution
  <2> DEFINE q == clock \div sources[s].resolution
             R == sources[s].resolution
             c == SnapshotCutoff(clock)
  <2>1. q \in Int /\ R \in Nat \ {0} /\ c \in Int /\ c < q * R
    <3>1. Min(B) <= bucket(s) /\ bucket(s) \in Int
      BY <1>3, <1>5, <1>6
    <3>2. bucket(s) = q * R
      OBVIOUS
    <3> HIDE DEF q, R, bucket, B
    <3>3. c \in Int /\ c < bucket(s)
      BY <1>1, <1>5, <3>1
    <3>4. q \in Int /\ R \in Nat \ {0}
      BY <1>2, <1>3 DEF q, R
    <3> QED BY <3>2, <3>3, <3>4
  <2> HIDE DEF q, R, c
  <2>2. c \div R < q
    BY <2>1, DivFacts
  <2> QED BY <2>2 DEF q, R, c
<1>8. SnapshotCutoff(clock) \in Int
  <2> HIDE DEF B
  <2> QED BY <1>1, <1>5
<1> QED BY <1>7, <1>8

\* What is committed after the cutoff, unless it straddled it, is behind it.
LEMMA SteadyRows ==
  ASSUME StoredType, UniqueInv, SnapInv, [FederationNext]_federationVars,
         NEW c, c = cutoff, Steady(c), NEW k \in DOMAIN Streams
  PROVE  Served(k, c)' = Served(k, c)
<1>1. /\ sources' = sources /\ \A j : ResolutionOf(j)' = ResolutionOf(j)
  BY StoredStep, SameStreams
<1>2. CASE UNCHANGED stored
  BY <1>1, <1>2 DEF Served
<1>3. ASSUME NEW s \in DOMAIN sources, Commit(s) PROVE Served(k, c)' = Served(k, c)
  <2> DEFINE j == open[s].stream
             row == open[s].row
  <2>1. /\ open[s] # Null /\ stored' = [stored EXCEPT ![j] = Append(@, row)]
    BY <1>3 DEF Commit
  <2>2. /\ stored \in [DOMAIN Streams -> Seq(FRow)] /\ j \in DOMAIN Streams /\ row \in FRow
    BY <2>1, Types
  <2>3. Streams[j].source = s
    BY <2>1 DEF UniqueInv
  <2>4. ResolutionOf(j) = sources[s].resolution
    BY <2>3 DEF ResolutionOf
  <2>5. c # Null /\ c \in Int /\ row.at > c \div sources[s].resolution
    BY <2>1 DEF SnapInv, Steady
  <2>6. sources[s].resolution \in Nat \ {0}
    <3>1. s \in Capable
      BY DEF Steady
    <3>2. sources[s].resolution \in Nat
      BY Types
    <3> QED BY <3>1, <3>2 DEF Capable
  <2> HIDE DEF j, row
  <2>7. CASE k # j
    <3>1. stored'[k] = stored[k]
      BY <2>1, <2>2, <2>7
    <3> QED BY <1>1, <3>1 DEF Served
  <2>8. CASE k = j
    <3> DEFINE old == stored[k]
               new == stored'[k]
    <3>1. old \in Seq(FRow) /\ new = Append(old, row)
      BY <2>1, <2>2, <2>8
    <3> HIDE DEF old, new
    <3>2. /\ DOMAIN old = 1..Len(old) /\ Len(old) \in Nat /\ DOMAIN new = 1..(Len(old) + 1)
          /\ new[Len(old) + 1] = row
          /\ \A i \in 1..Len(old) : new[i] = old[i]
      BY <2>2, <3>1
    <3> DEFINE R == ResolutionOf(k)
               d == c \div R
    <3>3. R # 0 /\ d \in Int /\ row.at \in Nat /\ ~(row.at <= d)
      <4>1. R \in Nat \ {0} /\ R = sources[s].resolution
        BY <2>4, <2>6, <2>8
      <4>2. d \in Int
        BY <2>5, <4>1, DivFacts
      <4>3. row.at \in Nat
        BY <2>2 DEF FRow
      <4>4. row.at > d
        BY <2>5, <4>1
      <4> HIDE DEF d, R
      <4> QED BY <4>1, <4>2, <4>3, <4>4
    <3>4. Served(k, c) = {i \in DOMAIN old : old[i].at <= d}
      BY <2>5, <3>3 DEF Served, old
    <3>5. Served(k, c)' = {i \in DOMAIN new : new[i].at <= d}
      BY <1>1, <2>5, <3>3 DEF Served, new
    <3> HIDE DEF d, R
    <3>6. \A i \in DOMAIN new : i \in DOMAIN old \/ i = Len(old) + 1
      BY <3>2
    <3> QED BY <3>2, <3>3, <3>4, <3>5, <3>6
  <2> QED BY <2>7, <2>8
<1> QED BY <1>2, <1>3, WorldSteps DEF worldVars, Tick, TakeCutoff, Open

\* What a cutoff serves that nobody straddled stays, and a cutoff that was straddled stays so.
LEMMA SteadyStays ==
  ASSUME StoredType, UniqueInv, SnapInv, [FederationNext]_federationVars,
         NEW c \in {Null, cutoff}
  PROVE  /\ c \in {Null, cutoff'} /\ Capable' = Capable
         /\ Steady(c)' <=> Steady(c)
         /\ Steady(c) => \A k \in DOMAIN Streams :
              Candidates(k, c)' = Candidates(k, c) /\ Held(k, c)' = Held(k, c)
<1>1. sources' = sources /\ Capable' = Capable
  BY StoredStep DEF Capable
<1>2. c # Null => cutoff # Null /\ cutoff' = cutoff /\ straddled' = straddled
  BY WorldSteps DEF worldVars, Tick, TakeCutoff, Open, Commit
<1>3. Steady(c)' <=> Steady(c)
  BY <1>1, <1>2 DEF Steady
<1>4. Steady(c) => \A k \in DOMAIN Streams :
        Candidates(k, c)' = Candidates(k, c) /\ Held(k, c)' = Held(k, c)
  <2> SUFFICES ASSUME Steady(c), NEW k \in DOMAIN Streams
               PROVE  Candidates(k, c)' = Candidates(k, c) /\ Held(k, c)' = Held(k, c)
    OBVIOUS
  <2>1. c = cutoff
    BY DEF Steady
  <2>2. Served(k, c)' = Served(k, c)
    BY <2>1, SteadyRows
  <2> QED BY <2>2, CandidatesStay
<1> QED BY <1>1, <1>2, <1>3, <1>4

\* The rows of the snapshot stay what the streams serve as of the cutoff.
LEMMA SnapStep ==
  ASSUME StoredType, UniqueInv, SnapInv, [FederationNext]_federationVars
  PROVE  SnapInv'
<1>1. sources' = sources /\ Streams' = Streams /\ Capable' = Capable
  BY StoredStep, SameStreams DEF Capable
<1>2. ASSUME NEW c, c # Null, c = cutoff, cutoff' = cutoff, snap' = snap,
             clock' \in Int, clock <= clock',
             Steady(c) => \A s \in DOMAIN sources : open'[s] # Null =>
               open'[s].row.at > c \div sources[s].resolution
      PROVE  SnapInv'
  <2>1. /\ c \in Int
        /\ \A s \in Capable : c \div sources[s].resolution < clock \div sources[s].resolution
        /\ Steady(c) => snap = [k \in DOMAIN Streams |-> Candidates(k, c)]
    BY <1>2 DEF SnapInv
  <2>2. \A s \in Capable : c \div sources[s].resolution < clock' \div sources[s].resolution
    <3> TAKE s \in Capable
    <3> DEFINE R == sources[s].resolution
    <3>1. R \in Nat \ {0}
      BY Types DEF Capable
    <3>2. clock \in Int
      BY Types
    <3>3. c \div R < clock \div R
      BY <2>1
    <3> HIDE DEF R
    <3>4. clock \div R <= clock' \div R /\ clock \div R \in Int /\ clock' \div R \in Int /\ c \div R \in Int
      BY <1>2, <2>1, <3>1, <3>2, DivFacts
    <3>5. c \div R < clock' \div R
      BY <3>3, <3>4
    <3> QED BY <3>5 DEF R
  <2>3. c \in {Null, cutoff}
    BY <1>2
  <2>4. /\ Steady(c)' <=> Steady(c)
        /\ Steady(c) => \A k \in DOMAIN Streams : Candidates(k, c)' = Candidates(k, c)
    BY <2>3, SteadyStays
  <2>5. Steady(c)' =>
          /\ snap' = [k \in DOMAIN Streams' |-> Candidates(k, c)']
          /\ \A s \in DOMAIN sources' : open'[s] # Null => open'[s].row.at > c \div sources'[s].resolution
    <3> HAVE Steady(c)'
    <3>1. Steady(c)
      BY <2>4
    <3>2. [k \in DOMAIN Streams' |-> Candidates(k, c)'] = [k \in DOMAIN Streams |-> Candidates(k, c)]
      BY <1>1, <2>4, <3>1
    <3> QED BY <1>1, <1>2, <2>1, <3>1, <3>2
  <2>6. c = cutoff'
    BY <1>2
  <2> QED BY <1>1, <2>1, <2>2, <2>5, <2>6 DEF SnapInv
<1>3. cutoff = Null /\ cutoff' = Null => SnapInv'
  BY DEF SnapInv
<1>4. clock \in Int
  BY Types
<1>5. CASE UNCHANGED worldVars
  <2>1. UNCHANGED <<open, clock, cutoff, snap>>
    BY <1>5 DEF worldVars
  <2>2. ASSUME NEW c, c = cutoff, c # Null PROVE SnapInv'
    <3>1. Steady(c) => \A s \in DOMAIN sources : open'[s] # Null => open'[s].row.at > c \div sources[s].resolution
      BY <2>1, <2>2 DEF SnapInv
    <3> QED BY <1>2, <1>4, <2>1, <2>2, <3>1
  <2> QED BY <1>3, <2>1, <2>2
<1>6. CASE Tick
  <2>1. UNCHANGED <<open, cutoff, snap>> /\ clock' = clock + 1
    BY <1>6 DEF Tick
  <2>2. ASSUME NEW c, c = cutoff, c # Null PROVE SnapInv'
    <3>1. Steady(c) => \A s \in DOMAIN sources : open'[s] # Null => open'[s].row.at > c \div sources[s].resolution
      BY <2>1, <2>2 DEF SnapInv
    <3>2. clock' \in Int /\ clock <= clock'
      BY <1>4, <2>1
    <3> QED BY <1>2, <2>1, <2>2, <3>1, <3>2
  <2> QED BY <1>3, <2>1, <2>2
<1>7. CASE TakeCutoff
  <2>1. /\ Capable # {} /\ UNCHANGED <<stored, open, clock>> /\ cutoff' = SnapshotCutoff(clock)
        /\ snap' = [k \in DOMAIN Streams |-> Candidates(k, SnapshotCutoff(clock))]
        /\ straddled' = (\E s \in Capable : open[s] # Null)
    BY <1>7 DEF TakeCutoff
  <2>2. PICK c : c = SnapshotCutoff(clock)
    OBVIOUS
  <2>3. /\ c \in Int
        /\ \A s \in Capable : c \div sources[s].resolution < clock \div sources[s].resolution
    BY <2>1, <2>2, CutoffBelow
  <2>4. \A k : Candidates(k, c)' = Candidates(k, c)
    BY <1>1, <2>1 DEF Candidates, Served, CandidateAt, ResolutionOf
  <2>5. snap' = [k \in DOMAIN Streams' |-> Candidates(k, c)']
    BY <1>1, <2>1, <2>2, <2>4
  <2>6. Steady(c)' => \A s \in DOMAIN sources' : open'[s] = Null
    BY <1>1, <2>1 DEF Steady
  <2>7. c = cutoff'
    BY <2>1, <2>2
  <2> QED BY <1>1, <2>1, <2>3, <2>5, <2>6, <2>7 DEF SnapInv
<1>8. ASSUME NEW k \in DOMAIN Streams, NEW id \in Ids, Open(k, id) PROVE SnapInv'
  <2> DEFINE s == Streams[k].source
             at == IF ResolutionOf(k) = 0 THEN 0 ELSE clock \div ResolutionOf(k)
             t == [stream |-> k, row |-> [id |-> id, at |-> at]]
  <2>1. UNCHANGED <<clock, cutoff, snap>> /\ open' = [open EXCEPT ![s] = t]
    BY <1>8 DEF Open
  <2>2. open \in [DOMAIN sources -> {Null} \cup [stream : DOMAIN Streams, row : FRow]]
        /\ ResolutionOf(k) = sources[s].resolution
    BY Types DEF ResolutionOf
  <2>3. t.row.at = at
    OBVIOUS
  <2> HIDE DEF t
  <2>4. \A u \in DOMAIN sources : open'[u] = IF u = s THEN t ELSE open[u]
    BY <2>1, <2>2
  <2>5. ASSUME NEW c, c = cutoff, c # Null PROVE SnapInv'
    <3>1. ASSUME Steady(c), NEW u \in DOMAIN sources, open'[u] # Null
          PROVE  open'[u].row.at > c \div sources[u].resolution
      <4>1. CASE u = s
        <5>1. s \in Capable /\ sources[s].resolution # 0
          BY <3>1, <4>1 DEF Steady, Capable
        <5>2. c \in Int /\ c \div sources[s].resolution < clock \div sources[s].resolution
          BY <2>5, <5>1 DEF SnapInv
        <5>3. sources[s].resolution \in Nat \ {0}
          BY <3>1, <4>1, <5>1, Types
        <5>4. at = clock \div sources[s].resolution
          BY <2>2, <5>1
        <5> DEFINE x == clock \div sources[s].resolution
                   y == c \div sources[s].resolution
        <5>5. x \in Int /\ y \in Int
          BY <1>4, <5>2, <5>3, DivFacts
        <5> HIDE DEF x, y
        <5>6. x > y
          BY <5>2, <5>5 DEF x, y
        <5>7. open'[u].row.at = x
          BY <2>3, <2>4, <4>1, <5>4 DEF x
        <5> QED BY <4>1, <5>6, <5>7 DEF y
      <4>2. CASE u # s
        <5>1. open'[u] = open[u]
          BY <2>4, <4>2
        <5> QED BY <2>5, <3>1, <5>1 DEF SnapInv
      <4> QED BY <4>1, <4>2
    <3>2. clock' \in Int /\ clock <= clock'
      BY <1>4, <2>1
    <3> QED BY <1>2, <2>1, <2>5, <3>1, <3>2
  <2> QED BY <1>3, <2>1, <2>5
<1>9. ASSUME NEW s \in DOMAIN sources, Commit(s) PROVE SnapInv'
  <2>1. UNCHANGED <<clock, cutoff, snap>> /\ open' = [open EXCEPT ![s] = Null]
    BY <1>9 DEF Commit
  <2>2. open \in [DOMAIN sources -> {Null} \cup [stream : DOMAIN Streams, row : FRow]]
    BY Types
  <2>3. \A u \in DOMAIN sources : open'[u] # Null => open'[u] = open[u]
    BY <2>1, <2>2
  <2>4. ASSUME NEW c, c = cutoff, c # Null PROVE SnapInv'
    <3>1. Steady(c) => \A u \in DOMAIN sources : open'[u] # Null => open'[u].row.at > c \div sources[u].resolution
      BY <2>3, <2>4 DEF SnapInv
    <3>2. clock' \in Int /\ clock <= clock'
      BY <1>4, <2>1
    <3> QED BY <1>2, <2>1, <2>4, <3>1, <3>2
  <2> QED BY <1>3, <2>1, <2>4
<1> QED BY <1>5, <1>6, <1>7, <1>8, <1>9, WorldSteps

\* A counted list is the beginning of the candidates of its stream.
LEMMA CountedType ==
  ASSUME StoredType, NEW as_of, NEW counts \in Seq(Nat), Len(counts) <= Len(Streams),
         \A k \in DOMAIN counts : counts[k] <= Len(Candidates(k, as_of))
  PROVE  /\ CountedLists(as_of, counts) \in Seq(Seq(Candidate))
         /\ Len(CountedLists(as_of, counts)) = Len(counts)
         /\ DOMAIN counts = 1..Len(counts) /\ Len(counts) \in Nat
         /\ \A k \in DOMAIN counts : /\ k \in DOMAIN Streams /\ counts[k] \in Nat
                                     /\ Candidates(k, as_of) \in Seq(Candidate)
                                     /\ Len(CountedLists(as_of, counts)[k]) = counts[k]
                                     /\ \A i \in 1..counts[k] :
                                          CountedLists(as_of, counts)[k][i] = Candidates(k, as_of)[i]
<1> DEFINE ls == CountedLists(as_of, counts)
<1>1. DOMAIN counts = 1..Len(counts) /\ Len(counts) \in Nat /\ \A k \in DOMAIN counts : counts[k] \in Nat
  OBVIOUS
<1>2. \A k \in DOMAIN counts : k \in DOMAIN Streams
  BY <1>1, StreamsType DEF StoredType
<1>3. \A k \in DOMAIN counts : /\ ls[k] \in Seq(Candidate) /\ Len(ls[k]) = counts[k]
                               /\ Candidates(k, as_of) \in Seq(Candidate)
                               /\ \A i \in 1..counts[k] : ls[k][i] = Candidates(k, as_of)[i]
  <2> TAKE k \in DOMAIN counts
  <2> DEFINE c == Candidates(k, as_of)
             n == counts[k]
             l == FirstOf(c, n)
  <2>1. c \in Seq(Candidate) /\ n \in Int /\ ~(n < 0) /\ n <= Len(c) /\ Len(c) \in Nat
    BY <1>1, <1>2, CandidatesAre
  <2> HIDE DEF c, n
  <2>2. /\ l \in Seq(Candidate) /\ Len(l) = IF n < 0 THEN 0 ELSE IF Len(c) > n THEN n ELSE Len(c)
        /\ \A i \in DOMAIN l : l[i] = c[i]
    BY <2>1, FirstOfIs
  <2> HIDE DEF l
  <2>3. Len(l) = n /\ DOMAIN l = 1..n
    BY <2>1, <2>2
  <2>4. ls[k] = l
    BY DEF CountedLists, l, c, n
  <2> QED BY <2>1, <2>2, <2>3, <2>4 DEF c, n
<1>4. DOMAIN ls = DOMAIN counts /\ ls = [k \in DOMAIN counts |-> ls[k]]
  BY DEF CountedLists
<1> HIDE DEF ls
<1>5. ls \in Seq(Seq(Candidate)) /\ Len(ls) = Len(counts)
  <2>1. ls \in [1..Len(counts) -> Seq(Candidate)]
    BY <1>1, <1>3, <1>4
  <2> QED BY <1>1, <2>1
<1> QED BY <1>1, <1>2, <1>3, <1>5 DEF ls

\* What was counted stays where it was.
LEMMA CountedStay ==
  ASSUME StoredType, [FederationNext]_federationVars,
         NEW as_of, NEW counts \in Seq(Nat), Len(counts) <= Len(Streams),
         \A k \in DOMAIN counts : counts[k] <= Len(Candidates(k, as_of))
  PROVE  /\ CountedLists(as_of, counts)' = CountedLists(as_of, counts)
         /\ \A k \in DOMAIN counts : counts[k] <= Len(Candidates(k, as_of)')
<1>1. /\ DOMAIN counts = 1..Len(counts) /\ Len(counts) \in Nat
      /\ \A k \in DOMAIN counts : k \in DOMAIN Streams /\ counts[k] \in Nat
  BY CountedType
<1>2. ASSUME NEW k \in DOMAIN counts
      PROVE  /\ FirstOf(Candidates(k, as_of)', counts[k]) = FirstOf(Candidates(k, as_of), counts[k])
             /\ counts[k] <= Len(Candidates(k, as_of)')
  <2>1. PICK a, b : a = Candidates(k, as_of) /\ b = Candidates(k, as_of)'
    OBVIOUS
  <2>2. /\ a \in Seq(Candidate) /\ b \in Seq(Candidate) /\ Len(a) <= Len(b)
        /\ \A i \in 1..Len(a) : b[i] = a[i]
    BY <1>1, <2>1, CandidatesStay
  <2> DEFINE n == counts[k]
             u == FirstOf(a, n)
             v == FirstOf(b, n)
  <2>3. n \in Nat /\ n \in Int /\ ~(n < 0) /\ n <= Len(a) /\ Len(a) \in Nat /\ Len(b) \in Nat
    BY <1>1, <2>1, <2>2
  <2> HIDE DEF n
  <2>4. /\ u \in Seq(Candidate) /\ Len(u) = IF n < 0 THEN 0 ELSE IF Len(a) > n THEN n ELSE Len(a)
        /\ \A i \in DOMAIN u : u[i] = a[i]
    BY <2>2, <2>3, FirstOfIs
  <2>5. /\ v \in Seq(Candidate) /\ Len(v) = IF n < 0 THEN 0 ELSE IF Len(b) > n THEN n ELSE Len(b)
        /\ \A i \in DOMAIN v : v[i] = b[i]
    BY <2>2, <2>3, FirstOfIs
  <2> HIDE DEF u, v
  <2>6. Len(u) = n /\ Len(v) = n /\ DOMAIN u = 1..n /\ DOMAIN v = 1..n /\ n <= Len(b)
    BY <2>2, <2>3, <2>4, <2>5
  <2>7. \A i \in 1..n : v[i] = u[i]
    <3> TAKE i \in 1..n
    <3>1. u[i] = a[i] /\ v[i] = b[i]
      BY <2>4, <2>5, <2>6
    <3>2. i \in 1..Len(a)
      BY <2>3
    <3> QED BY <2>2, <3>1, <3>2
  <2>8. v = u
    BY <2>4, <2>5, <2>6, <2>7, SameSeq
  <2> QED BY <2>1, <2>6, <2>8 DEF u, v, n
<1>3. CountedLists(as_of, counts)' = [k \in DOMAIN counts |-> FirstOf(Candidates(k, as_of)', counts[k])]
  BY DEF CountedLists
<1>4. CountedLists(as_of, counts) = [k \in DOMAIN counts |-> FirstOf(Candidates(k, as_of), counts[k])]
  BY DEF CountedLists
<1> QED BY <1>2, <1>3, <1>4

\* Counts go on holding.
LEMMA CountsStay ==
  ASSUME StoredType, UniqueInv, SnapInv, [FederationNext]_federationVars,
         NEW as_of, NEW counts \in Seq(Nat), Len(counts) <= Len(Streams), NEW total,
         CountsHold(as_of, counts, total)
  PROVE  CountsHold(as_of, counts, total)'
<1>1. /\ as_of \in {Null, cutoff}
      /\ \A k \in DOMAIN counts : /\ counts[k] <= Len(Candidates(k, as_of))
                                  /\ Steady(as_of) => counts[k] = Len(Candidates(k, as_of))
      /\ total = Len(FlattenSeq(CountedLists(as_of, counts)))
  BY DEF CountsHold
<1>2. /\ as_of \in {Null, cutoff'} /\ (Steady(as_of)' <=> Steady(as_of))
      /\ Steady(as_of) => \A k \in DOMAIN Streams : Candidates(k, as_of)' = Candidates(k, as_of)
  BY <1>1, SteadyStays
<1>3. /\ CountedLists(as_of, counts)' = CountedLists(as_of, counts)
      /\ \A k \in DOMAIN counts : counts[k] <= Len(Candidates(k, as_of)')
      /\ \A k \in DOMAIN counts : k \in DOMAIN Streams
  BY <1>1, CountedStay, CountedType
<1>4. Steady(as_of)' => \A k \in DOMAIN counts : counts[k] = Len(Candidates(k, as_of)')
  BY <1>1, <1>2, <1>3
<1> QED BY <1>1, <1>2, <1>3, <1>4 DEF CountsHold

\* The sort does not change.
LEMMA SortStays ==
  ASSUME sources' = sources, NEW sort
  PROVE  /\ \A c, d : SortKeyBefore(sort, c, d)' <=> SortKeyBefore(sort, c, d)
         /\ \A S : SortedAs(sort, S)' = SortedAs(sort, S)
<1>1. \A k : PrefixOf(k)' = PrefixOf(k)
  BY SameStreams
<1>2. \A c, d : SortKeyBefore(sort, c, d)' <=> SortKeyBefore(sort, c, d)
  <2> TAKE c, d
  <2>1. \A k, id : PublicId(k, id)' = PublicId(k, id)
    BY <1>1 DEF PublicId
  <2> QED BY <2>1 DEF SortKeyBefore
<1>3. \A S : SortedAs(sort, S)' = SortedAs(sort, S)
  BY <1>2 DEF SortedAs
<1> QED BY <1>2, <1>3

\* A page that holds goes on holding.
LEMMA PageStays ==
  ASSUME StoredType, UniqueInv, SnapInv, [FederationNext]_federationVars,
         NEW p, p.counts \in Seq(Nat), Len(p.counts) <= Len(Streams),
         CountsHold(p.as_of, p.counts, p.total), PageHolds(p)
  PROVE  PageHolds(p)'
<1>1. PICK as_of, counts, total : as_of = p.as_of /\ counts = p.counts /\ total = p.total
  OBVIOUS
<1>2. /\ counts \in Seq(Nat) /\ Len(counts) <= Len(Streams) /\ CountsHold(as_of, counts, total)
  BY <1>1
<1>3. as_of \in {Null, cutoff} /\ \A k \in DOMAIN counts : counts[k] <= Len(Candidates(k, as_of))
  BY <1>2 DEF CountsHold
<1>4. CountedLists(as_of, counts)' = CountedLists(as_of, counts)
  BY <1>2, <1>3, CountedStay
<1>5. /\ Steady(as_of)' <=> Steady(as_of)
      /\ Steady(as_of) => \A k \in DOMAIN Streams : Held(k, as_of)' = Held(k, as_of)
  BY <1>3, SteadyStays
<1>6. sources' = sources /\ Streams' = Streams
  BY StoredStep, SameStreams
<1>7. Steady(as_of) => InAll(as_of, p.q.sort)' = InAll(as_of, p.q.sort)
  <2> HAVE Steady(as_of)
  <2>1. PICK A, B, sort : A = All(as_of) /\ B = All(as_of)' /\ sort = p.q.sort
    OBVIOUS
  <2>2. B = A
    <3>1. All(as_of)' = UNION {Held(k, as_of)' : k \in DOMAIN Streams'}
      BY DEF All
    <3> QED BY <1>5, <1>6, <2>1, <3>1 DEF All
  <2>3. SortedAs(sort, A)' = SortedAs(sort, A)
    BY <1>6, SortStays
  <2> QED BY <2>1, <2>2, <2>3 DEF InAll
<1> QED BY <1>1, <1>4, <1>5, <1>7 DEF PageHolds

\* A merge on a steady cutoff goes on.
LEMMA MergingStays ==
  ASSUME StoredType, UniqueInv, SnapInv, [FederationNext]_federationVars,
         NEW as_of \in {Null, cutoff}, Steady(as_of), NEW q, NEW k \in Nat \ {0}, k <= Len(Streams) + 1,
         NEW out, NEW left, Merging(q, as_of, k, out, left)
  PROVE  Merging(q, as_of, k, out, left)'
<1>1. sources' = sources /\ Streams' = Streams
  BY StoredStep, SameStreams
<1>2. \A j \in DOMAIN Streams : Held(j, as_of)' = Held(j, as_of)
  BY SteadyStays
<1>3. \A j \in DOMAIN Streams : PartOf(j, as_of, q)' = PartOf(j, as_of, q)
  <2> TAKE j \in DOMAIN Streams
  <2>1. PICK A, sort : A = Held(j, as_of) /\ sort = q.sort
    OBVIOUS
  <2>2. SortedAs(sort, A)' = SortedAs(sort, A)
    BY <1>1, SortStays
  <2> QED BY <1>2, <2>1, <2>2 DEF PartOf
<1>4. \A j \in 1..(k - 1) : j \in DOMAIN Streams
  BY StreamsType DEF StoredType
<1>5. \A c, d : SortKeyBefore(q.sort, c, d)' <=> SortKeyBefore(q.sort, c, d)
  BY <1>1, SortStays
<1>6. UNION {PartOf(j, as_of, q)' : j \in 1..(k - 1)} = UNION {PartOf(j, as_of, q) : j \in 1..(k - 1)}
  BY <1>3, <1>4
<1> QED BY <1>1, <1>5, <1>6 DEF Merging

\* A query that is sound stays so, whatever the others do.
LEMMA SoundStays ==
  ASSUME StoredType, UniqueInv, SnapInv, [FederationNext]_federationVars,
         NEW r \in QueryCall, r.k <= Len(Streams) + 1, Len(r.counts) <= Len(Streams), Sound(r)
  PROVE  Sound(r)'
<1>1. /\ r.counts \in Seq(Nat) /\ r.k \in Nat \ {0} /\ CountsHold(r.as_of, r.counts, r.total)
  BY DEF QueryCall, Sound
<1>2. CountsHold(r.as_of, r.counts, r.total)'
  BY <1>1, CountsStay
<1>3. r.as_of \in {Null, cutoff}
      /\ \A k \in DOMAIN r.counts : r.counts[k] <= Len(Candidates(k, r.as_of))
  BY <1>1 DEF CountsHold
<1>4. CountedLists(r.as_of, r.counts)' = CountedLists(r.as_of, r.counts)
  BY <1>1, <1>3, CountedStay
<1>5. r.phase = "fetch" =>
        IF r.q.sort = "none" THEN Skipping(r.q, CountedLists(r.as_of, r.counts)', r.k, r.skipped, r.out)
        ELSE Steady(r.as_of)' => Merging(r.q, r.as_of, r.k, r.out, r.left)'
  <2>1. Steady(r.as_of)' <=> Steady(r.as_of)
    BY <1>3, SteadyStays
  <2>2. Steady(r.as_of) /\ Merging(r.q, r.as_of, r.k, r.out, r.left) => Merging(r.q, r.as_of, r.k, r.out, r.left)'
    BY <1>1, <1>3, MergingStays
  <2> QED BY <1>4, <2>1, <2>2 DEF Sound
<1>6. r.phase = "probe" => PageHolds(PageOf(r))'
  <2> HAVE r.phase = "probe"
  <2>1. PICK p : p = PageOf(r)
    OBVIOUS
  <2>2. /\ p.as_of = r.as_of /\ p.counts = r.counts /\ p.total = r.total
    BY <2>1 DEF PageOf
  <2>3. PageHolds(p)
    BY <2>1 DEF Sound
  <2>4. PageHolds(p)'
    BY <1>1, <2>2, <2>3, PageStays
  <2> QED BY <2>1, <2>4
<1> QED BY <1>2, <1>5, <1>6 DEF Sound

\* No lists, no rows.
LEMMA FlatNone == FlattenSeq(<<>>) = <<>>
BY DEF FlattenSeq

\* A query begins sound.
LEMMA QuerySound ==
  ASSUME NEW q \in Queries, NEW as_of \in {Null, cutoff}, Query(q, as_of), NEW n, n = req'
  PROVE  Sound(n)
<1>1. /\ n.phase = "count" /\ n.as_of = as_of /\ n.counts = <<>> /\ n.total = 0
      /\ n.out = <<>> /\ n.left = {} /\ n.skipped = n.q.offset
  BY DEF Query
<1>2. CountedLists(as_of, <<>>) = <<>>
  BY DEF CountedLists
<1>3. CountsHold(as_of, <<>>, 0)
  <2>1. Len(FlattenSeq(CountedLists(as_of, <<>>))) = 0
    BY <1>2, FlatNone
  <2>2. DOMAIN <<>> = {}
    OBVIOUS
  <2> QED BY <2>1, <2>2 DEF CountsHold
<1> QED BY <1>1, <1>3 DEF Sound

\* One stream more is counted.
LEMMA CountSound ==
  ASSUME StoredType, NEW r \in QueryCall, r = req, CountStream, Sound(r), Len(r.counts) = r.k - 1,
         NEW n, n = req'
  PROVE  Sound(n)
<1>1. PICK k, as_of, counts, total : k = r.k /\ as_of = r.as_of /\ counts = r.counts /\ total = r.total
  OBVIOUS
<1>2. PICK count : count = Cardinality(Served(k, as_of))
  OBVIOUS
<1>3. n = [r EXCEPT !.counts = Append(@, count), !.total = @ + count, !.k = @ + 1]
      /\ r.phase = "count" /\ k <= Len(Streams)
  BY <1>1, <1>2 DEF CountStream
<1>4. /\ n.phase = "count" /\ n.as_of = as_of /\ n.counts = Append(counts, count) /\ n.total = total + count
      /\ n.out = r.out /\ n.left = r.left /\ n.skipped = r.skipped /\ n.q = r.q
  BY <1>1, <1>3 DEF QueryCall
<1>5. /\ counts \in Seq(Nat) /\ k \in Nat \ {0} /\ total \in Nat /\ Len(counts) = k - 1 /\ k \in DOMAIN Streams
      /\ Len(counts) <= Len(Streams)
  <2>1. /\ counts \in Seq(Nat) /\ k \in Nat \ {0} /\ total \in Nat /\ Len(counts) = k - 1
    BY <1>1 DEF QueryCall
  <2>2. DOMAIN Streams = 1..Len(Streams) /\ Len(Streams) \in Nat
    BY StreamsType DEF StoredType
  <2> QED BY <1>3, <2>1, <2>2
<1>6. /\ as_of \in {Null, cutoff}
      /\ \A j \in DOMAIN counts : /\ counts[j] <= Len(Candidates(j, as_of))
                                  /\ Steady(as_of) => counts[j] = Len(Candidates(j, as_of))
      /\ total = Len(FlattenSeq(CountedLists(as_of, counts)))
  BY <1>1 DEF Sound, CountsHold
<1>7. Candidates(k, as_of) \in Seq(Candidate) /\ Len(Candidates(k, as_of)) = count /\ count \in Nat
  BY <1>2, <1>5, CandidatesAre
<1> DEFINE more == Append(counts, count)
           ls == CountedLists(as_of, counts)
           l == FirstOf(Candidates(k, as_of), count)
<1>8. /\ DOMAIN counts = 1..(k - 1) /\ DOMAIN more = 1..k /\ more[k] = count
      /\ \A j \in DOMAIN counts : more[j] = counts[j]
      /\ \A j \in DOMAIN more : j \in DOMAIN counts \/ j = k
  BY <1>5, <1>7
<1>9. ls \in Seq(Seq(Candidate)) /\ Len(ls) = k - 1
  BY <1>5, <1>6, CountedType
<1>10. l \in Seq(Candidate) /\ Len(l) = count
  <2> DEFINE c == Candidates(k, as_of)
  <2>1. c \in Seq(Candidate) /\ Len(c) = count /\ count \in Nat /\ count \in Int
    BY <1>7
  <2> HIDE DEF c
  <2>2. /\ FirstOf(c, count) \in Seq(Candidate)
        /\ Len(FirstOf(c, count)) = IF count < 0 THEN 0 ELSE IF Len(c) > count THEN count ELSE Len(c)
    BY <2>1, FirstOfIs
  <2> QED BY <2>1, <2>2 DEF c
<1>11. CountedLists(as_of, more) = Append(ls, l)
  <2>1. CountedLists(as_of, more) = [j \in 1..k |-> FirstOf(Candidates(j, as_of), more[j])]
    BY <1>8 DEF CountedLists
  <2>2. \A j \in 1..(k - 1) : ls[j] = FirstOf(Candidates(j, as_of), more[j])
    BY <1>8 DEF CountedLists
  <2>3. l = FirstOf(Candidates(k, as_of), more[k])
    BY <1>8
  <2> HIDE DEF ls, l, more
  <2> DEFINE u == CountedLists(as_of, more)
             v == Append(ls, l)
  <2>4. /\ v \in Seq(Seq(Candidate)) /\ Len(v) = k /\ v[k] = l
        /\ \A j \in 1..(k - 1) : v[j] = ls[j]
    BY <1>5, <1>9, <1>10
  <2>5. \A j \in 1..k : j \in 1..(k - 1) \/ j = k
    BY <1>5
  <2>6. \A j \in 1..k : u[j] = v[j]
    BY <2>1, <2>2, <2>3, <2>4, <2>5
  <2>7. u \in Seq(Seq(Candidate)) /\ Len(u) = k
    <3>1. \A j \in 1..k : v[j] \in Seq(Candidate)
      BY <1>5, <2>4
    <3>2. DOMAIN u = 1..k /\ u = [j \in 1..k |-> u[j]]
      BY <2>1
    <3> HIDE DEF u, v
    <3>3. u \in [1..k -> Seq(Candidate)]
      BY <2>6, <3>1, <3>2
    <3> QED BY <1>5, <3>3
  <2> HIDE DEF u, v
  <2>8. u = v
    BY <2>4, <2>6, <2>7, SameSeq
  <2> QED BY <2>8 DEF u, v
<1> HIDE DEF ls, l
<1>12. total + count = Len(FlattenSeq(CountedLists(as_of, more)))
  <2>1. FlattenSeq(Append(ls, l)) = FlattenSeq(ls) \o l
    BY <1>9, <1>10, FlatAppend
  <2>2. FlattenSeq(ls) \in Seq(Candidate)
    BY <1>9, FlatType
  <2>3. Len(FlattenSeq(ls) \o l) = Len(FlattenSeq(ls)) + Len(l)
    BY <1>10, <2>2
  <2>4. total = Len(FlattenSeq(ls))
    BY <1>6 DEF ls
  <2> QED BY <1>10, <1>11, <2>1, <2>3, <2>4
<1>13. CountsHold(as_of, more, total + count)
  <2>1. \A j \in DOMAIN more : /\ more[j] <= Len(Candidates(j, as_of))
                               /\ Steady(as_of) => more[j] = Len(Candidates(j, as_of))
    <3> TAKE j \in DOMAIN more
    <3>1. CASE j \in DOMAIN counts
      <4>1. more[j] = counts[j]
        BY <1>8, <3>1
      <4> QED BY <1>6, <3>1, <4>1
    <3>2. CASE j = k
      BY <1>7, <1>8, <3>2
    <3> QED BY <1>8, <3>1, <3>2
  <2> QED BY <1>6, <1>12, <2>1 DEF CountsHold
<1> QED BY <1>3, <1>4, <1>13 DEF Sound

\* All streams are counted, and the fetch begins.
LEMMA CountedSound ==
  ASSUME StoredType, NEW r \in QueryCall, r = req, AllCounted, Sound(r), NEW n, n = req'
  PROVE  Sound(n)
<1>1. n = [r EXCEPT !.phase = "fetch", !.k = 1] /\ r.phase = "count"
  BY DEF AllCounted
<1>2. /\ n.phase = "fetch" /\ n.k = 1 /\ n.q = r.q /\ n.as_of = r.as_of /\ n.counts = r.counts
      /\ n.total = r.total /\ n.out = <<>> /\ n.left = {} /\ n.skipped = r.q.offset /\ r.q \in Queries
  BY <1>1 DEF Sound, QueryCall
<1>3. \A ls : Skipping(r.q, ls, 1, r.q.offset, <<>>)
  <2> TAKE ls
  <2>1. Firsts(ls, 1 - 1) = <<>>
    BY DEF Firsts
  <2>2. FlattenSeq(Firsts(ls, 1 - 1)) = <<>>
    BY <2>1, FlatNone
  <2> DEFINE o == r.q.offset
             w == WantedOf(r.q)
             c == Cut(<<>>, o, w)
  <2>3. o \in Nat /\ w \in Nat \cup {Null} /\ Null \notin Int
    BY <1>2, QueryType
  <2> HIDE DEF o, w
  <2>4. <<>> \in Seq(Candidate) /\ Len(<<>>) = 0
    OBVIOUS
  <2>5. /\ c \in Seq(Candidate)
        /\ Len(c) = LET m == IF Len(<<>>) > o THEN Len(<<>>) - o ELSE 0
                    IN IF w = Null THEN m ELSE IF m > w THEN w ELSE m
    BY <2>3, <2>4, CutIs
  <2>6. Len(c) = 0
    <3>1. ~(Len(<<>>) > o)
      BY <2>3
    <3> QED BY <2>3, <2>5, <3>1
  <2>7. c = <<>>
    <3> HIDE DEF c
    <3> QED BY <2>5, <2>6
  <2>8. o = IF o > Len(<<>>) THEN o - Len(<<>>) ELSE 0
    BY <2>3
  <2> QED BY <2>2, <2>7, <2>8 DEF Skipping, o, w
<1>4. Merging(r.q, r.as_of, 1, <<>>, {})
  <2>1. UNION {PartOf(j, r.as_of, r.q) : j \in 1..(1 - 1)} = {}
    OBVIOUS
  <2>2. r.q.limit # Null => Len(<<>>) <= r.q.offset + r.q.limit + 1
    BY <1>2, QueryType
  <2> QED BY <2>1, <2>2 DEF Merging
<1>5. CountsHold(r.as_of, r.counts, r.total)
  BY DEF Sound
<1> QED BY <1>2, <1>3, <1>4, <1>5 DEF Sound

\* One stream more is fetched unsorted, past what is to be skipped.
LEMMA SkipSound ==
  ASSUME StoredType, NEW r \in QueryCall, r = req, FetchUnsorted, Sound(r), Len(r.counts) = Len(Streams),
         NEW n, n = req'
  PROVE  Sound(n)
<1>1. PICK k, as_of, counts, q : k = r.k /\ as_of = r.as_of /\ counts = r.counts /\ q = r.q
  OBVIOUS
<1>2. n = [r EXCEPT !.out = @ \o UnsortedPart, !.k = @ + 1,
                    !.skipped = IF @ >= req.counts[req.k] THEN @ - req.counts[req.k] ELSE 0]
      /\ r.phase = "fetch" /\ k <= Len(Streams) /\ q.sort = "none"
  BY <1>1 DEF FetchUnsorted, Sorted
<1>3. PICK part, next : /\ part = UnsortedPart
                        /\ next = IF r.skipped >= counts[k] THEN r.skipped - counts[k] ELSE 0
  OBVIOUS
<1>4. /\ n.phase = "fetch" /\ n.k = k + 1 /\ n.as_of = as_of /\ n.counts = counts /\ n.total = r.total
      /\ n.out = r.out \o part /\ n.skipped = next /\ n.q = q
  <2>1. n = [r EXCEPT !.out = @ \o part, !.k = @ + 1, !.skipped = next]
    BY <1>1, <1>2, <1>3
  <2> QED BY <1>1, <1>2, <2>1 DEF QueryCall
<1>5. /\ counts \in Seq(Nat) /\ k \in Nat \ {0} /\ Len(counts) = Len(Streams) /\ k \in DOMAIN Streams
      /\ k \in DOMAIN counts /\ q \in Queries /\ Len(counts) <= Len(Streams)
  <2>1. /\ counts \in Seq(Nat) /\ k \in Nat \ {0} /\ Len(counts) = Len(Streams) /\ q \in Queries
    BY <1>1 DEF QueryCall
  <2>2. DOMAIN Streams = 1..Len(Streams) /\ Len(Streams) \in Nat
    BY StreamsType DEF StoredType
  <2> QED BY <1>2, <2>1, <2>2
<1>6. CountsHold(as_of, counts, r.total)
  BY <1>1 DEF Sound
<1> DEFINE ls == CountedLists(as_of, counts)
           all == Candidates(k, as_of)
           count == counts[k]
           done == FlattenSeq(Firsts(ls, k - 1))
           l == FirstOf(all, count)
           o == q.offset
           w == WantedOf(q)
<1>7. /\ ls \in Seq(Seq(Candidate)) /\ Len(ls) = Len(counts) /\ ls[k] = l /\ all \in Seq(Candidate)
      /\ count \in Nat /\ count <= Len(all) /\ DOMAIN ls = DOMAIN counts
  <2>1. \A j \in DOMAIN counts : counts[j] <= Len(Candidates(j, as_of))
    BY <1>6 DEF CountsHold
  <2>2. /\ CountedLists(as_of, counts) \in Seq(Seq(Candidate))
        /\ Len(CountedLists(as_of, counts)) = Len(counts) /\ counts[k] \in Nat
        /\ Candidates(k, as_of) \in Seq(Candidate)
    BY <1>5, <2>1, CountedType
  <2>3. CountedLists(as_of, counts)[k] = l /\ DOMAIN CountedLists(as_of, counts) = DOMAIN counts
    BY <1>5 DEF CountedLists
  <2> QED BY <1>5, <2>1, <2>2, <2>3
<1>8. Skipping(q, ls, k, r.skipped, r.out)
  BY <1>1, <1>2 DEF Sound
<1>9. /\ r.out = Cut(done, o, w) /\ r.skipped = IF o > Len(done) THEN o - Len(done) ELSE 0
  BY <1>8 DEF Skipping
<1>10. o \in Nat /\ w \in Nat \cup {Null} /\ Null \notin Int
       /\ (q.limit = Null => w = Null) /\ (q.limit # Null => w = q.limit + 1 /\ w # Null)
  BY <1>5, QueryType
<1> HIDE DEF ls, all, count, l
<1>11. /\ Firsts(ls, k - 1) \in Seq(Seq(Candidate)) /\ l \in Seq(Candidate)
       /\ Firsts(ls, k) = Append(Firsts(ls, k - 1), l)
  <2>1. \A i \in 1..k : i \in DOMAIN ls /\ ls[i] \in Seq(Candidate)
    BY <1>5, <1>7
  <2>2. Firsts(ls, k - 1) \in [1..(k - 1) -> Seq(Candidate)]
    BY <1>5, <2>1 DEF Firsts
  <2>3. Firsts(ls, k) = [i \in 1..k |-> ls[i]] /\ Firsts(ls, k - 1) = [i \in 1..(k - 1) |-> ls[i]]
    BY DEF Firsts
  <2>4. k - 1 \in Nat
    BY <1>5
  <2>5. Firsts(ls, k - 1) \in Seq(Seq(Candidate)) /\ Len(Firsts(ls, k - 1)) = k - 1
    BY <2>2, <2>4
  <2>6. Append(Firsts(ls, k - 1), l) = [i \in 1..k |-> IF i = k THEN l ELSE ls[i]]
    <3>1. (k - 1) + 1 = k
      BY <1>5
    <3>2. \A i \in 1..k : i # k => i \in 1..(k - 1)
      BY <1>5
    <3> QED BY <2>3, <2>5, <3>1, <3>2
  <2>7. l \in Seq(Candidate)
    <3>1. k \in 1..k
      BY <1>5
    <3> QED BY <1>7, <2>1, <3>1
  <2> QED BY <1>7, <2>3, <2>5, <2>6, <2>7
<1>12. done \in Seq(Candidate) /\ FlattenSeq(Firsts(ls, k)) = done \o l
  BY <1>11, FlatAppend, FlatType
<1> HIDE DEF done, o, w
<1>13. part = LET left == count - r.skipped
                  take == IF w = Null THEN left ELSE IF left < w - Len(r.out) THEN left ELSE w - Len(r.out)
              IN IF r.skipped >= count THEN <<>> ELSE FirstOf(SubSeq(all, r.skipped + 1, Len(all)), take)
  <2>1. (Wanted = Null <=> q.limit = Null) /\ (q.limit # Null => Wanted = q.limit + 1) /\ (w = Null <=> q.limit = Null)
    <3>1. q.limit # Null => q.limit + 1 # Null
      BY <1>5, <1>10, QueryType
    <3> QED BY <1>1, <1>10, <3>1 DEF Wanted
  <2>2. Wanted = w
    BY <1>10, <2>1
  <2> QED BY <1>1, <1>3, <2>2 DEF UnsortedPart, all, count
<1>14. /\ Cut(done \o l, o, w) = r.out \o part
       /\ next = IF o > Len(done \o l) THEN o - Len(done \o l) ELSE 0
  <2>1. LET out == Cut(done, o, w)
            skipped == IF o > Len(done) THEN o - Len(done) ELSE 0
            left == count - skipped
            take == IF w = Null THEN left ELSE IF left < w - Len(out) THEN left ELSE w - Len(out)
            new == IF skipped >= count THEN <<>> ELSE FirstOf(SubSeq(all, skipped + 1, Len(all)), take)
        IN /\ Cut(done \o FirstOf(all, count), o, w) = out \o new
           /\ (IF skipped >= count THEN skipped - count ELSE 0)
                = IF o > Len(done \o FirstOf(all, count)) THEN o - Len(done \o FirstOf(all, count)) ELSE 0
    <3>1. CutArgs(Candidate, done, all, count, o, w)
      BY <1>7, <1>10, <1>12 DEF CutArgs
    <3> QED BY <3>1, CutStep
  <2> QED BY <1>3, <1>9, <1>13, <2>1 DEF count, l, done, o, w
<1>15. Skipping(q, ls, k + 1, next, r.out \o part)
  <2>1. (k + 1) - 1 = k
    BY <1>5
  <2> QED BY <1>12, <1>14, <2>1 DEF Skipping, o, w
<1> QED BY <1>2, <1>4, <1>6, <1>15 DEF Sound, ls

\* The part a sorted stream is asked for: the least rows, and enough of them.
LEMMA PartRows ==
  ASSUME StoredType, NEW k \in DOMAIN Streams, NEW as_of, NEW q \in Queries
  PROVE  /\ PartOf(k, as_of, q) \subseteq Held(k, as_of) /\ Held(k, as_of) \subseteq Candidate
         /\ IsFiniteSet(Held(k, as_of))
         /\ q.limit = Null => PartOf(k, as_of, q) = Held(k, as_of)
         /\ q.limit # Null =>
              \/ PartOf(k, as_of, q) = Held(k, as_of)
              \/ /\ IsFiniteSet(PartOf(k, as_of, q))
                 /\ Cardinality(PartOf(k, as_of, q)) = q.offset + q.limit + 1
                 /\ \A x \in Held(k, as_of) \ PartOf(k, as_of, q), y \in PartOf(k, as_of, q) :
                      SortKeyBefore(q.sort, y, x)
<1> DEFINE all == Held(k, as_of)
           before == SortedAs(q.sort, all)
           n == q.offset + q.limit + 1
<1>1. all \subseteq Candidate
  BY ServedRows
<1>2. IsFiniteSet(all)
  <2>1. IsFiniteSet(Served(k, as_of))
    BY ServedRows
  <2> DEFINE f == [i \in Served(k, as_of) |-> CandidateAt(k, i)]
  <2>2. f \in [Served(k, as_of) -> all] /\ \A c \in all : \E i \in Served(k, as_of) : f[i] = c
    BY DEF Held
  <2> HIDE DEF f, all
  <2>3. f \in Surjection(Served(k, as_of), all)
    BY <2>2 DEF Surjection
  <2> QED BY <2>1, <2>3, FS_Surjection
<1>3. /\ StrictOrder(all, before)
      /\ \A c, d \in all : <<c, d>> \in before <=> SortKeyBefore(q.sort, c, d)
  <2> HIDE DEF all
  <2>1. sources \in Federations /\ all \in SUBSET Candidate
    BY <1>1 DEF StoredType
  <2> QED BY <2>1, SortOrder
<1>4. CASE q.limit = Null
  BY <1>1, <1>2, <1>4 DEF PartOf
<1>5. CASE q.limit # Null
  <2>1. n \in Nat
    BY <1>5, QueryType
  <2>2. PartOf(k, as_of, q) = Limited(all, before, n)
    BY <1>5 DEF PartOf
  <2> HIDE DEF all, before, n
  <2>3. /\ Limited(all, before, n) \subseteq all
        /\ IsFiniteSet(Limited(all, before, n))
        /\ Limited(all, before, n) = all \/ Cardinality(Limited(all, before, n)) = n
        /\ \A x \in all \ Limited(all, before, n), y \in Limited(all, before, n) : <<y, x>> \in before
    BY <1>2, <1>3, <2>1, LimitedRows
  <2>4. \A x \in all \ Limited(all, before, n), y \in Limited(all, before, n) : SortKeyBefore(q.sort, y, x)
    BY <1>3, <2>3
  <2> QED BY <1>1, <1>2, <1>5, <2>2, <2>3, <2>4 DEF n, all
<1> QED BY <1>4, <1>5

\* One stream more is fetched sorted.
LEMMA FetchSound ==
  ASSUME StoredType, NEW r \in QueryCall, r = req, FetchSorted, Sound(r), NEW n, n = req'
  PROVE  Sound(n)
<1>1. PICK k, as_of, q, left : k = r.k /\ as_of = r.as_of /\ q = r.q /\ left = r.left
  OBVIOUS
<1>2. PICK part : part = SortedPart
  OBVIOUS
<1>3. n = [r EXCEPT !.left = @ \cup part, !.k = @ + 1]
      /\ r.phase = "fetch" /\ k <= Len(Streams) /\ q.sort # "none"
  BY <1>1, <1>2 DEF FetchSorted, Sorted
<1>4. /\ n.phase = "fetch" /\ n.k = k + 1 /\ n.as_of = as_of /\ n.counts = r.counts /\ n.total = r.total
      /\ n.out = r.out /\ n.left = left \cup part /\ n.q = q
  BY <1>1, <1>3 DEF QueryCall
<1>5. k \in Nat \ {0} /\ q \in Queries
  BY <1>1 DEF QueryCall
<1>6. part = PartOf(k, as_of, q)
  <2>1. q.limit # Null => q.limit + 1 # Null /\ q.offset + (q.limit + 1) = q.offset + q.limit + 1
    BY <1>5, QueryType
  <2>2. CASE q.limit = Null
    BY <1>1, <1>2, <2>2 DEF SortedPart, PartOf, Wanted
  <2>3. CASE q.limit # Null
    <3>1. Wanted # Null /\ Needed = q.offset + q.limit + 1
      BY <1>1, <2>1, <2>3 DEF Wanted, Needed
    <3> QED BY <1>1, <1>2, <2>3, <3>1 DEF SortedPart, PartOf
  <2> QED BY <2>2, <2>3
<1>7. ASSUME Steady(as_of) PROVE Merging(q, as_of, k + 1, r.out, left \cup part)
  <2> DEFINE U == UNION {PartOf(j, as_of, q) : j \in 1..(k - 1)}
             V == UNION {PartOf(j, as_of, q) : j \in 1..((k + 1) - 1)}
  <2>1. /\ left \subseteq U
        /\ \A x \in U : x \in left \/ \E i \in DOMAIN r.out : r.out[i] = x
        /\ r.out = <<>>
        /\ q.limit # Null => Len(r.out) <= q.offset + q.limit + 1
    BY <1>1, <1>3, <1>7 DEF Sound, Merging
  <2>2. V = U \cup part
    <3>1. (k + 1) - 1 = k /\ \A j \in 1..k : j \in 1..(k - 1) \/ j = k
      BY <1>5
    <3>2. k \in 1..k /\ \A j \in 1..(k - 1) : j \in 1..k
      BY <1>5
    <3> QED BY <1>6, <3>1, <3>2
  <2>3. DOMAIN r.out = {}
    BY <2>1
  <2> HIDE DEF U, V
  <2>4. left \cup part \subseteq V /\ \A x \in V : x \in left \cup part
    BY <2>1, <2>2, <2>3
  <2> QED BY <2>1, <2>3, <2>4 DEF Merging, V
<1> QED BY <1>1, <1>3, <1>4, <1>7 DEF Sound

\* The least row that is left comes next in the merge.
LEMMA PopSound ==
  ASSUME StoredType, NEW r \in QueryCall, r = req, PopLeast, Sound(r), NEW n, n = req'
  PROVE  Sound(n)
<1>1. PICK k, as_of, q, left, out : k = r.k /\ as_of = r.as_of /\ q = r.q /\ left = r.left /\ out = r.out
  OBVIOUS
<1>2. PICK c \in left : /\ \A d \in left \ {c} : SortKeyBefore(q.sort, c, d)
                        /\ n = [r EXCEPT !.out = Append(@, c), !.left = @ \ {c}]
  BY <1>1 DEF PopLeast
<1>3. r.phase = "fetch" /\ k > Len(Streams) /\ q.sort # "none" /\ ~Gathered
  BY <1>1 DEF PopLeast, Sorted
<1>4. /\ n.phase = "fetch" /\ n.k = k /\ n.as_of = as_of /\ n.counts = r.counts /\ n.total = r.total
      /\ n.out = Append(out, c) /\ n.left = left \ {c} /\ n.q = q
  BY <1>1, <1>2, <1>3 DEF QueryCall
<1>5. /\ k \in Nat \ {0} /\ q \in Queries /\ out \in Seq(Candidate) /\ left \subseteq Candidate
      /\ Len(Streams) \in Nat
  BY <1>1, StreamsType DEF QueryCall, StoredType
<1>6. q.limit # Null => Len(out) + 1 <= q.offset + q.limit + 1
  <2> HAVE q.limit # Null
  <2>1. q.limit \in Nat /\ q.offset \in Nat /\ Null \notin Int
    BY <1>5, QueryType
  <2>2. Wanted = q.limit + 1 /\ Wanted # Null
    BY <1>1, <2>1 DEF Wanted
  <2>3. Needed = q.offset + (q.limit + 1)
    BY <1>1, <2>2 DEF Needed
  <2>4. ~(Len(out) >= Needed)
    BY <1>1, <1>3, <2>2 DEF Gathered
  <2>5. Len(out) \in Nat
    BY <1>5
  <2> QED BY <2>1, <2>3, <2>4, <2>5
<1>7. ASSUME Steady(as_of) PROVE Merging(q, as_of, k, Append(out, c), left \ {c})
  <2> DEFINE U == UNION {PartOf(j, as_of, q) : j \in 1..(k - 1)}
             new == Append(out, c)
             rest == left \ {c}
  <2>1. /\ left \subseteq U
        /\ \A x \in U : x \in left \/ \E i \in DOMAIN out : out[i] = x
        /\ \A i \in DOMAIN out : out[i] \in U \ left /\ \A x \in left : SortKeyBefore(q.sort, out[i], x)
        /\ \A i, j \in DOMAIN out : i < j => SortKeyBefore(q.sort, out[i], out[j])
    BY <1>1, <1>3, <1>7 DEF Sound, Merging
  <2>2. /\ DOMAIN out = 1..Len(out) /\ Len(out) \in Nat /\ DOMAIN new = 1..(Len(out) + 1)
        /\ Len(new) = Len(out) + 1 /\ new[Len(out) + 1] = c
        /\ \A i \in DOMAIN out : new[i] = out[i] /\ i \in DOMAIN new
    BY <1>2, <1>5
  <2>3. \A i \in DOMAIN new : i \in DOMAIN out \/ i = Len(out) + 1
    BY <2>2
  <2> HIDE DEF U, new, rest
  <2>4. rest \subseteq U /\ c \in U /\ c \notin rest /\ \A x \in rest : x \in left /\ SortKeyBefore(q.sort, c, x)
    BY <1>2, <2>1 DEF rest
  <2>5. \A x \in U : x \in rest \/ \E i \in DOMAIN new : new[i] = x
    <3> TAKE x \in U
    <3>1. CASE x = c
      <4>1. Len(out) + 1 \in DOMAIN new
        BY <2>2
      <4> QED BY <2>2, <3>1, <4>1
    <3>2. CASE x # c
      <4>1. x \in rest \/ \E i \in DOMAIN out : out[i] = x
        BY <2>1, <3>2 DEF rest
      <4> QED BY <2>2, <4>1
    <3> QED BY <3>1, <3>2
  <2>6. \A i \in DOMAIN new : new[i] \in U \ rest /\ \A x \in rest : SortKeyBefore(q.sort, new[i], x)
    <3> TAKE i \in DOMAIN new
    <3>1. CASE i \in DOMAIN out
      <4>1. new[i] = out[i] /\ out[i] \in U \ left /\ \A x \in left : SortKeyBefore(q.sort, out[i], x)
        BY <2>1, <2>2, <3>1
      <4> QED BY <2>4, <4>1
    <3>2. CASE i = Len(out) + 1
      BY <2>2, <2>4, <3>2
    <3> QED BY <2>3, <3>1, <3>2
  <2>7. \A i, j \in DOMAIN new : i < j => SortKeyBefore(q.sort, new[i], new[j])
    <3> TAKE i, j \in DOMAIN new
    <3> HAVE i < j
    <3>1. i \in DOMAIN out
      BY <2>2, <2>3
    <3>2. CASE j \in DOMAIN out
      BY <2>1, <2>2, <3>1, <3>2
    <3>3. CASE j = Len(out) + 1
      BY <1>2, <2>1, <2>2, <3>1, <3>3
    <3> QED BY <2>3, <3>2, <3>3
  <2>8. ~(k <= Len(Streams))
    BY <1>3, <1>5
  <2>9. q.limit # Null => Len(new) <= q.offset + q.limit + 1
    BY <1>6, <2>2
  <2> QED BY <2>4, <2>5, <2>6, <2>7, <2>8, <2>9 DEF Merging, U, new, rest
<1> QED BY <1>1, <1>3, <1>4, <1>7 DEF Sound

\* All rows of all streams: finitely many, each in one stream.
LEMMA AllRows ==
  ASSUME StoredType, UniqueInv, NEW as_of
  PROVE  /\ IsFiniteSet(All(as_of)) /\ All(as_of) \subseteq Candidate
         /\ Cardinality(All(as_of)) \in Nat
         /\ FlattenSeq([k \in DOMAIN Streams |-> Candidates(k, as_of)]) \in Seq(Candidate)
         /\ Len(FlattenSeq([k \in DOMAIN Streams |-> Candidates(k, as_of)])) = Cardinality(All(as_of))
<1> DEFINE n == Len(Streams)
           ls == [k \in 1..n |-> Candidates(k, as_of)]
           A == All(as_of)
<1>1. DOMAIN Streams = 1..n /\ n \in Nat
  BY StreamsType DEF StoredType
<1>2. \A k \in 1..n : /\ ls[k] \in Seq(Candidate)
                      /\ \A i \in DOMAIN ls[k] : ls[k][i] \in Held(k, as_of)
                      /\ \A c \in Held(k, as_of) : \E i \in DOMAIN ls[k] : ls[k][i] = c
                      /\ \A i, j \in DOMAIN ls[k] : ls[k][i] = ls[k][j] => i = j
  <2> TAKE k \in 1..n
  <2> DEFINE cs == Candidates(k, as_of)
  <2>1. /\ cs \in Seq(Candidate) /\ Len(cs) \in Nat
        /\ \A i \in 1..Len(cs) : cs[i] \in Held(k, as_of)
        /\ \A c \in Held(k, as_of) : \E i \in 1..Len(cs) : cs[i] = c
        /\ \A i, j \in 1..Len(cs) : cs[i] = cs[j] => i = j
    BY <1>1, CandidatesAre
  <2>2. ls[k] = cs
    OBVIOUS
  <2> HIDE DEF cs, ls
  <2>3. DOMAIN cs = 1..Len(cs)
    BY <2>1
  <2> QED BY <2>1, <2>2, <2>3
<1>3. \A k \in 1..n : \A c \in Held(k, as_of) : c.stream = k /\ c \in Candidate
  <2> TAKE k \in 1..n
  <2> TAKE c \in Held(k, as_of)
  <2>1. c.stream = k
    BY DEF Held, CandidateAt
  <2>2. Held(k, as_of) \subseteq Candidate
    BY <1>1, ServedRows
  <2> QED BY <2>1, <2>2
<1>4. \A k, l \in 1..n : \A i \in DOMAIN ls[k], j \in DOMAIN ls[l] : ls[k][i] = ls[l][j] => k = l
  <2> HIDE DEF ls, n
  <2> QED BY <1>2, <1>3
<1>5. ls \in [1..n -> Seq(Candidate)]
  <2>1. \A k \in 1..n : Candidates(k, as_of) \in Seq(Candidate)
    BY <1>2
  <2> QED BY <2>1
<1>6. A \subseteq Candidate /\ \A c \in A : \E k \in 1..n : c \in Held(k, as_of)
  BY <1>1, <1>3 DEF All
<1>60. \A k \in 1..n : Held(k, as_of) \subseteq A
  BY <1>1 DEF All
<1> HIDE DEF ls, n, A
<1>7. LET f == FlattenSeq(ls)
      IN /\ f \in Seq(Candidate)
         /\ \A i, j \in DOMAIN f : f[i] = f[j] => i = j
         /\ \A i \in DOMAIN f : \E k \in 1..n : \E j \in DOMAIN ls[k] : ls[k][j] = f[i]
         /\ \A k \in 1..n : \A j \in DOMAIN ls[k] : \E i \in DOMAIN f : f[i] = ls[k][j]
  <2>1. n \in Nat
    BY <1>1
  <2>2. \A k \in 1..n : \A i, j \in DOMAIN ls[k] : ls[k][i] = ls[k][j] => i = j
    BY <1>2
  <2>3. Apart(Candidate, n, ls)
    BY <2>1, <2>2, <1>4, <1>5 DEF Apart
  <2> QED BY <2>3, FlatSet
<1>8. PICK f : f = FlattenSeq(ls)
  OBVIOUS
<1>9. /\ f \in Seq(Candidate) /\ DOMAIN f = 1..Len(f) /\ Len(f) \in Nat
      /\ \A i, j \in 1..Len(f) : f[i] = f[j] => i = j
  <2>1. f \in Seq(Candidate) /\ \A i, j \in DOMAIN f : f[i] = f[j] => i = j
    BY <1>7, <1>8
  <2>2. DOMAIN f = 1..Len(f) /\ Len(f) \in Nat
    BY <2>1
  <2> QED BY <2>1, <2>2
<1>10. f \in [1..Len(f) -> A]
  <2>1. \A i \in 1..Len(f) : f[i] \in A
    <3> TAKE i \in 1..Len(f)
    <3>1. PICK k \in 1..n : \E j \in DOMAIN ls[k] : ls[k][j] = f[i]
      BY <1>7, <1>8, <1>9
    <3> QED BY <1>2, <1>60, <3>1
  <2> QED BY <1>9, <2>1
<1>11. \A c \in A : \E i \in 1..Len(f) : f[i] = c
  <2> TAKE c \in A
  <2>1. PICK k \in 1..n : c \in Held(k, as_of)
    BY <1>6
  <2>2. PICK j \in DOMAIN ls[k] : ls[k][j] = c
    BY <1>2, <2>1
  <2> QED BY <1>7, <1>8, <1>9, <2>2
<1>12. IsFiniteSet(A) /\ Cardinality(A) = Len(f)
  BY ONLY <1>9, <1>10, <1>11, Enumerated
<1>13. f = FlattenSeq([k \in DOMAIN Streams |-> Candidates(k, as_of)])
  BY <1>1, <1>8 DEF ls
<1> QED BY <1>6, <1>9, <1>12, <1>13 DEF A

\* On a steady cutoff everything was counted.
LEMMA SteadyCount ==
  ASSUME StoredType, UniqueInv, NEW as_of, Steady(as_of), NEW counts \in Seq(Nat),
         Len(counts) = Len(Streams), NEW total, CountsHold(as_of, counts, total)
  PROVE  /\ CountedLists(as_of, counts) = [k \in DOMAIN Streams |-> Candidates(k, as_of)]
         /\ total = Cardinality(All(as_of))
<1>1. DOMAIN counts = DOMAIN Streams
  <2>1. DOMAIN counts = 1..Len(counts)
    OBVIOUS
  <2> QED BY <2>1, StreamsType DEF StoredType
<1>2. \A k \in DOMAIN Streams : FirstOf(Candidates(k, as_of), counts[k]) = Candidates(k, as_of)
  <2> TAKE k \in DOMAIN Streams
  <2> DEFINE cs == Candidates(k, as_of)
             c == counts[k]
             f == FirstOf(cs, c)
  <2>1. cs \in Seq(Candidate) /\ Len(cs) \in Nat /\ c = Len(cs)
    BY <1>1, CandidatesType DEF CountsHold
  <2> HIDE DEF cs, c
  <2>2. /\ f \in Seq(Candidate)
        /\ Len(f) = IF c < 0 THEN 0 ELSE IF Len(cs) > c THEN c ELSE Len(cs)
        /\ \A i \in DOMAIN f : f[i] = cs[i]
    BY <2>1, FirstOfIs
  <2> HIDE DEF f
  <2>3. Len(f) = Len(cs)
    BY <2>1, <2>2
  <2>4. \A i \in 1..Len(f) : f[i] = cs[i]
    BY <2>2
  <2>5. f = cs
    BY ONLY <2>1, <2>2, <2>3, <2>4, SameSeq
  <2> QED BY <2>5 DEF f, c, cs
<1>3. CountedLists(as_of, counts) = [k \in DOMAIN Streams |-> Candidates(k, as_of)]
  BY <1>1, <1>2 DEF CountedLists
<1>4. total = Len(FlattenSeq(CountedLists(as_of, counts)))
  BY DEF CountsHold
<1> QED BY <1>3, <1>4, AllRows

\* A merge that ends is the beginning of all rows in order.
LEMMA MergedBegins ==
  ASSUME StoredType, UniqueInv, NEW q \in Queries, NEW as_of, NEW k, k = Len(Streams) + 1,
         NEW out \in Seq(Candidate), NEW left, Merging(q, as_of, k, out, left),
         left = {} \/ (q.limit # Null /\ Len(out) >= q.offset + q.limit + 1)
  PROVE  /\ Begins(out, All(as_of), SortedAs(q.sort, All(as_of)))
         /\ q.limit = Null => Len(out) = Cardinality(All(as_of))
         /\ q.limit # Null =>
              Len(out) = LET n == q.offset + q.limit + 1
                         IN IF Cardinality(All(as_of)) > n THEN n ELSE Cardinality(All(as_of))
<1> DEFINE A == All(as_of)
           before == SortedAs(q.sort, A)
           n == q.offset + q.limit + 1
           U == UNION {PartOf(j, as_of, q) : j \in 1..(k - 1)}
           m == Len(out)
           Bef(c, d) == SortKeyBefore(q.sort, c, d)
<1>1. IsFiniteSet(A) /\ A \subseteq Candidate /\ Cardinality(A) \in Nat
  BY AllRows
<1>2. StrictOrder(A, before) /\ \A c, d \in A : <<c, d>> \in before <=> Bef(c, d)
  <2>1. sources \in Federations /\ A \in SUBSET Candidate
    BY <1>1 DEF StoredType
  <2> HIDE DEF A
  <2> QED BY <2>1, SortOrder
<1>3. /\ left \subseteq U
      /\ \A x \in U : x \in left \/ \E i \in DOMAIN out : out[i] = x
      /\ \A i \in DOMAIN out : out[i] \in U \ left /\ \A x \in left : Bef(out[i], x)
      /\ \A i, j \in DOMAIN out : i < j => Bef(out[i], out[j])
      /\ q.limit # Null => m <= n
  BY DEF Merging
<1>4. DOMAIN out = 1..m /\ m \in Nat
  OBVIOUS
<1>5. 1..(k - 1) = DOMAIN Streams
  BY StreamsType DEF StoredType
<1>6. /\ \A x \in A : \E j \in DOMAIN Streams : x \in Held(j, as_of)
      /\ \A j \in DOMAIN Streams : Held(j, as_of) \subseteq A /\ PartOf(j, as_of, q) \subseteq U
      /\ U \subseteq A
  <2>1. \A j \in DOMAIN Streams : PartOf(j, as_of, q) \subseteq Held(j, as_of)
    BY PartRows
  <2> QED BY <1>5, <2>1 DEF All
<1>7. q.limit # Null => n \in Nat
  BY QueryType
<1>8. \A j \in DOMAIN Streams :
        \/ PartOf(j, as_of, q) = Held(j, as_of)
        \/ /\ q.limit # Null
           /\ IsFiniteSet(PartOf(j, as_of, q)) /\ Cardinality(PartOf(j, as_of, q)) = n
           /\ \A x \in Held(j, as_of) \ PartOf(j, as_of, q), y \in PartOf(j, as_of, q) : Bef(y, x)
  <2> TAKE j \in DOMAIN Streams
  <2>1. /\ q.limit = Null => PartOf(j, as_of, q) = Held(j, as_of)
        /\ q.limit # Null =>
             \/ PartOf(j, as_of, q) = Held(j, as_of)
             \/ /\ IsFiniteSet(PartOf(j, as_of, q))
                /\ Cardinality(PartOf(j, as_of, q)) = n
                /\ \A x \in Held(j, as_of) \ PartOf(j, as_of, q), y \in PartOf(j, as_of, q) : Bef(y, x)
    BY PartRows
  <2> QED BY <2>1
<1> HIDE DEF A, before, n, U, m, Bef
<1>9. /\ \A x \in A : ~Bef(x, x)
      /\ \A x, y, z \in A : Bef(x, y) /\ Bef(y, z) => Bef(x, z)
  BY <1>2 DEF StrictOrder
<1>10. \A i \in 1..m : out[i] \in A
  BY <1>3, <1>4, <1>6
<1>11. \A i, j \in 1..m : out[i] = out[j] => i = j
  <2> TAKE i, j \in 1..m
  <2>1. i < j \/ j < i \/ i = j
    BY <1>4
  <2> QED BY <1>3, <1>4, <1>9, <1>10, <2>1
\* The first rows of the output, as a set.
<1>12. \A p \in Nat : p <= m => LET T == {out[i] : i \in 1..p} IN IsFiniteSet(T) /\ Cardinality(T) = p
  <2> TAKE p \in Nat
  <2> HAVE p <= m
  <2> DEFINE T == {out[i] : i \in 1..p}
             s == [i \in 1..p |-> out[i]]
  <2>1. s \in [1..p -> T]
    OBVIOUS
  <2>2. \A i, j \in 1..p : s[i] = s[j] => i = j
    <3>1. 1..p \subseteq 1..m
      BY <1>4
    <3> QED BY <1>11, <3>1
  <2>3. \A t \in T : \E i \in 1..p : s[i] = t
    OBVIOUS
  <2> HIDE DEF T, s
  <2>4. IsFiniteSet(T) /\ Cardinality(T) = p
    BY ONLY p \in Nat, <2>1, <2>2, <2>3, Enumerated
  <2> QED BY <2>4 DEF T
<1>13. \A i \in 1..m, x \in A : Bef(x, out[i]) => \E j \in 1..m : out[j] = x
  <2> TAKE i \in 1..m
  <2> TAKE x \in A
  <2> HAVE Bef(x, out[i])
  <2>1. \A y \in U : Bef(y, out[i]) => \E j \in 1..m : out[j] = y
    <3> TAKE y \in U
    <3> HAVE Bef(y, out[i])
    <3>1. y \notin left
      <4> SUFFICES ASSUME y \in left PROVE FALSE
        OBVIOUS
      <4>1. Bef(out[i], y)
        BY <1>3, <1>4
      <4> QED BY <1>6, <1>9, <1>10, <4>1
    <3> QED BY <1>3, <1>4, <3>1
  <2>2. PICK j \in DOMAIN Streams : x \in Held(j, as_of)
    BY <1>6
  <2>3. PICK P : P = PartOf(j, as_of, q)
    OBVIOUS
  <2>4. CASE x \in P
    BY <1>6, <2>1, <2>3, <2>4
  <2>5. CASE x \notin P
    <3>1. /\ q.limit # Null /\ IsFiniteSet(P) /\ Cardinality(P) = n
          /\ \A y \in P : Bef(y, x)
      BY <1>8, <2>2, <2>3, <2>5
    <3>2. P \subseteq U
      BY <1>6, <2>3
    <3>3. \A y \in P : Bef(y, out[i])
      BY <1>6, <1>9, <1>10, <3>1, <3>2
    <3>4. i - 1 \in Nat /\ i - 1 <= m /\ i - 1 < i /\ i <= m /\ i \in Nat
      BY <1>4
    <3> DEFINE T == {out[l] : l \in 1..(i - 1)}
    <3>5. IsFiniteSet(T) /\ Cardinality(T) = i - 1
      BY <1>12, <3>4
    <3>6. P \subseteq T
      <4> SUFFICES ASSUME NEW y \in P PROVE y \in T
        OBVIOUS
      <4>1. PICK l \in 1..m : out[l] = y
        BY <2>1, <3>2, <3>3
      <4>2. l < i
        <5> SUFFICES ASSUME ~(l < i) PROVE FALSE
          OBVIOUS
        <5>1. l = i \/ i < l
          BY <1>4, <3>4
        <5>2. Bef(out[l], out[i])
          BY <3>3, <4>1
        <5> QED BY <1>3, <1>4, <1>9, <1>10, <5>1, <5>2
      <4>3. l \in 1..(i - 1)
        BY <1>4, <3>4, <4>2
      <4> QED BY <4>1, <4>3
    <3> HIDE DEF T
    <3>7. Cardinality(P) <= Cardinality(T)
      BY <3>5, <3>6, FS_Subset
    <3> QED BY <1>3, <1>4, <1>7, <3>1, <3>4, <3>5, <3>7
  <2> QED BY <2>4, <2>5
<1>14. Begins(out, A, before)
  <2>1. out \in Seq(A)
    <3>1. out \in [1..m -> A]
      BY <1>4, <1>10
    <3> QED BY <1>4, <3>1
  <2>2. \A i, j \in 1..m : i < j => <<out[i], out[j]>> \in before
    BY <1>2, <1>3, <1>4, <1>10
  <2>3. \A i \in 1..m, x \in A : <<x, out[i]>> \in before => \E j \in 1..m : out[j] = x
    BY <1>2, <1>10, <1>13
  <2> QED BY <2>1, <2>2, <2>3 DEF Begins, m
<1>15. m <= Cardinality(A)
  <2>1. Len(out) <= Cardinality(A)
    BY <1>1, <1>2, <1>14, SortedBeginning
  <2> QED BY <2>1 DEF m
<1> DEFINE R == {out[i] : i \in 1..m}
<1>16. IsFiniteSet(R) /\ Cardinality(R) = m
  <2>1. m \in Nat /\ m <= m
    BY <1>4
  <2>2. PICK p : p = m
    OBVIOUS
  <2>3. IsFiniteSet({out[i] : i \in 1..p}) /\ Cardinality({out[i] : i \in 1..p}) = p
    BY <1>12, <2>1, <2>2
  <2> QED BY <2>2, <2>3
<1>17. R \subseteq A
  BY <1>10
<1>18. left = {} => U \subseteq R
  BY <1>3, <1>4
<1> HIDE DEF R
<1>19. left = {} => \/ R = A
                    \/ q.limit # Null /\ n <= m
  <2> HAVE left = {}
  <2> SUFFICES ASSUME R # A PROVE q.limit # Null /\ n <= m
    OBVIOUS
  <2>1. PICK x \in A : x \notin R
    BY <1>17
  <2>2. PICK j \in DOMAIN Streams : x \in Held(j, as_of)
    BY <1>6
  <2>3. PICK P : P = PartOf(j, as_of, q)
    OBVIOUS
  <2>4. P \subseteq R
    BY <1>6, <1>18, <2>3
  <2>5. q.limit # Null /\ Cardinality(P) = n
    BY <1>8, <2>1, <2>2, <2>3, <2>4
  <2>6. Cardinality(P) <= Cardinality(R)
    BY <1>16, <2>4, FS_Subset
  <2> QED BY <1>16, <2>5, <2>6
<1>20. \/ m = Cardinality(A)
       \/ q.limit # Null /\ n <= m
  <2>1. left = {} \/ (q.limit # Null /\ m >= n)
    BY DEF m, n
  <2>2. (q.limit # Null /\ m >= n) => n <= m
    BY <1>4, <1>7
  <2> QED BY <1>16, <1>19, <2>1, <2>2
<1>21. q.limit = Null => m = Cardinality(A)
  BY <1>20
<1>22. q.limit # Null => m = IF Cardinality(A) > n THEN n ELSE Cardinality(A)
  <2> HAVE q.limit # Null
  <2>1. m <= n /\ n \in Nat /\ m \in Nat /\ Cardinality(A) \in Nat
    BY <1>1, <1>3, <1>4, <1>7
  <2> QED BY <1>15, <1>20, <2>1
<1> QED BY <1>14, <1>21, <1>22 DEF A, before, m, n

\* The window of the merge is the window of all rows in order.
LEMMA SortedPage ==
  ASSUME StoredType, UniqueInv, NEW q \in Queries, NEW as_of, NEW k, k = Len(Streams) + 1,
         NEW out \in Seq(Candidate), NEW left, Merging(q, as_of, k, out, left),
         left = {} \/ (q.limit # Null /\ Len(out) >= q.offset + q.limit + 1)
  PROVE  /\ InAll(as_of, q.sort) \in Seq(Candidate)
         /\ Len(InAll(as_of, q.sort)) = Cardinality(All(as_of))
         /\ SubSeq(out, q.offset + 1, Len(out)) = Cut(InAll(as_of, q.sort), q.offset, WantedOf(q))
<1> DEFINE A == All(as_of)
           before == SortedAs(q.sort, A)
           list == OrderBy(A, before)
<1>1. IsFiniteSet(A) /\ A \subseteq Candidate /\ Cardinality(A) \in Nat
  BY AllRows
<1>2. StrictOrder(A, before)
  <2>1. sources \in Federations /\ A \in SUBSET Candidate
    BY <1>1 DEF StoredType
  <2> HIDE DEF A
  <2> QED BY <2>1, SortOrder
<1>3. /\ Begins(out, A, before)
      /\ q.limit = Null => Len(out) = Cardinality(A)
      /\ q.limit # Null =>
           Len(out) = LET n == q.offset + q.limit + 1 IN IF Cardinality(A) > n THEN n ELSE Cardinality(A)
  BY MergedBegins
<1>4. list = InAll(as_of, q.sort)
  BY DEF InAll
<1> HIDE DEF A, before, list
<1>5. list \in Seq(A) /\ Len(list) = Cardinality(A)
  BY <1>1, <1>2, Ordered DEF list
<1>6. list \in Seq(Candidate)
  BY <1>1, <1>5
<1>7. \A i \in 1..Len(out) : out[i] = list[i]
  BY <1>1, <1>2, <1>3, SortedBeginning DEF list
<1>8. /\ q.limit = Null => Len(out) = Len(list)
      /\ q.limit # Null =>
           Len(out) = LET n == q.offset + q.limit + 1 IN IF Len(list) > n THEN n ELSE Len(list)
  BY <1>3, <1>5
<1>9. SubSeq(out, q.offset + 1, Len(out)) = Cut(list, q.offset, WantedOf(q))
  BY <1>6, <1>7, <1>8, CutOfFirst
<1> QED BY <1>4, <1>5, <1>6, <1>9 DEF A

\* The page that is cut is the page of what was asked.
LEMMA CutSound ==
  ASSUME StoredType, UniqueInv, NEW r \in QueryCall, r = req, CutPage, Sound(r),
         r.k <= Len(Streams) + 1, Len(r.counts) = Len(Streams), NEW n, n = req'
  PROVE  Sound(n)
<1>1. PICK k, as_of, counts, q, out : /\ k = r.k /\ as_of = r.as_of /\ counts = r.counts
                                      /\ q = r.q /\ out = r.out
  OBVIOUS
<1>2. PICK merged, visible, twice :
        /\ merged = Merged /\ visible = Visible
        /\ twice = {i \in DOMAIN Visible : ClaimedTwice(Visible[i], req.as_of)}
  OBVIOUS
<1>3. PICK more : more = (Len(merged) > Len(visible))
  OBVIOUS
<1>4. /\ n = [r EXCEPT !.phase = "probe", !.page = visible, !.more = more, !.twice = twice]
      /\ r.phase = "fetch" /\ k > Len(Streams) /\ (q.sort # "none" => Gathered)
  BY <1>1, <1>2, <1>3 DEF CutPage, Sorted
<1>5. /\ n.phase = "probe" /\ n.as_of = as_of /\ n.counts = counts /\ n.total = r.total /\ n.q = q
      /\ n.page = visible /\ n.more = more
  BY <1>1, <1>4 DEF QueryCall
<1>6. /\ counts \in Seq(Nat) /\ k \in Nat \ {0} /\ Len(counts) = Len(Streams) /\ q \in Queries
      /\ Len(counts) <= Len(Streams) /\ out \in Seq(Candidate) /\ k = Len(Streams) + 1
      /\ Len(Streams) \in Nat /\ k - 1 = Len(counts)
  <2>1. Len(Streams) \in Nat
    BY StreamsType DEF StoredType
  <2>2. counts \in Seq(Nat) /\ k \in Nat \ {0} /\ q \in Queries /\ out \in Seq(Candidate)
    BY <1>1 DEF QueryCall
  <2>3. k <= Len(Streams) + 1 /\ k > Len(Streams) /\ Len(counts) = Len(Streams)
    BY <1>1, <1>4
  <2>4. k = Len(Streams) + 1 /\ k - 1 = Len(counts) /\ Len(counts) <= Len(Streams)
    BY ONLY <2>1, <2>2, <2>3
  <2> QED BY <2>1, <2>2, <2>3, <2>4
<1>7. CountsHold(as_of, counts, r.total)
  BY <1>1 DEF Sound
<1>8. PICK p : p = PageOf(n)
  OBVIOUS
<1>9. /\ p.q = q /\ p.as_of = as_of /\ p.counts = counts /\ p.total = r.total /\ p.rows = visible
      /\ p.more = (Len(merged) > Len(p.rows))
      /\ p.rows = IF q.limit = Null THEN merged ELSE FirstOf(merged, q.limit)
  <2>1. /\ p.q = q /\ p.as_of = as_of /\ p.counts = counts /\ p.total = r.total /\ p.rows = visible
        /\ p.more = more
    BY <1>5, <1>8 DEF PageOf
  <2>2. visible = IF q.limit = Null THEN merged ELSE FirstOf(merged, q.limit)
    BY <1>1, <1>2 DEF Visible
  <2> QED BY <1>3, <2>1, <2>2
<1>10. CASE q.sort = "none"
  <2> DEFINE ls == CountedLists(as_of, counts)
  <2>1. ls \in Seq(Seq(Candidate)) /\ Len(ls) = Len(counts)
    <3>1. \A j \in DOMAIN counts : counts[j] <= Len(Candidates(j, as_of))
      BY <1>7 DEF CountsHold
    <3> QED BY <1>6, <3>1, CountedType
  <2>2. Skipping(q, ls, k, r.skipped, out)
    BY <1>1, <1>4, <1>10 DEF Sound
  <2>3. r.total = Len(FlattenSeq(ls))
    BY <1>7 DEF CountsHold
  <2> HIDE DEF ls
  <2>4. Firsts(ls, k - 1) = ls
    <3>1. ls = [i \in 1..Len(ls) |-> ls[i]]
      BY <2>1
    <3> QED BY <1>6, <2>1, <3>1 DEF Firsts
  <2>5. out = Cut(FlattenSeq(ls), q.offset, WantedOf(q))
    BY <2>2, <2>4 DEF Skipping
  <2>6. merged = out
    BY <1>1, <1>2, <1>10 DEF Merged, Sorted
  <2>7. FlattenSeq(ls) \in Seq(Candidate)
    BY <2>1, FlatType
  <2>8. PICK list : list = FlattenSeq(ls)
    OBVIOUS
  <2>9. IsPageOf(p, list)
    <3>1. list \in Seq(Candidate) /\ merged = Cut(list, q.offset, WantedOf(q)) /\ p.total = Len(list)
      BY <1>9, <2>3, <2>5, <2>6, <2>7, <2>8
    <3> QED BY <1>6, <1>9, <3>1, PageOfCut
  <2>10. PageHolds(p)
    BY <1>9, <1>10, <2>8, <2>9 DEF PageHolds, ls
  <2> QED BY <1>5, <1>7, <1>8, <2>10 DEF Sound
<1>11. CASE q.sort # "none"
  <2>1. ASSUME Steady(as_of) PROVE IsPageOf(p, InAll(as_of, q.sort))
    <3>1. PICK left : left = r.left
      OBVIOUS
    <3>2. Merging(q, as_of, k, out, left)
      BY <1>1, <1>4, <1>11, <2>1, <3>1 DEF Sound
    <3>3. left = {} \/ (q.limit # Null /\ Len(out) >= q.offset + q.limit + 1)
      <4>1. left = {} \/ (Wanted # Null /\ Len(out) >= Needed)
        BY <1>1, <1>4, <1>11, <3>1 DEF Gathered
      <4>2. q.limit = Null => Wanted = Null
        BY <1>1 DEF Wanted
      <4>3. q.limit # Null => Needed = q.offset + q.limit + 1
        <5> HAVE q.limit # Null
        <5>1. q.limit \in Nat /\ q.offset \in Nat
          BY <1>6, QueryType
        <5>2. Needed = q.offset + (q.limit + 1)
          BY <1>1 DEF Needed, Wanted
        <5> QED BY <5>1, <5>2
      <4> QED BY <4>1, <4>2, <4>3
    <3>4. PICK list : list = InAll(as_of, q.sort)
      OBVIOUS
    <3>5. /\ list \in Seq(Candidate) /\ Len(list) = Cardinality(All(as_of))
          /\ SubSeq(out, q.offset + 1, Len(out)) = Cut(list, q.offset, WantedOf(q))
      BY <1>6, <3>2, <3>3, <3>4, SortedPage
    <3>6. merged = SubSeq(out, q.offset + 1, Len(out))
      BY <1>1, <1>2, <1>11 DEF Merged, Sorted
    <3>7. r.total = Cardinality(All(as_of))
      BY <1>6, <1>7, <2>1, SteadyCount
    <3>8. list \in Seq(Candidate) /\ merged = Cut(list, q.offset, WantedOf(q)) /\ p.total = Len(list)
      BY <1>9, <3>5, <3>6, <3>7
    <3>9. IsPageOf(p, list)
      BY <1>6, <1>9, <3>8, PageOfCut
    <3> QED BY <3>4, <3>9
  <2>2. PageHolds(p)
    BY <1>9, <1>11, <2>1 DEF PageHolds
  <2> QED BY <1>5, <1>7, <1>8, <2>2 DEF Sound
<1> QED BY <1>10, <1>11

\* The probe leaves the page as it is.
LEMMA ProbeSound ==
  ASSUME NEW r \in QueryCall, r = req, Probe, Sound(r), NEW n, n = req', n # Idle
  PROVE  Sound(n)
<1>1. n = [r EXCEPT !.probed = @ + 1] /\ r.phase = "probe"
  BY DEF Probe
<1>2. /\ n.phase = "probe" /\ n.as_of = r.as_of /\ n.counts = r.counts /\ n.total = r.total
      /\ n.q = r.q /\ n.page = r.page /\ n.more = r.more
  BY <1>1 DEF QueryCall
<1>3. PageOf(n) = PageOf(r)
  BY <1>2 DEF PageOf
<1> QED BY <1>1, <1>2, <1>3 DEF Sound

\* The page that is returned is the one that was cut.
LEMMA PageSound ==
  ASSUME NEW r \in QueryCall, r = req, Page, Sound(r), Len(r.counts) = Len(Streams),
         NEW p, p = result'
  PROVE  SoundPage(p)
<1>1. /\ p.rows = r.page /\ p.q = r.q /\ p.as_of = r.as_of /\ p.total = r.total
      /\ p.counts = r.counts /\ p.more = r.more /\ r.phase = "probe"
  BY DEF Page
<1>2. PageHolds(PageOf(r))
  BY <1>1 DEF Sound
<1>3. PICK o : o = PageOf(r)
  OBVIOUS
<1>4. /\ p.rows = o.rows /\ p.q = o.q /\ p.as_of = o.as_of /\ p.total = o.total
      /\ p.counts = o.counts /\ p.more = o.more
  BY <1>1, <1>3 DEF PageOf
<1>5. PageHolds(p)
  <2>1. \A list : IsPageOf(o, list) <=> IsPageOf(p, list)
    BY <1>4 DEF IsPageOf
  <2> QED BY <1>2, <1>3, <1>4, <2>1 DEF PageHolds
<1>6. CountsHold(p.as_of, p.counts, p.total)
  BY <1>1 DEF Sound
<1> QED BY <1>1, <1>5, <1>6 DEF SoundPage, QueryCall

SnapIInv == StoredType /\ CallType /\ UniqueInv /\ SnapInv /\ QueryInv /\ ResultInv

\* The invariant holds at first.
LEMMA SnapInit ==
  ASSUME FederationInit
  PROVE  SnapIInv
<1>1. StoredType /\ CallType
  BY HiddenInit DEF HiddenInv
<1>2. UniqueInv
  <2>1. \A s \in DOMAIN sources : open[s] = Null
    BY DEF FederationInit
  <2>2. \A k \in DOMAIN Streams : \A i, j \in DOMAIN stored[k] : i = j
    <3> TAKE k \in DOMAIN Streams
    <3>1. stored[k] = <<>> \/ \E row : stored[k] = <<row>>
      <4>1. stored \in [DOMAIN Streams -> {<<>>} \cup {<<[id |-> id, at |-> 0]>> : id \in Early}]
        BY DEF FederationInit
      <4> QED BY <4>1
    <3>2. \A row : DOMAIN <<row>> = {1}
      OBVIOUS
    <3>3. DOMAIN <<>> = {}
      OBVIOUS
    <3> TAKE i, j \in DOMAIN stored[k]
    <3> QED BY <3>1, <3>2, <3>3
  <2> QED BY <2>1, <2>2 DEF UniqueInv
<1>3. cutoff = Null /\ req.kind = "idle" /\ result.kind = "none"
  BY DEF FederationInit, Idle, NoResult
<1> QED BY <1>1, <1>2, <1>3 DEF SnapIInv, SnapInv, QueryInv, ResultInv

\* A query stays sound in every step.
LEMMA CallSound ==
  ASSUME StoredType, CallType, UniqueInv, QueryInv, [FederationNext]_federationVars,
         NEW n, n = req', n.kind = "query"
  PROVE  Sound(n)
<1>1. req.kind = "query" => /\ req \in QueryCall /\ req.k <= Len(Streams) + 1
                            /\ Len(req.counts) = IF req.phase = "count" THEN req.k - 1 ELSE Len(Streams)
  BY DEF CallType, AuditCall, Idle
<1>2. \A r \in {req} : r.kind = "query" => /\ Sound(r) /\ r \in QueryCall /\ r.k <= Len(Streams) + 1
                                           /\ r.phase = "count" => Len(r.counts) = r.k - 1
                                           /\ r.phase # "count" => Len(r.counts) = Len(Streams)
  BY <1>1 DEF QueryInv
<1>3. PICK r : r = req
  OBVIOUS
<1>4. r.kind = "query" => /\ Sound(r) /\ r \in QueryCall /\ r.k <= Len(Streams) + 1
                          /\ r.phase = "count" => Len(r.counts) = r.k - 1
                          /\ r.phase # "count" => Len(r.counts) = Len(Streams)
  BY <1>2, <1>3
<1>5. CASE req' = req
  BY <1>3, <1>4, <1>5
<1>6. ASSUME NEW q \in Queries, NEW as_of \in {Null, cutoff}, Query(q, as_of) PROVE Sound(n)
  BY <1>6, QuerySound
<1>7. CASE CountStream
  <2>1. r.kind = "query" /\ r.phase = "count"
    BY <1>3, <1>7 DEF CountStream
  <2> QED BY <1>3, <1>4, <1>7, <2>1, CountSound
<1>8. CASE AllCounted
  <2>1. r.kind = "query"
    BY <1>3, <1>8 DEF AllCounted
  <2> QED BY <1>3, <1>4, <1>8, <2>1, CountedSound
<1>9. CASE FetchUnsorted
  <2>1. r.kind = "query" /\ r.phase # "count"
    BY <1>3, <1>9 DEF FetchUnsorted
  <2> QED BY <1>3, <1>4, <1>9, <2>1, SkipSound
<1>10. CASE FetchSorted
  <2>1. r.kind = "query"
    BY <1>3, <1>10 DEF FetchSorted
  <2> QED BY <1>3, <1>4, <1>10, <2>1, FetchSound
<1>11. CASE PopLeast
  <2>1. r.kind = "query"
    BY <1>3, <1>11 DEF PopLeast
  <2> QED BY <1>3, <1>4, <1>11, <2>1, PopSound
<1>12. CASE CutPage
  <2>1. r.kind = "query" /\ r.phase # "count"
    BY <1>3, <1>12 DEF CutPage
  <2> QED BY <1>3, <1>4, <1>12, <2>1, CutSound
<1>13. CASE Probe
  <2>1. r.kind = "query"
    BY <1>3, <1>13 DEF Probe
  <2>2. n # Idle
    BY DEF Idle
  <2> QED BY <1>3, <1>4, <1>13, <2>1, <2>2, ProbeSound
<1>14. CASE Page
  <2>1. n.kind = "idle"
    BY <1>14 DEF Page, Idle
  <2> QED BY <2>1
<1>15. CASE Audit
  <2>1. n.kind = "audit"
    BY <1>15 DEF Audit
  <2> QED BY <2>1
<1>16. ASSUME req.kind = "audit", AuditBatch \/ AuditGroup PROVE n.kind # "query"
  <2>1. req \in AuditCall
    BY <1>16 DEF CallType, QueryCall, Idle
  <2>2. CASE AuditBatch
    <3>1. PICK k, batch : req' = [req EXCEPT !.buffer[k] = batch, !.done[k] = Cardinality(batch) < BatchSize,
                                              !.last[k] = IF batch = {} THEN @ ELSE Max(batch)]
      BY <2>2 DEF AuditBatch
    <3> QED BY <2>1, <3>1 DEF AuditCall
  <2>3. CASE AuditGroup
    <3>1. \/ req' = Idle
          \/ \E c : req' = [req EXCEPT !.buffer[c.stream] = @ \ {c.id}]
      BY <2>3 DEF AuditGroup
    <3> QED BY <2>1, <3>1 DEF AuditCall, Idle
  <2> QED BY <1>16, <2>2, <2>3
<1>17. CASE AuditBatch \/ AuditGroup
  BY <1>16, <1>17 DEF AuditBatch, AuditGroup
<1>18. ASSUME \/ Tick \/ TakeCutoff \/ UNCHANGED federationVars
              \/ \E k \in DOMAIN Streams, id \in Ids : Open(k, id) \/ Fetch(k, id)
              \/ \E s \in DOMAIN sources : Commit(s)
       PROVE  req' = req
  <2>1. CASE UNCHANGED federationVars
    BY <2>1 DEF federationVars
  <2> QED BY <1>18, <2>1 DEF Tick, TakeCutoff, Open, Fetch, Commit
<1> QED BY <1>5, <1>6, <1>7, <1>8, <1>9, <1>10, <1>11, <1>12, <1>13, <1>14, <1>15, <1>17, <1>18
        DEF FederationNext

\* A page is sound when it is returned, and stays so.
LEMMA PageStep ==
  ASSUME StoredType, CallType, QueryInv, [FederationNext]_federationVars, ResultInv,
         NEW p, p = result', p.kind = "page"
  PROVE  SoundPage(p)
<1>1. CASE result' = result
  <2>1. \A o \in {result} : o.kind = "page" => SoundPage(o)
    BY DEF ResultInv
  <2> QED BY <1>1, <2>1
<1>2. CASE Page
  <2>1. PICK r : r = req
    OBVIOUS
  <2>2. \A o \in {req} : o.kind = "query" => Sound(o)
    BY DEF QueryInv
  <2>3. r.kind = "query" /\ r.phase = "probe"
    BY <1>2, <2>1 DEF Page
  <2>4. r \in QueryCall /\ Len(r.counts) = Len(Streams)
    BY <2>1, <2>3 DEF CallType, AuditCall, Idle
  <2> QED BY <1>2, <2>1, <2>2, <2>3, <2>4, PageSound
<1>3. CASE Probe
  <2>1. result' = result \/ \E c : result' = [kind |-> "duplicate", ids |-> {c.id}]
    BY <1>3 DEF Probe
  <2> QED BY <1>1, <2>1
<1>4. CASE AuditGroup
  <2>1. \/ result' = result \/ result' = [kind |-> "clean", known |-> req.known]
        \/ \E c : result' = [kind |-> "duplicate", ids |-> {c.id}]
    BY <1>4 DEF AuditGroup
  <2> QED BY <1>1, <2>1
<1>5. ASSUME NEW k, NEW id, Fetch(k, id) PROVE p.kind # "page"
  BY <1>5 DEF Fetch, NoResult
<1>6. ASSUME \/ Tick \/ TakeCutoff \/ CountStream \/ AllCounted \/ FetchUnsorted \/ FetchSorted \/ PopLeast
             \/ CutPage \/ Audit \/ AuditBatch \/ UNCHANGED federationVars
             \/ \E k \in DOMAIN Streams, id \in Ids : Open(k, id)
             \/ \E s \in DOMAIN sources : Commit(s)
             \/ \E q \in Queries, as_of \in {Null, cutoff} : Query(q, as_of)
      PROVE  result' = result
  <2>1. CASE UNCHANGED federationVars
    BY <2>1 DEF federationVars
  <2> QED BY <1>6, <2>1 DEF Tick, TakeCutoff, CountStream, AllCounted, FetchUnsorted, FetchSorted,
             PopLeast, CutPage, Audit, AuditBatch, Open, Commit, Query
<1> QED BY <1>1, <1>2, <1>3, <1>4, <1>5, <1>6 DEF FederationNext

\* Every step keeps the invariant.
LEMMA SnapIStep ==
  ASSUME SnapIInv, [FederationNext]_federationVars
  PROVE  SnapIInv'
<1>0. StoredType /\ CallType /\ UniqueInv /\ SnapInv /\ QueryInv /\ ResultInv
  BY DEF SnapIInv
<1>1. StoredType' /\ CallType' /\ UniqueInv' /\ SnapInv'
  BY <1>0, StoredStep, CallStep, UniqueStep, SnapStep
<1>2. sources' = sources /\ Streams' = Streams /\ QueryCall' = QueryCall /\ Len(Streams) \in Nat
  BY <1>0, StoredStep, SameStreams, StreamsType DEF StoredType
<1>3. QueryInv'
  <2> SUFFICES ASSUME NEW n, n = req', n.kind = "query" PROVE Sound(n)'
    BY DEF QueryInv
  <2>1. Sound(n)
    BY <1>0, CallSound
  <2>2. n \in QueryCall /\ n.k <= Len(Streams) + 1
        /\ Len(n.counts) = IF n.phase = "count" THEN n.k - 1 ELSE Len(Streams)
    BY <1>1, <1>2 DEF CallType, AuditCall, Idle
  <2>3. Len(n.counts) <= Len(Streams)
    <3>1. n.k \in Nat
      BY <2>2 DEF QueryCall
    <3> QED BY <1>2, <2>2, <3>1
  <2> QED BY <1>0, <2>1, <2>2, <2>3, SoundStays
<1>4. ResultInv'
  <2> SUFFICES ASSUME NEW p, p = result', p.kind = "page" PROVE SoundPage(p)'
    BY DEF ResultInv
  <2>1. SoundPage(p)
    BY <1>0, PageStep
  <2>2. /\ CountsHold(p.as_of, p.counts, p.total) /\ p.q \in Queries
        /\ p.counts \in Seq(Nat) /\ Len(p.counts) = Len(Streams) /\ Len(p.counts) <= Len(Streams)
        /\ PageHolds(p)
    BY <1>2, <2>1 DEF SoundPage
  <2>3. PageHolds(p)'
    BY <1>0, <2>2, PageStays
  <2>4. CountsHold(p.as_of, p.counts, p.total)'
    <3>1. PICK as_of, counts, total : as_of = p.as_of /\ counts = p.counts /\ total = p.total
      OBVIOUS
    <3>2. CountsHold(as_of, counts, total)'
      BY <1>0, <2>2, <3>1, CountsStay
    <3> QED BY <3>1, <3>2
  <2> QED BY <1>2, <2>2, <2>3, <2>4 DEF SoundPage
<1> QED BY <1>1, <1>3, <1>4 DEF SnapIInv

\* The union of the snapshot is what the streams serve as of the cutoff.
LEMMA SnapIsUnion ==
  ASSUME StoredType, NEW as_of, NEW sort, snap = [k \in DOMAIN Streams |-> Candidates(k, as_of)]
  PROVE  Union(snap, sort) = IF sort = "none" THEN FlattenSeq(snap) ELSE InAll(as_of, sort)
<1> DEFINE S == UNION {ToSet(snap[k]) : k \in DOMAIN snap}
<1>1. \A k \in DOMAIN Streams : ToSet(Candidates(k, as_of)) = Held(k, as_of)
  <2> TAKE k \in DOMAIN Streams
  <2> DEFINE cs == Candidates(k, as_of)
  <2>1. /\ cs \in Seq(Candidate) /\ \A i \in 1..Len(cs) : cs[i] \in Held(k, as_of)
        /\ \A c \in Held(k, as_of) : \E i \in 1..Len(cs) : cs[i] = c
    BY CandidatesAre
  <2> HIDE DEF cs
  <2>2. ToSet(cs) = {cs[i] : i \in 1..Len(cs)}
    BY <2>1 DEF ToSet
  <2>3. ToSet(cs) = Held(k, as_of)
    BY <2>1, <2>2
  <2> QED BY <2>3 DEF cs
<1>2. DOMAIN snap = DOMAIN Streams /\ \A k \in DOMAIN Streams : snap[k] = Candidates(k, as_of)
  OBVIOUS
<1>3. S = All(as_of)
  BY <1>1, <1>2 DEF All
<1> QED BY <1>3 DEF Union, InAll

\* The invariant says that pages are those of the snapshot.
LEMMA SnapshotHolds ==
  ASSUME SnapIInv
  PROVE  SnapshotPage
<1>0. StoredType /\ UniqueInv /\ SnapInv /\ ResultInv
  BY DEF SnapIInv
<1> SUFFICES ASSUME NEW p, p = result, p.kind = "page", p.as_of # Null, ~straddled,
                    Capable = DOMAIN sources
             PROVE  IsPageOf(p, Union(snap, p.q.sort))
  BY DEF SnapshotPage
<1>1. SoundPage(p)
  BY <1>0 DEF ResultInv
<1>2. PICK c, counts : c = p.as_of /\ counts = p.counts
  OBVIOUS
<1>3. /\ CountsHold(c, counts, p.total) /\ counts \in Seq(Nat) /\ Len(counts) = Len(Streams)
      /\ PageHolds(p) /\ p.q \in Queries
  BY <1>1, <1>2 DEF SoundPage
<1>4. c = cutoff /\ Steady(c)
  BY <1>2, <1>3 DEF CountsHold, Steady
<1>5. snap = [k \in DOMAIN Streams |-> Candidates(k, c)]
  BY <1>0, <1>2, <1>4 DEF SnapInv
<1>6. Union(snap, p.q.sort) = IF p.q.sort = "none" THEN FlattenSeq(snap) ELSE InAll(c, p.q.sort)
  BY <1>0, <1>5, SnapIsUnion
<1>7. CountedLists(c, counts) = snap
  BY <1>0, <1>3, <1>4, <1>5, SteadyCount
<1> QED BY <1>2, <1>3, <1>4, <1>6, <1>7 DEF PageHolds

\* The invariant says that unsorted pages are those of what was counted.
LEMMA CountedHolds ==
  ASSUME SnapIInv
  PROVE  CountedPage
<1>0. StoredType /\ ResultInv
  BY DEF SnapIInv
<1> SUFFICES ASSUME NEW p, p = result, p.kind = "page", p.as_of = Null, p.q.sort = "none"
             PROVE  IsPageOf(p, FlattenSeq([k \in DOMAIN Streams |-> FirstOf(Candidates(k, Null), p.counts[k])]))
  BY DEF CountedPage
<1>1. SoundPage(p)
  BY <1>0 DEF ResultInv
<1>2. p.counts \in Seq(Nat) /\ Len(p.counts) = Len(Streams) /\ PageHolds(p)
  BY <1>1 DEF SoundPage
<1>3. DOMAIN p.counts = DOMAIN Streams
  <2>1. DOMAIN p.counts = 1..Len(p.counts)
    BY <1>2
  <2> QED BY <1>0, <1>2, <2>1, StreamsType DEF StoredType
<1>4. CountedLists(Null, p.counts) = [k \in DOMAIN Streams |-> FirstOf(Candidates(k, Null), p.counts[k])]
  BY <1>3 DEF CountedLists
<1> QED BY <1>2, <1>4 DEF PageHolds

\* The invariant is inductive.
LEMMA SnapInductive == FederationSpec => []SnapIInv
<1>1. FederationInit => SnapIInv
  BY SnapInit
<1>2. SnapIInv /\ [FederationNext]_federationVars => SnapIInv'
  BY SnapIStep
<1> QED BY <1>1, <1>2, PTL DEF FederationSpec

\* With a cutoff that no transaction straddled, in a federation of timestamped
\* sources, a page is the page of the union of what the sources held when the
\* cutoff was taken, whatever was committed since (StoredEntryFederation.query).
THEOREM SnapshotIsUnion == FederationSpec => []SnapshotPage
BY SnapInductive, SnapshotHolds, PTL

\* An unsorted page is the page of what its own counting pass saw, and its total
\* is their number, whatever was committed between the count and the fetch of
\* each source (StoredEntryFederation.query).
THEOREM CountedIsPage == FederationSpec => []CountedPage
BY SnapInductive, CountedHolds, PTL
-----------------------------------------------------------------------------
(* Continuation pages: a walk is complete.  The rows not yet seen lie past *)
(* where the query stands, and what was seen lies before it.               *)

PRow == [sid : Nat, keys : Contents]
PToken == [direction : {"forward", "backward"}, anchors : Contents, sid : Nat, fingerprint : Plans]
PScan == [cursor : {None} \cup PToken, seek : {None} \cup PToken, verified : Seq(PRow), dirty : BOOLEAN]
PWalk == [direction : {"forward", "backward"}, plan : Plans, seen : Seq(PRow), stable : SUBSET PRow]
PPage == [rows : Seq(PRow), next : {None} \cup PToken, previous : {None} \cup PToken]

PagingType ==
  /\ rows \subseteq PRow /\ IsFiniteSet(rows) /\ top \in Nat /\ plan \in Plans
  /\ \A d \in rows : d.sid <= top
  /\ \A d, e \in rows : d.sid = e.sid => d = e
  /\ page \in PPage /\ scan \in {None} \cup PScan /\ walk \in {None} \cup PWalk
  /\ page.next # None => page.next.direction = "forward"
  /\ page.previous # None => page.previous.direction = "backward"

RowOf(t) == [sid |-> t.sid, keys |-> t.anchors]
InOrder(order, backward, s) == \A i, j \in DOMAIN s : i < j => SortsBefore(order, s[i], s[j], backward)
UpTo(order, backward, s, t) ==
  \A i \in DOMAIN s : s[i] = RowOf(t) \/ SortsBefore(order, s[i], RowOf(t), backward)
Past(order, backward, d, t) == t = None \/ SortsBefore(order, RowOf(t), d, backward)
In(d, s) == \E i \in DOMAIN s : s[i] = d

Accepted(p, d) == p.store = "sql" \/ d.keys \notin Rejected

\* A page in the making: what was seen and what is verified, up to where the query stands.
Walking(R, p, cursor, seek, verified, w) ==
  LET b == Backward(cursor)
      order == p.order
  IN /\ w.plan = p /\ w.direction = IF b THEN "backward" ELSE "forward"
     /\ Backward(seek) = b
     /\ seek = None => w.seen = <<>> /\ verified = <<>>
     /\ InOrder(order, b, w.seen) /\ InOrder(order, b, verified)
     /\ \A i \in DOMAIN w.seen, j \in DOMAIN verified : SortsBefore(order, w.seen[i], verified[j], b)
     /\ seek # None => UpTo(order, b, w.seen, seek) /\ UpTo(order, b, verified, seek)
     /\ \A d \in w.stable :
          /\ d \in R /\ Accepted(p, d)
          /\ In(d, w.seen) \/ In(d, verified) \/ Past(order, b, d, seek)

\* Between two pages: what was seen, up to the token the walk goes on with.
Walked(R, token, w) ==
  LET b == w.direction = "backward"
      order == w.plan.order
  IN /\ InOrder(order, b, w.seen)
     /\ token # None => token.fingerprint = w.plan /\ UpTo(order, b, w.seen, token)
     /\ \A d \in w.stable :
          /\ d \in R /\ Accepted(w.plan, d)
          /\ In(d, w.seen) \/ (token # None /\ Past(order, b, d, token))

WalkToken == IF walk.direction = "forward" THEN page.next ELSE page.previous
ScanInv ==
  scan # None => walk # None /\ Walking(rows, plan, scan.cursor, scan.seek, scan.verified, walk)
WalkInv ==
  /\ walk = None => page.next = None /\ page.previous = None
  /\ scan = None /\ walk # None => Walked(rows, WalkToken, walk)
PagingIInv == PagingType /\ ScanInv /\ WalkInv

\* The order of one key, nulls included, is strict, and backward it is reversed.
LEMMA KeyOrder ==
  \A b \in BOOLEAN : \A o \in [desc : BOOLEAN, nulls : {"first", "last"}] :
    \A u, v, w \in Int \cup {Missing} :
      /\ ~KeyBefore(o, u, u, b)
      /\ KeyBefore(o, u, v, b) /\ KeyBefore(o, v, w, b) => KeyBefore(o, u, w, b)
      /\ u = v \/ KeyBefore(o, u, v, b) \/ KeyBefore(o, v, u, b)
      /\ KeyBefore(o, u, v, TRUE) <=> KeyBefore(o, v, u, FALSE)
<1> TAKE b \in BOOLEAN
<1> TAKE o \in [desc : BOOLEAN, nulls : {"first", "last"}]
<1> TAKE u, v, w \in Int \cup {Missing}
<1>1. Missing \notin Int
  BY PagingAssumption
<1>2. ~KeyBefore(o, u, u, b)
  BY <1>1 DEF KeyBefore, NullRank
<1>3. KeyBefore(o, u, v, b) /\ KeyBefore(o, v, w, b) => KeyBefore(o, u, w, b)
  <2> DEFINE R(x) == NullRank(x, o)
  <2>1. R(u) \in {0, 1} /\ R(v) \in {0, 1} /\ R(w) \in {0, 1}
    BY DEF NullRank
  <2>2. /\ R(u) = R(v) <=> (u = Missing <=> v = Missing)
        /\ R(v) = R(w) <=> (v = Missing <=> w = Missing)
        /\ R(u) = R(w) <=> (u = Missing <=> w = Missing)
    BY DEF NullRank
  <2> HIDE DEF R
  <2>3. \A x, y : KeyBefore(o, x, y, b) <=>
          IF R(x) # R(y) THEN IF b THEN R(x) > R(y) ELSE R(x) < R(y)
          ELSE x # Missing /\ y # Missing /\ (IF o.desc # b THEN x > y ELSE x < y)
    BY Zenon DEF KeyBefore, R
  <2>4. CASE R(u) = R(v) /\ R(v) = R(w)
    <3>1. CASE o.desc # b
      BY <1>1, <2>2, <2>3, <2>4, <3>1
    <3>2. CASE ~(o.desc # b)
      BY <1>1, <2>2, <2>3, <2>4, <3>2
    <3> QED BY <3>1, <3>2
  <2>5. CASE R(u) # R(v) \/ R(v) # R(w)
    BY <2>1, <2>3, <2>5
  <2> QED BY <2>4, <2>5
<1>4. u = v \/ KeyBefore(o, u, v, b) \/ KeyBefore(o, v, u, b)
  BY <1>1 DEF KeyBefore, NullRank
<1>5. KeyBefore(o, u, v, TRUE) <=> KeyBefore(o, v, u, FALSE)
  BY <1>1 DEF KeyBefore, NullRank
<1> QED BY <1>2, <1>3, <1>4, <1>5

\* The choice of the WHERE for a key is the order of that key.
LEMMA KeyPast ==
  \A b \in BOOLEAN : \A o \in [desc : BOOLEAN, nulls : {"first", "last"}] :
    \A u, v \in Int \cup {Missing} : PastKey(o, v, u, b) <=> KeyBefore(o, u, v, b)
<1>1. Missing \notin Int
  BY PagingAssumption
<1> QED BY <1>1 DEF KeyBefore, PastKey, NullRank

\* A row has a value, or none, for each key of the plan.
LEMMA PlanKeys ==
  ASSUME NEW p \in Plans
  PROVE  /\ DOMAIN p.order = 1..Len(p.order) /\ Len(p.order) \in Nat
         /\ \A i \in DOMAIN p.order : p.order[i] \in [desc : BOOLEAN, nulls : {"first", "last"}]
         /\ \A d \in PRow : \A i \in DOMAIN p.order : d.keys[i] \in Int \cup {Missing}
<1> DEFINE K == [desc : BOOLEAN, nulls : {"first", "last"}]
<1>1. p.order \in Seq(K)
  BY PagingAssumption
<1>2. \A keys \in Contents : \A i \in DOMAIN p.order : keys[i] \in Int \cup {Missing}
  BY PagingAssumption
<1>3. \A d \in PRow : d.keys \in Contents
  BY DEF PRow
<1>4. /\ DOMAIN p.order = 1..Len(p.order) /\ Len(p.order) \in Nat
      /\ \A i \in DOMAIN p.order : p.order[i] \in K
  <2> HIDE DEF K
  <2> QED BY <1>1
<1> QED BY <1>2, <1>3, <1>4

\* The order of a page is strict; with the sid, no two rows tie.
LEMMA RowOrder ==
  \A p \in Plans, b \in BOOLEAN :
    /\ \A d \in PRow : ~SortsBefore(p.order, d, d, b)
    /\ \A d, e, f \in PRow :
         SortsBefore(p.order, d, e, b) /\ SortsBefore(p.order, e, f, b) => SortsBefore(p.order, d, f, b)
    /\ \A d, e \in PRow : d.sid # e.sid => SortsBefore(p.order, d, e, b) \/ SortsBefore(p.order, e, d, b)
    /\ \A d, e \in PRow : SortsBefore(p.order, d, e, TRUE) <=> SortsBefore(p.order, e, d, FALSE)
<1> TAKE p \in Plans, b \in BOOLEAN
<1> DEFINE n == Len(p.order)
           L(x, y) == SortsBefore(p.order, x, y, b)
           K(i, x, y) == KeyBefore(p.order[i], x.keys[i], y.keys[i], b)
           S(x, y) == IF b THEN x.sid > y.sid ELSE x.sid < y.sid
<1>1. /\ DOMAIN p.order = 1..n /\ n \in Nat
      /\ \A i \in 1..n : p.order[i] \in [desc : BOOLEAN, nulls : {"first", "last"}]
      /\ \A x \in PRow : \A i \in 1..n : x.keys[i] \in Int \cup {Missing}
  BY PlanKeys
<1>0. \A o \in [desc : BOOLEAN, nulls : {"first", "last"}] :
        \A u, v, w \in Int \cup {Missing} :
          /\ ~KeyBefore(o, u, u, b)
          /\ KeyBefore(o, u, v, b) /\ KeyBefore(o, v, w, b) => KeyBefore(o, u, w, b)
          /\ u = v \/ KeyBefore(o, u, v, b) \/ KeyBefore(o, v, u, b)
  <2> TAKE o \in [desc : BOOLEAN, nulls : {"first", "last"}]
  <2> TAKE u, v, w \in Int \cup {Missing}
  <2>1. ~KeyBefore(o, u, u, b)
    BY KeyOrder
  <2>2. KeyBefore(o, u, v, b) /\ KeyBefore(o, v, w, b) => KeyBefore(o, u, w, b)
    BY KeyOrder
  <2>3. u = v \/ KeyBefore(o, u, v, b) \/ KeyBefore(o, v, u, b)
    BY KeyOrder
  <2> QED BY <2>1, <2>2, <2>3
<1>2. \A x, y, z \in PRow : \A i \in 1..n :
         /\ ~K(i, x, x)
         /\ K(i, x, y) /\ K(i, y, z) => K(i, x, z)
         /\ x.keys[i] = y.keys[i] \/ K(i, x, y) \/ K(i, y, x)
  <2> TAKE x, y, z \in PRow
  <2> TAKE i \in 1..n
  <2>1. /\ p.order[i] \in [desc : BOOLEAN, nulls : {"first", "last"}]
        /\ x.keys[i] \in Int \cup {Missing} /\ y.keys[i] \in Int \cup {Missing}
        /\ z.keys[i] \in Int \cup {Missing}
    BY <1>1
  <2> QED BY <1>0, <2>1
<1>3. \A x, y \in PRow : L(x, y) <=>
         \/ \E i \in 1..n : (\A j \in 1..(i - 1) : x.keys[j] = y.keys[j]) /\ K(i, x, y)
         \/ (\A j \in 1..n : x.keys[j] = y.keys[j]) /\ S(x, y)
  BY <1>1, Zenon DEF SortsBefore
<1>4. \A x \in PRow : x.sid \in Nat
  BY DEF PRow
<1> HIDE DEF n, K
<1>5. ASSUME NEW d \in PRow PROVE ~L(d, d)
  <2> HIDE DEF L
  <2>1. ~S(d, d)
    BY <1>4
  <2> HIDE DEF S
  <2> QED BY <1>2, <1>3, <2>1
<1>6. ASSUME NEW d \in PRow, NEW e \in PRow, NEW f \in PRow, L(d, e), L(e, f) PROVE L(d, f)
  <2>0. S(d, e) /\ S(e, f) => S(d, f)
    BY <1>4
  <2> HIDE DEF S, L
  <2>1. CASE (\A j \in 1..n : d.keys[j] = e.keys[j]) /\ S(d, e)
    <3>1. CASE (\A j \in 1..n : e.keys[j] = f.keys[j]) /\ S(e, f)
      <4>1. \A j \in 1..n : d.keys[j] = f.keys[j]
        BY <2>1, <3>1
      <4> QED BY <1>3, <2>0, <2>1, <3>1, <4>1
    <3>2. CASE \E i \in 1..n : (\A j \in 1..(i - 1) : e.keys[j] = f.keys[j]) /\ K(i, e, f)
      <4>1. PICK i \in 1..n : (\A j \in 1..(i - 1) : e.keys[j] = f.keys[j]) /\ K(i, e, f)
        BY <3>2
      <4>2. \A j \in 1..(i - 1) : j \in 1..n
        BY <1>1
      <4>3. (\A j \in 1..(i - 1) : d.keys[j] = f.keys[j]) /\ K(i, d, f)
        BY <2>1, <4>1, <4>2 DEF K
      <4> QED BY <1>3, <4>3
    <3> QED BY <1>3, <1>6, <3>1, <3>2
  <2>2. CASE \E i \in 1..n : (\A j \in 1..(i - 1) : d.keys[j] = e.keys[j]) /\ K(i, d, e)
    <3>0. PICK i \in 1..n : (\A j \in 1..(i - 1) : d.keys[j] = e.keys[j]) /\ K(i, d, e)
      BY <2>2
    <3>00. \A j \in 1..(i - 1) : j \in 1..n
      BY <1>1
    <3>1. CASE (\A j \in 1..n : e.keys[j] = f.keys[j]) /\ S(e, f)
      <4>3. (\A j \in 1..(i - 1) : d.keys[j] = f.keys[j]) /\ K(i, d, f)
        BY <3>0, <3>00, <3>1 DEF K
      <4> QED BY <1>3, <4>3
    <3>2. CASE \E k \in 1..n : (\A j \in 1..(k - 1) : e.keys[j] = f.keys[j]) /\ K(k, e, f)
      <4>1. PICK k \in 1..n : (\A j \in 1..(k - 1) : e.keys[j] = f.keys[j]) /\ K(k, e, f)
        BY <3>2
      <4>2. CASE i < k
        <5>1. i \in 1..(k - 1) /\ \A j \in 1..(i - 1) : j \in 1..(k - 1)
          BY <1>1, <4>2
        <5>2. (\A j \in 1..(i - 1) : d.keys[j] = f.keys[j]) /\ K(i, d, f)
          BY <3>0, <4>1, <5>1 DEF K
        <5> QED BY <1>3, <5>2
      <4>3. CASE k < i
        <5>1. k \in 1..(i - 1) /\ \A j \in 1..(k - 1) : j \in 1..(i - 1)
          BY <1>1, <4>3
        <5>2. (\A j \in 1..(k - 1) : d.keys[j] = f.keys[j]) /\ K(k, d, f)
          BY <3>0, <4>1, <5>1 DEF K
        <5> QED BY <1>3, <5>2
      <4>4. CASE k = i
        <5>1. (\A j \in 1..(i - 1) : d.keys[j] = f.keys[j]) /\ K(i, d, f)
          BY <1>2, <3>0, <4>1, <4>4
        <5> QED BY <1>3, <5>1
      <4> QED BY <1>1, <4>2, <4>3, <4>4
    <3> QED BY <1>3, <1>6, <3>1, <3>2
  <2> QED BY <1>3, <1>6, <2>1, <2>2
<1>7. ASSUME NEW d \in PRow, NEW e \in PRow, d.sid # e.sid PROVE L(d, e) \/ L(e, d)
  <2> DEFINE D == {i \in 1..n : d.keys[i] # e.keys[i]}
  <2>0. S(d, e) \/ S(e, d)
    BY <1>4, <1>7
  <2> HIDE DEF S, L
  <2>1. CASE D = {}
    <3>1. \A j \in 1..n : d.keys[j] = e.keys[j] /\ e.keys[j] = d.keys[j]
      BY <2>1
    <3> QED BY <1>3, <2>0, <3>1
  <2>2. CASE D # {}
    <3>1. D \in SUBSET Int /\ IsFiniteSet(D)
      <4>1. D \in SUBSET (1..n)
        OBVIOUS
      <4>2. IsFiniteSet(1..n)
        BY <1>1, FS_Interval
      <4>3. IsFiniteSet(D)
        BY ONLY <4>1, <4>2, FS_Subset
      <4>4. 1..n \subseteq Int
        OBVIOUS
      <4> HIDE DEF D
      <4> QED BY <4>1, <4>3, <4>4
    <3> DEFINE i == Min(D)
    <3>2. i \in D /\ \A j \in D : i <= j
      <4> HIDE DEF D
      <4> QED BY <2>2, <3>1, MinMax
    <3> HIDE DEF i
    <3>3. \A j \in 1..(i - 1) : d.keys[j] = e.keys[j]
      <4> TAKE j \in 1..(i - 1)
      <4>1. j \in 1..n /\ ~(i <= j)
        BY <1>1, <3>2
      <4> QED BY <3>2, <4>1
    <3>4. i \in 1..n /\ (K(i, d, e) \/ K(i, e, d))
      BY <1>2, <3>2
    <3> QED BY <1>3, <3>3, <3>4
  <2> QED BY <2>1, <2>2
<1>8. ASSUME NEW d \in PRow, NEW e \in PRow
      PROVE  SortsBefore(p.order, d, e, TRUE) <=> SortsBefore(p.order, e, d, FALSE)
  <2>1. \A i \in 1..n : KeyBefore(p.order[i], d.keys[i], e.keys[i], TRUE)
                        <=> KeyBefore(p.order[i], e.keys[i], d.keys[i], FALSE)
    BY <1>1, KeyOrder
  <2> DEFINE A(i) == KeyBefore(p.order[i], d.keys[i], e.keys[i], TRUE)
             B(i) == KeyBefore(p.order[i], e.keys[i], d.keys[i], FALSE)
  <2>2. SortsBefore(p.order, d, e, TRUE) <=>
         \/ \E i \in 1..n : (\A j \in 1..(i - 1) : d.keys[j] = e.keys[j]) /\ A(i)
         \/ (\A j \in 1..n : d.keys[j] = e.keys[j]) /\ d.sid > e.sid
    BY <1>1, Zenon DEF SortsBefore
  <2>3. SortsBefore(p.order, e, d, FALSE) <=>
         \/ \E i \in 1..n : (\A j \in 1..(i - 1) : e.keys[j] = d.keys[j]) /\ B(i)
         \/ (\A j \in 1..n : e.keys[j] = d.keys[j]) /\ e.sid < d.sid
    BY <1>1, Zenon DEF SortsBefore
  <2>4. d.sid > e.sid <=> e.sid < d.sid
    BY <1>4
  <2>5. \A i \in 1..n : A(i) <=> B(i)
    BY <2>1
  <2> HIDE DEF A, B
  <2> QED BY <2>2, <2>3, <2>4, <2>5
<1> HIDE DEF S
<1>9. \A d, e, f \in PRow : L(d, e) /\ L(e, f) => L(d, f)
  <2> HIDE DEF L
  <2> QED BY <1>6
<1>10. \A d, e \in PRow : d.sid # e.sid => L(d, e) \/ L(e, d)
  <2> HIDE DEF L
  <2> QED BY <1>7
<1> QED BY <1>5, <1>8, <1>9, <1>10

\* Tokens, scans and walks are not None.
LEMMA NotNone ==
  /\ \A t \in PToken : t # None
  /\ \A t \in PScan : t # None
  /\ \A t \in PWalk : t # None
<1>1. \A t \in PToken : DOMAIN t = {"direction", "anchors", "sid", "fingerprint"}
  BY DEF PToken
<1>2. \A t \in PScan : DOMAIN t = {"cursor", "seek", "verified", "dirty"}
  BY DEF PScan
<1>3. \A t \in PWalk : DOMAIN t = {"direction", "plan", "seen", "stable"}
  BY DEF PWalk
<1>4. DOMAIN None = {"none"}
  BY DEF None
<1>5. /\ {"none"} # {"direction", "anchors", "sid", "fingerprint"}
      /\ {"none"} # {"cursor", "seek", "verified", "dirty"}
      /\ {"none"} # {"direction", "plan", "seen", "stable"}
  OBVIOUS
<1> QED BY <1>1, <1>2, <1>3, <1>4, <1>5

\* The WHERE of a seek selects the rows the page order puts after the anchor.
LEMMA SeekIs ==
  ASSUME plan \in Plans, NEW t \in PToken, NEW d \in PRow, NEW b \in BOOLEAN
  PROVE  /\ SeekPredicate(d, t, b) <=> SortsBefore(plan.order, RowOf(t), d, b)
         /\ RowOf(t) \in PRow
<1> DEFINE n == Len(plan.order)
           e == RowOf(t)
<1>1. e \in PRow /\ e.sid = t.sid /\ e.keys = t.anchors
  BY DEF RowOf, PRow, PToken
<1>2. /\ DOMAIN plan.order = 1..n /\ n \in Nat
      /\ \A i \in 1..n : plan.order[i] \in [desc : BOOLEAN, nulls : {"first", "last"}]
      /\ \A x \in PRow : \A i \in 1..n : x.keys[i] \in Int \cup {Missing}
  BY PlanKeys
<1> DEFINE P(i) == PastKey(plan.order[i], d.keys[i], t.anchors[i], b)
           K(i) == KeyBefore(plan.order[i], e.keys[i], d.keys[i], b)
<1>3. \A i \in 1..n : P(i) <=> K(i)
  <2> TAKE i \in 1..n
  <2>1. /\ plan.order[i] \in [desc : BOOLEAN, nulls : {"first", "last"}]
        /\ d.keys[i] \in Int \cup {Missing} /\ e.keys[i] \in Int \cup {Missing}
    BY <1>1, <1>2
  <2> HIDE DEF e
  <2>2. PastKey(plan.order[i], d.keys[i], e.keys[i], b) <=> KeyBefore(plan.order[i], e.keys[i], d.keys[i], b)
    BY <2>1, KeyPast
  <2> QED BY <1>1, <2>2
<1>4. SeekPredicate(d, t, b) <=>
        \/ \E i \in 1..n : (\A j \in 1..(i - 1) : d.keys[j] = t.anchors[j]) /\ P(i)
        \/ (\A j \in 1..n : d.keys[j] = t.anchors[j]) /\ (IF b THEN d.sid < t.sid ELSE d.sid > t.sid)
  BY <1>2, Zenon DEF SeekPredicate
<1>5. SortsBefore(plan.order, e, d, b) <=>
        \/ \E i \in 1..n : (\A j \in 1..(i - 1) : e.keys[j] = d.keys[j]) /\ K(i)
        \/ (\A j \in 1..n : e.keys[j] = d.keys[j]) /\ (IF b THEN e.sid > d.sid ELSE e.sid < d.sid)
  BY <1>2, Zenon DEF SortsBefore
<1>6. (IF b THEN d.sid < t.sid ELSE d.sid > t.sid) <=> (IF b THEN e.sid > d.sid ELSE e.sid < d.sid)
  BY <1>1 DEF PRow, PToken
<1> HIDE DEF e, n, P, K
<1>7. SeekPredicate(d, t, b) <=> SortsBefore(plan.order, e, d, b)
  BY <1>1, <1>3, <1>4, <1>5, <1>6
<1> QED BY <1>1, <1>7 DEF e

\* The page order is a strict order of the stored rows.
LEMMA RowsOrdered ==
  ASSUME PagingType, NEW S \in SUBSET rows, NEW b \in BOOLEAN
  PROVE  /\ IsFiniteSet(S) /\ StrictOrder(S, PageOrder(S, b))
         /\ \A d, e \in S : <<d, e>> \in PageOrder(S, b) <=> SortsBefore(plan.order, d, e, b)
<1>1. IsFiniteSet(S)
  BY FS_Subset DEF PagingType
<1>2. \A d, e \in S : <<d, e>> \in PageOrder(S, b) <=> SortsBefore(plan.order, d, e, b)
  BY DEF PageOrder
<1>3. \A d \in S : d \in PRow
  BY DEF PagingType
<1>4. \A d, e \in S : d # e => d.sid # e.sid
  BY DEF PagingType
<1>5. /\ \A d \in PRow : ~SortsBefore(plan.order, d, d, b)
      /\ \A d, e, f \in PRow :
           SortsBefore(plan.order, d, e, b) /\ SortsBefore(plan.order, e, f, b) => SortsBefore(plan.order, d, f, b)
      /\ \A d, e \in PRow : d.sid # e.sid => SortsBefore(plan.order, d, e, b) \/ SortsBefore(plan.order, e, d, b)
  <2>1. plan \in Plans
    BY DEF PagingType
  <2> QED BY ONLY <2>1, RowOrder, b \in BOOLEAN, ZenonT(30)
<1> QED BY <1>1, <1>2, <1>3, <1>4, <1>5 DEF StrictOrder

\* A batch is the first candidates past the cursor, and short only at the end.
LEMMA BatchOf ==
  ASSUME PagingType, NEW cursor \in {None} \cup PToken
  PROVE  LET b == Backward(cursor)
             B == PageStatement(cursor)
         IN /\ B \in SUBSET rows /\ IsFiniteSet(B) /\ Cardinality(B) \in Nat /\ Cardinality(B) <= Size + 1
            /\ \A d \in B : Past(plan.order, b, d, cursor)
            /\ \A d \in rows : Past(plan.order, b, d, cursor) =>
                 d \in B \/ (Cardinality(B) = Size + 1 /\ \A e \in B : SortsBefore(plan.order, e, d, b))
<1> DEFINE b == Backward(cursor)
           B == PageStatement(cursor)
           A == {d \in rows : cursor = None \/ SeekPredicate(d, cursor, b)}
<1>1. b \in BOOLEAN
  BY DEF Backward
<1>2. B = Limited(A, PageOrder(A, b), Size + 1)
  BY DEF PageStatement
<1>3. A \in SUBSET rows
  OBVIOUS
<1>4. \A d \in rows : d \in A <=> Past(plan.order, b, d, cursor)
  <2> TAKE d \in rows
  <2>1. CASE cursor = None
    BY <2>1 DEF Past
  <2>2. CASE cursor # None
    <3>1. SeekPredicate(d, cursor, b) <=> SortsBefore(plan.order, RowOf(cursor), d, b)
      BY <1>1, <2>2, SeekIs DEF PagingType
    <3> QED BY <2>2, <3>1 DEF Past
  <2> QED BY <2>1, <2>2
<1> HIDE DEF b, B, A
<1>5. /\ IsFiniteSet(A) /\ StrictOrder(A, PageOrder(A, b))
      /\ \A d, e \in A : <<d, e>> \in PageOrder(A, b) <=> SortsBefore(plan.order, d, e, b)
  BY <1>1, <1>3, RowsOrdered
<1>6. Size + 1 \in Nat
  BY PagingAssumption
<1>7. /\ B \subseteq A /\ IsFiniteSet(B) /\ Cardinality(B) \in Nat /\ Cardinality(B) <= Size + 1
      /\ B = A \/ Cardinality(B) = Size + 1
      /\ \A x \in A \ B, y \in B : <<y, x>> \in PageOrder(A, b)
  BY <1>2, <1>5, <1>6, LimitedRows
<1>8. \A d \in A : d \in B \/ (Cardinality(B) = Size + 1 /\ \A e \in B : SortsBefore(plan.order, e, d, b))
  BY <1>5, <1>7
<1>9. B \in SUBSET rows /\ \A d \in B : Past(plan.order, b, d, cursor)
  BY <1>3, <1>4, <1>7
<1> QED BY <1>4, <1>7, <1>8, <1>9 DEF b, B

\* The documents of a batch are its verified rows in order.
LEMMA DocumentsOf ==
  ASSUME PagingType, NEW B \in SUBSET rows, NEW b \in BOOLEAN
  PROVE  /\ Documents(B, b) \in Seq(PRow)
         /\ InOrder(plan.order, b, Documents(B, b))
         /\ \A i \in DOMAIN Documents(B, b) : Documents(B, b)[i] \in B /\ Verified(Documents(B, b)[i])
         /\ \A d \in B : Verified(d) => In(d, Documents(B, b))
<1> DEFINE V == {d \in B : Verified(d)}
           s == Documents(B, b)
           n == Cardinality(V)
<1>1. V \in SUBSET rows /\ s = OrderBy(V, PageOrder(V, b))
  BY DEF Documents
<1>0. V \subseteq PRow /\ \A d \in V : d \in B /\ Verified(d)
  BY DEF PagingType
<1>00. \A d \in B : Verified(d) => d \in V
  OBVIOUS
<1> HIDE DEF V, s
<1>2. /\ IsFiniteSet(V) /\ StrictOrder(V, PageOrder(V, b))
      /\ \A d, e \in V : <<d, e>> \in PageOrder(V, b) <=> SortsBefore(plan.order, d, e, b)
  BY <1>1, RowsOrdered
<1>3. /\ s \in [1..n -> V] /\ s \in Seq(V) /\ n \in Nat
      /\ \A i, j \in 1..n : <<s[i], s[j]>> \in PageOrder(V, b) <=> i < j
      /\ \A x \in V : \E i \in 1..n : s[i] = x
  <2> DEFINE before == PageOrder(V, b)
             u == OrderBy(V, before)
  <2>1. IsFiniteSet(V) /\ StrictOrder(V, before)
    BY <1>2
  <2> HIDE DEF before
  <2>2. /\ u \in [1..n -> V] /\ u \in Seq(V) /\ n \in Nat
        /\ \A i, j \in 1..n : <<u[i], u[j]>> \in before <=> i < j
        /\ \A x \in V : \E i \in 1..n : u[i] = x
    BY <2>1, Ordered
  <2>3. s = u
    BY <1>1 DEF before
  <2> QED BY <2>2, <2>3 DEF before
<1> HIDE DEF n
<1>4. DOMAIN s = 1..n /\ \A i \in 1..n : s[i] \in V
  BY <1>3
<1>5. s \in Seq(PRow)
  BY <1>0, <1>3
<1>6. InOrder(plan.order, b, s)
  BY <1>2, <1>3, <1>4 DEF InOrder
<1>7. \A d \in B : Verified(d) => In(d, s)
  BY <1>00, <1>3, <1>4 DEF In
<1>8. \A i \in DOMAIN s : s[i] \in B /\ Verified(s[i])
  BY <1>0, <1>4
<1> QED BY <1>5, <1>6, <1>7, <1>8 DEF s

\* Two lists of rows after one another.
LEMMA Joined ==
  ASSUME NEW s \in Seq(PRow), NEW t \in Seq(PRow)
  PROVE  /\ s \o t \in Seq(PRow) /\ Len(s \o t) = Len(s) + Len(t)
         /\ \A i \in DOMAIN s : i \in DOMAIN (s \o t) /\ (s \o t)[i] = s[i]
         /\ \A i \in DOMAIN t : Len(s) + i \in DOMAIN (s \o t) /\ (s \o t)[Len(s) + i] = t[i]
         /\ \A i \in DOMAIN (s \o t) :
              \/ i \in DOMAIN s /\ (s \o t)[i] = s[i]
              \/ i - Len(s) \in DOMAIN t /\ (s \o t)[i] = t[i - Len(s)] /\ i > Len(s)
         /\ \A d : In(d, s \o t) <=> In(d, s) \/ In(d, t)
<1>1. s \o t \in Seq(PRow) /\ Len(s \o t) = Len(s) + Len(t)
  OBVIOUS
<1>2. \A i \in DOMAIN s : i \in DOMAIN (s \o t) /\ (s \o t)[i] = s[i]
  OBVIOUS
<1>3. \A i \in DOMAIN t : Len(s) + i \in DOMAIN (s \o t) /\ (s \o t)[Len(s) + i] = t[i]
  OBVIOUS
<1>4. \A i \in DOMAIN (s \o t) :
        \/ i \in DOMAIN s /\ (s \o t)[i] = s[i]
        \/ i - Len(s) \in DOMAIN t /\ (s \o t)[i] = t[i - Len(s)] /\ i > Len(s)
  OBVIOUS
<1> DEFINE u == s \o t
<1> HIDE DEF u
<1>5. \A d : In(d, u) <=> In(d, s) \/ In(d, t)
  BY <1>2, <1>3, <1>4 DEF In, u
<1> QED BY <1>1, <1>2, <1>3, <1>4, <1>5 DEF u

\* Lists in order, the one before the other, are one list in order.
LEMMA JoinedOrder ==
  ASSUME NEW p \in Plans, NEW b \in BOOLEAN, NEW s \in Seq(PRow), NEW t \in Seq(PRow),
         InOrder(p.order, b, s), InOrder(p.order, b, t),
         \A i \in DOMAIN s, j \in DOMAIN t : SortsBefore(p.order, s[i], t[j], b)
  PROVE  InOrder(p.order, b, s \o t)
<1> DEFINE u == s \o t
<1>1. /\ \A i \in DOMAIN u :
            \/ i \in DOMAIN s /\ u[i] = s[i]
            \/ i - Len(s) \in DOMAIN t /\ u[i] = t[i - Len(s)] /\ i > Len(s)
  BY Joined
<1>2. DOMAIN s = 1..Len(s) /\ Len(s) \in Nat /\ DOMAIN t = 1..Len(t) /\ Len(t) \in Nat
  OBVIOUS
<1>3. DOMAIN u \subseteq Nat
  BY <1>2
<1> HIDE DEF u
<1> SUFFICES ASSUME NEW i \in DOMAIN u, NEW j \in DOMAIN u, i < j
             PROVE  SortsBefore(p.order, u[i], u[j], b)
  BY DEF InOrder, u
<1>4. CASE i \in DOMAIN s /\ u[i] = s[i]
  <2>1. CASE j \in DOMAIN s /\ u[j] = s[j]
    BY <1>4, <2>1 DEF InOrder
  <2>2. CASE j - Len(s) \in DOMAIN t /\ u[j] = t[j - Len(s)]
    BY <1>4, <2>2
  <2> QED BY <1>1, <2>1, <2>2
<1>5. CASE i - Len(s) \in DOMAIN t /\ u[i] = t[i - Len(s)] /\ i > Len(s)
  <2>1. ~(j \in DOMAIN s)
    BY <1>2, <1>3, <1>5
  <2>2. j - Len(s) \in DOMAIN t /\ u[j] = t[j - Len(s)]
    BY <1>1, <2>1
  <2>3. i - Len(s) < j - Len(s)
    BY <1>2, <1>3
  <2> QED BY <1>5, <2>2, <2>3 DEF InOrder
<1> QED BY <1>1, <1>4, <1>5

\* The rows of a page, and its tokens.
LEMMA PageIs ==
  ASSUME plan \in Plans, NEW f \in Seq(PRow), NEW cursor \in {None} \cup PToken, NEW more \in BOOLEAN,
         more => f # <<>>
  PROVE  LET p == ResultPage(f, cursor, more)
             b == Backward(cursor)
         IN /\ p \in PPage
            /\ p.next # None => p.next.direction = "forward"
            /\ p.previous # None => p.previous.direction = "backward"
            /\ p.rows = IF b THEN Reverse(f) ELSE f
            /\ ~more => IF b THEN p.previous = None ELSE p.next = None
            /\ more => IF b THEN p.previous = Token(f[Len(f)], "backward")
                            ELSE p.next = Token(f[Len(f)], "forward")
<1> DEFINE p == ResultPage(f, cursor, more)
           b == Backward(cursor)
           v == IF b THEN Reverse(f) ELSE f
<1>0. b \in BOOLEAN
  BY DEF Backward
<1>1. v \in Seq(PRow) /\ (v = <<>> <=> f = <<>>)
      /\ (f # <<>> => Head(v) \in PRow /\ Last(v) \in PRow /\ IF b THEN Head(v) = f[Len(f)] ELSE Last(v) = f[Len(f)])
  <2>1. CASE b
    <3>1. Reverse(f) \in Seq(PRow) /\ Len(Reverse(f)) = Len(f)
      BY DEF Reverse
    <3>2. f # <<>> => Reverse(f)[1] = f[Len(f)]
      BY DEF Reverse
    <3> DEFINE r == Reverse(f)
    <3>3. v = r
      BY <2>1
    <3> HIDE DEF r
    <3> HIDE DEF v
    <3>4. r \in Seq(PRow) /\ Len(r) = Len(f) /\ (f # <<>> => r[1] = f[Len(f)])
      BY <3>1, <3>2 DEF r
    <3> QED BY <2>1, <3>3, <3>4 DEF Last
  <2>2. CASE ~b
    BY <2>2 DEF Last
  <2> QED BY <2>1, <2>2
<1>2. \A d \in PRow : \A dir \in {"forward", "backward"} :
        Token(d, dir) \in PToken /\ Token(d, dir).direction = dir
  BY DEF Token, PToken, PRow
<1>3. /\ p.rows = v
      /\ p.next = IF f # <<>> /\ (b \/ more) THEN Token(Last(v), "forward") ELSE None
      /\ p.previous = IF f # <<>> /\ cursor # None /\ (~b \/ more) THEN Token(Head(v), "backward") ELSE None
      /\ p = [rows |-> p.rows, next |-> p.next, previous |-> p.previous]
  <2> HIDE DEF v
  <2>1. PageTokens(v, cursor, more) =
          [next |-> IF f # <<>> /\ (b \/ more) THEN Token(Last(v), "forward") ELSE None,
           previous |-> IF f # <<>> /\ cursor # None /\ (~b \/ more) THEN Token(Head(v), "backward") ELSE None]
    BY <1>1 DEF PageTokens
  <2>2. p = [rows |-> v, next |-> PageTokens(v, cursor, more).next, previous |-> PageTokens(v, cursor, more).previous]
    BY DEF ResultPage, v
  <2> HIDE DEF p, b
  <2> QED BY <2>1, <2>2
<1>4. b => cursor # None
  BY DEF Backward
<1> HIDE DEF p, b, v
<1>5. p.next \in {None} \cup PToken /\ p.previous \in {None} \cup PToken
  BY <1>1, <1>2, <1>3
<1>6. p \in PPage
  BY <1>1, <1>3, <1>5 DEF PPage
<1>7. (p.next # None => p.next.direction = "forward") /\ (p.previous # None => p.previous.direction = "backward")
  BY <1>1, <1>2, <1>3
<1>8. (~more => IF b THEN p.previous = None ELSE p.next = None)
      /\ (more => IF b THEN p.previous = Token(f[Len(f)], "backward") ELSE p.next = Token(f[Len(f)], "forward"))
  BY <1>0, <1>1, <1>3, <1>4
<1> QED BY <1>3, <1>6, <1>7, <1>8 DEF p, b, v

\* With the next batch the scan has every row up to the last candidate.
LEMMA Matched ==
  ASSUME PagingType, ScanInv, scan # None
  PROVE  LET b == Backward(scan.cursor)
             order == plan.order
             B == PageStatement(scan.seek)
             ok == scan.verified \o Documents(B, b)
         IN /\ B \in SUBSET rows /\ Cardinality(B) \in Nat /\ Cardinality(B) <= Size + 1
            /\ ok \in Seq(PRow) /\ InOrder(order, b, ok)
            /\ \A i \in DOMAIN walk.seen, j \in DOMAIN ok : SortsBefore(order, walk.seen[i], ok[j], b)
            /\ \A d \in walk.stable :
                 \/ In(d, walk.seen) \/ In(d, ok)
                 \/ /\ Cardinality(B) = Size + 1
                    /\ \A e \in B : SortsBefore(order, e, d, b)
                    /\ \A i \in DOMAIN ok : SortsBefore(order, ok[i], d, b)
            /\ \A e \in B : (\A x \in B \ {e} : SortsBefore(order, x, e, b)) =>
                 /\ \A i \in DOMAIN ok : ok[i] = e \/ SortsBefore(order, ok[i], e, b)
                 /\ \A i \in DOMAIN walk.seen : SortsBefore(order, walk.seen[i], e, b)
<1> DEFINE b == Backward(scan.cursor)
           order == plan.order
           B == PageStatement(scan.seek)
           D == Documents(B, b)
           ok == scan.verified \o D
           seen == walk.seen
           seek == scan.seek
           verified == scan.verified
<1>1. /\ b \in BOOLEAN /\ plan \in Plans /\ seek \in {None} \cup PToken
      /\ verified \in Seq(PRow) /\ seen \in Seq(PRow) /\ rows \subseteq PRow
  BY DEF PagingType, ScanInv, PScan, PWalk, Backward
<1>2. /\ Backward(seek) = b
      /\ seek = None => seen = <<>> /\ verified = <<>>
      /\ InOrder(order, b, seen) /\ InOrder(order, b, verified)
      /\ \A i \in DOMAIN seen, j \in DOMAIN verified : SortsBefore(order, seen[i], verified[j], b)
      /\ seek # None => UpTo(order, b, seen, seek) /\ UpTo(order, b, verified, seek)
      /\ \A d \in walk.stable :
           /\ d \in rows /\ Accepted(plan, d)
           /\ In(d, seen) \/ In(d, verified) \/ Past(order, b, d, seek)
  BY DEF ScanInv, Walking
<1>3. /\ B \in SUBSET rows /\ Cardinality(B) \in Nat /\ Cardinality(B) <= Size + 1
      /\ \A d \in B : Past(order, b, d, seek)
      /\ \A d \in rows : Past(order, b, d, seek) =>
           d \in B \/ (Cardinality(B) = Size + 1 /\ \A e \in B : SortsBefore(order, e, d, b))
  BY <1>1, <1>2, BatchOf
<1>4. /\ D \in Seq(PRow) /\ InOrder(order, b, D)
      /\ \A i \in DOMAIN D : D[i] \in B
      /\ \A d \in B : Verified(d) => In(d, D)
  BY <1>1, <1>3, DocumentsOf
<1>5. /\ ok \in Seq(PRow)
      /\ \A i \in DOMAIN ok :
           \/ i \in DOMAIN verified /\ ok[i] = verified[i]
           \/ i - Len(verified) \in DOMAIN D /\ ok[i] = D[i - Len(verified)]
      /\ \A d : In(d, ok) <=> In(d, verified) \/ In(d, D)
  BY <1>1, <1>4, Joined
<1>6. \A d : Accepted(plan, d) => Verified(d)
  BY DEF Accepted, Verified
<1>7. /\ \A i \in DOMAIN verified : verified[i] \in PRow
      /\ \A i \in DOMAIN seen : seen[i] \in PRow
  BY <1>1
<1>8. seek # None => RowOf(seek) \in PRow
  BY <1>1 DEF RowOf, PRow, PToken
<1>9. \A d, e, f \in PRow : SortsBefore(order, d, e, b) /\ SortsBefore(order, e, f, b) => SortsBefore(order, d, f, b)
  BY <1>1, RowOrder
<1> HIDE DEF b, order, B, D, ok, seen, seek, verified
<1>10. \A x \in PRow : Past(order, b, x, seek) =>
         /\ \A i \in DOMAIN seen : SortsBefore(order, seen[i], x, b)
         /\ \A i \in DOMAIN verified : SortsBefore(order, verified[i], x, b)
  <2> TAKE x \in PRow
  <2> HAVE Past(order, b, x, seek)
  <2>1. CASE seek = None
    BY <1>2, <2>1
  <2>2. CASE seek # None
    <3>1. SortsBefore(order, RowOf(seek), x, b)
      BY <2>2 DEF Past
    <3>2. /\ \A i \in DOMAIN seen : seen[i] = RowOf(seek) \/ SortsBefore(order, seen[i], RowOf(seek), b)
          /\ \A i \in DOMAIN verified : verified[i] = RowOf(seek) \/ SortsBefore(order, verified[i], RowOf(seek), b)
      BY <1>2, <2>2 DEF UpTo
    <3> QED BY <1>7, <1>8, <1>9, <2>2, <3>1, <3>2
  <2> QED BY <2>1, <2>2
<1>11. \A d \in B : d \in PRow /\ Past(order, b, d, seek)
  BY <1>1, <1>3
<1>12. InOrder(order, b, ok)
  <2>1. \A i \in DOMAIN verified, j \in DOMAIN D : SortsBefore(order, verified[i], D[j], b)
    BY <1>4, <1>10, <1>11
  <2> QED BY <1>1, <1>2, <1>4, <2>1, JoinedOrder DEF order, ok, D, verified
<1>13. \A i \in DOMAIN seen, j \in DOMAIN ok : SortsBefore(order, seen[i], ok[j], b)
  BY <1>2, <1>4, <1>5, <1>10, <1>11
<1>14. \A d \in walk.stable :
         \/ In(d, seen) \/ In(d, ok)
         \/ /\ Cardinality(B) = Size + 1
            /\ \A e \in B : SortsBefore(order, e, d, b)
            /\ \A i \in DOMAIN ok : SortsBefore(order, ok[i], d, b)
  <2> TAKE d \in walk.stable
  <2>1. SUFFICES ASSUME ~In(d, seen), ~In(d, ok)
                 PROVE  /\ Cardinality(B) = Size + 1
                        /\ \A e \in B : SortsBefore(order, e, d, b)
                        /\ \A i \in DOMAIN ok : SortsBefore(order, ok[i], d, b)
    OBVIOUS
  <2>2. d \in rows /\ d \in PRow /\ Verified(d) /\ Past(order, b, d, seek)
    BY <1>1, <1>2, <1>5, <1>6, <2>1
  <2>3. d \notin B
    BY <1>4, <1>5, <2>1, <2>2
  <2>4. Cardinality(B) = Size + 1 /\ \A e \in B : SortsBefore(order, e, d, b)
    BY <1>3, <2>2, <2>3
  <2>5. \A i \in DOMAIN ok : SortsBefore(order, ok[i], d, b)
    BY <1>4, <1>5, <1>10, <2>2, <2>4
  <2> QED BY <2>4, <2>5
<1>15. \A e \in B : (\A x \in B \ {e} : SortsBefore(order, x, e, b)) =>
         /\ \A i \in DOMAIN ok : ok[i] = e \/ SortsBefore(order, ok[i], e, b)
         /\ \A i \in DOMAIN seen : SortsBefore(order, seen[i], e, b)
  BY <1>4, <1>5, <1>10, <1>11
<1> QED BY <1>3, <1>5, <1>12, <1>13, <1>14, <1>15 DEF b, order, B, D, ok, seen, seek, verified

\* A token is the token of its row.
LEMMA TokenRow ==
  ASSUME NEW d \in PRow, NEW dir \in {"forward", "backward"}, plan \in Plans
  PROVE  /\ Token(d, dir) \in PToken /\ Token(d, dir) # None /\ Token(d, dir).fingerprint = plan
         /\ Token(d, dir).direction = dir /\ RowOf(Token(d, dir)) = d
<1>1. Token(d, dir) \in PToken /\ Token(d, dir).fingerprint = plan /\ Token(d, dir).direction = dir
  BY DEF Token, PToken, PRow
<1>2. RowOf(Token(d, dir)) = d
  BY DEF Token, RowOf, PRow
<1> QED BY <1>1, <1>2, NotNone

\* A call for a page goes on with the walk, or begins one.
LEMMA CallHolds ==
  ASSUME PagingIInv, NEW cursor \in {None, page.next, page.previous}, Call(cursor)
  PROVE  PagingIInv'
<1> DEFINE b == Backward(cursor)
           w == WalkOn(cursor)
           dir == IF b THEN "backward" ELSE "forward"
           ahead == {d \in rows : Verified(d) /\ (cursor = None \/ SeekPredicate(d, cursor, b))}
<1>1. /\ scan = None /\ (cursor # None => cursor.fingerprint = plan)
      /\ scan' = [cursor |-> cursor, seek |-> cursor, verified |-> <<>>, dirty |-> FALSE]
      /\ walk' = w /\ UNCHANGED <<rows, top, plan, page, trail>>
  BY DEF Call, Decoded
<1>2. /\ rows \subseteq PRow /\ plan \in Plans /\ walk \in {None} \cup PWalk
      /\ page.next \in {None} \cup PToken /\ page.previous \in {None} \cup PToken
      /\ page.next # None => page.next.direction = "forward"
      /\ page.previous # None => page.previous.direction = "backward"
  BY DEF PagingIInv, PagingType, PPage
<1>3. cursor \in {None} \cup PToken /\ b \in BOOLEAN
  BY <1>2 DEF Backward
<1>4. cursor # None => walk \in PWalk /\ walk # None
  BY <1>2 DEF PagingIInv, WalkInv
<1>5. \A d \in ahead : d \in rows /\ Accepted(plan, d) /\ Past(plan.order, b, d, cursor)
  <2> TAKE d \in ahead
  <2>1. d \in rows /\ Accepted(plan, d) /\ (cursor = None \/ SeekPredicate(d, cursor, b))
    BY DEF Accepted, Verified
  <2>2. cursor # None => (SeekPredicate(d, cursor, b) <=> SortsBefore(plan.order, RowOf(cursor), d, b))
    BY <1>2, <1>3, <2>1, SeekIs
  <2> QED BY <2>1, <2>2 DEF Past
<1>6. ahead \in SUBSET PRow
  BY <1>2
<1>7. w = IF cursor # None /\ walk.direction = dir THEN walk
          ELSE [direction |-> dir, plan |-> plan, seen |-> <<>>, stable |-> ahead]
  BY DEF WalkOn
<1> HIDE DEF w, ahead, b
<1>8. w \in PWalk /\ Walking(rows, plan, cursor, cursor, <<>>, w)
  <2>1. CASE cursor # None /\ walk.direction = dir
    <3>1. w = walk /\ WalkToken = cursor
      <4>1. CASE b
        <5>1. cursor.direction = "backward"
          BY <2>1, <4>1 DEF Backward, b
        <5>2. cursor = page.previous
          BY <1>2, <2>1, <5>1
        <5> QED BY <1>7, <2>1, <4>1, <5>2 DEF WalkToken
      <4>2. CASE ~b
        <5>1. cursor.direction # "backward"
          BY <2>1, <4>2 DEF Backward, b
        <5>2. cursor = page.next
          BY <1>2, <2>1, <5>1
        <5> QED BY <1>7, <2>1, <4>2, <5>2 DEF WalkToken
      <4> QED BY <4>1, <4>2
    <3>2. Walked(rows, cursor, walk)
      BY <1>1, <1>4, <2>1, <3>1 DEF PagingIInv, WalkInv
    <3>3. walk.plan = plan /\ (walk.direction = "backward" <=> b)
      BY <1>1, <2>1, <3>2 DEF Walked
    <3>4. InOrder(plan.order, b, <<>>)
      BY DEF InOrder
    <3>5. UpTo(plan.order, b, <<>>, cursor)
      BY DEF UpTo
    <3>6. InOrder(plan.order, b, walk.seen) /\ UpTo(plan.order, b, walk.seen, cursor)
          /\ \A d \in walk.stable : d \in rows /\ Accepted(plan, d)
               /\ (In(d, walk.seen) \/ Past(plan.order, b, d, cursor))
      <4>1. walk.direction = "backward" <=> b
        BY <3>3
      <4>2. CASE b
        BY <2>1, <3>2, <3>3, <4>2 DEF Walked
      <4>3. CASE ~b
        BY <2>1, <3>2, <3>3, <4>3 DEF Walked
      <4> QED BY <4>2, <4>3
    <3> QED BY <1>4, <2>1, <3>1, <3>3, <3>4, <3>5, <3>6 DEF Walking, b
  <2>2. CASE ~(cursor # None /\ walk.direction = dir)
    <3>1. w = [direction |-> dir, plan |-> plan, seen |-> <<>>, stable |-> ahead]
      BY <1>7, <2>2
    <3>2. w \in PWalk
      BY <1>2, <1>6, <3>1 DEF PWalk
    <3>3. InOrder(plan.order, b, <<>>) /\ UpTo(plan.order, b, <<>>, cursor)
      BY DEF InOrder, UpTo
    <3> QED BY <1>5, <3>1, <3>2, <3>3 DEF Walking, b
  <2> QED BY <2>1, <2>2
<1>9. scan' \in PScan /\ scan' # None /\ walk' # None
  <2>1. scan' \in PScan
    BY <1>1, <1>3 DEF PScan
  <2>2. walk' \in PWalk
    BY <1>1, <1>8
  <2> QED BY <2>1, <2>2, NotNone
<1>10. PagingType'
  BY <1>1, <1>8, <1>9 DEF PagingIInv, PagingType
<1>11. ScanInv'
  BY <1>1, <1>8, <1>9 DEF ScanInv
<1>12. WalkInv'
  BY <1>1, <1>9 DEF WalkInv
<1> QED BY <1>10, <1>11, <1>12 DEF PagingIInv

\* A page that is returned goes on with the walk up to its token.
LEMMA ReturnHolds ==
  ASSUME PagingIInv, Return
  PROVE  PagingIInv'
<1> DEFINE b == Backward(scan.cursor)
           order == plan.order
           B == PageStatement(scan.seek)
           ok == scan.verified \o Documents(B, b)
           more == Len(ok) > Size
           f == FirstOf(ok, Size)
           p == ResultPage(f, scan.cursor, more)
           w == [walk EXCEPT !.seen = @ \o f]
           token == IF walk.direction = "forward" THEN p.next ELSE p.previous
<1>1. /\ scan # None /\ (more \/ Cardinality(B) < Size + 1)
      /\ page' = p /\ walk' = w /\ scan' = None /\ UNCHANGED <<rows, top, plan>>
  BY DEF Return
<1>2. /\ plan \in Plans /\ scan \in PScan /\ walk \in {None} \cup PWalk
  BY <1>1 DEF PagingIInv, PagingType
<1>3. /\ walk # None /\ walk \in PWalk /\ walk.plan = plan
      /\ walk.direction = IF b THEN "backward" ELSE "forward"
      /\ InOrder(order, b, walk.seen)
      /\ \A d \in walk.stable : d \in rows /\ Accepted(plan, d)
  <2>1. walk # None /\ Walking(rows, plan, scan.cursor, scan.seek, scan.verified, walk)
    BY <1>1 DEF PagingIInv, ScanInv
  <2>2. walk \in PWalk
    BY <1>2, <2>1
  <2> QED BY <2>1, <2>2 DEF Walking
<1>4. /\ B \in SUBSET rows /\ Cardinality(B) \in Nat /\ Cardinality(B) <= Size + 1
      /\ ok \in Seq(PRow) /\ InOrder(order, b, ok)
      /\ \A i \in DOMAIN walk.seen, j \in DOMAIN ok : SortsBefore(order, walk.seen[i], ok[j], b)
      /\ \A d \in walk.stable :
           \/ In(d, walk.seen) \/ In(d, ok)
           \/ /\ Cardinality(B) = Size + 1
              /\ \A e \in B : SortsBefore(order, e, d, b)
              /\ \A i \in DOMAIN ok : SortsBefore(order, ok[i], d, b)
  BY <1>1, Matched DEF PagingIInv
<1>5. Size \in Nat \ {0}
  BY PagingAssumption
<1>6. /\ f \in Seq(PRow) /\ Len(f) = IF Len(ok) > Size THEN Size ELSE Len(ok)
      /\ \A i \in DOMAIN f : f[i] = ok[i]
  <2> HIDE DEF ok
  <2>1. Size \in Int /\ ~(Size < 0)
    BY <1>5
  <2> QED BY <1>4, <2>1, FirstOfIs
<1>7. scan.cursor \in {None} \cup PToken /\ b \in BOOLEAN /\ more \in BOOLEAN
  BY <1>2 DEF PScan, Backward
<1> HIDE DEF ok, f, B, b
<1>8. more => f # <<>> /\ f[Len(f)] = ok[Size] /\ ok[Size] \in PRow /\ Size \in DOMAIN ok /\ Len(f) = Size
  BY <1>4, <1>5, <1>6
<1>9. /\ p \in PPage
      /\ p.next # None => p.next.direction = "forward"
      /\ p.previous # None => p.previous.direction = "backward"
      /\ ~more => IF b THEN p.previous = None ELSE p.next = None
      /\ more => IF b THEN p.previous = Token(f[Len(f)], "backward")
                      ELSE p.next = Token(f[Len(f)], "forward")
  <2> HIDE DEF more
  <2> QED BY <1>2, <1>6, <1>7, <1>8, PageIs DEF b
<1> HIDE DEF p, w
<1>10. /\ w \in PWalk /\ w # None /\ w.direction = walk.direction /\ w.plan = plan /\ w.stable = walk.stable
       /\ w.seen = walk.seen \o f
  <2>0. walk.seen \in Seq(PRow)
    BY <1>3 DEF PWalk
  <2>1. walk.seen \o f \in Seq(PRow)
    BY <1>6, <2>0
  <2>2. w \in PWalk /\ w.direction = walk.direction /\ w.plan = plan /\ w.stable = walk.stable
        /\ w.seen = walk.seen \o f
    BY <1>3, <2>1 DEF PWalk, w
  <2> QED BY <2>2, NotNone
<1>11. /\ ~more => token = None
       /\ more => \E dir \in {"forward", "backward"} : token = Token(ok[Size], dir)
  <2>1. CASE b
    <3>1. token = p.previous
      BY <1>3, <2>1
    <3> QED BY <1>8, <1>9, <2>1, <3>1
  <2>2. CASE ~b
    <3>1. token = p.next
      BY <1>3, <2>2
    <3> QED BY <1>8, <1>9, <2>2, <3>1
  <2> QED BY <2>1, <2>2
<1> HIDE DEF token
<1>12. more => token # None /\ token.fingerprint = plan /\ RowOf(token) = ok[Size]
  BY <1>2, <1>8, <1>11, TokenRow
<1>13. walk.seen \in Seq(PRow)
  BY <1>3 DEF PWalk
<1>14. Walked(rows, token, w)
  <2>1. \A i \in DOMAIN walk.seen, j \in DOMAIN f : SortsBefore(order, walk.seen[i], f[j], b)
    <3>1. DOMAIN f \subseteq DOMAIN ok
      BY <1>4, <1>5, <1>6
    <3> QED BY <1>4, <1>6, <3>1
  <2>2. InOrder(order, b, f)
    <3>1. DOMAIN f \subseteq DOMAIN ok
      BY <1>4, <1>5, <1>6
    <3> QED BY <1>4, <1>6, <3>1 DEF InOrder
  <2>3. InOrder(order, b, w.seen)
    <3>1. InOrder(order, b, walk.seen)
      BY <1>3
    <3>2. InOrder(order, b, walk.seen \o f)
      BY <1>2, <1>6, <1>7, <1>13, <2>1, <2>2, <3>1, JoinedOrder
    <3> QED BY <1>10, <3>2
  <2>4. /\ \A i \in DOMAIN w.seen :
             \/ i \in DOMAIN walk.seen /\ w.seen[i] = walk.seen[i]
             \/ i - Len(walk.seen) \in DOMAIN f /\ w.seen[i] = f[i - Len(walk.seen)]
        /\ \A d : In(d, w.seen) <=> In(d, walk.seen) \/ In(d, f)
    BY <1>6, <1>10, <1>13, Joined
  <2>5. more => UpTo(order, b, w.seen, token)
    <3> SUFFICES ASSUME more, NEW i \in DOMAIN w.seen
                 PROVE  w.seen[i] = ok[Size] \/ SortsBefore(order, w.seen[i], ok[Size], b)
      BY <1>12 DEF UpTo
    <3>1. CASE i \in DOMAIN walk.seen /\ w.seen[i] = walk.seen[i]
      BY <1>4, <1>8, <3>1
    <3>2. CASE i - Len(walk.seen) \in DOMAIN f /\ w.seen[i] = f[i - Len(walk.seen)]
      <4>1. PICK j \in DOMAIN f : w.seen[i] = f[j]
        BY <3>2
      <4>2. j \in DOMAIN ok /\ j <= Size /\ f[j] = ok[j] /\ j \in Nat
        BY <1>4, <1>5, <1>6, <1>8, <4>1
      <4>3. j = Size \/ j < Size
        BY <1>5, <4>2
      <4> QED BY <1>4, <1>8, <4>1, <4>2, <4>3 DEF InOrder
    <3> QED BY <2>4, <3>1, <3>2
  <2>6. \A d \in w.stable : /\ d \in rows /\ Accepted(w.plan, d)
                            /\ In(d, w.seen) \/ (token # None /\ Past(order, b, d, token))
    <3> TAKE d \in w.stable
    <3>1. d \in walk.stable /\ d \in rows /\ Accepted(w.plan, d)
      <4>1. d \in walk.stable /\ w.plan = plan
        BY <1>10
      <4> QED BY <1>3, <4>1
    <3>2. CASE In(d, walk.seen)
      BY <2>4, <3>1, <3>2
    <3>3. CASE ~In(d, walk.seen) /\ In(d, ok)
      <4>1. PICK j \in DOMAIN ok : ok[j] = d
        BY <3>3 DEF In
      <4>2. CASE j \in DOMAIN f
        <5>1. In(d, f)
          BY <1>6, <4>1, <4>2 DEF In
        <5> QED BY <2>4, <3>1, <5>1
      <4>3. CASE j \notin DOMAIN f
        <5>1. more /\ Size < j
          BY <1>4, <1>5, <1>6, <4>1, <4>3
        <5>2. SortsBefore(order, ok[Size], d, b)
          BY <1>4, <1>8, <4>1, <5>1 DEF InOrder
        <5> QED BY <1>12, <3>1, <5>1, <5>2 DEF Past
      <4> QED BY <4>2, <4>3
    <3>4. CASE ~In(d, walk.seen) /\ ~In(d, ok)
      <4>1. Cardinality(B) = Size + 1 /\ \A i \in DOMAIN ok : SortsBefore(order, ok[i], d, b)
        BY <1>4, <3>1, <3>4
      <4>2. more
        BY <1>1, <1>4, <1>5, <4>1
      <4> QED BY <1>8, <1>12, <3>1, <4>1, <4>2 DEF Past
    <3> QED BY <3>2, <3>3, <3>4
  <2>7. w.plan.order = order /\ (w.direction = "backward" <=> b)
    <3>1. w.plan.order = order /\ w.direction = walk.direction
      BY <1>10
    <3>2. CASE b
      BY <1>3, <3>1, <3>2
    <3>3. CASE ~b
      BY <1>3, <3>1, <3>3
    <3> QED BY <3>2, <3>3
  <2>8. token # None => more
    BY <1>11
  <2>9. CASE b
    BY <1>10, <1>12, <2>3, <2>5, <2>6, <2>7, <2>8, <2>9 DEF Walked
  <2>10. CASE ~b
    BY <1>10, <1>12, <2>3, <2>5, <2>6, <2>7, <2>8, <2>10 DEF Walked
  <2> QED BY <2>9, <2>10
<1>15. WalkToken' = token
  BY <1>1, <1>10 DEF WalkToken, token
<1>16. PagingType'
  BY <1>1, <1>9, <1>10 DEF PagingIInv, PagingType
<1>17. ScanInv'
  BY <1>1 DEF ScanInv
<1>18. WalkInv'
  BY <1>1, <1>10, <1>14, <1>15 DEF WalkInv
<1> QED BY <1>16, <1>17, <1>18 DEF PagingIInv

\* A batch that is not enough leaves the query after its last candidate.
LEMMA NextBatchHolds ==
  ASSUME PagingIInv, NextBatch
  PROVE  PagingIInv'
<1> DEFINE b == Backward(scan.cursor)
           order == plan.order
           B == PageStatement(scan.seek)
           ok == scan.verified \o Documents(B, b)
           dir == IF b THEN "backward" ELSE "forward"
<1>1. /\ scan # None /\ Cardinality(B) = Size + 1 /\ UNCHANGED <<rows, top, plan, page, walk, trail>>
  BY DEF NextBatch
<1>2. PICK last \in B : /\ \A d \in B \ {last} : SortsBefore(order, d, last, b)
                        /\ scan' = [scan EXCEPT !.verified = ok, !.seek = Token(last, dir)]
  BY DEF NextBatch
<1>3. /\ plan \in Plans /\ scan \in PScan /\ walk \in {None} \cup PWalk /\ rows \subseteq PRow
  BY <1>1 DEF PagingIInv, PagingType
<1>4. /\ B \in SUBSET rows
      /\ ok \in Seq(PRow) /\ InOrder(order, b, ok)
      /\ \A i \in DOMAIN walk.seen, j \in DOMAIN ok : SortsBefore(order, walk.seen[i], ok[j], b)
      /\ \A d \in walk.stable :
           In(d, walk.seen) \/ In(d, ok) \/ \A e \in B : SortsBefore(order, e, d, b)
      /\ \A e \in B : (\A x \in B \ {e} : SortsBefore(order, x, e, b)) =>
           /\ \A i \in DOMAIN ok : ok[i] = e \/ SortsBefore(order, ok[i], e, b)
           /\ \A i \in DOMAIN walk.seen : SortsBefore(order, walk.seen[i], e, b)
  BY <1>1, Matched DEF PagingIInv
<1>5. Walking(rows, plan, scan.cursor, scan.seek, scan.verified, walk)
  BY <1>1 DEF PagingIInv, ScanInv
<1>6. b \in BOOLEAN
  BY DEF Backward
<1> HIDE DEF B, ok
<1>7. /\ last \in PRow /\ Token(last, dir) \in PToken /\ Token(last, dir) # None
      /\ RowOf(Token(last, dir)) = last /\ (Backward(Token(last, dir)) <=> b)
  <2>1. last \in PRow /\ dir \in {"forward", "backward"}
    BY <1>2, <1>3, <1>4
  <2>2. Token(last, dir) \in PToken /\ Token(last, dir) # None /\ Token(last, dir).direction = dir
        /\ RowOf(Token(last, dir)) = last
    BY <1>3, <2>1, TokenRow
  <2> QED BY <1>6, <2>1, <2>2 DEF Backward
<1>8. /\ scan' \in PScan /\ scan'.cursor = scan.cursor /\ scan'.seek = Token(last, dir) /\ scan'.verified = ok
  BY <1>2, <1>3, <1>4, <1>7 DEF PScan
<1>9. Walking(rows, plan, scan.cursor, Token(last, dir), ok, walk)
  <2> DEFINE t == Token(last, dir)
  <2>1. UpTo(order, b, walk.seen, t) /\ UpTo(order, b, ok, t)
    BY <1>2, <1>4, <1>7 DEF UpTo
  <2>2. \A d \in walk.stable : /\ d \in rows /\ Accepted(plan, d)
                               /\ In(d, walk.seen) \/ In(d, ok) \/ Past(order, b, d, t)
    BY <1>2, <1>4, <1>5, <1>7 DEF Walking, Past
  <2>3. Backward(t) = b
    <3>1. Backward(t) \in BOOLEAN
      BY DEF Backward
    <3> QED BY <1>6, <1>7, <3>1
  <2>4. t # None
    BY <1>7
  <2>5. walk.plan = plan /\ walk.direction = dir /\ InOrder(order, b, walk.seen)
    BY <1>5 DEF Walking
  <2> HIDE DEF t
  <2>6. Walking(rows, plan, scan.cursor, t, ok, walk)
    BY <1>4, <2>1, <2>2, <2>3, <2>4, <2>5 DEF Walking
  <2> QED BY <2>6 DEF t
<1>10. scan' # None
  BY <1>8, NotNone
<1>11. PagingType'
  BY <1>1, <1>8 DEF PagingIInv, PagingType
<1>12. ScanInv'
  BY <1>1, <1>8, <1>9 DEF PagingIInv, ScanInv
<1>13. WalkInv'
  BY <1>1, <1>10 DEF PagingIInv, WalkInv
<1> QED BY <1>11, <1>12, <1>13 DEF PagingIInv

\* The invariant holds at first.
LEMMA PagingBegins ==
  ASSUME PagingInit
  PROVE  PagingIInv
<1>1. PICK n \in 0..MaxSid : \E keys \in [1..n -> Contents] :
        rows = {[sid |-> i, keys |-> keys[i]] : i \in 1..n} /\ top = n
  BY DEF PagingInit
<1>2. PICK keys \in [1..n -> Contents] :
        rows = {[sid |-> i, keys |-> keys[i]] : i \in 1..n} /\ top = n
  BY <1>1
<1>3. n \in Nat
  BY <1>1, PagingAssumption
<1> DEFINE s == [i \in 1..n |-> [sid |-> i, keys |-> keys[i]]]
<1>4. /\ s \in [1..n -> rows]
      /\ \A i, j \in 1..n : s[i] = s[j] => i = j
      /\ \A d \in rows : \E i \in 1..n : s[i] = d
  BY <1>2
<1>5. \A d \in rows : d \in PRow /\ d.sid <= top
  BY <1>2, <1>3 DEF PRow
<1>6. \A d, e \in rows : d.sid = e.sid => d = e
  BY <1>2
<1> HIDE DEF s
<1>7. IsFiniteSet(rows)
  BY <1>3, <1>4, Enumerated
<1>8. plan \in Plans /\ page = NoPage /\ scan = None /\ walk = None
  BY DEF PagingInit
<1>9. page \in PPage /\ page.next = None /\ page.previous = None
  <2>1. <<>> \in Seq(PRow)
    OBVIOUS
  <2> DEFINE Rows == Seq(PRow)
             e == <<>>
  <2>2. e \in Rows
    BY <2>1
  <2>3. page = [rows |-> e, next |-> None, previous |-> None]
    BY <1>8 DEF NoPage
  <2>4. PPage = [rows : Rows, next : {None} \cup PToken, previous : {None} \cup PToken]
    BY DEF PPage
  <2> HIDE DEF Rows, e
  <2> QED BY <2>2, <2>3, <2>4
<1>10. PagingType
  BY <1>2, <1>3, <1>5, <1>6, <1>7, <1>8, <1>9 DEF PagingType
<1> QED BY <1>8, <1>9, <1>10 DEF PagingIInv, ScanInv, WalkInv

\* What is saved is not waited for.
LEMMA SaveHolds ==
  ASSUME PagingIInv, Save
  PROVE  PagingIInv'
<1>1. PICK keys \in Contents : rows' = rows \cup {[sid |-> top + 1, keys |-> keys]}
  BY DEF Save
<1>2. /\ top' = top + 1 /\ UNCHANGED <<plan, page, walk>>
      /\ scan' = IF scan = None THEN None ELSE [scan EXCEPT !.dirty = TRUE]
  BY DEF Save
<1>3. PagingType
  BY DEF PagingIInv
<1> DEFINE d == [sid |-> top + 1, keys |-> keys]
<1>4. d \in PRow /\ d.sid = top + 1 /\ top \in Nat
  BY <1>3 DEF PagingType, PRow
<1>5. rows' = rows \cup {d}
  BY <1>1
<1> HIDE DEF d
<1>6. IsFiniteSet(rows')
  BY <1>3, <1>5, FS_AddElement DEF PagingType
<1>7. rows' \subseteq PRow /\ \A e \in rows' : e.sid <= top'
  BY <1>2, <1>3, <1>4, <1>5 DEF PagingType, PRow
<1>8. \A e, f \in rows' : e.sid = f.sid => e = f
  <2>1. \A e \in rows : e.sid <= top /\ e.sid \in Nat
    BY <1>3 DEF PagingType, PRow
  <2>2. \A e \in rows : e.sid # d.sid
    BY <1>4, <2>1
  <2> QED BY <1>3, <1>5, <2>2 DEF PagingType
<1>9. /\ scan' \in {None} \cup PScan
      /\ scan # None => /\ scan'.cursor = scan.cursor /\ scan'.seek = scan.seek
                        /\ scan'.verified = scan.verified /\ scan' # None
      /\ scan = None => scan' = None
  <2>1. CASE scan = None
    BY <1>2, <2>1
  <2>2. CASE scan # None
    <3>1. scan \in PScan
      BY <1>3, <2>2 DEF PagingType
    <3>2. scan' \in PScan /\ scan'.cursor = scan.cursor /\ scan'.seek = scan.seek /\ scan'.verified = scan.verified
      BY <1>2, <2>2, <3>1 DEF PScan
    <3> QED BY <2>2, <3>2, NotNone
  <2> QED BY <2>1, <2>2
<1>10. PagingType'
  BY <1>2, <1>3, <1>4, <1>6, <1>7, <1>8, <1>9 DEF PagingType
<1>11. ScanInv'
  <2> SUFFICES ASSUME scan' # None
               PROVE  walk' # None /\ Walking(rows', plan', scan'.cursor, scan'.seek, scan'.verified, walk')
    BY DEF ScanInv
  <2>1. scan # None
    BY <1>9
  <2>2. walk # None /\ Walking(rows, plan, scan.cursor, scan.seek, scan.verified, walk)
    BY <2>1 DEF PagingIInv, ScanInv
  <2>3. Walking(rows', plan, scan.cursor, scan.seek, scan.verified, walk)
    BY <1>5, <2>2 DEF Walking
  <2> QED BY <1>2, <1>9, <2>1, <2>2, <2>3
<1>12. WalkInv'
  <2>1. WalkToken' = WalkToken
    BY <1>2 DEF WalkToken
  <2>2. scan' = None /\ walk' # None => Walked(rows', WalkToken', walk')
    <3> SUFFICES ASSUME scan' = None, walk' # None PROVE Walked(rows', WalkToken, walk)
      BY <1>2, <2>1
    <3>1. Walked(rows, WalkToken, walk)
      BY <1>2, <1>9 DEF PagingIInv, WalkInv
    <3> QED BY <1>5, <3>1 DEF Walked
  <2>3. walk' = None => page'.next = None /\ page'.previous = None
    BY <1>2 DEF PagingIInv, WalkInv
  <2> QED BY <2>2, <2>3 DEF WalkInv
<1> QED BY <1>10, <1>11, <1>12 DEF PagingIInv

\* What is deleted is not waited for any more.
LEMMA SweepHolds ==
  ASSUME PagingIInv, Sweep
  PROVE  PagingIInv'
<1>1. PICK d \in rows : /\ rows' = rows \ {d}
                        /\ walk' = IF walk = None THEN None ELSE [walk EXCEPT !.stable = @ \ {d}]
  BY DEF Sweep
<1>2. /\ UNCHANGED <<top, plan, page>>
      /\ scan' = IF scan = None THEN None ELSE [scan EXCEPT !.dirty = TRUE]
  BY DEF Sweep
<1>3. PagingType
  BY DEF PagingIInv
<1>6. IsFiniteSet(rows') /\ rows' \subseteq rows
  <2>1. rows' \in SUBSET rows
    BY <1>1
  <2> QED BY <1>3, <2>1, FS_Subset DEF PagingType
<1>9. /\ scan' \in {None} \cup PScan
      /\ scan # None => /\ scan'.cursor = scan.cursor /\ scan'.seek = scan.seek
                        /\ scan'.verified = scan.verified /\ scan' # None
      /\ scan = None => scan' = None
  <2>1. CASE scan = None
    BY <1>2, <2>1
  <2>2. CASE scan # None
    <3>1. scan \in PScan
      BY <1>3, <2>2 DEF PagingType
    <3>2. scan' \in PScan /\ scan'.cursor = scan.cursor /\ scan'.seek = scan.seek /\ scan'.verified = scan.verified
      BY <1>2, <2>2, <3>1 DEF PScan
    <3> QED BY <2>2, <3>2, NotNone
  <2> QED BY <2>1, <2>2
<1>10. /\ walk' \in {None} \cup PWalk /\ (walk = None => walk' = None)
       /\ walk # None => /\ walk' # None /\ walk'.plan = walk.plan /\ walk'.direction = walk.direction
                         /\ walk'.seen = walk.seen /\ walk'.stable = walk.stable \ {d}
  <2>1. CASE walk = None
    BY <1>1, <2>1
  <2>2. CASE walk # None
    <3>1. walk \in PWalk
      BY <1>3, <2>2 DEF PagingType
    <3>2. walk' \in PWalk /\ walk'.plan = walk.plan /\ walk'.direction = walk.direction
          /\ walk'.seen = walk.seen /\ walk'.stable = walk.stable \ {d}
      BY <1>1, <2>2, <3>1 DEF PWalk
    <3> QED BY <2>2, <3>2, NotNone
  <2> QED BY <2>1, <2>2
<1>11. PagingType'
  BY <1>2, <1>3, <1>6, <1>9, <1>10 DEF PagingType
<1>12. ScanInv'
  <2> SUFFICES ASSUME scan' # None
               PROVE  walk' # None /\ Walking(rows', plan', scan'.cursor, scan'.seek, scan'.verified, walk')
    BY DEF ScanInv
  <2>1. scan # None
    BY <1>9
  <2>2. walk # None /\ Walking(rows, plan, scan.cursor, scan.seek, scan.verified, walk)
    BY <2>1 DEF PagingIInv, ScanInv
  <2>3. Walking(rows', plan, scan.cursor, scan.seek, scan.verified, walk')
    BY <1>1, <1>10, <2>2 DEF Walking
  <2> QED BY <1>2, <1>9, <1>10, <2>1, <2>2, <2>3
<1>13. WalkInv'
  <2>1. walk # None => WalkToken' = WalkToken
    BY <1>2, <1>10 DEF WalkToken
  <2>2. scan' = None /\ walk' # None => Walked(rows', WalkToken', walk')
    <3> SUFFICES ASSUME scan' = None, walk' # None PROVE Walked(rows', WalkToken, walk')
      BY <1>10, <2>1
    <3>1. Walked(rows, WalkToken, walk) /\ walk # None
      BY <1>9, <1>10 DEF PagingIInv, WalkInv
    <3> QED BY <1>1, <1>10, <3>1 DEF Walked
  <2>3. walk' = None => page'.next = None /\ page'.previous = None
    BY <1>2, <1>10 DEF PagingIInv, WalkInv
  <2> QED BY <2>2, <2>3 DEF WalkInv
<1> QED BY <1>11, <1>12, <1>13 DEF PagingIInv

\* Another plan refuses the tokens.
LEMMA ReplanHolds ==
  ASSUME PagingIInv, Replan
  PROVE  PagingIInv'
<1>1. /\ scan = None /\ plan' \in Plans /\ UNCHANGED <<rows, top, page, scan, walk>>
  BY DEF Replan
<1>2. PagingType'
  BY <1>1 DEF PagingIInv, PagingType
<1>3. ScanInv'
  BY <1>1 DEF ScanInv
<1>4. WalkInv'
  BY <1>1 DEF PagingIInv, WalkInv, WalkToken
<1> QED BY <1>2, <1>3, <1>4 DEF PagingIInv

\* Every step keeps the invariant.
LEMMA PagingStep ==
  ASSUME PagingIInv, [PagingNext]_pagingVars
  PROVE  PagingIInv'
<1>1. CASE FirstPage
  BY <1>1, CallHolds DEF FirstPage
<1>2. CASE NextPage
  BY <1>2, CallHolds DEF NextPage
<1>3. CASE PreviousPage
  BY <1>3, CallHolds DEF PreviousPage
<1>4. CASE Return
  BY <1>4, ReturnHolds
<1>5. CASE NextBatch
  BY <1>5, NextBatchHolds
<1>6. CASE Save
  BY <1>6, SaveHolds
<1>7. CASE Sweep
  BY <1>7, SweepHolds
<1>8. CASE Replan
  BY <1>8, ReplanHolds
<1>9. CASE UNCHANGED pagingVars
  BY <1>9 DEF pagingVars, PagingIInv, PagingType, ScanInv, WalkInv, WalkToken
<1> QED BY <1>1, <1>2, <1>3, <1>4, <1>5, <1>6, <1>7, <1>8, <1>9 DEF PagingNext

\* The invariant is inductive.
LEMMA PagingInductive ==
  PagingSpec => []PagingIInv
<1>1. PagingInit => PagingIInv
  BY PagingBegins
<1>2. PagingIInv /\ [PagingNext]_pagingVars => PagingIInv'
  BY PagingStep
<1> QED BY <1>1, <1>2, PTL DEF PagingSpec

\* A walk that reaches its end has met every row that was there all the time, in
\* order and none twice, for every plan, page size and content (page() of both
\* result sets).
THEOREM WalkIsComplete == PagingSpec => []WalkComplete
<1>1. PagingIInv => WalkComplete
  <2> SUFFICES ASSUME PagingIInv PROVE WalkComplete
    OBVIOUS
  <2>1. WalkEnded => walk.stable \subseteq ToSet(walk.seen)
    <3> SUFFICES ASSUME WalkEnded, NEW d \in walk.stable PROVE d \in ToSet(walk.seen)
      OBVIOUS
    <3>1. walk # None /\ scan = None /\ WalkToken = None
      BY DEF WalkEnded, WalkToken
    <3>2. In(d, walk.seen)
      BY <3>1 DEF PagingIInv, WalkInv, Walked
    <3> QED BY <3>2 DEF In, ToSet
  <2>2. walk # None => InOrder(walk.plan.order, walk.direction = "backward", walk.seen)
    <3> SUFFICES ASSUME walk # None PROVE InOrder(walk.plan.order, walk.direction = "backward", walk.seen)
      OBVIOUS
    <3>1. CASE scan = None
      BY <3>1 DEF PagingIInv, WalkInv, Walked
    <3>2. CASE scan # None
      <4> DEFINE b == Backward(scan.cursor)
      <4>1. /\ walk.plan = plan
            /\ walk.direction = IF b THEN "backward" ELSE "forward"
            /\ InOrder(plan.order, b, walk.seen)
        BY <3>2 DEF PagingIInv, ScanInv, Walking
      <4>2. b \in BOOLEAN
        BY DEF Backward
      <4> HIDE DEF b
      <4>3. b = (walk.direction = "backward")
        BY <4>1, <4>2
      <4> QED BY <4>1, <4>3
    <3> QED BY <3>1, <3>2
  <2> QED BY <2>1, <2>2 DEF WalkComplete, InOrder
<1> QED BY <1>1, PagingInductive, PTL
-----------------------------------------------------------------------------
(* Continuation pages: previous recovers.  While the store is unchanged each *)
(* page of the trail is the rows just before the next one, so the rows a   *)
(* backward token admits begin with the page one came from.                *)

Admitted(R, p, b, t) == {d \in R : Accepted(p, d) /\ Past(p.order, b, d, t)}
Before(R, p, d) == {e \in R : Accepted(p, e) /\ SortsBefore(p.order, e, d, FALSE)}

\* The first rows of A, a page of them.
Fetches(p, b, A, f) ==
  /\ Len(f) <= Size /\ InOrder(p.order, b, f) /\ \A i \in DOMAIN f : f[i] \in A
  /\ \A d \in A : \/ In(d, f)
                  \/ Len(f) = Size /\ \A i \in DOMAIN f : SortsBefore(p.order, f[i], d, b)

\* A page without a gap, that is full unless the rows begin with it.
Full(R, p, t) ==
  /\ t # <<>> /\ Len(t) <= Size /\ InOrder(p.order, FALSE, t)
  /\ \A i \in DOMAIN t : t[i] \in R /\ Accepted(p, t[i])
  /\ \A d \in Before(R, p, Last(t)) :
       \/ In(d, t)
       \/ Len(t) = Size /\ \A i \in DOMAIN t : SortsBefore(p.order, d, t[i], FALSE)

\* Each page of the trail is the one before the next.
Chain(R, p, t) ==
  \A i \in 1..(Len(t) - 1) :
    t[i + 1] # <<>> => Fetches(p, TRUE, Before(R, p, Head(t[i + 1])), Reverse(t[i]))

\* A page in the making on an unchanged store.
Scanned(R, p, cursor, seek, verified) ==
  LET b == Backward(cursor)
      A == Admitted(R, p, b, cursor)
  IN /\ seek = cursor \/ (seek # None /\ Past(p.order, b, RowOf(seek), cursor))
     /\ \A i \in DOMAIN verified : verified[i] \in A
     /\ \A d \in A : In(d, verified) \/ Past(p.order, b, d, seek)

\* The tokens of a page belong to the plan, and to its ends.
Ended(R, p, pg) ==
  /\ pg.next # None => /\ pg.next.fingerprint = p /\ RowOf(pg.next) = Last(pg.rows)
                       /\ Full(R, p, pg.rows)
  /\ pg.previous # None => /\ pg.rows # <<>> /\ pg.previous.fingerprint = p
                           /\ RowOf(pg.previous) = Head(pg.rows)

Trailed(R, p, t, pg) == pg.rows = Last(t) /\ Chain(R, p, t) /\ Ended(R, p, pg)

TrailInv ==
  /\ trail \in Seq(Seq(PRow))
  /\ trail # <<>> /\ (scan = None \/ scan.cursor # None) => Trailed(rows, walk.plan, trail, page)
  /\ scan # None /\ scan.cursor # None =>
       scan.cursor = IF Backward(scan.cursor) THEN page.previous ELSE page.next
CleanInv == scan # None /\ ~scan.dirty => Scanned(rows, plan, scan.cursor, scan.seek, scan.verified)
TrailIInv == PagingIInv /\ TrailInv /\ CleanInv

\* A list reversed, its members and its ends.
LEMMA ReverseOf ==
  ASSUME NEW S, NEW f \in Seq(S)
  PROVE  LET r == Reverse(f)
         IN /\ r \in Seq(S) /\ Len(r) = Len(f) /\ (r = <<>> <=> f = <<>>)
            /\ DOMAIN r = 1..Len(f) /\ DOMAIN f = 1..Len(f) /\ Len(f) \in Nat
            /\ \A i \in 1..Len(f) : (Len(f) - i) + 1 \in 1..Len(f) /\ r[i] = f[(Len(f) - i) + 1]
                                    /\ r[(Len(f) - i) + 1] = f[i]
            /\ \A d : In(d, r) <=> In(d, f)
            /\ f # <<>> => /\ Head(r) = f[Len(f)] /\ Last(r) = f[1] /\ Head(r) = Last(f) /\ Last(r) = Head(f)
<1>1. PICK n \in Nat : n = Len(f) /\ DOMAIN f = 1..n
  OBVIOUS
<1>2. PICK r : r = Reverse(f)
  OBVIOUS
<1>3. r = [i \in 1..n |-> f[(n - i) + 1]]
  BY <1>1, <1>2 DEF Reverse
<1>4. \A i \in 1..n : (n - i) + 1 \in 1..n
  OBVIOUS
<1>5. r \in [1..n -> S]
  BY <1>1, <1>3, <1>4
<1>6. r \in Seq(S) /\ Len(r) = n /\ DOMAIN r = 1..n
  BY <1>5
<1>7. \A i \in 1..n : r[i] = f[(n - i) + 1] /\ r[(n - i) + 1] = f[i]
  <2> TAKE i \in 1..n
  <2>1. PICK j \in 1..n : j = (n - i) + 1 /\ (n - j) + 1 = i
    <3>1. (n - i) + 1 \in 1..n /\ (n - ((n - i) + 1)) + 1 = i
      OBVIOUS
    <3> QED BY <3>1
  <2> QED BY <1>3, <2>1
<1>8. \A d : In(d, r) <=> In(d, f)
  BY <1>1, <1>4, <1>6, <1>7 DEF In
<1>9. r = <<>> <=> f = <<>>
  BY <1>1, <1>6
<1>10. f # <<>> => /\ Head(r) = f[n] /\ Last(r) = f[1] /\ Last(f) = f[n] /\ Head(f) = f[1]
  <2> HAVE f # <<>>
  <2>1. 1 \in 1..n /\ n \in 1..n /\ (n - 1) + 1 = n /\ (n - n) + 1 = 1
    BY <1>1
  <2>2. r[1] = f[n] /\ r[n] = f[1]
    BY <1>7, <2>1
  <2> QED BY <1>1, <1>6, <1>9, <2>2 DEF Last
<1> QED BY <1>1, <1>2, <1>4, <1>6, <1>7, <1>8, <1>9, <1>10

\* A list reversed twice is the list.
LEMMA ReverseTwice ==
  ASSUME NEW S, NEW f \in Seq(S)
  PROVE  Reverse(Reverse(f)) = f
<1>1. PICK r \in Seq(S) : r = Reverse(f)
  BY ReverseOf
<1>2. PICK q \in Seq(S) : q = Reverse(r)
  BY ReverseOf
<1>3. PICK n \in Nat : n = Len(f)
  OBVIOUS
<1>4. Len(r) = n /\ \A i \in 1..n : (n - i) + 1 \in 1..n /\ r[(n - i) + 1] = f[i]
  BY <1>1, <1>3, ReverseOf
<1>5. Len(q) = n /\ \A i \in 1..n : q[i] = r[(n - i) + 1]
  <2>1. Len(q) = Len(r) /\ \A i \in 1..Len(r) : q[i] = r[(Len(r) - i) + 1]
    BY <1>2, ReverseOf
  <2> QED BY <1>4, <2>1
<1>6. \A i \in 1..n : q[i] = f[i]
  BY <1>4, <1>5
<1>7. q = f
  BY ONLY <1>3, <1>5, <1>6, SameSeq, q \in Seq(S), f \in Seq(S)
<1> QED BY <1>1, <1>2, <1>7

\* A list in order is in the reverse order when it is reversed.
LEMMA ReverseOrder ==
  ASSUME NEW p \in Plans, NEW f \in Seq(PRow)
  PROVE  /\ InOrder(p.order, TRUE, f) => InOrder(p.order, FALSE, Reverse(f))
         /\ InOrder(p.order, FALSE, f) => InOrder(p.order, TRUE, Reverse(f))
<1>1. PICK r \in Seq(PRow) : r = Reverse(f)
  BY ReverseOf
<1>2. PICK n \in Nat : n = Len(f) /\ DOMAIN f = 1..n
  OBVIOUS
<1>3. /\ DOMAIN r = 1..n
      /\ \A i \in 1..n : (n - i) + 1 \in 1..n /\ r[i] = f[(n - i) + 1]
  BY <1>1, <1>2, ReverseOf
<1>4. \A d, e \in PRow : SortsBefore(p.order, d, e, TRUE) <=> SortsBefore(p.order, e, d, FALSE)
  BY RowOrder
<1>5. \A i \in 1..n : f[i] \in PRow /\ r[i] \in PRow
  BY <1>2, <1>3
<1>6. ASSUME NEW i \in 1..n, NEW j \in 1..n, i < j
      PROVE  \E k, m \in 1..n : k < m /\ r[i] = f[m] /\ r[j] = f[k]
  <2>1. PICK m \in 1..n : m = (n - i) + 1
    BY <1>3
  <2>2. PICK k \in 1..n : k = (n - j) + 1
    BY <1>3
  <2>3. k < m
    BY <1>6, <2>1, <2>2
  <2> QED BY <1>3, <2>1, <2>2, <2>3
<1>7. InOrder(p.order, TRUE, f) => InOrder(p.order, FALSE, r)
  <2> SUFFICES ASSUME InOrder(p.order, TRUE, f), NEW i \in 1..n, NEW j \in 1..n, i < j
               PROVE  SortsBefore(p.order, r[i], r[j], FALSE)
    BY <1>3 DEF InOrder
  <2>1. PICK k, m \in 1..n : k < m /\ r[i] = f[m] /\ r[j] = f[k]
    BY <1>6
  <2>2. SortsBefore(p.order, f[k], f[m], TRUE)
    BY <1>2, <2>1 DEF InOrder
  <2> QED BY <1>4, <1>5, <2>1, <2>2
<1>8. InOrder(p.order, FALSE, f) => InOrder(p.order, TRUE, r)
  <2> SUFFICES ASSUME InOrder(p.order, FALSE, f), NEW i \in 1..n, NEW j \in 1..n, i < j
               PROVE  SortsBefore(p.order, r[i], r[j], TRUE)
    BY <1>3 DEF InOrder
  <2>1. PICK k, m \in 1..n : k < m /\ r[i] = f[m] /\ r[j] = f[k]
    BY <1>6
  <2>2. SortsBefore(p.order, f[k], f[m], FALSE)
    BY <1>2, <2>1 DEF InOrder
  <2> QED BY <1>4, <1>5, <2>1, <2>2
<1> QED BY <1>1, <1>7, <1>8

\* The first rows are one list only.
LEMMA FetchUnique ==
  ASSUME PagingType, NEW A \in SUBSET rows, NEW b \in BOOLEAN, NEW f \in Seq(PRow), NEW g \in Seq(PRow),
         Fetches(plan, b, A, f), Fetches(plan, b, A, g)
  PROVE  f = g
<1> DEFINE before == PageOrder(A, b)
<1>1. /\ IsFiniteSet(A) /\ StrictOrder(A, before)
      /\ \A d, e \in A : <<d, e>> \in before <=> SortsBefore(plan.order, d, e, b)
  BY RowsOrdered
<1> HIDE DEF before
<1>2. ASSUME NEW t \in Seq(PRow), Fetches(plan, b, A, t)
      PROVE  Begins(t, A, before) /\ Len(t) \in Nat /\ Len(t) <= Size /\ (Len(t) < Size => \A d \in A : In(d, t))
  <2>1. PICK n \in Nat : n = Len(t) /\ DOMAIN t = 1..n
    OBVIOUS
  <2>2. /\ n <= Size /\ \A i, j \in 1..n : i < j => SortsBefore(plan.order, t[i], t[j], b)
        /\ \A i \in 1..n : t[i] \in A
        /\ \A d \in A : \/ \E i \in 1..n : t[i] = d
                        \/ n = Size /\ \A i \in 1..n : SortsBefore(plan.order, t[i], d, b)
    BY <1>2, <2>1 DEF Fetches, InOrder, In
  <2>3. t \in Seq(A)
    <3>1. t = [i \in 1..n |-> t[i]]
      BY <2>1
    <3>2. t \in [1..n -> A]
      BY <2>2, <3>1
    <3> QED BY <3>2
  <2>4. \A i, j \in 1..n : i < j => <<t[i], t[j]>> \in before
    BY <1>1, <2>2
  <2>5. \A i \in 1..n, x \in A : <<x, t[i]>> \in before => \E j \in 1..n : t[j] = x
    <3> TAKE i \in 1..n, x \in A
    <3> HAVE <<x, t[i]>> \in before
    <3>1. CASE \E j \in 1..n : t[j] = x
      BY <3>1
    <3>2. CASE SortsBefore(plan.order, t[i], x, b)
      <4>1. <<t[i], x>> \in before /\ t[i] \in A
        BY <1>1, <2>2, <3>2
      <4> QED BY <1>1, <4>1 DEF StrictOrder
    <3> QED BY <2>2, <3>1, <3>2
  <2>6. n < Size => \A d \in A : In(d, t)
    BY <2>1, <2>2, PagingAssumption DEF In
  <2> QED BY <2>1, <2>2, <2>3, <2>4, <2>5, <2>6 DEF Begins
<1> DEFINE o == OrderBy(A, before)
<1>3. ASSUME NEW s \in Seq(PRow), NEW t \in Seq(PRow), Fetches(plan, b, A, s), Fetches(plan, b, A, t)
      PROVE  ~(Len(s) < Len(t)) /\ \A i \in 1..Len(s) : s[i] = o[i]
  <2>1. PICK m \in Nat, n \in Nat : m = Len(s) /\ n = Len(t)
    OBVIOUS
  <2>2. (\A i \in 1..m : s[i] = o[i]) /\ (\A i \in 1..n : t[i] = o[i])
    <3> HIDE DEF o
    <3>1. Begins(s, A, before) /\ Begins(t, A, before)
      BY <1>2, <1>3
    <3> USE DEF o
    <3> QED BY <1>1, <2>1, <3>1, SortedBeginning
  <2> HIDE DEF o
  <2>3. ASSUME m < n PROVE FALSE
    <3>1. n <= Size /\ (m < Size => \A d \in A : In(d, s))
      BY <1>2, <1>3, <2>1
    <3>2. m < Size /\ m + 1 \in 1..n
      BY <2>3, <3>1, PagingAssumption
    <3>3. t[m + 1] \in A /\ DOMAIN s = 1..m /\ DOMAIN t = 1..n
      BY <1>3, <2>1, <3>2 DEF Fetches
    <3>4. PICK j \in 1..m : s[j] = t[m + 1]
      BY <3>1, <3>2, <3>3 DEF In
    <3>5. j \in 1..n /\ j < m + 1 /\ t[j] = t[m + 1]
      BY <2>2, <2>3, <3>4
    <3>6. SortsBefore(plan.order, t[m + 1], t[m + 1], b)
      BY <1>3, <3>2, <3>3, <3>5 DEF Fetches, InOrder
    <3> QED BY <1>1, <3>3, <3>6 DEF StrictOrder
  <2> QED BY <2>1, <2>2, <2>3
<1>4. ~(Len(f) < Len(g)) /\ ~(Len(g) < Len(f))
  BY <1>3
<1>5. PICK m \in Nat, n \in Nat : m = Len(f) /\ n = Len(g)
  OBVIOUS
<1>6. m = n
  BY <1>4, <1>5
<1>7. \A i \in 1..m : f[i] = g[i]
  BY <1>3, <1>5, <1>6
<1> QED BY ONLY <1>5, <1>6, <1>7, SameSeq, f \in Seq(PRow), g \in Seq(PRow)

\* On an unchanged store the batches so far hold every row the cursor admits, up to the last.
LEMMA Gathers ==
  ASSUME PagingIInv, scan # None, Scanned(rows, plan, scan.cursor, scan.seek, scan.verified)
  PROVE  LET b == Backward(scan.cursor)
             order == plan.order
             B == PageStatement(scan.seek)
             ok == scan.verified \o Documents(B, b)
             A == Admitted(rows, plan, b, scan.cursor)
         IN /\ \A i \in DOMAIN ok : ok[i] \in A
            /\ \A e \in B : Past(order, b, e, scan.cursor)
            /\ \A d \in A :
                 \/ In(d, ok)
                 \/ /\ Cardinality(B) = Size + 1
                    /\ \A e \in B : SortsBefore(order, e, d, b)
                    /\ \A i \in DOMAIN ok : SortsBefore(order, ok[i], d, b)
<1> DEFINE b == Backward(scan.cursor)
           order == plan.order
           B == PageStatement(scan.seek)
           D == Documents(B, b)
           ok == scan.verified \o D
           A == Admitted(rows, plan, b, scan.cursor)
           cursor == scan.cursor
           seek == scan.seek
           verified == scan.verified
<1>0. PagingType /\ ScanInv
  BY DEF PagingIInv
<1>1. /\ b \in BOOLEAN /\ plan \in Plans /\ seek \in {None} \cup PToken /\ cursor \in {None} \cup PToken
      /\ verified \in Seq(PRow) /\ rows \subseteq PRow
  BY <1>0 DEF PagingType, ScanInv, PScan, PWalk, Backward
<1>2. Backward(seek) = b /\ (seek = None => verified = <<>>) /\ (seek # None => UpTo(order, b, verified, seek))
  BY <1>0 DEF ScanInv, Walking
<1>3. /\ B \in SUBSET rows
      /\ \A d \in B : Past(order, b, d, seek)
      /\ \A d \in rows : Past(order, b, d, seek) =>
           d \in B \/ (Cardinality(B) = Size + 1 /\ \A e \in B : SortsBefore(order, e, d, b))
  BY <1>0, <1>1, <1>2, BatchOf
<1>4. /\ D \in Seq(PRow)
      /\ \A i \in DOMAIN D : D[i] \in B /\ Verified(D[i])
      /\ \A d \in B : Verified(d) => In(d, D)
  BY <1>0, <1>1, <1>3, DocumentsOf
<1>5. /\ \A i \in DOMAIN ok :
           \/ i \in DOMAIN verified /\ ok[i] = verified[i]
           \/ i - Len(verified) \in DOMAIN D /\ ok[i] = D[i - Len(verified)]
      /\ \A d : In(d, ok) <=> In(d, verified) \/ In(d, D)
  BY <1>1, <1>4, Joined
<1>6. \A d : Accepted(plan, d) <=> Verified(d)
  BY DEF Accepted, Verified
<1>7. \A i \in DOMAIN verified : verified[i] \in PRow
  BY <1>1
<1>8. /\ seek # None => RowOf(seek) \in PRow
      /\ cursor # None => RowOf(cursor) \in PRow
  BY <1>1 DEF RowOf, PRow, PToken
<1>9. \A d, e, f \in PRow : SortsBefore(order, d, e, b) /\ SortsBefore(order, e, f, b) => SortsBefore(order, d, f, b)
  BY <1>1, RowOrder
<1>10. /\ seek = cursor \/ (seek # None /\ Past(order, b, RowOf(seek), cursor))
       /\ \A i \in DOMAIN verified : verified[i] \in A
       /\ \A d \in A : In(d, verified) \/ Past(order, b, d, seek)
  BY DEF Scanned
<1>11. \A d : d \in A <=> d \in rows /\ Accepted(plan, d) /\ Past(order, b, d, cursor)
  BY DEF Admitted
<1> HIDE DEF b, order, B, D, ok, A, cursor, seek, verified
<1>12. \A x \in PRow : Past(order, b, x, seek) =>
         /\ Past(order, b, x, cursor)
         /\ \A i \in DOMAIN verified : SortsBefore(order, verified[i], x, b)
  <2> TAKE x \in PRow
  <2> HAVE Past(order, b, x, seek)
  <2>1. CASE seek = None
    BY <1>2, <1>10, <2>1 DEF Past
  <2>2. CASE seek # None
    <3>1. SortsBefore(order, RowOf(seek), x, b)
      BY <2>2 DEF Past
    <3>2. \A i \in DOMAIN verified : verified[i] = RowOf(seek) \/ SortsBefore(order, verified[i], RowOf(seek), b)
      BY <1>2, <2>2 DEF UpTo
    <3>3. \A i \in DOMAIN verified : SortsBefore(order, verified[i], x, b)
      BY <1>7, <1>8, <1>9, <2>2, <3>1, <3>2
    <3>4. Past(order, b, x, cursor)
      <4>1. CASE seek = cursor
        BY <4>1
      <4>2. CASE seek # cursor
        <5>1. cursor = None \/ SortsBefore(order, RowOf(cursor), RowOf(seek), b)
          BY <1>10, <4>2 DEF Past
        <5> QED BY <1>8, <1>9, <2>2, <3>1, <5>1 DEF Past
      <4> QED BY <4>1, <4>2
    <3> QED BY <3>3, <3>4
  <2> QED BY <2>1, <2>2
<1>13. \A e \in B : e \in rows /\ e \in PRow /\ Past(order, b, e, seek) /\ Past(order, b, e, cursor)
  BY <1>1, <1>3, <1>12
<1>14. \A i \in DOMAIN ok : ok[i] \in A
  <2>1. \A i \in DOMAIN D : D[i] \in A
    BY <1>4, <1>6, <1>11, <1>13
  <2> QED BY <1>5, <1>10, <2>1
<1>15. \A d \in A :
         \/ In(d, ok)
         \/ /\ Cardinality(B) = Size + 1
            /\ \A e \in B : SortsBefore(order, e, d, b)
            /\ \A i \in DOMAIN ok : SortsBefore(order, ok[i], d, b)
  <2> TAKE d \in A
  <2>1. SUFFICES ASSUME ~In(d, ok)
                 PROVE  /\ Cardinality(B) = Size + 1
                        /\ \A e \in B : SortsBefore(order, e, d, b)
                        /\ \A i \in DOMAIN ok : SortsBefore(order, ok[i], d, b)
    OBVIOUS
  <2>2. d \in rows /\ d \in PRow /\ Verified(d) /\ Past(order, b, d, seek)
    BY <1>1, <1>5, <1>6, <1>10, <1>11, <2>1
  <2>3. d \notin B
    BY <1>4, <1>5, <2>1, <2>2
  <2>4. Cardinality(B) = Size + 1 /\ \A e \in B : SortsBefore(order, e, d, b)
    BY <1>3, <2>2, <2>3
  <2>5. \A i \in DOMAIN ok : SortsBefore(order, ok[i], d, b)
    BY <1>4, <1>5, <1>12, <2>2, <2>4
  <2> QED BY <2>4, <2>5
<1> QED BY <1>13, <1>14, <1>15 DEF b, order, B, D, ok, A, cursor, seek, verified

\* A page that is returned is the first rows the cursor admits.
LEMMA ReturnFetches ==
  ASSUME PagingIInv, Return, Scanned(rows, plan, scan.cursor, scan.seek, scan.verified)
  PROVE  LET b == Backward(scan.cursor)
             f == FirstOf(scan.verified \o Documents(PageStatement(scan.seek), b), Size)
             more == Len(scan.verified \o Documents(PageStatement(scan.seek), b)) > Size
         IN /\ f \in Seq(PRow) /\ Fetches(plan, b, Admitted(rows, plan, b, scan.cursor), f)
            /\ more => Len(f) = Size /\ f # <<>>
            /\ page' = ResultPage(f, scan.cursor, more)
            /\ trail' = Trail(page'.rows, scan.cursor)
            /\ walk'.plan = plan /\ scan' = None /\ rows' = rows
<1> DEFINE b == Backward(scan.cursor)
           order == plan.order
           B == PageStatement(scan.seek)
           ok == scan.verified \o Documents(B, b)
           more == Len(ok) > Size
           f == FirstOf(ok, Size)
           A == Admitted(rows, plan, b, scan.cursor)
<1>1. /\ scan # None /\ (more \/ Cardinality(B) < Size + 1)
      /\ page' = ResultPage(f, scan.cursor, more)
      /\ walk' = [walk EXCEPT !.seen = @ \o f] /\ scan' = None /\ rows' = rows
      /\ trail' = Trail(page'.rows, scan.cursor)
  BY DEF Return
<1>2. /\ Cardinality(B) \in Nat /\ Cardinality(B) <= Size + 1
      /\ ok \in Seq(PRow) /\ InOrder(order, b, ok)
  BY <1>1, Matched DEF PagingIInv
<1>3. /\ \A i \in DOMAIN ok : ok[i] \in A
      /\ \A d \in A : \/ In(d, ok)
                      \/ /\ Cardinality(B) = Size + 1
                         /\ \A i \in DOMAIN ok : SortsBefore(order, ok[i], d, b)
  BY <1>1, Gathers
<1>4. walk'.plan = plan
  <2>1. walk # None /\ walk.plan = plan /\ walk \in PWalk
    BY <1>1 DEF PagingIInv, PagingType, ScanInv, Walking
  <2> HIDE DEF f
  <2> QED BY <1>1, <2>1 DEF PWalk
<1>5. Size \in Nat \ {0}
  BY PagingAssumption
<1>6. /\ f \in Seq(PRow) /\ Len(f) = IF Len(ok) > Size THEN Size ELSE Len(ok)
      /\ \A i \in DOMAIN f : f[i] = ok[i]
  <2> HIDE DEF ok
  <2>1. Size \in Int /\ ~(Size < 0)
    BY <1>5
  <2> QED BY <1>2, <2>1, FirstOfIs
<1> HIDE DEF ok, f, B, A
<1>7. DOMAIN f \subseteq DOMAIN ok /\ (more => Len(f) = Size /\ f # <<>>) /\ Len(f) <= Size
  BY <1>2, <1>5, <1>6
<1>8. \A d \in A : \/ In(d, f)
                   \/ Len(f) = Size /\ \A i \in DOMAIN f : SortsBefore(order, f[i], d, b)
  <2> TAKE d \in A
  <2>1. CASE In(d, ok)
    <3>1. PICK j \in DOMAIN ok : ok[j] = d
      BY <2>1 DEF In
    <3>2. CASE j \in DOMAIN f
      BY <1>6, <3>1, <3>2 DEF In
    <3>3. CASE j \notin DOMAIN f
      <4>1. more /\ Size < j /\ j \in Nat /\ \A i \in DOMAIN f : i < j
        BY <1>2, <1>5, <1>6, <3>1, <3>3
      <4>2. \A i \in DOMAIN f : SortsBefore(order, ok[i], d, b)
        BY <1>2, <1>7, <3>1, <4>1 DEF InOrder
      <4> QED BY <1>6, <1>7, <4>1, <4>2
    <3> QED BY <3>2, <3>3
  <2>2. CASE ~In(d, ok)
    <3>1. Cardinality(B) = Size + 1 /\ \A i \in DOMAIN ok : SortsBefore(order, ok[i], d, b)
      BY <1>3, <2>2
    <3>2. more
      BY <1>1, <1>2, <1>5, <3>1
    <3> QED BY <1>6, <1>7, <3>1, <3>2
  <2> QED BY <2>1, <2>2
<1>9. InOrder(order, b, f)
  BY <1>2, <1>6, <1>7 DEF InOrder
<1>10. Fetches(plan, b, A, f)
  BY <1>3, <1>6, <1>7, <1>8, <1>9 DEF Fetches
<1> QED BY <1>1, <1>4, <1>6, <1>7, <1>10 DEF b, ok, f, B, A

\* The next batch goes on where this one ends.
LEMMA NextScanned ==
  ASSUME PagingIInv, NextBatch, Scanned(rows, plan, scan.cursor, scan.seek, scan.verified)
  PROVE  Scanned(rows, plan, scan.cursor, scan'.seek, scan'.verified)
<1> DEFINE b == Backward(scan.cursor)
           order == plan.order
           B == PageStatement(scan.seek)
           ok == scan.verified \o Documents(B, b)
           dir == IF b THEN "backward" ELSE "forward"
           A == Admitted(rows, plan, b, scan.cursor)
<1>1. scan # None
  BY DEF NextBatch
<1>2. PICK last \in B : scan' = [scan EXCEPT !.verified = ok, !.seek = Token(last, dir)]
  BY DEF NextBatch
<1>3. plan \in Plans /\ scan \in PScan /\ rows \subseteq PRow
  BY <1>1 DEF PagingIInv, PagingType
<1>4. /\ \A i \in DOMAIN ok : ok[i] \in A
      /\ \A e \in B : Past(order, b, e, scan.cursor)
      /\ \A d \in A : In(d, ok) \/ \A e \in B : SortsBefore(order, e, d, b)
  BY <1>1, Gathers
<1>5. B \in SUBSET rows
  BY <1>1, Matched DEF PagingIInv
<1> HIDE DEF B, ok
<1>6. Token(last, dir) # None /\ RowOf(Token(last, dir)) = last
  <2>1. last \in PRow /\ dir \in {"forward", "backward"}
    BY <1>2, <1>3, <1>5
  <2> QED BY <1>3, <2>1, TokenRow
<1>7. scan'.seek = Token(last, dir) /\ scan'.verified = ok
  BY <1>2, <1>3 DEF PScan
<1>8. PICK t : t = Token(last, dir)
  OBVIOUS
<1>9. t # None /\ Past(order, b, RowOf(t), scan.cursor) /\ \A d \in A : In(d, ok) \/ Past(order, b, d, t)
  BY <1>2, <1>4, <1>6, <1>8 DEF Past
<1> QED BY <1>4, <1>7, <1>8, <1>9 DEF Scanned

\* The tokens of a page are those of its ends.
LEMMA PageEnds ==
  ASSUME plan \in Plans, NEW f \in Seq(PRow), NEW cursor \in {None} \cup PToken, NEW more \in BOOLEAN
  PROVE  LET p == ResultPage(f, cursor, more)
             b == Backward(cursor)
         IN /\ p.rows = (IF b THEN Reverse(f) ELSE f) /\ p.rows \in Seq(PRow)
            /\ p.next # None => /\ p.rows # <<>> /\ p.next.fingerprint = plan
                                /\ RowOf(p.next) = Last(p.rows) /\ (b \/ more)
            /\ p.previous # None => /\ p.rows # <<>> /\ p.previous.fingerprint = plan
                                    /\ RowOf(p.previous) = Head(p.rows)
<1> DEFINE p == ResultPage(f, cursor, more)
           b == Backward(cursor)
<1>1. PICK v : v = IF b THEN Reverse(f) ELSE f
  OBVIOUS
<1>2. v \in Seq(PRow)
  BY <1>1, ReverseOf
<1>3. v # <<>> => Head(v) \in PRow /\ Last(v) \in PRow
  BY <1>2 DEF Last
<1>4. \A d \in PRow : \A dir \in {"forward", "backward"} :
        Token(d, dir).fingerprint = plan /\ RowOf(Token(d, dir)) = d
  BY TokenRow
<1>5. p = [rows |-> v, next |-> PageTokens(v, cursor, more).next, previous |-> PageTokens(v, cursor, more).previous]
  BY <1>1 DEF ResultPage
<1>6. CASE v = <<>>
  BY <1>1, <1>2, <1>5, <1>6 DEF PageTokens
<1>7. CASE v # <<>>
  <2>1. PageTokens(v, cursor, more) =
          [next |-> IF b \/ more THEN Token(Last(v), "forward") ELSE None,
           previous |-> IF cursor # None /\ (~b \/ more) THEN Token(Head(v), "backward") ELSE None]
    BY <1>7 DEF PageTokens
  <2> HIDE DEF p, b
  <2>2. /\ p.rows = v
        /\ p.next = IF b \/ more THEN Token(Last(v), "forward") ELSE None
        /\ p.previous = IF cursor # None /\ (~b \/ more) THEN Token(Head(v), "backward") ELSE None
    BY <1>5, <2>1
  <2>3. /\ p.rows = (IF b THEN Reverse(f) ELSE f) /\ p.rows \in Seq(PRow)
        /\ p.next # None => /\ p.rows # <<>> /\ p.next.fingerprint = plan
                            /\ RowOf(p.next) = Last(p.rows) /\ (b \/ more)
        /\ p.previous # None => /\ p.rows # <<>> /\ p.previous.fingerprint = plan
                                /\ RowOf(p.previous) = Head(p.rows)
    BY <1>1, <1>2, <1>3, <1>4, <1>7, <2>2
  <2> QED BY <2>3 DEF p, b
<1> QED BY <1>6, <1>7

\* Rows sort one way or the other.
LEMMA RowFacts ==
  ASSUME PagingType
  PROVE  /\ plan \in Plans /\ rows \subseteq PRow
         /\ \A d, e, f \in PRow : SortsBefore(plan.order, d, e, FALSE) /\ SortsBefore(plan.order, e, f, FALSE)
                                    => SortsBefore(plan.order, d, f, FALSE)
         /\ \A d \in PRow : ~SortsBefore(plan.order, d, d, FALSE)
         /\ \A d, e \in rows : d = e \/ SortsBefore(plan.order, d, e, FALSE) \/ SortsBefore(plan.order, e, d, FALSE)
         /\ \A d, e \in PRow : SortsBefore(plan.order, d, e, TRUE) <=> SortsBefore(plan.order, e, d, FALSE)
<1>1. plan \in Plans /\ rows \subseteq PRow /\ \A d, e \in rows : d.sid = e.sid => d = e
  BY DEF PagingType
<1>2. /\ \A d \in PRow : ~SortsBefore(plan.order, d, d, FALSE)
      /\ \A d, e, f \in PRow : SortsBefore(plan.order, d, e, FALSE) /\ SortsBefore(plan.order, e, f, FALSE)
                                 => SortsBefore(plan.order, d, f, FALSE)
      /\ \A d, e \in PRow : d.sid # e.sid => SortsBefore(plan.order, d, e, FALSE) \/ SortsBefore(plan.order, e, d, FALSE)
      /\ \A d, e \in PRow : SortsBefore(plan.order, d, e, TRUE) <=> SortsBefore(plan.order, e, d, FALSE)
  BY <1>1, RowOrder
<1> QED BY <1>1, <1>2

\* A backward token admits what is before its row.
LEMMA AdmittedBackward ==
  ASSUME PagingType, NEW cursor \in PToken, NEW d \in PRow, RowOf(cursor) = d
  PROVE  Admitted(rows, plan, TRUE, cursor) = Before(rows, plan, d)
<1>1. cursor # None
  BY NotNone
<1>2. \A e \in rows : Past(plan.order, TRUE, e, cursor) <=> SortsBefore(plan.order, e, d, FALSE)
  BY <1>1, RowFacts DEF Past
<1> QED BY <1>2 DEF Admitted, Before

\* A page that has a next one is full, or begins with the first row.
LEMMA FullPage ==
  ASSUME PagingType, NEW cursor \in {None} \cup PToken, NEW f \in Seq(PRow), f # <<>>,
         NEW b \in BOOLEAN, b => cursor # None, NEW more \in BOOLEAN, more => Len(f) = Size, b \/ more,
         Fetches(plan, b, Admitted(rows, plan, b, cursor), f)
  PROVE  Full(rows, plan, IF b THEN Reverse(f) ELSE f)
<1> DEFINE order == plan.order
           A == Admitted(rows, plan, b, cursor)
<1>1. /\ plan \in Plans /\ rows \subseteq PRow
      /\ \A d, e, g \in PRow : SortsBefore(order, d, e, FALSE) /\ SortsBefore(order, e, g, FALSE)
                                 => SortsBefore(order, d, g, FALSE)
      /\ \A d \in PRow : ~SortsBefore(order, d, d, FALSE)
      /\ \A d, e \in rows : d = e \/ SortsBefore(order, d, e, FALSE) \/ SortsBefore(order, e, d, FALSE)
      /\ \A d, e \in PRow : SortsBefore(order, d, e, TRUE) <=> SortsBefore(order, e, d, FALSE)
  BY RowFacts
<1>2. \A d : d \in A <=> d \in rows /\ Accepted(plan, d) /\ Past(order, b, d, cursor)
  BY DEF Admitted
<1>3. /\ Len(f) <= Size /\ InOrder(order, b, f) /\ \A i \in DOMAIN f : f[i] \in A
      /\ \A d \in A : \/ In(d, f)
                      \/ Len(f) = Size /\ \A i \in DOMAIN f : SortsBefore(order, f[i], d, b)
  BY DEF Fetches
<1>4. PICK n \in Nat : n = Len(f) /\ DOMAIN f = 1..n /\ n # 0
  OBVIOUS
<1>5. cursor # None => RowOf(cursor) \in PRow
  BY DEF RowOf, PRow, PToken
<1>6. \A i \in 1..n : f[i] \in PRow /\ f[i] \in rows /\ Accepted(plan, f[i]) /\ Past(order, b, f[i], cursor)
  BY <1>1, <1>2, <1>3, <1>4
<1>7. CASE ~b
  <2>1. more /\ n = Size
    BY <1>4, <1>7
  <2>2. Last(f) = f[n] /\ n \in 1..n
    BY <1>4 DEF Last
  <2>3. ASSUME NEW d \in Before(rows, plan, Last(f))
        PROVE  In(d, f) \/ \A i \in DOMAIN f : SortsBefore(order, d, f[i], FALSE)
    <3>1. d \in rows /\ d \in PRow /\ Accepted(plan, d) /\ SortsBefore(order, d, f[n], FALSE)
      BY <1>1, <2>2, <2>3 DEF Before
    <3>2. CASE d \in A
      <4>1. ~SortsBefore(order, f[n], d, FALSE)
        BY <1>1, <1>6, <2>2, <3>1
      <4> QED BY <1>3, <1>4, <1>7, <2>2, <3>2, <4>1
    <3>3. CASE d \notin A
      <4>1. cursor # None /\ ~SortsBefore(order, RowOf(cursor), d, FALSE)
        BY <1>2, <1>7, <3>1, <3>3 DEF Past
      <4>2. \A i \in 1..n : SortsBefore(order, RowOf(cursor), f[i], FALSE)
        BY <1>6, <1>7, <4>1 DEF Past
      <4>3. \A i \in 1..n : SortsBefore(order, d, f[i], FALSE)
        <5> TAKE i \in 1..n
        <5>1. d = f[i] \/ SortsBefore(order, d, f[i], FALSE) \/ SortsBefore(order, f[i], d, FALSE)
          BY <1>1, <1>6, <3>1
        <5>2. d # f[i]
          BY <4>1, <4>2
        <5>3. ~SortsBefore(order, f[i], d, FALSE)
          BY <1>1, <1>5, <1>6, <3>1, <4>1, <4>2
        <5> QED BY <5>1, <5>2, <5>3
      <4> QED BY <1>4, <4>3
    <3> QED BY <3>2, <3>3
  <2> QED BY <1>3, <1>4, <1>6, <1>7, <2>1, <2>3 DEF Full
<1>8. CASE b
  <2>1. PICK r \in Seq(PRow) : r = Reverse(f)
    BY ReverseOf
  <2>2. /\ Len(r) = n /\ DOMAIN r = 1..n /\ r # <<>> /\ Last(r) = f[1]
        /\ \A i \in 1..n : (n - i) + 1 \in 1..n /\ r[i] = f[(n - i) + 1]
        /\ \A d : In(d, r) <=> In(d, f)
    BY <1>4, <2>1, ReverseOf
  <2>3. InOrder(order, FALSE, r)
    BY <1>1, <1>3, <1>8, <2>1, ReverseOrder
  <2>4. \A i \in 1..n : r[i] \in rows /\ Accepted(plan, r[i])
    BY <1>6, <2>2
  <2>5. 1 \in 1..n
    BY <1>4
  <2>6. ASSUME NEW d \in Before(rows, plan, Last(r))
        PROVE  In(d, r) \/ (n = Size /\ \A i \in 1..n : SortsBefore(order, d, r[i], FALSE))
    <3>1. d \in rows /\ d \in PRow /\ Accepted(plan, d) /\ SortsBefore(order, d, f[1], FALSE)
      BY <1>1, <2>2, <2>6 DEF Before
    <3>2. SortsBefore(order, f[1], RowOf(cursor), FALSE)
      BY <1>1, <1>5, <1>6, <1>8, <2>5 DEF Past
    <3>3. SortsBefore(order, RowOf(cursor), d, TRUE)
      BY <1>1, <1>5, <1>6, <1>8, <2>5, <3>1, <3>2
    <3>4. d \in A
      BY <1>2, <1>8, <3>1, <3>3 DEF Past
    <3>5. In(d, f) \/ (n = Size /\ \A i \in 1..n : SortsBefore(order, f[i], d, TRUE))
      BY <1>3, <1>4, <1>8, <3>4
    <3>6. (\A i \in 1..n : SortsBefore(order, f[i], d, TRUE)) => \A i \in 1..n : SortsBefore(order, d, r[i], FALSE)
      <4> HAVE \A i \in 1..n : SortsBefore(order, f[i], d, TRUE)
      <4>1. \A i \in 1..n : SortsBefore(order, d, f[i], FALSE)
        BY <1>1, <1>6, <3>1
      <4> QED BY <2>2, <4>1
    <3> QED BY <2>2, <3>5, <3>6
  <2>7. Full(rows, plan, r)
    BY <1>3, <1>4, <2>2, <2>3, <2>4, <2>6 DEF Full
  <2> QED BY <1>8, <2>1, <2>7
<1> QED BY <1>7, <1>8

\* The page one goes on from is the one before the next.
LEMMA ChainGrows ==
  ASSUME PagingType, NEW t \in Seq(PRow), Full(rows, plan, t), NEW cursor \in PToken, RowOf(cursor) = Last(t),
         NEW new \in Seq(PRow), new # <<>>, Fetches(plan, FALSE, Admitted(rows, plan, FALSE, cursor), new)
  PROVE  Fetches(plan, TRUE, Before(rows, plan, Head(new)), Reverse(t))
<1> DEFINE order == plan.order
           c == Last(t)
           A == Admitted(rows, plan, FALSE, cursor)
<1>1. /\ plan \in Plans /\ rows \subseteq PRow
      /\ \A d, e, g \in PRow : SortsBefore(order, d, e, FALSE) /\ SortsBefore(order, e, g, FALSE)
                                 => SortsBefore(order, d, g, FALSE)
      /\ \A d \in PRow : ~SortsBefore(order, d, d, FALSE)
      /\ \A d, e \in rows : d = e \/ SortsBefore(order, d, e, FALSE) \/ SortsBefore(order, e, d, FALSE)
      /\ \A d, e \in PRow : SortsBefore(order, d, e, TRUE) <=> SortsBefore(order, e, d, FALSE)
  BY RowFacts
<1>2. \A d : d \in A <=> d \in rows /\ Accepted(plan, d) /\ SortsBefore(order, c, d, FALSE)
  BY NotNone DEF Admitted, Past
<1>3. /\ InOrder(order, FALSE, new) /\ \A i \in DOMAIN new : new[i] \in A
      /\ \A d \in A : In(d, new) \/ \A i \in DOMAIN new : SortsBefore(order, new[i], d, FALSE)
  BY DEF Fetches
<1>4. PICK n \in Nat : n = Len(t) /\ DOMAIN t = 1..n /\ n # 0
  BY DEF Full
<1>5. PICK m \in Nat : m = Len(new) /\ DOMAIN new = 1..m /\ m # 0 /\ Head(new) = new[1] /\ 1 \in 1..m
  OBVIOUS
<1>6. /\ t # <<>> /\ n <= Size /\ InOrder(order, FALSE, t)
      /\ \A i \in 1..n : t[i] \in rows /\ Accepted(plan, t[i]) /\ t[i] \in PRow
      /\ \A d \in Before(rows, plan, c) :
           In(d, t) \/ (n = Size /\ \A i \in 1..n : SortsBefore(order, d, t[i], FALSE))
  BY <1>1, <1>4 DEF Full
<1>7. c = t[n] /\ n \in 1..n
  BY <1>4 DEF Last
<1> HIDE DEF c, A
<1>8. new[1] \in A /\ new[1] \in PRow /\ new[1] \in rows /\ SortsBefore(order, c, new[1], FALSE)
  BY <1>1, <1>2, <1>3, <1>5
<1>9. \A i \in 1..n : t[i] \in Before(rows, plan, new[1])
  <2> TAKE i \in 1..n
  <2>1. i = n \/ i < n
    OBVIOUS
  <2>2. t[i] = c \/ SortsBefore(order, t[i], c, FALSE)
    BY <1>4, <1>6, <1>7, <2>1 DEF InOrder
  <2>3. SortsBefore(order, t[i], new[1], FALSE)
    BY <1>1, <1>6, <1>7, <1>8, <2>2
  <2> QED BY <1>6, <2>3 DEF Before
<1>10. ASSUME NEW d \in Before(rows, plan, new[1])
       PROVE  In(d, t) \/ (n = Size /\ \A i \in 1..n : SortsBefore(order, d, t[i], FALSE))
  <2>1. d \in rows /\ d \in PRow /\ Accepted(plan, d) /\ SortsBefore(order, d, new[1], FALSE)
    BY <1>1, <1>10 DEF Before
  <2>2. c \in rows /\ c \in PRow
    BY <1>6, <1>7
  <2>3. CASE SortsBefore(order, c, d, FALSE)
    <3>1. d \in A
      BY <1>2, <2>1, <2>3
    <3>2. ~SortsBefore(order, new[1], d, FALSE) /\ new[1] # d
      BY <1>1, <1>8, <2>1
    <3>3. PICK j \in 1..m : new[j] = d
      BY <1>3, <1>5, <3>1, <3>2 DEF In
    <3>4. j = 1 \/ 1 < j
      OBVIOUS
    <3>5. new[1] = d \/ SortsBefore(order, new[1], d, FALSE)
      BY <1>3, <1>5, <3>3, <3>4 DEF InOrder
    <3> QED BY <3>2, <3>5
  <2>4. CASE d = c
    BY <1>4, <1>7, <2>4 DEF In
  <2>5. CASE SortsBefore(order, d, c, FALSE)
    <3>1. d \in Before(rows, plan, c)
      BY <2>1, <2>5 DEF Before
    <3> QED BY <1>6, <3>1
  <2> QED BY <1>1, <2>1, <2>2, <2>3, <2>4, <2>5
<1>11. PICK r \in Seq(PRow) : r = Reverse(t)
  BY ReverseOf
<1>12. /\ Len(r) = n /\ DOMAIN r = 1..n
       /\ \A i \in 1..n : (n - i) + 1 \in 1..n /\ r[i] = t[(n - i) + 1]
       /\ \A d : In(d, r) <=> In(d, t)
  BY <1>4, <1>11, ReverseOf
<1>13. InOrder(order, TRUE, r)
  BY <1>1, <1>6, <1>11, ReverseOrder
<1>14. \A i \in 1..n : r[i] \in Before(rows, plan, new[1])
  BY <1>9, <1>12
<1>15. \A d \in Before(rows, plan, new[1]) :
         In(d, r) \/ (n = Size /\ \A i \in 1..n : SortsBefore(order, r[i], d, TRUE))
  <2> TAKE d \in Before(rows, plan, new[1])
  <2>1. d \in PRow
    BY <1>1 DEF Before
  <2>2. In(d, t) \/ (n = Size /\ \A i \in 1..n : SortsBefore(order, d, t[i], FALSE))
    BY <1>10
  <2>3. (\A i \in 1..n : SortsBefore(order, d, t[i], FALSE)) => \A i \in 1..n : SortsBefore(order, r[i], d, TRUE)
    BY <1>1, <1>6, <1>12, <2>1
  <2> QED BY <1>12, <2>2, <2>3
<1>16. Fetches(plan, TRUE, Before(rows, plan, new[1]), r)
  BY <1>6, <1>12, <1>13, <1>14, <1>15 DEF Fetches
<1> QED BY <1>5, <1>11, <1>16

\* The token next goes forward, previous backward, and a scan goes on with the walk.
LEMMA Cursors ==
  ASSUME PagingIInv, TrailInv
  PROVE  /\ page \in PPage /\ rows \subseteq PRow /\ plan \in Plans
         /\ page.next # None => page.next \in PToken /\ ~Backward(page.next)
         /\ page.previous # None => page.previous \in PToken /\ Backward(page.previous)
         /\ scan # None => /\ scan \in PScan /\ scan.cursor \in {None} \cup PToken
                           /\ walk # None /\ walk.plan = plan
<1>1. PagingType
  BY DEF PagingIInv
<1>2. page \in PPage /\ rows \subseteq PRow /\ plan \in Plans /\ scan \in {None} \cup PScan
  BY <1>1 DEF PagingType
<1>3. /\ page.next # None => page.next \in PToken /\ ~Backward(page.next)
      /\ page.previous # None => page.previous \in PToken /\ Backward(page.previous)
  BY <1>1, <1>2 DEF PagingType, PPage, Backward
<1>4. scan # None => scan \in PScan /\ scan.cursor \in {None} \cup PToken
  BY <1>2 DEF PScan
<1>5. scan # None => walk # None /\ walk.plan = plan
  BY DEF PagingIInv, ScanInv, Walking
<1> QED BY <1>2, <1>3, <1>4, <1>5

\* At first there is no trail.
LEMMA TrailBegins ==
  ASSUME PagingInit
  PROVE  TrailInv /\ CleanInv
<1>1. trail = <<>> /\ scan = None
  BY DEF PagingInit
<1>2. trail \in Seq(Seq(PRow))
  BY <1>1
<1> QED BY <1>1, <1>2 DEF TrailInv, CleanInv

\* A call takes one of the tokens of the page the trail ends with.
LEMMA CallTrails ==
  ASSUME TrailIInv, NEW cursor \in {None, page.next, page.previous}, Call(cursor)
  PROVE  TrailInv' /\ CleanInv'
<1>1. PagingIInv /\ TrailInv
  BY DEF TrailIInv
<1>2. /\ scan = None /\ Decoded(cursor)
      /\ scan' = [cursor |-> cursor, seek |-> cursor, verified |-> <<>>, dirty |-> FALSE]
      /\ walk' = WalkOn(cursor)
      /\ rows' = rows /\ plan' = plan /\ page' = page /\ trail' = trail
  BY DEF Call
<1>3. scan'.cursor = cursor /\ scan'.seek = cursor /\ scan'.verified = <<>>
  BY <1>2
<1>4. CleanInv'
  <2>1. Scanned(rows, plan, cursor, cursor, <<>>)
    BY DEF Scanned, Admitted
  <2> QED BY <1>2, <1>3, <2>1 DEF CleanInv
<1>5. cursor # None => cursor = IF Backward(cursor) THEN page.previous ELSE page.next
  BY <1>1, Cursors
<1>6. ASSUME trail # <<>>, cursor # None
      PROVE  Trailed(rows, walk'.plan, trail, page)
  <2>1. Trailed(rows, walk.plan, trail, page)
    BY <1>1, <1>2, <1>6 DEF TrailInv
  <2>2. cursor.fingerprint = walk.plan
    BY <1>6, <2>1 DEF Trailed, Ended
  <2>3. walk.plan = plan
    BY <1>2, <1>6, <2>2 DEF Decoded
  <2>4. walk'.plan = walk.plan
    BY <1>2, <2>3 DEF WalkOn
  <2> QED BY <2>1, <2>4
<1>7. TrailInv'
  <2>1. trail' \in Seq(Seq(PRow))
    BY <1>1, <1>2 DEF TrailInv
  <2>2. trail' # <<>> /\ (scan' = None \/ scan'.cursor # None) => Trailed(rows', walk'.plan, trail', page')
    <3>1. scan' # None
      BY <1>2 DEF None
    <3> QED BY <1>2, <1>3, <1>6, <3>1
  <2>3. scan' # None /\ scan'.cursor # None =>
          scan'.cursor = IF Backward(scan'.cursor) THEN page'.previous ELSE page'.next
    BY <1>2, <1>3, <1>5
  <2> QED BY <2>1, <2>2, <2>3 DEF TrailInv
<1> QED BY <1>4, <1>7

\* Another batch leaves the trail.
LEMMA NextBatchTrails ==
  ASSUME TrailIInv, NextBatch
  PROVE  TrailInv' /\ CleanInv'
<1>1. PagingIInv /\ TrailInv /\ CleanInv
  BY DEF TrailIInv
<1>2. scan # None /\ rows' = rows /\ plan' = plan /\ page' = page /\ walk' = walk /\ trail' = trail
  BY DEF NextBatch
<1>3. scan \in PScan
  BY <1>1, <1>2, Cursors
<1>4. PICK ok, token : scan' = [scan EXCEPT !.verified = ok, !.seek = token]
  BY DEF NextBatch
<1>5. scan'.cursor = scan.cursor /\ scan'.dirty = scan.dirty /\ scan' # None
  BY <1>3, <1>4 DEF PScan, None
<1>6. CleanInv'
  <2>1. ~scan.dirty => Scanned(rows, plan, scan.cursor, scan'.seek, scan'.verified)
    BY <1>1, <1>2, NextScanned DEF CleanInv
  <2> QED BY <1>2, <1>5, <2>1 DEF CleanInv
<1>7. TrailInv'
  BY <1>1, <1>2, <1>5 DEF TrailInv
<1> QED BY <1>6, <1>7

\* A write ends the trail.
LEMMA WriteTrails ==
  ASSUME TrailIInv, Save \/ Sweep
  PROVE  TrailInv' /\ CleanInv'
<1>1. PagingIInv /\ TrailInv
  BY DEF TrailIInv
<1>2. page' = page /\ trail' = <<>> /\ scan' = IF scan = None THEN None ELSE [scan EXCEPT !.dirty = TRUE]
  BY DEF Save, Sweep
<1>3. scan # None => scan' # None /\ scan'.cursor = scan.cursor /\ scan'.dirty = TRUE
  BY <1>1, <1>2, Cursors DEF PScan, None
<1>4. scan' # None => scan # None
  BY <1>2
<1>5. trail' \in Seq(Seq(PRow))
  BY <1>2
<1> QED BY <1>1, <1>2, <1>3, <1>4, <1>5 DEF TrailInv, CleanInv

\* A trail that grows by a page, or loses its last one.
LEMMA LastOf ==
  ASSUME NEW t \in Seq(Seq(PRow)), NEW s \in Seq(PRow)
  PROVE  /\ Append(t, s) \in Seq(Seq(PRow)) /\ Last(Append(t, s)) = s
         /\ Len(Append(t, s)) = Len(t) + 1
         /\ \A i \in 1..Len(t) : Append(t, s)[i] = t[i]
         /\ Append(t, s)[Len(t) + 1] = s
         /\ <<s>> \in Seq(Seq(PRow)) /\ Last(<<s>>) = s /\ Len(<<s>>) = 1
         /\ Len(t) > 1 => /\ Front(t) \in Seq(Seq(PRow)) /\ Len(Front(t)) = Len(t) - 1
                          /\ \A i \in 1..(Len(t) - 1) : Front(t)[i] = t[i]
                          /\ Last(Front(t)) = t[Len(t) - 1]
<1>1. PICK n \in Nat : n = Len(t)
  OBVIOUS
<1>2. /\ Append(t, s) \in Seq(Seq(PRow)) /\ Len(Append(t, s)) = n + 1
      /\ \A i \in 1..n : Append(t, s)[i] = t[i]
      /\ Append(t, s)[n + 1] = s
  BY <1>1
<1>3. Last(Append(t, s)) = s
  BY <1>2 DEF Last
<1>4. <<s>> \in Seq(Seq(PRow)) /\ Last(<<s>>) = s /\ Len(<<s>>) = 1
  BY DEF Last
<1>5. ASSUME n > 1
      PROVE  /\ Front(t) \in Seq(Seq(PRow)) /\ Len(Front(t)) = n - 1
             /\ \A i \in 1..(n - 1) : Front(t)[i] = t[i]
             /\ Last(Front(t)) = t[n - 1]
  <2>1. PICK r : r = Front(t)
    OBVIOUS
  <2>2. PICK m \in Nat : m = n - 1
    BY <1>5
  <2>3. r = SubSeq(t, 1, m)
    BY <1>1, <2>1, <2>2 DEF Front
  <2>4. r = [i \in 1..m |-> t[i]]
    BY <1>1, <2>2, <2>3
  <2>5. \A i \in 1..m : t[i] \in Seq(PRow)
    BY <1>1, <2>2
  <2>6. r \in [1..m -> Seq(PRow)]
    BY <2>4, <2>5
  <2>7. r \in Seq(Seq(PRow)) /\ Len(r) = m
    BY <2>6
  <2>8. m \in 1..m
    BY <1>5, <2>2
  <2>9. Last(r) = t[m]
    BY <2>4, <2>7, <2>8 DEF Last
  <2> QED BY <2>1, <2>2, <2>4, <2>7, <2>9
<1> QED BY <1>1, <1>2, <1>3, <1>4, <1>5

\* The page that is returned and the trail it leaves.
LEMMA ReturnTrail ==
  ASSUME TrailIInv, Return, ~scan.dirty, trail' # <<>>
  PROVE  trail' \in Seq(Seq(PRow)) /\ Trailed(rows, plan, trail', page')
<1>1. /\ PagingIInv /\ PagingType /\ TrailInv /\ scan # None
      /\ Scanned(rows, plan, scan.cursor, scan.seek, scan.verified)
  BY DEF TrailIInv, CleanInv, Return, PagingIInv
<1>2. /\ scan.cursor \in {None} \cup PToken /\ plan \in Plans /\ walk.plan = plan /\ page \in PPage
      /\ page.next # None => page.next \in PToken /\ ~Backward(page.next)
      /\ page.previous # None => page.previous \in PToken /\ Backward(page.previous)
  BY <1>1, Cursors
<1>3. PICK cursor \in {None} \cup PToken : cursor = scan.cursor
  BY <1>2
<1>4. PICK b \in BOOLEAN : b = Backward(cursor)
  BY DEF Backward
<1>5. PICK f \in Seq(PRow), more \in BOOLEAN :
        /\ Fetches(plan, b, Admitted(rows, plan, b, cursor), f)
        /\ more => Len(f) = Size /\ f # <<>>
        /\ page' = ResultPage(f, cursor, more) /\ trail' = Trail(page'.rows, cursor)
  <2> DEFINE ff == FirstOf(scan.verified \o Documents(PageStatement(scan.seek), b), Size)
             mm == Len(scan.verified \o Documents(PageStatement(scan.seek), b)) > Size
  <2>1. /\ ff \in Seq(PRow) /\ Fetches(plan, b, Admitted(rows, plan, b, cursor), ff)
        /\ mm => Len(ff) = Size /\ ff # <<>>
        /\ page' = ResultPage(ff, cursor, mm) /\ trail' = Trail(page'.rows, cursor)
    BY <1>1, <1>3, <1>4, ReturnFetches
  <2>2. mm \in BOOLEAN
    OBVIOUS
  <2> HIDE DEF ff, mm
  <2> QED BY <2>1, <2>2
<1>6. PICK pg : pg = page'
  OBVIOUS
<1>7. /\ pg.rows = (IF b THEN Reverse(f) ELSE f) /\ pg.rows \in Seq(PRow)
      /\ pg.next # None => /\ pg.rows # <<>> /\ pg.next.fingerprint = plan
                           /\ RowOf(pg.next) = Last(pg.rows) /\ (b \/ more)
      /\ pg.previous # None => /\ pg.rows # <<>> /\ pg.previous.fingerprint = plan
                               /\ RowOf(pg.previous) = Head(pg.rows)
  BY <1>2, <1>4, <1>5, <1>6, PageEnds
<1>8. PICK new \in Seq(PRow) : new = pg.rows
  BY <1>7
<1>9. new # <<>> => f # <<>>
  BY <1>7, <1>8, ReverseOf
<1>10. b => cursor # None
  BY <1>4 DEF Backward
<1>11. Ended(rows, plan, pg)
  <2>1. pg.next # None => Full(rows, plan, pg.rows)
    <3> HAVE pg.next # None
    <3>1. f # <<>> /\ (b \/ more)
      BY <1>7, <1>8, <1>9
    <3> QED BY <1>1, <1>5, <1>7, <1>10, <3>1, FullPage
  <2> QED BY <1>7, <2>1 DEF Ended
<1>12. PICK n \in Nat : n = Len(trail)
  BY <1>1 DEF TrailInv
<1>13. trail \in Seq(Seq(PRow)) /\ (n = 0 <=> trail = <<>>)
  BY <1>1, <1>12 DEF TrailInv
<1>14. trail # <<>> /\ cursor # None => Trailed(rows, plan, trail, page)
  BY <1>1, <1>2, <1>3 DEF TrailInv
<1>15. cursor # None => cursor = IF b THEN page.previous ELSE page.next
  BY <1>1, <1>3, <1>4 DEF TrailInv
<1>16. ASSUME trail' = <<new>>
       PROVE  trail' \in Seq(Seq(PRow)) /\ Trailed(rows, plan, trail', pg)
  <2>1. <<new>> \in Seq(Seq(PRow)) /\ Last(<<new>>) = new
    BY <1>13, LastOf
  <2>2. Chain(rows, plan, <<new>>)
    BY DEF Chain
  <2> QED BY <1>8, <1>11, <1>16, <2>1, <2>2 DEF Trailed
<1>17. CASE cursor = None
  BY <1>5, <1>6, <1>8, <1>16, <1>17 DEF Trail
<1>18. CASE cursor # None /\ ~b
  <2>1. trail' = Append(trail, new)
    BY <1>4, <1>5, <1>6, <1>8, <1>18 DEF Trail
  <2>2. PICK t : t = Append(trail, new)
    OBVIOUS
  <2>3. /\ t \in Seq(Seq(PRow)) /\ Last(t) = new /\ Len(t) = n + 1
        /\ t[n + 1] = new /\ \A i \in 1..n : t[i] = trail[i]
    <3>1. /\ Append(trail, new) \in Seq(Seq(PRow)) /\ Last(Append(trail, new)) = new
          /\ Len(Append(trail, new)) = Len(trail) + 1
          /\ \A i \in 1..Len(trail) : Append(trail, new)[i] = trail[i]
          /\ Append(trail, new)[Len(trail) + 1] = new
      BY <1>13, LastOf
    <3> QED BY ONLY <1>12, <2>2, <3>1
  <2>4. ASSUME NEW i \in 1..n, t[i + 1] # <<>>
        PROVE  Fetches(plan, TRUE, Before(rows, plan, Head(t[i + 1])), Reverse(t[i]))
    <3>0. n # 0 /\ Trailed(rows, plan, trail, page)
      BY <1>13, <1>14, <1>18
    <3>1. CASE i < n
      <4>1. i \in 1..(n - 1) /\ i + 1 \in 1..n
        BY <3>1
      <4>2. t[i + 1] = trail[i + 1] /\ t[i] = trail[i]
        BY <2>3, <4>1
      <4> QED BY <1>12, <2>4, <3>0, <4>1, <4>2 DEF Trailed, Chain
    <3>2. CASE i = n
      <4>1. t[i] = trail[n] /\ t[i + 1] = new /\ new # <<>>
        BY <2>3, <2>4, <3>2
      <4>2. page.rows = trail[n]
        BY <1>12, <3>0 DEF Trailed, Last
      <4>3. /\ page.next # None /\ cursor = page.next /\ RowOf(page.next) = Last(page.rows)
            /\ Full(rows, plan, page.rows)
        BY <1>15, <1>18, <3>0 DEF Trailed, Ended
      <4>4. page.rows \in Seq(PRow) /\ cursor \in PToken
        BY <1>2, <4>3 DEF PPage
      <4>5. new = f
        BY <1>7, <1>8, <1>18
      <4>6. Fetches(plan, FALSE, Admitted(rows, plan, FALSE, cursor), new)
        BY <1>5, <1>18, <4>5
      <4>7. Fetches(plan, TRUE, Before(rows, plan, Head(new)), Reverse(page.rows))
        BY <1>1, <4>1, <4>3, <4>4, <4>6, ChainGrows
      <4>8. t[i] = page.rows /\ t[i + 1] = new
        BY <4>1, <4>2
      <4>9. Reverse(t[i]) = Reverse(page.rows) /\ Head(t[i + 1]) = Head(new)
        BY ONLY <4>8
      <4> QED BY ONLY <4>7, <4>9
    <3>3. i < n \/ i = n
      BY ONLY i \in 1..n, n \in Nat
    <3> QED BY <3>1, <3>2, <3>3
  <2>5. Chain(rows, plan, t)
    <3>1. 1..(Len(t) - 1) = 1..n
      BY <2>3
    <3> QED BY ONLY <2>4, <3>1 DEF Chain
  <2>6. Trailed(rows, plan, t, pg)
    BY <1>8, <1>11, <2>3, <2>5 DEF Trailed
  <2> QED BY <1>6, <2>1, <2>2, <2>3, <2>6
<1>19. CASE cursor # None /\ b /\ n > 1
  <2>1. trail' = Front(trail)
    BY <1>4, <1>5, <1>12, <1>19 DEF Trail
  <2>2. PICK t : t = Front(trail)
    OBVIOUS
  <2>3. /\ t \in Seq(Seq(PRow)) /\ Last(t) = trail[n - 1] /\ Len(t) = n - 1
        /\ \A i \in 1..(n - 1) : t[i] = trail[i]
    BY <1>12, <1>13, <1>19, <2>2, LastOf
  <2>4. Trailed(rows, plan, trail, page)
    BY <1>13, <1>14, <1>19
  <2>5. page.rows = trail[n]
    BY <1>12, <2>4 DEF Trailed, Last
  <2>6. /\ page.previous # None /\ cursor = page.previous /\ page.rows # <<>>
        /\ RowOf(page.previous) = Head(page.rows)
    BY <1>15, <1>19, <2>4 DEF Trailed, Ended
  <2>7. cursor \in PToken /\ Head(page.rows) \in PRow
    BY <1>2, <2>6 DEF PPage
  <2>8. Fetches(plan, TRUE, Before(rows, plan, Head(page.rows)), f)
    BY <1>1, <1>5, <1>19, <2>6, <2>7, AdmittedBackward
  <2>9. PICK m \in 1..(n - 1) : m = n - 1 /\ m + 1 = n
    BY <1>19
  <2>10. Fetches(plan, TRUE, Before(rows, plan, Head(page.rows)), Reverse(trail[m]))
    BY <1>12, <2>4, <2>5, <2>6, <2>9 DEF Trailed, Chain
  <2>11. trail[m] \in Seq(PRow)
    BY <1>12, <1>13, <2>9
  <2>12. Reverse(trail[m]) \in Seq(PRow)
    BY <2>11, ReverseOf
  <2>13. Before(rows, plan, Head(page.rows)) \in SUBSET rows
    BY DEF Before
  <2>14. f = Reverse(trail[m])
    BY <1>1, <2>8, <2>10, <2>12, <2>13, FetchUnique
  <2>15. new = trail[m]
    BY <1>7, <1>8, <1>19, <2>11, <2>14, ReverseTwice
  <2>16. Chain(rows, plan, t)
    <3> SUFFICES ASSUME NEW i \in 1..(Len(t) - 1), t[i + 1] # <<>>
                 PROVE  Fetches(plan, TRUE, Before(rows, plan, Head(t[i + 1])), Reverse(t[i]))
      BY DEF Chain
    <3>1. i \in 1..(n - 1) /\ i + 1 \in 1..(n - 1)
      BY <2>3
    <3>2. t[i] = trail[i] /\ t[i + 1] = trail[i + 1]
      BY <2>3, <3>1
    <3> QED BY <1>12, <2>4, <3>1, <3>2 DEF Trailed, Chain
  <2>17. Trailed(rows, plan, t, pg)
    BY <1>8, <1>11, <2>3, <2>9, <2>15, <2>16 DEF Trailed
  <2> QED BY <1>6, <2>1, <2>2, <2>3, <2>17
<1>20. CASE cursor # None /\ b /\ ~(n > 1)
  BY <1>4, <1>5, <1>6, <1>8, <1>12, <1>16, <1>20 DEF Trail
<1> QED BY <1>6, <1>17, <1>18, <1>19, <1>20

\* A page that is returned keeps the trail, or ends it.
LEMMA ReturnTrails ==
  ASSUME TrailIInv, Return
  PROVE  TrailInv' /\ CleanInv'
<1>1. scan # None /\ scan' = None /\ rows' = rows /\ plan' = plan
  BY DEF Return
<1>2. PagingIInv /\ TrailInv
  BY DEF TrailIInv
<1>3. walk'.plan = plan
  <2>1. walk \in PWalk /\ walk.plan = plan
    BY <1>1, <1>2, Cursors DEF PagingIInv, PagingType
  <2>2. PICK fetched : walk' = [walk EXCEPT !.seen = @ \o fetched]
    BY DEF Return
  <2> QED BY <2>1, <2>2 DEF PWalk
<1>4. scan.dirty => trail' = <<>>
  BY DEF Return, Trail
<1>5. trail' # <<>> => trail' \in Seq(Seq(PRow)) /\ Trailed(rows, plan, trail', page')
  BY <1>4, ReturnTrail
<1>6. trail' \in Seq(Seq(PRow))
  <2>1. <<>> \in Seq(Seq(PRow))
    OBVIOUS
  <2> QED BY <1>5, <2>1
<1> QED BY <1>1, <1>3, <1>5, <1>6 DEF TrailInv, CleanInv

\* On an unchanged store, following next and then previous recovers the page one came from.
THEOREM PreviousIsRecovered == PagingSpec => []PreviousRecovers
<1>1. PagingInit => TrailIInv
  BY PagingBegins, TrailBegins DEF TrailIInv
<1>2. TrailIInv /\ [PagingNext]_pagingVars => TrailIInv'
  <2> SUFFICES ASSUME TrailIInv, [PagingNext]_pagingVars PROVE TrailIInv'
    OBVIOUS
  <2>1. PagingIInv'
    BY PagingStep DEF TrailIInv
  <2>2. CASE FirstPage
    BY <2>1, <2>2, CallTrails DEF FirstPage, TrailIInv
  <2>3. CASE NextPage
    BY <2>1, <2>3, CallTrails DEF NextPage, TrailIInv
  <2>4. CASE PreviousPage
    BY <2>1, <2>4, CallTrails DEF PreviousPage, TrailIInv
  <2>5. CASE Return
    BY <2>1, <2>5, ReturnTrails DEF TrailIInv
  <2>6. CASE NextBatch
    BY <2>1, <2>6, NextBatchTrails DEF TrailIInv
  <2>7. CASE Save \/ Sweep
    BY <2>1, <2>7, WriteTrails DEF TrailIInv
  <2>8. CASE Replan
    BY <2>1, <2>8 DEF Replan, TrailIInv, TrailInv, CleanInv
  <2>9. CASE UNCHANGED pagingVars
    BY <2>1, <2>9 DEF pagingVars, TrailIInv, TrailInv, CleanInv
  <2> QED BY <2>2, <2>3, <2>4, <2>5, <2>6, <2>7, <2>8, <2>9 DEF PagingNext
<1>3. TrailIInv => PreviousRecovers
  BY DEF TrailIInv, TrailInv, Trailed, PreviousRecovers
<1> QED BY <1>1, <1>2, <1>3, PTL DEF PagingSpec
-----------------------------------------------------------------------------
(* The eager union: slices of a plan.  What was taken so far is the window *)
(* of the sources asked so far, and a slice of a window is the window of the *)
(* sliced plan.                                                            *)

Lists(counted) == [s \in DOMAIN counted |-> RowsOf(s, counted[s])]
Flat(counted) == FlattenSeq(Lists(counted))
LimitOf(n) == IF n = Unbounded THEN Null ELSE n
WindowOf(list, w) == Cut(list, w.offset, LimitOf(w.limit))
UnionRow == Nat \X Nat
Limits == Nat \cup {Unbounded}

CountJob == [kind : {"count"}, k : Nat \ {0}, total : Nat, counted : Seq(Nat)]
ExecuteJob == [kind : {"execute"}, k : Nat \ {0}, limit : Limits, maximum : Limits, skipped : Nat,
               out : Seq(UnionRow), counted : Seq(Nat)]
UnionType ==
  /\ size \in [Sources -> Nat] /\ window \in [offset : Nat, limit : Limits]
  /\ slices \in Seq([start : Nat, stop : Limits])
  /\ cache = NoCount \/ cache \in [total : Nat, counted : Seq(Nat)]
  /\ job \in {NoJob} \cup CountJob \cup ExecuteJob

\* The plan is what its slices make of any list.
Slicing(list, ss, f) ==
  f = [i \in 0..Len(ss) |-> IF i = 0 THEN list ELSE PySlice(f[i - 1], ss[i])]
SlicesInv ==
  \A list \in Seq(UnionRow) :
    \E f : Slicing(list, slices, f) /\ f[Len(slices)] = WindowOf(list, window)

Executing(j, w) ==
  LET done == Flat(j.counted)
  IN /\ Len(j.counted) = j.k - 1
     /\ j.limit = Least(w.limit, j.maximum)
     /\ j.out = Cut(done, w.offset, LimitOf(j.limit))
     /\ j.skipped = IF w.offset > Len(done) THEN Len(done) ELSE w.offset
JobInv ==
  /\ job.kind = "count" => Len(job.counted) = job.k - 1 /\ job.total = Len(Flat(job.counted))
  /\ job.kind = "execute" => Executing(job, window)
AnswerInv ==
  /\ answer.kind = "rows" =>
       /\ answer.counted \in Seq(Nat) /\ answer.maximum \in Limits
       /\ answer.rows = Cut(Flat(answer.counted), window.offset, LimitOf(Least(window.limit, answer.maximum)))
  /\ cache # NoCount => cache.total = Len(Flat(cache.counted))
UnionIInv == UnionType /\ SlicesInv /\ JobInv /\ AnswerInv
\* The less of two limits.
LEMMA LimitFacts ==
  ASSUME NEW m \in Limits, NEW n \in Limits
  PROVE  /\ Least(m, n) \in Limits
         /\ m = Unbounded => Least(m, n) = n
         /\ n = Unbounded => Least(m, n) = m
         /\ m # Unbounded => m \in Nat /\ LimitOf(m) = m /\ m # Null
         /\ m = Unbounded => LimitOf(m) = Null
         /\ LimitOf(m) \in Nat \cup {Null}
         /\ m # Unbounded /\ n # Unbounded =>
              Least(m, n) \in Nat /\ Least(m, n) # Unbounded /\ Least(m, n) = IF m < n THEN m ELSE n
<1>1. Unbounded \notin Nat /\ Null \notin Nat
  BY UnionAssumption, FederationAssumption
<1>2. m # Unbounded => m \in Nat
  BY DEF Limits
<1>3. n # Unbounded => n \in Nat
  BY DEF Limits
<1>4. CASE m = Unbounded
  BY <1>4 DEF Least, LimitOf
<1>5. CASE m # Unbounded /\ n = Unbounded
  BY <1>1, <1>2, <1>5 DEF Least, LimitOf
<1>6. CASE m # Unbounded /\ n # Unbounded
  BY <1>1, <1>2, <1>3, <1>6 DEF Least, LimitOf, Limits
<1> QED BY <1>4, <1>5, <1>6

\* The window of a list, its length and its rows.
LEMMA WindowIs ==
  ASSUME NEW S, NEW list \in Seq(S), NEW o \in Nat, NEW l \in Limits
  PROVE  LET c == Cut(list, o, LimitOf(l))
             n == IF Len(list) > o THEN Len(list) - o ELSE 0
         IN /\ c \in Seq(S) /\ Len(c) \in Nat
            /\ l = Unbounded => Len(c) = n
            /\ l # Unbounded => l \in Nat /\ Len(c) = IF n > l THEN l ELSE n
            /\ \A i \in 1..Len(c) : c[i] = list[i + o]
<1> DEFINE n == IF Len(list) > o THEN Len(list) - o ELSE 0
<1>1. PICK w \in Nat \cup {Null} : w = LimitOf(l)
  BY LimitFacts
<1>2. (l = Unbounded => w = Null) /\ (l # Unbounded => l \in Nat /\ w = l /\ w # Null)
  BY <1>1, LimitFacts
<1>3. PICK c : c = Cut(list, o, w)
  OBVIOUS
<1>4. /\ c \in Seq(S) /\ Len(c) \in Nat
      /\ Len(c) = IF w = Null THEN n ELSE IF n > w THEN w ELSE n
      /\ \A i \in 1..Len(c) : c[i] = list[i + o]
  BY <1>3, CutIs
<1> HIDE DEF n
<1>5. l = Unbounded => Len(c) = n
  BY <1>2, <1>4
<1>6. l # Unbounded => l \in Nat /\ Len(c) = IF n > l THEN l ELSE n
  BY <1>2, <1>4
<1> QED BY <1>1, <1>3, <1>4, <1>5, <1>6 DEF n

\* The first rows of a list, as many as the limit.
LEMMA FirstRowsIs ==
  ASSUME NEW S, NEW list \in Seq(S), NEW l \in Limits
  PROVE  /\ FirstRows(list, l) \in Seq(S)
         /\ l = Unbounded => FirstRows(list, l) = list
         /\ l # Unbounded => l \in Nat /\ Len(FirstRows(list, l)) = IF l < Len(list) THEN l ELSE Len(list)
         /\ \A i \in 1..Len(FirstRows(list, l)) : FirstRows(list, l)[i] = list[i]
<1>1. CASE l = Unbounded
  BY <1>1 DEF FirstRows
<1>2. CASE l # Unbounded
  <2>0. Len(list) \in Nat /\ Len(list) # Unbounded /\ Len(list) \in Limits /\ l \in Nat
    <3>1. Len(list) \in Nat
      OBVIOUS
    <3> QED BY <1>2, <3>1, UnionAssumption, LimitFacts DEF Limits
  <2>1. PICK n : n = Least(l, Len(list))
    OBVIOUS
  <2>2. n = IF l < Len(list) THEN l ELSE Len(list)
    BY <1>2, <2>0, <2>1, LimitFacts
  <2>3. n \in Nat /\ n <= Len(list) /\ n \in Int
    BY <2>0, <2>2
  <2>4. FirstRows(list, l) = SubSeq(list, 1, n)
    BY <1>2, <2>1 DEF FirstRows
  <2>5. PICK m \in Nat \ {0} : m = 1
    OBVIOUS
  <2>6. /\ SubSeq(list, m, n) \in Seq(S)
        /\ Len(SubSeq(list, m, n)) = IF m <= n THEN n - m + 1 ELSE 0
        /\ \A i \in 1..(n - m + 1) : SubSeq(list, m, n)[i] = list[i + m - 1]
    BY <2>3, PartType
  <2>7. Len(SubSeq(list, m, n)) = n
    BY <2>3, <2>5, <2>6
  <2>8. \A i \in 1..n : i \in 1..(n - m + 1) /\ i + m - 1 = i
    BY <2>3, <2>5
  <2> QED BY <1>2, <2>0, <2>2, <2>4, <2>5, <2>6, <2>7, <2>8
<1> QED BY <1>1, <1>2

\* The first rows of a window are a window with the lesser limit.
LEMMA FirstCut ==
  ASSUME NEW S, NEW list \in Seq(S), NEW o \in Nat, NEW l \in Limits, NEW m \in Limits
  PROVE  FirstRows(Cut(list, o, LimitOf(l)), m) = Cut(list, o, LimitOf(Least(l, m)))
<1> DEFINE n == IF Len(list) > o THEN Len(list) - o ELSE 0
<1>0. n \in Nat
  OBVIOUS
<1>1. PICK c : c = Cut(list, o, LimitOf(l))
  OBVIOUS
<1>2. /\ c \in Seq(S) /\ Len(c) \in Nat
      /\ l = Unbounded => Len(c) = n
      /\ l # Unbounded => l \in Nat /\ Len(c) = IF n > l THEN l ELSE n
      /\ \A i \in 1..Len(c) : c[i] = list[i + o]
  BY <1>1, WindowIs
<1>3. PICK f : f = FirstRows(c, m)
  OBVIOUS
<1>4. /\ f \in Seq(S) /\ Len(f) \in Nat
      /\ m = Unbounded => f = c
      /\ m # Unbounded => m \in Nat /\ Len(f) = IF m < Len(c) THEN m ELSE Len(c)
      /\ \A i \in 1..Len(f) : f[i] = c[i]
  BY <1>2, <1>3, FirstRowsIs
<1>5. PICK k \in Limits : k = Least(l, m)
  BY LimitFacts
<1>6. PICK g : g = Cut(list, o, LimitOf(k))
  OBVIOUS
<1>7. /\ g \in Seq(S) /\ Len(g) \in Nat
      /\ k = Unbounded => Len(g) = n
      /\ k # Unbounded => k \in Nat /\ Len(g) = IF n > k THEN k ELSE n
      /\ \A i \in 1..Len(g) : g[i] = list[i + o]
  BY <1>6, WindowIs
<1>8. /\ l = Unbounded => k = m
      /\ m = Unbounded => k = l
      /\ l # Unbounded /\ m # Unbounded => k # Unbounded /\ k = IF l < m THEN l ELSE m
  BY <1>5, LimitFacts
<1> HIDE DEF n
<1>9. Len(f) = Len(g)
  <2>1. CASE m = Unbounded
    BY <1>2, <1>4, <1>7, <1>8, <2>1
  <2>2. CASE m # Unbounded /\ l = Unbounded
    BY <1>0, <1>2, <1>4, <1>7, <1>8, <2>2
  <2>3. CASE m # Unbounded /\ l # Unbounded
    <3>1. /\ m \in Nat /\ l \in Nat /\ k \in Nat /\ k = IF l < m THEN l ELSE m
          /\ Len(c) = IF n > l THEN l ELSE n
          /\ Len(f) = IF m < Len(c) THEN m ELSE Len(c)
          /\ Len(g) = IF n > k THEN k ELSE n
      BY <1>2, <1>4, <1>7, <1>8, <2>3
    <3> QED BY <1>0, <3>1
  <2> QED BY <2>1, <2>2, <2>3
<1>10. Len(f) <= Len(c)
  BY <1>2, <1>4
<1>11. \A i \in 1..Len(f) : f[i] = g[i]
  <2> TAKE i \in 1..Len(f)
  <2>1. i \in 1..Len(c) /\ i \in 1..Len(g)
    BY <1>2, <1>4, <1>9, <1>10
  <2> QED BY <1>2, <1>4, <1>7, <2>1
<1>12. f = g
  BY ONLY <1>4, <1>7, <1>9, <1>11, SameSeq
<1> QED BY <1>1, <1>3, <1>5, <1>6, <1>12

\* A slice of a window is the window of the sliced plan.
LEMMA SliceCut ==
  ASSUME NEW S, NEW list \in Seq(S), NEW w \in [offset : Nat, limit : Limits],
         NEW start \in Nat, NEW stop \in Limits
  PROVE  /\ PySlice(WindowOf(list, w), [start |-> start, stop |-> stop])
              = WindowOf(list, Sliced(w, start, stop))
         /\ Sliced(w, start, stop) \in [offset : Nat, limit : Limits]
<1>1. PICK o, l : o = w.offset /\ l = w.limit /\ o \in Nat /\ l \in Limits
  OBVIOUS
<1> DEFINE n == IF Len(list) > o THEN Len(list) - o ELSE 0
<1>0. n \in Nat /\ Len(list) \in Nat
  BY <1>1
<1>2. PICK c : c = WindowOf(list, w)
  OBVIOUS
<1>3. /\ c \in Seq(S) /\ Len(c) \in Nat
      /\ l = Unbounded => Len(c) = n
      /\ l # Unbounded => l \in Nat /\ Len(c) = IF n > l THEN l ELSE n
      /\ \A i \in 1..Len(c) : c[i] = list[i + o]
  <2>1. c = Cut(list, o, LimitOf(l))
    BY <1>1, <1>2 DEF WindowOf
  <2>2. o \in Nat /\ l \in Limits
    BY <1>1
  <2>3. PICK m \in Nat : m = n
    BY <1>0
  <2> QED BY <2>1, <2>2, WindowIs
<1> DEFINE a == IF l = Unbounded THEN Unbounded ELSE Minus(l, start)
           b == IF stop = Unbounded THEN Unbounded ELSE Minus(stop, start)
<1>4. /\ a \in Limits /\ b \in Limits
      /\ l # Unbounded => a \in Nat /\ a # Unbounded /\ a = IF l < start THEN 0 ELSE l - start
      /\ stop # Unbounded => b \in Nat /\ b # Unbounded /\ stop \in Nat /\ b = IF stop < start THEN 0 ELSE stop - start
  <2>1. Unbounded \notin Nat
    BY UnionAssumption
  <2>2. \A x \in Nat : Minus(x, start) \in Nat
    BY DEF Minus
  <2>3. (l # Unbounded => l \in Nat) /\ (stop # Unbounded => stop \in Nat)
    BY <1>1 DEF Limits
  <2>4. l # Unbounded => a \in Nat /\ a # Unbounded /\ a = IF l < start THEN 0 ELSE l - start
    BY <2>1, <2>2, <2>3 DEF Minus
  <2>5. stop # Unbounded => b \in Nat /\ b # Unbounded /\ b = IF stop < start THEN 0 ELSE stop - start
    BY <2>1, <2>2, <2>3 DEF Minus
  <2>6. a \in Limits /\ b \in Limits
    BY <2>4, <2>5 DEF Limits
  <2> QED BY <2>3, <2>4, <2>5, <2>6
<1>5. PICK k \in Limits : k = Least(a, b)
  <2> HIDE DEF a, b
  <2> QED BY <1>4, LimitFacts
<1>6. Sliced(w, start, stop) = [offset |-> o + start, limit |-> k]
  BY <1>1, <1>5 DEF Sliced
<1>7. /\ l = Unbounded => a = Unbounded /\ k = b
      /\ stop = Unbounded => b = Unbounded /\ k = a
      /\ l # Unbounded /\ stop # Unbounded => k # Unbounded /\ k \in Nat /\ k = IF a < b THEN a ELSE b
  <2>1. (l = Unbounded => a = Unbounded) /\ (stop = Unbounded => b = Unbounded)
    OBVIOUS
  <2> HIDE DEF a, b
  <2> QED BY <1>4, <1>5, <2>1, LimitFacts
<1> HIDE DEF a, b
<1>8. o + start \in Nat
  BY <1>1
<1>9. PICK g : g = Cut(list, o + start, LimitOf(k))
  OBVIOUS
<1> DEFINE h == IF Len(list) > o + start THEN Len(list) - (o + start) ELSE 0
<1>10. /\ g \in Seq(S) /\ Len(g) \in Nat
       /\ k = Unbounded => Len(g) = h
       /\ k # Unbounded => k \in Nat /\ Len(g) = IF h > k THEN k ELSE h
       /\ \A i \in 1..Len(g) : g[i] = list[i + (o + start)]
  BY <1>8, <1>9, WindowIs
<1>11. WindowOf(list, Sliced(w, start, stop)) = g
  BY <1>6, <1>9 DEF WindowOf
<1>12. PICK e : e = IF stop = Unbounded THEN Len(c) ELSE Least(stop, Len(c))
  OBVIOUS
<1>13. /\ e \in Nat /\ e <= Len(c)
       /\ stop = Unbounded => e = Len(c)
       /\ stop # Unbounded => e = IF stop < Len(c) THEN stop ELSE Len(c)
  <2>1. Len(c) \in Limits /\ Len(c) # Unbounded
    BY <1>3, UnionAssumption DEF Limits
  <2>2. stop # Unbounded => stop \in Nat /\ Least(stop, Len(c)) = IF stop < Len(c) THEN stop ELSE Len(c)
    BY <2>1, LimitFacts
  <2>3. CASE stop = Unbounded
    BY <1>3, <1>12, <2>3
  <2>4. CASE stop # Unbounded
    <3>1. e = IF stop < Len(c) THEN stop ELSE Len(c)
      BY <1>12, <2>2, <2>4
    <3> QED BY <1>3, <2>2, <2>4, <3>1
  <2> QED BY <2>3, <2>4
<1>14. PICK f : f = SubSeq(c, start + 1, e)
  OBVIOUS
<1>15. PySlice(WindowOf(list, w), [start |-> start, stop |-> stop]) = f
  BY <1>2, <1>12, <1>14 DEF PySlice
<1>16. /\ f \in Seq(S) /\ Len(f) = IF start + 1 <= e THEN e - (start + 1) + 1 ELSE 0
       /\ \A i \in 1..(e - (start + 1) + 1) : f[i] = c[i + (start + 1) - 1]
  <2>1. start + 1 \in Nat \ {0} /\ e \in Int
    BY <1>13
  <2> QED BY <1>3, <1>13, <1>14, <2>1, PartType
<1>17. Len(f) = (IF e > start THEN e - start ELSE 0)
  BY <1>13, <1>16
<1>18. h \in Nat /\ h = IF n > start THEN n - start ELSE 0
  BY <1>0, <1>1
<1> HIDE DEF n, h
<1>19. Len(f) = Len(g)
  <2>1. CASE l = Unbounded /\ stop = Unbounded
    BY <1>0, <1>3, <1>7, <1>10, <1>13, <1>17, <1>18, <2>1
  <2>2. CASE l = Unbounded /\ stop # Unbounded
    <3>1. /\ k # Unbounded /\ stop \in Nat /\ k = IF stop < start THEN 0 ELSE stop - start
          /\ e = IF stop < n THEN stop ELSE n
      BY <1>3, <1>4, <1>7, <1>13, <2>2
    <3> QED BY <1>0, <1>10, <1>17, <1>18, <3>1
  <2>3. CASE l # Unbounded /\ stop = Unbounded
    <3>1. /\ k # Unbounded /\ l \in Nat /\ k = IF l < start THEN 0 ELSE l - start
          /\ e = IF n > l THEN l ELSE n
      BY <1>3, <1>4, <1>7, <1>13, <2>3
    <3> QED BY <1>0, <1>10, <1>17, <1>18, <3>1
  <2>4. CASE l # Unbounded /\ stop # Unbounded
    <3>1. /\ k # Unbounded /\ l \in Nat /\ stop \in Nat /\ k = IF a < b THEN a ELSE b
          /\ a = IF l < start THEN 0 ELSE l - start
          /\ b = IF stop < start THEN 0 ELSE stop - start
          /\ a \in Nat /\ b \in Nat
          /\ Len(c) = IF n > l THEN l ELSE n
          /\ e = IF stop < Len(c) THEN stop ELSE Len(c)
      BY <1>3, <1>4, <1>7, <1>13, <2>4
    <3> QED BY <1>0, <1>10, <1>17, <1>18, <3>1
  <2> QED BY <2>1, <2>2, <2>3, <2>4
<1>20. \A i \in 1..Len(f) : f[i] = g[i]
  <2> TAKE i \in 1..Len(f)
  <2>1. i \in 1..(e - (start + 1) + 1) /\ i + (start + 1) - 1 = i + start /\ i + start \in 1..Len(c)
        /\ (i + start) + o = i + (o + start) /\ i \in 1..Len(g)
    BY <1>1, <1>3, <1>10, <1>13, <1>17, <1>19
  <2>2. f[i] = c[i + start] /\ c[i + start] = list[(i + start) + o] /\ g[i] = list[i + (o + start)]
    BY <1>3, <1>10, <1>16, <2>1
  <2> QED BY <2>1, <2>2
<1>21. f = g
  BY ONLY <1>10, <1>16, <1>19, <1>20, SameSeq
<1> QED BY <1>6, <1>8, <1>11, <1>15, <1>21

\* The rows of the sources counted so far, and one source more.
LEMMA ListsType ==
  ASSUME NEW counted \in Seq(Nat), NEW n \in Nat
  PROVE  /\ Lists(counted) \in Seq(Seq(UnionRow)) /\ Flat(counted) \in Seq(UnionRow)
         /\ Len(Flat(counted)) \in Nat
         /\ RowsOf(Len(counted) + 1, n) \in Seq(UnionRow) /\ Len(RowsOf(Len(counted) + 1, n)) = n
         /\ Append(counted, n) \in Seq(Nat) /\ Len(Append(counted, n)) = Len(counted) + 1
         /\ Flat(Append(counted, n)) = Flat(counted) \o RowsOf(Len(counted) + 1, n)
         /\ Len(Flat(Append(counted, n))) = Len(Flat(counted)) + n
<1> DEFINE m == Len(counted)
           l == RowsOf(m + 1, n)
<1>1. m \in Nat /\ DOMAIN counted = 1..m /\ \A s \in 1..m : counted[s] \in Nat
  OBVIOUS
<1>2. \A s, x \in Nat : RowsOf(s, x) \in Seq(UnionRow) /\ Len(RowsOf(s, x)) = x
  BY DEF RowsOf, UnionRow
<1>3. Lists(counted) \in Seq(Seq(UnionRow)) /\ Len(Lists(counted)) = m
  <2>1. Lists(counted) \in [1..m -> Seq(UnionRow)]
    <3>1. \A s \in 1..m : RowsOf(s, counted[s]) \in Seq(UnionRow)
      BY <1>1, <1>2
    <3> QED BY <1>1, <3>1 DEF Lists
  <2> QED BY <1>1, <2>1
<1>4. m + 1 \in Nat /\ l \in Seq(UnionRow) /\ Len(l) = n
  BY <1>1, <1>2
<1>5. PICK all : all = Append(counted, n)
  OBVIOUS
<1>6. all \in Seq(Nat) /\ Len(all) = m + 1 /\ all[m + 1] = n /\ \A s \in 1..m : all[s] = counted[s]
  BY <1>5
<1>7. Lists(all) = Append(Lists(counted), l)
  <2>1. DOMAIN all = 1..(m + 1)
    BY <1>1, <1>6
  <2>2. Lists(all) = [s \in 1..(m + 1) |-> RowsOf(s, all[s])]
    BY <2>1 DEF Lists
  <2>3. Lists(counted) = [s \in 1..m |-> RowsOf(s, counted[s])]
    BY <1>1 DEF Lists
  <2>4. \A s \in 1..m : s \in 1..(m + 1) /\ s # m + 1 /\ Lists(all)[s] = Lists(counted)[s]
    BY <1>1, <1>6, <2>2, <2>3
  <2>5. Lists(all)[m + 1] = l
    BY <1>1, <1>6, <2>2
  <2>6. Append(Lists(counted), l) = [s \in 1..(m + 1) |-> IF s = m + 1 THEN l ELSE Lists(counted)[s]]
    <3> DEFINE a == Lists(counted)
    <3> HIDE DEF a, l
    <3>1. a \in Seq(Seq(UnionRow)) /\ Len(a) = m /\ l \in Seq(UnionRow)
      BY <1>3, <1>4 DEF a
    <3>2. PICK b : b = [s \in 1..(m + 1) |-> IF s = m + 1 THEN l ELSE a[s]]
      OBVIOUS
    <3>3. b \in Seq(Seq(UnionRow)) /\ Len(b) = m + 1
      <4>1. b \in [1..(m + 1) -> Seq(UnionRow)]
        BY <1>1, <3>1, <3>2
      <4>2. m + 1 \in Nat
        BY <1>1
      <4> QED BY <4>1, <4>2
    <3>4. Append(a, l) \in Seq(Seq(UnionRow)) /\ Len(Append(a, l)) = m + 1
          /\ Append(a, l)[m + 1] = l /\ \A s \in 1..m : Append(a, l)[s] = a[s]
      BY <3>1
    <3>5. \A s \in 1..(m + 1) : Append(a, l)[s] = b[s]
      <4> TAKE s \in 1..(m + 1)
      <4>1. s = m + 1 \/ (s \in 1..m /\ s # m + 1)
        BY <1>1
      <4> QED BY <3>2, <3>4, <4>1
    <3>6. Append(a, l) = b
      BY ONLY <3>3, <3>4, <3>5, SameSeq
    <3> QED BY <3>2, <3>6 DEF a
  <2>7. \A s \in 1..(m + 1) : Lists(all)[s] = IF s = m + 1 THEN l ELSE Lists(counted)[s]
    <3> TAKE s \in 1..(m + 1)
    <3>1. s = m + 1 \/ s \in 1..m
      BY <1>1
    <3> HIDE DEF l, m
    <3> QED BY <2>4, <2>5, <3>1
  <2>8. Lists(all) = [s \in 1..(m + 1) |-> Lists(all)[s]]
    BY <2>2
  <2> HIDE DEF l, m
  <2> QED BY <2>6, <2>7, <2>8
<1>8. Flat(all) = Flat(counted) \o l
  <2> HIDE DEF l
  <2>1. FlattenSeq(Append(Lists(counted), l)) = FlattenSeq(Lists(counted)) \o l
    BY <1>3, <1>4, FlatAppend
  <2> QED BY <1>7, <2>1 DEF Flat
<1>9. Flat(counted) \in Seq(UnionRow)
  BY <1>3, FlatType DEF Flat
<1> HIDE DEF l, m
<1>10. Len(Flat(counted)) \in Nat /\ Len(Flat(all)) = Len(Flat(counted)) + n
  <2>1. PICK f, g : f = Flat(counted) /\ g = Flat(all)
    OBVIOUS
  <2>2. f \in Seq(UnionRow) /\ l \in Seq(UnionRow) /\ g = f \o l /\ Len(l) = n
    BY <1>4, <1>8, <1>9, <2>1
  <2>3. Len(f) \in Nat /\ Len(g) = Len(f) + n
    <3>1. PICK s \in Seq(UnionRow), t \in Seq(UnionRow) : s = f /\ t = l
      BY <2>2
    <3>2. Len(s) \in Nat /\ Len(t) \in Nat /\ Len(s \o t) = Len(s) + Len(t)
      OBVIOUS
    <3> QED BY <2>2, <3>1, <3>2
  <2> QED BY <2>1, <2>3
<1> QED BY <1>3, <1>4, <1>5, <1>6, <1>8, <1>9, <1>10 DEF l, m

\* One source of an execution: what is skipped and what is taken.
LEMMA ExecuteCut ==
  ASSUME NEW S, NEW done \in Seq(S), NEW list \in Seq(S), NEW o \in Nat, NEW l \in Limits
  PROVE  LET out == Cut(done, o, LimitOf(l))
             skipped == IF o > Len(done) THEN Len(done) ELSE o
             child == FirstRows(list, IF l = Unbounded THEN Unbounded ELSE o + l)
             skip == Least(Minus(o, skipped), Len(child))
         IN /\ FirstRows(out \o SubSeq(child, skip + 1, Len(child)), l) = Cut(done \o list, o, LimitOf(l))
            /\ skipped + skip = IF o > Len(done \o list) THEN Len(done \o list) ELSE o
            /\ skip \in Nat
<1>0. Unbounded \notin Nat
  BY UnionAssumption
<1>00. l # Unbounded => l \in Nat
  BY DEF Limits
<1>01. PICK d \in Nat, a \in Nat : d = Len(done) /\ a = Len(list)
  OBVIOUS
<1>1. d = Len(done) /\ a = Len(list)
  BY <1>01
<1>02. PICK ref : ref = Cut(done \o list, o, LimitOf(l))
  OBVIOUS
<1>20. /\ ref \in Seq(S) /\ Len(ref) \in Nat
       /\ l = Unbounded => Len(ref) = IF d + a > o THEN d + a - o ELSE 0
       /\ l # Unbounded => Len(ref) = LET n == IF d + a > o THEN d + a - o ELSE 0 IN IF n > l THEN l ELSE n
       /\ \A i \in 1..Len(ref) : ref[i] = (done \o list)[i + o]
  <2>1. PICK x \in Nat : x = d + a
    OBVIOUS
  <2>2. (IF x > o THEN x - o ELSE 0) \in Nat
    OBVIOUS
  <2>3. PICK n : n \in Nat /\ n = IF x > o THEN x - o ELSE 0
    BY <2>2
  <2>4. PICK m \in Nat : m = n
    BY <2>3
  <2>5. PICK b \in Seq(S) : b = done \o list
    <3>1. done \o list \in Seq(S)
      OBVIOUS
    <3> QED BY <3>1
  <2>6. Len(b) = x
    BY <1>1, <2>1, <2>5
  <2>7. m = IF Len(b) > o THEN Len(b) - o ELSE 0
    BY <2>3, <2>4, <2>6
  <2>8. ref = Cut(b, o, LimitOf(l))
    BY <1>02, <2>5
  <2>9. /\ ref \in Seq(S) /\ Len(ref) \in Nat
        /\ l = Unbounded => Len(ref) = m
        /\ l # Unbounded => l \in Nat /\ Len(ref) = IF m > l THEN l ELSE m
        /\ \A i \in 1..Len(ref) : ref[i] = b[i + o]
    BY <2>7, <2>8, WindowIs
  <2>10. m = IF d + a > o THEN d + a - o ELSE 0
    BY <2>1, <2>3, <2>4
  <2> QED BY <2>5, <2>9, <2>10
<1>2. PICK out \in Seq(S) : out = Cut(done, o, LimitOf(l))
  BY WindowIs
<1>3. /\ out \in Seq(S) /\ Len(out) \in Nat
      /\ l = Unbounded => Len(out) = IF d > o THEN d - o ELSE 0
      /\ l # Unbounded => Len(out) = LET n == IF d > o THEN d - o ELSE 0 IN IF n > l THEN l ELSE n
      /\ \A i \in 1..Len(out) : out[i] = done[i + o]
  BY <1>1, <1>2, WindowIs
<1>4. PICK skipped \in Nat : skipped = IF o > d THEN d ELSE o
  OBVIOUS
<1>5. PICK lim \in Limits : lim = IF l = Unbounded THEN Unbounded ELSE o + l
  <2>1. l # Unbounded => o + l \in Nat
    BY <1>00
  <2> QED BY <2>1 DEF Limits
<1>6. (l = Unbounded => lim = Unbounded) /\ (l # Unbounded => lim # Unbounded /\ lim = o + l)
  <2>1. l # Unbounded => o + l \in Nat
    BY <1>00
  <2> QED BY <1>0, <1>5, <2>1
<1>7. PICK child : child = FirstRows(list, lim)
  OBVIOUS
<1>8. /\ child \in Seq(S) /\ Len(child) \in Nat
      /\ l = Unbounded => Len(child) = a
      /\ l # Unbounded => Len(child) = IF o + l < a THEN o + l ELSE a
      /\ \A i \in 1..Len(child) : child[i] = list[i]
  <2>1. /\ FirstRows(list, lim) \in Seq(S)
        /\ lim = Unbounded => FirstRows(list, lim) = list
        /\ lim # Unbounded => lim \in Nat /\ Len(FirstRows(list, lim)) = IF lim < Len(list) THEN lim ELSE Len(list)
        /\ \A i \in 1..Len(FirstRows(list, lim)) : FirstRows(list, lim)[i] = list[i]
    BY <1>0, FirstRowsIs
  <2>2. child \in Seq(S) /\ Len(child) \in Nat
    BY <1>7, <2>1
  <2> QED BY <1>1, <1>6, <1>7, <2>1, <2>2
<1>90. PICK c \in Nat : c = Len(child)
  BY <1>8
<1>9. c = Len(child) /\ c \in Nat
  BY <1>90
<1>10. PICK skip \in Nat : skip = Least(Minus(o, skipped), c) /\ skip = IF o - skipped < c THEN o - skipped ELSE c
  <2>0. Minus(o, skipped) = o - skipped /\ skipped <= o
    BY <1>4 DEF Minus
  <2>1. PICK e \in Nat : e = Minus(o, skipped) /\ e = o - skipped
    BY <2>0
  <2>2. e \in Limits /\ c \in Limits /\ e # Unbounded /\ c # Unbounded
    BY <1>0 DEF Limits
  <2>3. Least(e, c) = IF e < c THEN e ELSE c
    BY <2>2, LimitFacts
  <2>4. PICK x \in Nat : x = IF e < c THEN e ELSE c
    OBVIOUS
  <2> QED BY <2>1, <2>3, <2>4
<1>11. skip \in Nat /\ skip = IF o - skipped < c THEN o - skipped ELSE c
  BY <1>10
<1>110. PICK from \in Nat \ {0} : from = skip + 1
  OBVIOUS
<1>111. SubSeq(child, from, c) \in Seq(S)
  <2>1. PICK kept \in Seq(S) : kept = child
    BY <1>8
  <2>2. PICK to \in Int : to = c /\ to <= Len(kept)
    BY <1>9, <2>1
  <2>3. SubSeq(kept, from, to) \in Seq(S)
    BY <2>2, PartType
  <2> QED BY <2>1, <2>2, <2>3
<1>12. PICK tail \in Seq(S) : tail = SubSeq(child, skip + 1, c)
  BY <1>110, <1>111
<1>13. /\ tail \in Seq(S) /\ Len(tail) = c - skip /\ Len(tail) \in Nat
       /\ \A i \in 1..Len(tail) : tail[i] = list[i + skip]
  <2>1. PICK kept \in Seq(S) : kept = child
    BY <1>8
  <2>2. PICK to \in Nat : to = c /\ to <= Len(kept)
    BY <1>9, <2>1
  <2>3. skip <= to
    BY <1>11, <2>2
  <2>4. /\ tail \in Seq(S) /\ Len(tail) = IF from <= to THEN to - from + 1 ELSE 0
        /\ \A i \in 1..(to - from + 1) : tail[i] = kept[i + from - 1]
    <3>1. PICK upto \in Int : upto = to
      OBVIOUS
    <3>2. tail = SubSeq(kept, from, upto)
      BY <1>12, <1>110, <2>1, <2>2, <3>1
    <3> QED BY <2>2, <3>1, <3>2, PartType
  <2>5. Len(tail) = to - skip /\ Len(tail) \in Nat
    BY ONLY <1>110, <2>3, <2>4, to \in Nat, skip \in Nat, from \in Nat
  <2>6. \A i \in 1..Len(tail) : i \in 1..(to - from + 1) /\ i + from - 1 = i + skip
                                /\ i + skip \in 1..to
    BY ONLY <1>110, <2>3, <2>5, to \in Nat, skip \in Nat, from \in Nat
  <2>7. \A i \in 1..to : kept[i] = list[i]
    BY <1>8, <1>9, <2>1, <2>2
  <2>8. \A i \in 1..Len(tail) : tail[i] = list[i + skip]
    BY ONLY <2>4, <2>6, <2>7
  <2> QED BY <2>2, <2>4, <2>5, <2>8
<1>14. PICK cat \in Seq(S) : cat = out \o tail
  <2>1. out \o tail \in Seq(S)
    OBVIOUS
  <2> QED BY <2>1
<1>15. cat \in Seq(S) /\ Len(cat) = Len(out) + Len(tail)
  <2>1. out \in Seq(S) /\ tail \in Seq(S)
    BY <1>3, <1>13
  <2> QED BY ONLY <1>14, <2>1
<1>16. PICK new : new = FirstRows(cat, l)
  OBVIOUS
<1>17. /\ new \in Seq(S) /\ Len(new) \in Nat
       /\ l = Unbounded => new = cat
       /\ l # Unbounded => Len(new) = IF l < Len(cat) THEN l ELSE Len(cat)
       /\ \A i \in 1..Len(new) : new[i] = cat[i]
  <2>1. /\ FirstRows(cat, l) \in Seq(S)
        /\ l = Unbounded => FirstRows(cat, l) = cat
        /\ l # Unbounded => l \in Nat /\ Len(FirstRows(cat, l)) = IF l < Len(cat) THEN l ELSE Len(cat)
        /\ \A i \in 1..Len(FirstRows(cat, l)) : FirstRows(cat, l)[i] = cat[i]
    BY FirstRowsIs
  <2>2. Len(FirstRows(cat, l)) \in Nat
    BY <2>1
  <2> QED BY <1>16, <2>1, <2>2
<1>18. PICK both \in Seq(S) : both = done \o list
  <2>1. done \o list \in Seq(S)
    OBVIOUS
  <2> QED BY <2>1
<1>19. /\ both \in Seq(S) /\ Len(both) = d + a
       /\ \A i \in 1..d : both[i] = done[i]
       /\ \A i \in 1..a : both[d + i] = list[i]
  BY <1>1, <1>18
<1>21. /\ ref \in Seq(S) /\ Len(ref) \in Nat
       /\ l = Unbounded => Len(ref) = IF d + a > o THEN d + a - o ELSE 0
       /\ l # Unbounded => Len(ref) = LET n == IF d + a > o THEN d + a - o ELSE 0 IN IF n > l THEN l ELSE n
       /\ \A i \in 1..Len(ref) : ref[i] = both[i + o]
  <2> QED BY ONLY <1>20, <1>18
<1>220. PICK m \in Nat, n \in Nat, r \in Nat : m = Len(out) /\ n = Len(new) /\ r = Len(ref)
  BY <1>3, <1>17, <1>21
<1>221. skipped = (IF o > d THEN d ELSE o) /\ skip = (IF o - skipped < c THEN o - skipped ELSE c)
  BY <1>4, <1>11
<1>222. l = Unbounded => /\ m = (IF d > o THEN d - o ELSE 0) /\ c = a /\ n = m + (c - skip)
                         /\ r = IF d + a > o THEN d + a - o ELSE 0
  BY <1>3, <1>8, <1>9, <1>13, <1>15, <1>17, <1>21, <1>220
<1>223. ASSUME NEW k \in Nat, l # Unbounded, l = k
        PROVE  /\ c = (IF o + k < a THEN o + k ELSE a)
               /\ m = (LET x == IF d > o THEN d - o ELSE 0 IN IF x > k THEN k ELSE x)
               /\ n = (IF k < m + (c - skip) THEN k ELSE m + (c - skip))
               /\ r = LET x == IF d + a > o THEN d + a - o ELSE 0 IN IF x > k THEN k ELSE x
  BY <1>3, <1>8, <1>9, <1>13, <1>15, <1>17, <1>21, <1>220, <1>223
<1>22. n = r
  <2>1. CASE l = Unbounded
    <3>1. /\ m = (IF d > o THEN d - o ELSE 0) /\ c = a /\ n = m + (c - skip)
          /\ r = IF d + a > o THEN d + a - o ELSE 0
      BY <1>222, <2>1
    <3> QED BY ONLY <1>221, <3>1, d \in Nat, a \in Nat, o \in Nat, c \in Nat, m \in Nat, skip \in Nat, skipped \in Nat, n \in Nat, r \in Nat
  <2>2. CASE l # Unbounded
    <3>1. PICK k \in Nat : l = k
      BY <1>00, <2>2
    <3>2. /\ c = (IF o + k < a THEN o + k ELSE a)
          /\ m = (LET x == IF d > o THEN d - o ELSE 0 IN IF x > k THEN k ELSE x)
          /\ n = (IF k < m + (c - skip) THEN k ELSE m + (c - skip))
          /\ r = LET x == IF d + a > o THEN d + a - o ELSE 0 IN IF x > k THEN k ELSE x
      BY <1>223, <2>2, <3>1
    <3> QED BY ONLY <1>221, <3>2, d \in Nat, a \in Nat, o \in Nat, c \in Nat, m \in Nat, skip \in Nat, skipped \in Nat, n \in Nat, r \in Nat, k \in Nat
  <2> QED BY <2>1, <2>2
<1>23. \A i \in 1..Len(new) : new[i] = ref[i]
  <2> TAKE i \in 1..Len(new)
  <2>0. i \in Nat /\ i >= 1 /\ i <= Len(ref) /\ i \in 1..Len(ref) /\ i <= Len(cat)
        /\ (l # Unbounded => i <= l)
    <3>1. i <= Len(cat) /\ (l # Unbounded => i <= l)
      <4>1. CASE l = Unbounded
        BY <1>15, <1>17, <4>1
      <4>2. CASE l # Unbounded
        <5>1. l \in Nat /\ Len(cat) \in Nat
          BY <1>00, <1>15, <4>2
        <5> QED BY <1>17, <4>2, <5>1
      <4> QED BY <4>1, <4>2
    <3> QED BY <1>17, <1>220, <1>22, <3>1
  <2>1. CASE i <= Len(out)
    <3>1. cat[i] = out[i] /\ out[i] = done[i + o]
      BY <1>3, <1>13, <1>14, <2>0, <2>1
    <3>2. i + o \in 1..d
      <4>1. Len(out) <= (IF d > o THEN d - o ELSE 0)
        <5>1. CASE l = Unbounded
          BY <1>0, <1>1, <1>3, <5>1
        <5>2. CASE l # Unbounded
          BY <1>0, <1>1, <1>3, <5>2
        <5> QED BY <5>1, <5>2
      <4> QED BY <1>0, <1>1, <1>3, <2>0, <2>1, <4>1
    <3> QED BY <1>17, <1>19, <1>21, <2>0, <3>1, <3>2
  <2>2. CASE i > Len(out)
    <3>1. i - Len(out) \in 1..Len(tail)
      BY <1>3, <1>13, <1>15, <2>0, <2>2
    <3>2. cat[i] = tail[i - Len(out)]
      <4>1. out \in Seq(S) /\ tail \in Seq(S) /\ i \in Nat /\ i > Len(out) /\ i <= Len(out) + Len(tail)
        BY <1>3, <1>13, <1>15, <2>0, <2>2
      <4>2. (out \o tail)[i] = tail[i - Len(out)]
        BY ONLY <4>1
      <4> QED BY <1>14, <4>2
    <3>3. PICK j : j = (i - Len(out)) + skip
      OBVIOUS
    <3>4. tail[i - Len(out)] = list[j]
      BY <1>13, <3>1, <3>3
    <3>5. Len(out) = (IF d > o THEN d - o ELSE 0)
      <4>1. CASE l = Unbounded
        BY <1>3, <4>1
      <4>2. CASE l # Unbounded
        <5>1. l \in Nat /\ i <= l
          BY <1>00, <2>0, <4>2
        <5> QED BY <1>0, <1>1, <1>3, <2>0, <2>2, <4>2, <5>1
      <4> QED BY <4>1, <4>2
    <3>6. j \in 1..a /\ i + o = d + j
      <4>1. c <= a
        <5>1. CASE l = Unbounded
          BY <1>1, <1>8, <1>9, <5>1
        <5>2. CASE l # Unbounded
          BY <1>0, <1>1, <1>8, <1>9, <5>2
        <5> QED BY <5>1, <5>2
      <4>2. PICK y \in Nat : y = i
        BY <2>0
      <4>3. PICK p \in Nat : p = Len(out)
        BY <1>3
      <4>4. /\ y > p /\ y - p <= c - skip /\ j = (y - p) + skip
            /\ p = (IF d > o THEN d - o ELSE 0)
        BY <1>13, <2>2, <3>1, <3>3, <3>5, <4>2, <4>3
      <4>5. j \in 1..a /\ y + o = d + j
        BY ONLY <1>4, <1>11, <4>1, <4>4, d \in Nat, a \in Nat, o \in Nat, c \in Nat, p \in Nat,
                skip \in Nat, skipped \in Nat, y \in Nat
      <4> QED BY <4>2, <4>5
    <3>7. ref[i] = list[j]
      BY <1>19, <1>21, <2>0, <3>6
    <3> QED BY <1>17, <2>0, <3>2, <3>4, <3>7
  <2> QED BY <1>3, <2>0, <2>1, <2>2
<1>24. new = ref
  BY ONLY <1>17, <1>21, <1>220, <1>22, <1>23, SameSeq
<1>25. skipped + skip = IF o > d + a THEN d + a ELSE o
  <2>1. CASE l = Unbounded
    <3>1. c = a
      BY <1>8, <1>9, <2>1
    <3> QED BY ONLY <1>4, <1>11, <3>1, d \in Nat, a \in Nat, o \in Nat, c \in Nat,
            skip \in Nat, skipped \in Nat
  <2>2. CASE l # Unbounded
    <3>1. PICK k \in Nat : k = l
      BY <1>00, <2>2
    <3>2. c = IF o + k < a THEN o + k ELSE a
      BY <1>8, <1>9, <2>2, <3>1
    <3> QED BY ONLY <1>4, <1>11, <3>2, d \in Nat, a \in Nat, o \in Nat, c \in Nat, k \in Nat,
            skip \in Nat, skipped \in Nat
  <2> QED BY <2>1, <2>2
<1> QED BY <1>1, <1>2, <1>4, <1>5, <1>7, <1>9, <1>10, <1>11, <1>12, <1>14, <1>02, <1>16, <1>18, <1>19,
           <1>24, <1>25

Windows == [offset : Nat, limit : Limits]
Slices == [start : Nat, stop : Limits]
SliceStep(list, ss, f) ==
  f[0] = list /\ \A i \in 1..Len(ss) : f[i] = PySlice(f[i - 1], ss[i])

\* The plan that was not sliced is the whole list.
LEMMA WholeWindow ==
  ASSUME NEW S, NEW list \in Seq(S)
  PROVE  WindowOf(list, [offset |-> 0, limit |-> Unbounded]) = list
<1>1. PICK o \in Nat : o = 0
  OBVIOUS
<1>2. PICK l \in Limits : l = Unbounded
  BY DEF Limits
<1>3. PICK c : c = Cut(list, o, LimitOf(l))
  OBVIOUS
<1>4. PICK n \in Nat : n = Len(list)
  OBVIOUS
<1>5. n = IF Len(list) > o THEN Len(list) - o ELSE 0
  BY <1>1, <1>4
<1>6. c \in Seq(S) /\ Len(c) = n /\ \A i \in 1..Len(c) : c[i] = list[i + o]
  <2>1. /\ c \in Seq(S) /\ Len(c) \in Nat
        /\ l = Unbounded => Len(c) = IF Len(list) > o THEN Len(list) - o ELSE 0
        /\ \A i \in 1..Len(c) : c[i] = list[i + o]
    BY <1>3, WindowIs
  <2> QED BY <1>2, <1>5, <2>1
<1>7. \A i \in 1..Len(c) : c[i] = list[i]
  BY <1>1, <1>4, <1>6
<1>8. c = list
  BY ONLY <1>4, <1>6, <1>7, SameSeq, list \in Seq(S)
<1> QED BY <1>1, <1>2, <1>3, <1>8 DEF WindowOf

\* A slicing goes slice by slice.
LEMMA SlicingSteps ==
  ASSUME NEW list, NEW ss, NEW f, Len(ss) \in Nat, Slicing(list, ss, f)
  PROVE  SliceStep(list, ss, f)
<1>1. PICK n \in Nat : n = Len(ss)
  OBVIOUS
<1>2. f = [i \in 0..n |-> IF i = 0 THEN list ELSE PySlice(f[i - 1], ss[i])]
  BY <1>1 DEF Slicing
<1>3. \A i \in 0..n : f[i] = IF i = 0 THEN list ELSE PySlice(f[i - 1], ss[i])
  BY <1>2
<1>4. 0 \in 0..n /\ \A i \in 1..n : i \in 0..n /\ i # 0
  OBVIOUS
<1> QED BY <1>1, <1>3, <1>4 DEF SliceStep

\* Slicing a list one slice after the other has one result.
LEMMA SlicingUnique ==
  ASSUME NEW list, NEW ss, NEW f, NEW g, Len(ss) \in Nat, SliceStep(list, ss, f), SliceStep(list, ss, g)
  PROVE  f[Len(ss)] = g[Len(ss)]
<1> DEFINE T == {k \in Nat : k <= Len(ss) => f[k] = g[k]}
<1>1. 0 \in T
  BY DEF SliceStep
<1>2. \A k \in Nat : k \in T => k + 1 \in T
  <2> TAKE k \in Nat
  <2> HAVE k \in T
  <2> SUFFICES ASSUME k + 1 <= Len(ss) PROVE f[k + 1] = g[k + 1]
    OBVIOUS
  <2>1. f[k] = g[k] /\ k + 1 \in 1..Len(ss) /\ (k + 1) - 1 = k
    OBVIOUS
  <2> QED BY <2>1 DEF SliceStep
<1> HIDE DEF T
<1>3. Len(ss) \in T
  BY <1>1, <1>2, NatSet
<1> QED BY <1>3 DEF T

\* One more slice slices what the others made.
LEMMA SlicingExtends ==
  ASSUME NEW list, NEW ss \in Seq(Slices), NEW x \in Slices, NEW f, Slicing(list, ss, f)
  PROVE  \E g : Slicing(list, Append(ss, x), g) /\ g[Len(ss) + 1] = PySlice(f[Len(ss)], x)
<1>1. PICK n \in Nat : n = Len(ss)
  OBVIOUS
<1>2. PICK tt : tt = Append(ss, x)
  OBVIOUS
<1>3. Len(tt) = n + 1 /\ tt[n + 1] = x /\ \A i \in 1..n : tt[i] = ss[i]
  BY <1>1, <1>2
<1>4. f[0] = list /\ \A i \in 1..n : f[i] = PySlice(f[i - 1], ss[i])
  BY <1>1, SlicingSteps DEF SliceStep
<1>5. PICK g : g = [i \in 0..(n + 1) |-> IF i = n + 1 THEN PySlice(f[n], x) ELSE f[i]]
  OBVIOUS
<1>6. /\ g[n + 1] = PySlice(f[n], x)
      /\ \A i \in 0..n : g[i] = f[i]
  <2>1. n + 1 \in 0..(n + 1) /\ \A i \in 0..n : i \in 0..(n + 1) /\ i # n + 1
    OBVIOUS
  <2> QED BY <1>5, <2>1
<1>7. \A i \in 0..(n + 1) : g[i] = IF i = 0 THEN list ELSE PySlice(g[i - 1], tt[i])
  <2> TAKE i \in 0..(n + 1)
  <2>1. CASE i = 0
    <3>1. 0 \in 0..n
      OBVIOUS
    <3> QED BY <1>4, <1>6, <2>1, <3>1
  <2>2. CASE i = n + 1
    <3>1. i # 0 /\ i - 1 = n /\ n \in 0..n
      BY <2>2
    <3>2. g[n] = f[n] /\ tt[i] = x /\ g[i] = PySlice(f[n], x)
      BY <1>3, <1>6, <2>2, <3>1
    <3> QED BY <3>1, <3>2
  <2>3. CASE i # 0 /\ i # n + 1
    <3>1. i \in 1..n /\ i \in 0..n /\ i - 1 \in 0..n
      BY <2>3
    <3>2. g[i] = f[i] /\ g[i - 1] = f[i - 1] /\ tt[i] = ss[i] /\ f[i] = PySlice(f[i - 1], ss[i])
      BY <1>3, <1>4, <1>6, <3>1
    <3> QED BY <2>3, <3>2
  <2> QED BY <2>1, <2>2, <2>3
<1>8. g = [i \in 0..(n + 1) |-> g[i]]
  BY <1>5
<1>9. g = [i \in 0..(n + 1) |-> IF i = 0 THEN list ELSE PySlice(g[i - 1], tt[i])]
  BY <1>7, <1>8
<1>10. Slicing(list, tt, g)
  BY <1>3, <1>9 DEF Slicing
<1> QED BY <1>1, <1>2, <1>6, <1>10

\* Slicing a plan once more keeps it what its slices make of any list.
LEMMA SliceMore ==
  ASSUME NEW list \in Seq(UnionRow), NEW w \in Windows, NEW ss \in Seq(Slices),
         NEW start \in Nat, NEW stop \in Limits, NEW f,
         Slicing(list, ss, f), f[Len(ss)] = WindowOf(list, w)
  PROVE  LET tt == Append(ss, [start |-> start, stop |-> stop])
         IN \E g : Slicing(list, tt, g) /\ g[Len(tt)] = WindowOf(list, Sliced(w, start, stop))
<1>1. PICK x \in Slices : x = [start |-> start, stop |-> stop]
  BY DEF Slices
<1>2. PICK g : Slicing(list, Append(ss, x), g) /\ g[Len(ss) + 1] = PySlice(f[Len(ss)], x)
  BY SlicingExtends
<1>3. Len(Append(ss, x)) = Len(ss) + 1
  OBVIOUS
<1>4. PySlice(WindowOf(list, w), x) = WindowOf(list, Sliced(w, start, stop))
  BY <1>1, SliceCut DEF Windows
<1> QED BY <1>1, <1>2, <1>3, <1>4

\* The reference is what a slicing ends at.
LEMMA ReferenceIs ==
  ASSUME NEW c, NEW f, Len(slices) \in Nat, Slicing(Flat(c), slices, f)
  PROVE  Reference(c) = f[Len(slices)]
<1>1. PICK h : Slicing(Flat(c), slices, h) /\ Reference(c) = h[Len(slices)]
  <2>1. \E h : Slicing(Flat(c), slices, h)
    OBVIOUS
  <2> QED BY <2>1, Zenon DEF Reference, Slicing, Flat, Lists
<1> QED BY <1>1, SlicingSteps, SlicingUnique

\* The plan is a window of what was counted.
LEMMA ReferenceWindow ==
  ASSUME UnionType, SlicesInv, NEW c \in Seq(Nat)
  PROVE  /\ Flat(c) \in Seq(UnionRow) /\ Len(Flat(c)) \in Nat
         /\ Reference(c) = WindowOf(Flat(c), window)
<1>1. Flat(c) \in Seq(UnionRow) /\ Len(Flat(c)) \in Nat
  <2>1. PICK n \in Nat : n = 0
    OBVIOUS
  <2> QED BY ListsType
<1>2. PICK f : Slicing(Flat(c), slices, f) /\ f[Len(slices)] = WindowOf(Flat(c), window)
  BY <1>1 DEF SlicesInv
<1>3. Len(slices) \in Nat
  BY DEF UnionType
<1> QED BY <1>1, <1>2, <1>3, ReferenceIs

\* The invariant holds at first.
LEMMA UnionInitially == UnionInit => UnionIInv
<1> SUFFICES ASSUME UnionInit PROVE UnionIInv
  OBVIOUS
<1>1. Unbounded \notin Nat
  BY UnionAssumption
<1>2. PICK start \in Nat, stop \in Limits :
        /\ slices = Append(<<>>, [start |-> start, stop |-> stop])
        /\ window = Sliced([offset |-> 0, limit |-> Unbounded], start, stop)
  <2>1. window.offset \in Nat /\ window.limit \in {Unbounded, 2} /\ window = [offset |-> window.offset, limit |-> window.limit]
    BY DEF UnionInit
  <2>2. PICK o \in Nat : o = window.offset
    BY <2>1
  <2>3. CASE window.limit = Unbounded
    <3>1. slices = <<[start |-> o, stop |-> Unbounded]>> /\ window = [offset |-> o, limit |-> Unbounded]
      BY <2>1, <2>2, <2>3 DEF UnionInit
    <3>2. Sliced([offset |-> 0, limit |-> Unbounded], o, Unbounded) = [offset |-> o, limit |-> Unbounded]
      BY DEF Sliced, Least
    <3>3. o \in Nat /\ Unbounded \in Limits
      BY DEF Limits
    <3>4. slices = Append(<<>>, [start |-> o, stop |-> Unbounded])
      BY <3>1
    <3> QED BY <3>1, <3>2, <3>3, <3>4
  <2>4. CASE window.limit = 2
    <3>0. PICK s \in Nat : s = o + 2
      OBVIOUS
    <3>1. slices = <<[start |-> o, stop |-> s]>> /\ window = [offset |-> o, limit |-> 2]
      <4>1. 2 # Unbounded
        BY <1>1
      <4> QED BY <2>1, <2>2, <2>4, <3>0, <4>1 DEF UnionInit
    <3>2. Sliced([offset |-> 0, limit |-> Unbounded], o, s) = [offset |-> o, limit |-> 2]
      <4>1. s # Unbounded /\ Minus(s, o) = 2
        BY <1>1, <3>0 DEF Minus
      <4> QED BY <4>1 DEF Sliced, Least
    <3>3. s \in Limits
      BY DEF Limits
    <3>4. slices = Append(<<>>, [start |-> o, stop |-> s])
      BY <3>1
    <3> QED BY <3>1, <3>2, <3>3, <3>4
  <2> QED BY <2>1, <2>3, <2>4
<1>3. PICK w \in Windows : w = [offset |-> 0, limit |-> Unbounded]
  BY DEF Windows, Limits
<1>4. PICK x \in Slices : x = [start |-> start, stop |-> stop]
  BY DEF Slices
<1>5. window \in Windows
  BY <1>2, <1>3, SliceCut, <<>> \in Seq(UnionRow) DEF Windows
<1>6. slices \in Seq(Slices) /\ Len(slices) = 1
  BY <1>2, <1>4
<1>7. UnionType
  <2>1. size \in [Sources -> Nat]
    BY DEF UnionInit
  <2> QED BY <1>5, <1>6, <2>1 DEF UnionType, UnionInit, Windows, Slices
<1>8. SlicesInv
  <2> SUFFICES ASSUME NEW list \in Seq(UnionRow)
               PROVE  \E f : Slicing(list, slices, f) /\ f[Len(slices)] = WindowOf(list, window)
    BY DEF SlicesInv
  <2>1. PICK ss \in Seq(Slices) : ss = <<>>
    <3>1. <<>> \in Seq(Slices)
      OBVIOUS
    <3> QED BY <3>1
  <2>2. PICK f : f = [i \in 0..0 |-> list]
    OBVIOUS
  <2>3. Len(ss) = 0
    BY <2>1
  <2>4. Slicing(list, ss, f)
    <3>1. [i \in 0..0 |-> list] = [i \in 0..0 |-> IF i = 0 THEN list ELSE PySlice(f[i - 1], ss[i])]
      OBVIOUS
    <3> QED BY <2>2, <2>3, <3>1 DEF Slicing
  <2>5. f[Len(ss)] = WindowOf(list, w)
    <3>1. f[0] = list
      BY <2>2
    <3> QED BY <1>3, <2>3, <3>1, WholeWindow
  <2>6. \E g : /\ Slicing(list, Append(ss, [start |-> start, stop |-> stop]), g)
               /\ g[Len(Append(ss, [start |-> start, stop |-> stop]))] = WindowOf(list, Sliced(w, start, stop))
    BY <2>4, <2>5, SliceMore
  <2> QED BY <1>2, <1>3, <2>1, <2>6
<1>9. JobInv /\ AnswerInv
  BY DEF UnionInit, JobInv, AnswerInv, NoJob, NoAnswer
<1> QED BY <1>7, <1>8, <1>9 DEF UnionIInv

\* What is in progress.
LEMMA JobFacts ==
  ASSUME UnionType
  PROVE  /\ job.kind = "count" => job \in CountJob
         /\ job.kind = "execute" => job \in ExecuteJob
         /\ NoJob.kind # "count" /\ NoJob.kind # "execute"
<1>1. job = NoJob \/ job \in CountJob \/ job \in ExecuteJob
  BY DEF UnionType
<1>2. NoJob.kind = "idle"
  BY DEF NoJob
<1>3. job \in CountJob => job.kind = "count"
  BY DEF CountJob
<1>4. job \in ExecuteJob => job.kind = "execute"
  BY DEF ExecuteJob
<1> QED BY <1>1, <1>2, <1>3, <1>4

\* A slice of the plan is the plan sliced.
LEMMA SliceStepSound ==
  ASSUME UnionIInv, NEW start \in Bounds, NEW stop \in Bounds \cup {Unbounded}, Slice(start, stop)
  PROVE  UnionIInv'
<1>1. start \in Nat /\ stop \in Limits
  BY UnionAssumption DEF Limits
<1>2. PICK x \in Slices : x = [start |-> start, stop |-> stop]
  BY <1>1 DEF Slices
<1>3. window \in Windows /\ slices \in Seq(Slices)
  BY DEF UnionIInv, UnionType, Windows, Slices
<1>4. /\ window' = Sliced(window, start, stop) /\ slices' = Append(slices, x)
      /\ answer' = NoAnswer /\ size' = size /\ cache' = cache /\ job' = job /\ job = NoJob
  BY <1>2 DEF Slice
<1>5. window' \in Windows
  <2>1. PICK list : list \in Seq(UnionRow)
    BY <<>> \in Seq(UnionRow)
  <2> QED BY <1>1, <1>3, <1>4, <2>1, SliceCut DEF Windows
<1>6. slices' \in Seq(Slices)
  BY <1>3, <1>4
<1>7. UnionType'
  BY <1>4, <1>5, <1>6 DEF UnionIInv, UnionType, Windows, Slices
<1>8. SlicesInv'
  <2> SUFFICES ASSUME NEW list \in Seq(UnionRow)
               PROVE  \E g : Slicing(list, slices', g) /\ g[Len(slices')] = WindowOf(list, window')
    BY DEF SlicesInv
  <2>1. PICK f : Slicing(list, slices, f) /\ f[Len(slices)] = WindowOf(list, window)
    BY DEF UnionIInv, SlicesInv
  <2>2. \E g : /\ Slicing(list, Append(slices, [start |-> start, stop |-> stop]), g)
               /\ g[Len(Append(slices, [start |-> start, stop |-> stop]))]
                    = WindowOf(list, Sliced(window, start, stop))
    BY <1>1, <1>3, <2>1, SliceMore
  <2> QED BY <1>2, <1>4, <2>2
<1>9. JobInv' /\ AnswerInv'
  BY <1>4 DEF UnionIInv, JobInv, AnswerInv, NoJob, NoAnswer
<1> QED BY <1>7, <1>8, <1>9 DEF UnionIInv

\* A count goes source by source.
LEMMA CountStepSound ==
  ASSUME UnionIInv, StartCount \/ CountSource \/ Counted
  PROVE  UnionIInv'
<1> USE DEF UnionIInv
<1>1. window' = window /\ slices' = slices /\ size' = size /\ answer' = answer
  BY DEF StartCount, CountSource, Counted
<1>2. SlicesInv'
  BY <1>1 DEF SlicesInv
<1>3. CASE StartCount
  <2>1. job' = [kind |-> "count", k |-> 1, total |-> 0, counted |-> <<>>] /\ cache' = cache
    BY <1>3 DEF StartCount
  <2>2. job' \in CountJob /\ job'.kind = "count" /\ job'.counted = <<>> /\ job'.k = 1 /\ job'.total = 0
    BY <2>1 DEF CountJob
  <2>3. Len(Flat(<<>>)) = 0
    <3>1. Lists(<<>>) = <<>>
      BY DEF Lists
    <3>2. FlattenSeq(<<>>) = <<>>
      BY DEF FlattenSeq
    <3> QED BY <3>1, <3>2 DEF Flat
  <2>4. JobInv'
    BY <2>2, <2>3 DEF JobInv
  <2> QED BY <1>1, <1>2, <2>1, <2>2, <2>4 DEF UnionType, AnswerInv
<1>4. CASE CountSource
  <2>1. job \in CountJob /\ job.k \in 1..NSources
    <3>1. job \in CountJob
      BY <1>4, JobFacts DEF CountSource
    <3> QED BY <1>4, <3>1, UnionAssumption DEF CountSource, CountJob
  <2>2. PICK n \in Nat : n = size[job.k]
    BY <2>1 DEF UnionType, Sources
  <2>3. PICK counted \in Seq(Nat), k \in Nat \ {0}, total \in Nat :
           job = [kind |-> "count", k |-> k, total |-> total, counted |-> counted]
    BY <2>1 DEF CountJob
  <2>4. job' = [kind |-> "count", k |-> k + 1, total |-> total + n, counted |-> Append(counted, n)] /\ cache' = cache
    BY <1>4, <2>2, <2>3 DEF CountSource
  <2>5. Len(counted) = k - 1 /\ total = Len(Flat(counted))
    BY <2>3 DEF JobInv
  <2>6. /\ Append(counted, n) \in Seq(Nat) /\ Len(Append(counted, n)) = Len(counted) + 1
        /\ Len(Flat(Append(counted, n))) = Len(Flat(counted)) + n
    BY ListsType
  <2>7. PICK all : all = Append(counted, n)
    OBVIOUS
  <2>8. job' = [kind |-> "count", k |-> k + 1, total |-> total + n, counted |-> all]
    BY <2>4, <2>7
  <2>9. job' \in CountJob
    BY <2>6, <2>7, <2>8 DEF CountJob
  <2>10. Len(all) = (k + 1) - 1 /\ total + n = Len(Flat(all))
    BY <2>5, <2>6, <2>7
  <2>11. JobInv'
    BY <2>8, <2>10 DEF JobInv
  <2> QED BY <1>1, <1>2, <2>4, <2>9, <2>11 DEF UnionType, AnswerInv
<1>5. CASE Counted
  <2>1. job \in CountJob
    BY <1>5, JobFacts DEF Counted
  <2>2. cache' = [total |-> job.total, counted |-> job.counted] /\ job' = NoJob
    BY <1>5 DEF Counted
  <2>3. cache' \in [total : Nat, counted : Seq(Nat)] /\ cache'.total = Len(Flat(cache'.counted))
    BY <1>5, <2>1, <2>2 DEF CountJob, JobInv, Counted
  <2>4. JobInv'
    BY <2>2, JobFacts DEF JobInv
  <2> QED BY <1>1, <1>2, <2>2, <2>3, <2>4 DEF UnionType, AnswerInv
<1> QED BY <1>3, <1>4, <1>5

\* An execution goes source by source.
LEMMA ExecuteStepSound ==
  ASSUME UnionIInv, ExecuteSource
  PROVE  UnionIInv'
<1> USE DEF UnionIInv
<1>1. window' = window /\ slices' = slices /\ size' = size /\ answer' = answer /\ cache' = cache
  BY DEF ExecuteSource
<1>2. SlicesInv' /\ AnswerInv'
  BY <1>1 DEF SlicesInv, AnswerInv
<1>3. job \in ExecuteJob /\ job.k \in 1..NSources
  <2>1. job \in ExecuteJob
    BY JobFacts DEF ExecuteSource
  <2> QED BY <2>1, UnionAssumption DEF ExecuteSource, ExecuteJob
<1>4. PICK n \in Nat : n = size[job.k]
  BY <1>3 DEF UnionType, Sources
<1>5. PICK counted \in Seq(Nat), k \in Nat \ {0}, limit \in Limits, maximum \in Limits, skipped \in Nat, out \in Seq(UnionRow) :
        job = [kind |-> "execute", k |-> k, limit |-> limit, maximum |-> maximum, skipped |-> skipped,
               out |-> out, counted |-> counted]
  BY <1>3 DEF ExecuteJob
<1>6. PICK o \in Nat : o = window.offset
  BY DEF UnionType
<1>7. /\ Len(counted) = k - 1 /\ limit = Least(window.limit, maximum)
      /\ out = Cut(Flat(counted), o, LimitOf(limit))
      /\ skipped = IF o > Len(Flat(counted)) THEN Len(Flat(counted)) ELSE o
  BY <1>5, <1>6 DEF JobInv, Executing
<1>8. PICK child : child = FirstRows(RowsOf(k, n), IF limit = Unbounded THEN Unbounded ELSE o + limit)
  OBVIOUS
<1>9. PICK skip : skip = Least(Minus(o, skipped), Len(child))
  OBVIOUS
<1>10. PICK new : new = FirstRows(out \o SubSeq(child, skip + 1, Len(child)), limit)
  OBVIOUS
<1>11. job' = [kind |-> "execute", k |-> k + 1, limit |-> limit, maximum |-> maximum, skipped |-> skipped + skip,
               out |-> new, counted |-> Append(counted, n)]
  <2>1. PICK c : c = FirstRows(RowsOf(job.k, size[job.k]),
                               IF job.limit = Unbounded THEN Unbounded ELSE window.offset + job.limit)
    OBVIOUS
  <2>2. PICK s : s = Least(Minus(window.offset, job.skipped), Len(c))
    OBVIOUS
  <2>3. job' = [job EXCEPT !.k = @ + 1, !.skipped = @ + s, !.counted = Append(@, size[job.k]),
                  !.out = FirstRows(@ \o SubSeq(c, s + 1, Len(c)), job.limit)]
    BY <2>1, <2>2 DEF ExecuteSource
  <2>4. job.k = k /\ job.limit = limit /\ job.skipped = skipped /\ job.out = out /\ job.counted = counted
    BY <1>5
  <2>5. c = child
    BY <1>4, <1>6, <1>8, <2>1, <2>4
  <2>6. s = skip
    BY <1>6, <1>9, <2>2, <2>4, <2>5
  <2>7. job' = [job EXCEPT !.k = k + 1, !.skipped = skipped + skip, !.counted = Append(counted, n), !.out = new]
    <3>1. job' = [job EXCEPT !.k = @ + 1, !.skipped = @ + skip, !.counted = Append(@, n),
                    !.out = FirstRows(@ \o SubSeq(child, skip + 1, Len(child)), limit)]
      BY <1>4, <2>3, <2>4, <2>5, <2>6
    <3> QED BY <1>10, <2>4, <3>1
  <2> QED BY <1>5, <2>7
<1>12. /\ Flat(counted) \in Seq(UnionRow)
       /\ RowsOf(k, n) \in Seq(UnionRow)
       /\ Append(counted, n) \in Seq(Nat) /\ Len(Append(counted, n)) = k
       /\ Flat(Append(counted, n)) = Flat(counted) \o RowsOf(k, n)
  <2>1. Len(counted) + 1 = k
    BY <1>7
  <2> QED BY <2>1, ListsType
<1>13. PICK all : all = Append(counted, n)
  OBVIOUS
<1>14. /\ new = Cut(Flat(all), o, LimitOf(limit))
       /\ skipped + skip = IF o > Len(Flat(all)) THEN Len(Flat(all)) ELSE o
       /\ skip \in Nat
  <2>1. PICK done \in Seq(UnionRow), list \in Seq(UnionRow) : done = Flat(counted) /\ list = RowsOf(k, n)
    BY <1>12
  <2>2. /\ out = Cut(done, o, LimitOf(limit)) /\ skipped = IF o > Len(done) THEN Len(done) ELSE o
        /\ child = FirstRows(list, IF limit = Unbounded THEN Unbounded ELSE o + limit)
    BY <1>7, <1>8, <2>1
  <2>3. /\ new = Cut(done \o list, o, LimitOf(limit))
        /\ skipped + skip = IF o > Len(done \o list) THEN Len(done \o list) ELSE o
        /\ skip \in Nat
    BY <1>9, <1>10, <2>2, ExecuteCut
  <2>4. Flat(all) = done \o list
    BY <1>12, <1>13, <2>1
  <2> QED BY <2>3, <2>4
<1>15. new \in Seq(UnionRow)
  <2>1. PICK both \in Seq(UnionRow) : both = Flat(all)
    <3>1. PICK done \in Seq(UnionRow), list \in Seq(UnionRow) : done = Flat(counted) /\ list = RowsOf(k, n)
      BY <1>12
    <3>2. done \o list \in Seq(UnionRow)
      OBVIOUS
    <3> QED BY <1>12, <1>13, <3>1, <3>2
  <2> QED BY <1>14, <2>1, WindowIs
<1>16. job' = [kind |-> "execute", k |-> k + 1, limit |-> limit, maximum |-> maximum, skipped |-> skipped + skip,
               out |-> new, counted |-> all]
  BY <1>11, <1>13
<1>17. all \in Seq(Nat) /\ Len(all) = (k + 1) - 1
  BY <1>12, <1>13
<1>18. job' \in ExecuteJob
  BY <1>14, <1>15, <1>16, <1>17 DEF ExecuteJob
<1>19. JobInv'
  <2>1. /\ job'.kind = "execute" /\ job'.k = k + 1 /\ job'.limit = limit /\ job'.maximum = maximum
        /\ job'.skipped = skipped + skip /\ job'.out = new /\ job'.counted = all
    BY <1>16
  <2>2. Executing(job', window)
    BY <1>6, <1>7, <1>14, <1>17, <2>1 DEF Executing
  <2> QED BY <1>1, <2>1, <2>2 DEF JobInv
<1> QED BY <1>1, <1>2, <1>18, <1>19 DEF UnionType

\* The other steps change nothing that was answered.
LEMMA OtherStepSound ==
  ASSUME UnionIInv,
         \/ Length \/ Executed \/ SourceFails
         \/ \E s \in Sources : Grow(s)
         \/ \E maximum \in {Unbounded, 1, 2} : StartExecute(maximum)
  PROVE  UnionIInv'
<1> USE DEF UnionIInv
<1>1. window' = window /\ slices' = slices /\ cache' = cache
  BY DEF Length, Executed, SourceFails, Grow, StartExecute
<1>2. SlicesInv'
  BY <1>1 DEF SlicesInv
<1>3. CASE Length
  BY <1>1, <1>2, <1>3 DEF Length, UnionType, JobInv, AnswerInv
<1>4. CASE SourceFails
  <2>1. job' = NoJob /\ answer' = answer /\ size' = size
    BY <1>4 DEF SourceFails
  <2> QED BY <1>1, <1>2, <2>1, JobFacts DEF UnionType, JobInv, AnswerInv
<1>5. CASE \E s \in Sources : Grow(s)
  <2>1. PICK s \in Sources : size' = [size EXCEPT ![s] = @ + 1] /\ job' = job /\ answer' = answer
    BY <1>5 DEF Grow
  <2>2. size' \in [Sources -> Nat]
    BY <2>1 DEF UnionType
  <2> QED BY <1>1, <1>2, <2>1, <2>2 DEF UnionType, JobInv, AnswerInv
<1>6. CASE Executed
  <2>1. /\ job.kind = "execute" /\ job' = NoJob /\ size' = size
        /\ answer' = [kind |-> "rows", rows |-> job.out, maximum |-> job.maximum, counted |-> job.counted]
    BY <1>6 DEF Executed
  <2>2. job \in ExecuteJob
    BY <2>1, JobFacts
  <2>3. /\ job.counted \in Seq(Nat) /\ job.maximum \in Limits
        /\ job.out = Cut(Flat(job.counted), window.offset, LimitOf(Least(window.limit, job.maximum)))
    BY <2>1, <2>2 DEF JobInv, Executing, ExecuteJob
  <2>4. PICK taken, maximum, counted : taken = job.out /\ maximum = job.maximum /\ counted = job.counted
    OBVIOUS
  <2>5. answer'.rows = taken /\ answer'.maximum = maximum /\ answer'.counted = counted
    BY <2>1, <2>4
  <2>6. AnswerInv'
    BY <1>1, <2>3, <2>4, <2>5 DEF AnswerInv
  <2> QED BY <1>1, <1>2, <2>1, <2>6, JobFacts DEF UnionType, JobInv
<1>7. CASE \E maximum \in {Unbounded, 1, 2} : StartExecute(maximum)
  <2>1. PICK maximum \in {Unbounded, 1, 2} : StartExecute(maximum)
    BY <1>7
  <2>2. PICK m \in Limits : m = maximum
    BY <2>1 DEF Limits
  <2>3. /\ job' = [kind |-> "execute", k |-> 1, limit |-> Least(window.limit, m), maximum |-> m,
                   skipped |-> 0, out |-> <<>>, counted |-> <<>>]
        /\ size' = size /\ answer' = answer
    BY <2>1, <2>2 DEF StartExecute
  <2>4. window.limit \in Limits /\ window.offset \in Nat
    BY DEF UnionType, Limits
  <2>5. PICK limit \in Limits : limit = Least(window.limit, m)
    BY <2>4, LimitFacts
  <2>6. job' \in ExecuteJob
    BY <2>3, <2>5 DEF ExecuteJob
  <2>7. PICK none \in Seq(UnionRow) : none = <<>>
    <3>1. <<>> \in Seq(UnionRow)
      OBVIOUS
    <3> QED BY <3>1
  <2>8. Flat(<<>>) = none /\ Len(none) = 0
    <3>1. Lists(<<>>) = <<>>
      BY DEF Lists
    <3>2. FlattenSeq(<<>>) = <<>>
      BY DEF FlattenSeq
    <3> QED BY <2>7, <3>1, <3>2 DEF Flat
  <2>9. PICK o \in Nat : o = window.offset
    BY <2>4
  <2>10. Cut(none, o, LimitOf(limit)) = none
    <3>1. PICK c : c = Cut(none, o, LimitOf(limit))
      OBVIOUS
    <3>2. PICK n \in Nat : n = 0
      OBVIOUS
    <3>3. n = IF Len(none) > o THEN Len(none) - o ELSE 0
      BY <2>8, <3>2
    <3>4. /\ limit = Unbounded => Len(c) = n
          /\ limit # Unbounded => limit \in Nat /\ Len(c) = IF n > limit THEN limit ELSE n
      BY <3>1, <3>3, WindowIs
    <3>5. Len(c) = 0
      BY <3>2, <3>4
    <3>6. c \in Seq(UnionRow)
      BY <3>1, WindowIs
    <3> QED BY <2>7, <3>1, <3>5, <3>6
  <2>11. JobInv'
    <3>1. /\ job'.kind = "execute" /\ job'.k = 1 /\ job'.limit = limit /\ job'.maximum = m
          /\ job'.skipped = 0 /\ job'.out = none /\ job'.counted = <<>>
      BY <2>3, <2>5, <2>7
    <3>2. Executing(job', window)
      <4>1. 0 = IF o > Len(none) THEN Len(none) ELSE o
        BY <2>8
      <4> QED BY <2>5, <2>8, <2>9, <2>10, <3>1, <4>1 DEF Executing
    <3> QED BY <1>1, <3>1, <3>2 DEF JobInv
  <2> QED BY <1>1, <1>2, <2>3, <2>6, <2>11 DEF UnionType, AnswerInv
<1> QED BY <1>3, <1>4, <1>5, <1>6, <1>7

\* Every step keeps the invariant.
LEMMA UnionStep == UnionIInv /\ [UnionNext]_unionVars => UnionIInv'
<1> SUFFICES ASSUME UnionIInv, [UnionNext]_unionVars PROVE UnionIInv'
  OBVIOUS
<1>1. CASE StartCount \/ CountSource \/ Counted
  BY <1>1, CountStepSound
<1>2. CASE ExecuteSource
  BY <1>2, ExecuteStepSound
<1>3. ASSUME NEW start \in Bounds, NEW stop \in Bounds \cup {Unbounded}, Slice(start, stop)
      PROVE  UnionIInv'
  BY <1>3, SliceStepSound
<1>4. CASE \/ Length \/ Executed \/ SourceFails
           \/ \E s \in Sources : Grow(s)
           \/ \E maximum \in {Unbounded, 1, 2} : StartExecute(maximum)
  BY <1>4, OtherStepSound
<1>5. CASE UNCHANGED unionVars
  BY <1>5 DEF unionVars, UnionIInv, UnionType, SlicesInv, JobInv, AnswerInv
<1> QED BY <1>1, <1>2, <1>3, <1>4, <1>5 DEF UnionNext

\* The invariant says that the answer is the sliced list.
LEMMA UnionHolds == UnionIInv => SliceOfUnion
<1> SUFFICES ASSUME UnionIInv PROVE SliceOfUnion
  OBVIOUS
<1> USE DEF UnionIInv
<1>1. window.offset \in Nat /\ window.limit \in Limits
  BY DEF UnionType, Limits
<1>2. PICK o \in Nat, l \in Limits : o = window.offset /\ l = window.limit
  BY <1>1
<1>3. ASSUME answer.kind = "rows"
      PROVE  answer.rows = FirstRows(Reference(answer.counted), answer.maximum)
  <2>1. PICK counted \in Seq(Nat), m \in Limits : counted = answer.counted /\ m = answer.maximum
    BY <1>3 DEF AnswerInv
  <2>2. answer.rows = Cut(Flat(counted), o, LimitOf(Least(l, m)))
    BY <1>2, <1>3, <2>1 DEF AnswerInv
  <2>3. PICK list \in Seq(UnionRow) : list = Flat(counted)
    BY ReferenceWindow
  <2>4. Reference(counted) = Cut(list, o, LimitOf(l))
    BY <1>2, <2>3, ReferenceWindow DEF WindowOf
  <2>5. FirstRows(Cut(list, o, LimitOf(l)), m) = Cut(list, o, LimitOf(Least(l, m)))
    BY FirstCut
  <2> QED BY <2>1, <2>2, <2>3, <2>4, <2>5
<1>4. ASSUME cache # NoCount
      PROVE  Available = Len(Reference(cache.counted))
  <2>1. cache.counted \in Seq(Nat) /\ cache.total = Len(Flat(cache.counted))
    BY <1>4 DEF UnionType, AnswerInv
  <2>2. PICK counted \in Seq(Nat) : counted = cache.counted
    BY <2>1
  <2>3. PICK list \in Seq(UnionRow) : list = Flat(counted)
    BY ReferenceWindow
  <2>4. PICK cut : cut = Cut(list, o, LimitOf(l))
    OBVIOUS
  <2>5. Reference(counted) = cut
    BY <1>2, <2>3, <2>4, ReferenceWindow DEF WindowOf
  <2>6. PICK x \in Nat : x = Len(list)
    OBVIOUS
  <2>7. Minus(x, o) = (IF x > o THEN x - o ELSE 0) /\ Minus(x, o) \in Nat
    BY DEF Minus
  <2>8. PICK n \in Nat : n = Minus(x, o)
    BY <2>7
  <2>9. n = IF Len(list) > o THEN Len(list) - o ELSE 0
    BY <2>6, <2>7, <2>8
  <2>10. /\ l = Unbounded => Len(cut) = n
         /\ l # Unbounded => l \in Nat /\ Len(cut) = IF n > l THEN l ELSE n
    BY <2>4, <2>9, WindowIs
  <2>11. n \in Limits /\ n # Unbounded
    BY UnionAssumption DEF Limits
  <2>12. Least(n, l) = Len(cut)
    <3>1. CASE l = Unbounded
      BY <2>10, <2>11, <3>1, LimitFacts
    <3>2. CASE l # Unbounded
      <4>1. Least(n, l) = IF n < l THEN n ELSE l
        BY <2>11, <3>2, LimitFacts
      <4> QED BY <2>10, <3>2, <4>1
    <3> QED BY <3>1, <3>2
  <2>13. Available = Least(n, l)
    BY <1>2, <2>1, <2>2, <2>3, <2>6, <2>8 DEF Available
  <2> QED BY <2>2, <2>5, <2>12, <2>13
<1> QED BY <1>3, <1>4 DEF SliceOfUnion

\* The rows of an execution, and the count that slices of a plan share, are those
\* of Python's slices of the concatenated sources (FederatedUnionResultSet).
THEOREM UnionIsSliced == UnionSpec => []SliceOfUnion
<1>1. UnionInit => UnionIInv
  BY UnionInitially
<1>2. UnionIInv /\ [UnionNext]_unionVars => UnionIInv'
  BY UnionStep
<1>3. UnionIInv => SliceOfUnion
  BY UnionHolds
<1> QED BY <1>1, <1>2, <1>3, PTL DEF UnionSpec
=============================================================================
