---------------------------- MODULE ReadersProofs ----------------------------
(***************************************************************************)
(* What readers are shown is right, for any catalog, any orders, pages of  *)
(* any size, any staff and any ledger.  The library's rules of induction   *)
(* are about operators, which the provers cannot supply; Induction is the  *)
(* same rule about a set of numbers, and follows from counting.            *)
(***************************************************************************)
EXTENDS MCReaders, SequencesExt, Lists, SequenceTheorems, FiniteSetTheorems, TLAPS

-----------------------------------------------------------------------------
(***************************************************************************)
(* Counting.                                                               *)
(***************************************************************************)
\* A set of numbers that has 0 and with a number the next has all of them.
LEMMA Induction ==
    ASSUME NEW L, 0 \in L, \A n \in Nat : n \in L => n + 1 \in L
    PROVE  Nat \subseteq L
<1> SUFFICES ASSUME NEW n \in Nat, n \notin L PROVE FALSE
  OBVIOUS
<1> DEFINE A == {m \in 0..n : m \in L}
           f == [m \in A |-> m + 1]
<1>1. IsFiniteSet(A)
  <2>1. IsFiniteSet(0..n) /\ A \in SUBSET (0..n)
    BY FS_Interval
  <2> QED
    BY <2>1, FS_Subset
<1>2. A \in SUBSET Nat /\ 0 \in A /\ \A m \in A : m + 1 \in A \ {0}
  OBVIOUS
<1>3. f \in [A -> A \ {0}] /\ \A x, y \in A : f[x] = f[y] => x = y
  BY <1>2
<1>4. /\ IsFiniteSet(A \ {0}) /\ Cardinality(A \ {0}) = Cardinality(A) - 1
      /\ Cardinality(A) \in Nat
  BY <1>1, <1>2, FS_RemoveElement, FS_CardinalityType, Zenon
<1>5. Cardinality(A \ {0}) < Cardinality(A)
  BY <1>4
<1>6. \E x, y \in A : x # y /\ f[x] = f[y]
  <2> HIDE DEF f, A
  <2> QED
    BY <1>1, <1>3, <1>4, <1>5, FS_PigeonHole
<1> QED
  BY <1>3, <1>6

\* Some number of a set is the least.
LEMMA LeastNumber ==
    ASSUME NEW T, T \subseteq Nat, T # {}
    PROVE  \E n \in T : \A m \in T : n <= m
<1> SUFFICES ASSUME \A n \in T : \E m \in T : m < n PROVE FALSE
  OBVIOUS
<1> DEFINE L == {n \in Nat : \A m \in T : n <= m}
<1>1. 0 \in L
  OBVIOUS
<1>2. ASSUME NEW n \in Nat, n \in L PROVE n + 1 \in L
  BY <1>2
<1>3. Nat \subseteq L
  <2> HIDE DEF L
  <2> QED
    BY <1>1, <1>2, Induction
<1>4. PICK t \in T : TRUE
  BY Zenon
<1>5. t \in Nat /\ t + 1 \in L
  BY <1>3
<1> QED
  BY <1>4, <1>5

\* A part of a finite set that misses an element is smaller.
LEMMA SmallerPart ==
    ASSUME NEW T, IsFiniteSet(T), NEW S, S \subseteq T
    PROVE  /\ IsFiniteSet(S) /\ Cardinality(S) \in Nat /\ Cardinality(T) \in Nat
           /\ Cardinality(S) <= Cardinality(T)
           /\ S # T => Cardinality(S) < Cardinality(T)
<1>1. IsFiniteSet(S) /\ Cardinality(S) <= Cardinality(T)
      /\ (Cardinality(T) = Cardinality(S) => T = S)
  BY FS_Subset
<1>2. Cardinality(S) \in Nat /\ Cardinality(T) \in Nat
  BY <1>1, FS_CardinalityType
<1> QED
  BY <1>1, <1>2

\* A set counts as much as what its elements are mapped to one by one.
LEMMA SameSize ==
    ASSUME NEW S, IsFiniteSet(S), NEW f, f \in [S -> {f[x] : x \in S}],
           \A x, y \in S : f[x] = f[y] => x = y
    PROVE  /\ IsFiniteSet({f[x] : x \in S})
           /\ Cardinality({f[x] : x \in S}) = Cardinality(S)
<1> DEFINE T == {f[x] : x \in S}
<1>1. f \in Injection(S, T) /\ f \in Surjection(S, T)
  BY DEF Injection, Surjection, IsInjective
<1>2. ExistsBijection(S, T)
  <2> HIDE DEF T
  <2> QED
    BY <1>1 DEF ExistsBijection, Bijection
<1>3. IsFiniteSet(T) /\ Cardinality(T) = Cardinality(S)
  <2> HIDE DEF T
  <2> QED
    BY <1>2, FS_Bijection
<1> QED
  BY <1>3
-----------------------------------------------------------------------------
(***************************************************************************)
(* Lists and their pages.                                                  *)
(***************************************************************************)
\* Ranks count the positions of a list, without a gap.
LEMMA RanksAre ==
    ASSUME NEW N, N \subseteq Int, IsFiniteSet(N)
    PROVE  /\ Cardinality(N) \in Nat
           /\ \A n \in N : Rank(N, n) \in 0..Cardinality(N) - 1
           /\ \A n, m \in N : n < m <=> Rank(N, n) < Rank(N, m)
           /\ \A n, m \in N : Rank(N, n) = Rank(N, m) => n = m
           /\ \A k \in 0..Cardinality(N) - 1 : \E n \in N : Rank(N, n) = k
<1> DEFINE Below(n) == {m \in N : m < n}
<1>1. Cardinality(N) \in Nat
  BY FS_CardinalityType
<1>2. ASSUME NEW n \in N PROVE Rank(N, n) \in 0..Cardinality(N) - 1
  <2>1. Below(n) \subseteq N /\ n \notin Below(n)
    OBVIOUS
  <2>2. Cardinality(Below(n)) \in Nat /\ Cardinality(Below(n)) < Cardinality(N)
    BY <2>1, SmallerPart
  <2> QED
    BY <1>1, <2>2 DEF Rank
<1>3. ASSUME NEW n \in N, NEW m \in N, n < m PROVE Rank(N, n) < Rank(N, m)
  <2>1. /\ Below(n) \subseteq Below(m) /\ Below(n) # Below(m)
        /\ Below(m) \subseteq N
    <3>1. n \in Int /\ m \in Int
      OBVIOUS
    <3>2. n \in Below(m) /\ n \notin Below(n)
      BY <1>3, <3>1
    <3>3. Below(n) \subseteq Below(m)
      <4> SUFFICES ASSUME NEW x \in N, x < n PROVE x < m
        BY Zenon
      <4>1. x \in Int
        OBVIOUS
      <4> QED
        BY <1>3, <3>1, <4>1
    <3>4. Below(m) \subseteq N
      OBVIOUS
    <3> HIDE DEF Below
    <3> QED
      BY <3>2, <3>3, <3>4
  <2>2. IsFiniteSet(Below(m))
    BY <2>1, SmallerPart
  <2>3. Cardinality(Below(n)) < Cardinality(Below(m))
    BY <2>1, <2>2, SmallerPart
  <2> QED
    BY <2>3 DEF Rank
<1>4. \A n, m \in N : n < m <=> Rank(N, n) < Rank(N, m)
  BY <1>2, <1>3
<1>5. \A n, m \in N : Rank(N, n) = Rank(N, m) => n = m
  BY <1>2, <1>3
<1>6. ASSUME NEW k \in 0..Cardinality(N) - 1 PROVE \E n \in N : Rank(N, n) = k
  <2> DEFINE K == 0..Cardinality(N) - 1
             f == [n \in N |-> Rank(N, n)]
  <2>1. f \in Injection(N, K)
    BY <1>2, <1>5 DEF Injection, IsInjective
  <2>2. IsFiniteSet(K) /\ Cardinality(K) = Cardinality(N)
    BY <1>1, FS_Interval
  <2>3. f \in Surjection(N, K)
    <3> HIDE DEF f, K
    <3> QED
      BY <2>1, <2>2, FS_Injection
  <2> QED
    BY <2>3, Zenon DEF Surjection
<1> QED
  BY <1>1, <1>2, <1>4, <1>5, <1>6

\* The list of what is at some positions has them in their order, each once.
LEMMA ChosenIs ==
    ASSUME NEW S, NEW s \in Seq(S), NEW N, N \subseteq DOMAIN s
    PROVE  /\ IsFiniteSet(N) /\ Cardinality(N) \in Nat
           /\ Chosen(s, N) \in Seq(S) /\ Len(Chosen(s, N)) = Cardinality(N)
           /\ \A n \in N : /\ Rank(N, n) \in 0..Cardinality(N) - 1
                           /\ Chosen(s, N)[Rank(N, n) + 1] = s[n]
           /\ \A k \in 1..Cardinality(N) : \E n \in N : /\ Rank(N, n) + 1 = k
                                                        /\ Chosen(s, N)[k] = s[n]
           /\ \A n, m \in N : n < m <=> Rank(N, n) < Rank(N, m)
<1>1. N \subseteq 1..Len(s) /\ Len(s) \in Nat
  OBVIOUS
<1>2. IsFiniteSet(N) /\ N \subseteq Int
  <2>1. IsFiniteSet(1..Len(s))
    BY <1>1, FS_Interval
  <2> QED
    BY <1>1, <2>1, SmallerPart
<1>3. Cardinality(N) \in Nat /\ \A n \in N : Rank(N, n) \in 0..Cardinality(N) - 1
  BY <1>2, RanksAre
<1>4. ASSUME NEW n \in N, NEW k \in 1..Cardinality(N), k = Rank(N, n) + 1
      PROVE  Chosen(s, N)[k] = s[n]
  <2>1. n = CHOOSE m \in N : Rank(N, m) = k - 1
    BY <1>2, <1>3, <1>4, RanksAre
  <2> QED
    BY <2>1, Zenon DEF Chosen
<1>5. ASSUME NEW k \in 1..Cardinality(N)
      PROVE  \E n \in N : /\ Rank(N, n) + 1 = k
                          /\ Chosen(s, N)[k] = s[n]
  <2>1. k - 1 \in 0..Cardinality(N) - 1
    BY <1>3
  <2>2. PICK n \in N : Rank(N, n) = k - 1
    BY <1>2, <2>1, RanksAre
  <2> QED
    BY <1>4, <2>2
<1>6. Chosen(s, N) \in Seq(S) /\ Len(Chosen(s, N)) = Cardinality(N)
  <2>1. \A n \in N : s[n] \in S
    BY <1>1
  <2>2. \A k \in 1..Cardinality(N) : Chosen(s, N)[k] \in S
    BY <1>5, <2>1
  <2>3. Chosen(s, N) = [k \in 1..Cardinality(N) |-> Chosen(s, N)[k]]
    BY DEF Chosen
  <2> QED
    BY <1>3, <2>2, <2>3
<1>7. \A n \in N : Chosen(s, N)[Rank(N, n) + 1] = s[n]
  BY <1>3, <1>4
<1>8. \A n, m \in N : n < m <=> Rank(N, n) < Rank(N, m)
  BY <1>2, RanksAre
<1> QED
  BY <1>2, <1>3, <1>5, <1>6, <1>7, <1>8

\* What is removed leaves the rest in its order.
LEMMA RemovedIs ==
    ASSUME NEW S, NEW s \in Seq(S), NEW k \in 1..Len(s)
    PROVE  /\ RemoveAt(s, k) \in Seq(S) /\ Len(RemoveAt(s, k)) = Len(s) - 1
           /\ \A n \in 1..Len(s) - 1 :
                RemoveAt(s, k)[n] = IF n < k THEN s[n] ELSE s[n + 1]
<1> DEFINE front == SubSeq(s, 1, k - 1)
           back == SubSeq(s, k + 1, Len(s))
<1>1. /\ Len(s) \in Nat /\ front \in Seq(S) /\ Len(front) = k - 1
      /\ \A n \in 1..k - 1 : front[n] = s[n]
  OBVIOUS
<1>2. /\ back \in Seq(S) /\ Len(back) = Len(s) - k
      /\ \A n \in 1..Len(s) - k : back[n] = s[n + k]
  <2>1. \A n \in 1..Len(s) - k : back[n] = s[(k + 1) + n - 1]
    BY <1>1, SubSeqProperties
  <2> QED
    BY <1>1, <2>1, SubSeqProperties
<1>3. RemoveAt(s, k) = front \o back
  BY DEF RemoveAt
<1> HIDE DEF front, back
<1>4. /\ front \o back \in Seq(S) /\ Len(front \o back) = Len(s) - 1
      /\ \A n \in 1..Len(s) - 1 :
           (front \o back)[n] = IF n <= k - 1 THEN front[n] ELSE back[n - (k - 1)]
  <2>1. /\ front \o back \in Seq(S) /\ Len(front \o back) = Len(front) + Len(back)
        /\ \A n \in 1..Len(front) + Len(back) :
             (front \o back)[n] = IF n <= Len(front) THEN front[n] ELSE back[n - Len(front)]
    BY <1>1, <1>2, ConcatProperties, Zenon
  <2> QED
    BY <1>1, <1>2, <2>1
<1>5. ASSUME NEW n \in 1..Len(s) - 1
      PROVE  (front \o back)[n] = IF n < k THEN s[n] ELSE s[n + 1]
  <2>1. CASE n < k
    BY <1>1, <1>4, <2>1
  <2>2. CASE ~(n < k)
    <3>1. n - (k - 1) \in 1..Len(s) - k /\ (n - (k - 1)) + k = n + 1
      BY <1>1, <2>2
    <3>2. (front \o back)[n] = back[n - (k - 1)]
      BY <1>1, <1>4, <2>2
    <3>3. back[n - (k - 1)] = s[(n - (k - 1)) + k]
      BY <1>2, <3>1
    <3> QED
      BY <2>2, <3>1, <3>2, <3>3
  <2> QED
    BY <2>1, <2>2, Zenon
<1> QED
  BY <1>3, <1>4, <1>5

\* What is inserted leaves the others in their order.
Inserted(longer, s, k, e) ==
    /\ Len(longer) = Len(s) + 1
    /\ \A n \in 1..Len(s) + 1 :
         longer[n] = IF n < k THEN s[n] ELSE IF n = k THEN e ELSE s[n - 1]

LEMMA InsertedIs ==
    ASSUME NEW S, NEW s \in Seq(S), NEW k \in 1..Len(s) + 1, NEW e \in S
    PROVE  InsertAt(s, k, e) \in Seq(S) /\ Inserted(InsertAt(s, k, e), s, k, e)
<1> DEFINE front == SubSeq(s, 1, k - 1) \o <<e>>
           back == SubSeq(s, k, Len(s))
<1>1. /\ Len(s) \in Nat /\ SubSeq(s, 1, k - 1) \in Seq(S)
      /\ Len(SubSeq(s, 1, k - 1)) = k - 1
      /\ \A n \in 1..k - 1 : SubSeq(s, 1, k - 1)[n] = s[n]
  OBVIOUS
<1>2. /\ front \in Seq(S) /\ Len(front) = k
      /\ \A n \in 1..k : front[n] = IF n < k THEN s[n] ELSE e
  <2> DEFINE few == SubSeq(s, 1, k - 1)
             one == <<e>>
  <2>1. one \in Seq(S) /\ Len(one) = 1 /\ one[1] = e
    OBVIOUS
  <2>2. few \in Seq(S) /\ Len(few) = k - 1 /\ \A n \in 1..k - 1 : few[n] = s[n]
    BY <1>1
  <2>3. front = few \o one
    OBVIOUS
  <2> HIDE DEF few, one, front
  <2>4. /\ front \in Seq(S) /\ Len(front) = Len(few) + Len(one)
        /\ \A n \in 1..Len(few) + Len(one) :
             front[n] = IF n <= Len(few) THEN few[n] ELSE one[n - Len(few)]
    BY <2>1, <2>2, <2>3, ConcatProperties, Zenon
  <2>5. Len(few) + Len(one) = k /\ \A n \in 1..k : n <= k - 1 \/ n = k
    BY <1>1, <2>1, <2>2
  <2>6. ASSUME NEW n \in 1..k PROVE front[n] = IF n < k THEN s[n] ELSE e
    <3>1. CASE n = k
      <4>1. n - Len(few) = 1 /\ ~(n <= Len(few)) /\ n \in 1..Len(few) + Len(one)
        BY <1>1, <2>1, <2>2, <3>1
      <4> QED
        BY <2>1, <2>4, <3>1, <4>1
    <3>2. CASE n # k
      <4>1. n \in 1..k - 1 /\ n <= Len(few) /\ n \in 1..Len(few) + Len(one) /\ n < k
        BY <1>1, <2>1, <2>2, <3>2
      <4> QED
        BY <2>2, <2>4, <4>1, Zenon
    <3> QED
      BY <3>1, <3>2
  <2> QED
    BY <2>4, <2>5, <2>6
<1>3. /\ back \in Seq(S) /\ Len(back) = Len(s) - k + 1
      /\ \A n \in 1..Len(s) - k + 1 : back[n] = s[k + n - 1]
  BY <1>1, SubSeqProperties
<1>4. InsertAt(s, k, e) = front \o back
  BY DEF InsertAt
<1> HIDE DEF front, back
<1>5. /\ front \o back \in Seq(S) /\ Len(front \o back) = Len(s) + 1
      /\ \A n \in 1..Len(s) + 1 :
           (front \o back)[n] = IF n <= k THEN front[n] ELSE back[n - k]
  <2>1. /\ front \o back \in Seq(S) /\ Len(front \o back) = Len(front) + Len(back)
        /\ \A n \in 1..Len(front) + Len(back) :
             (front \o back)[n] = IF n <= Len(front) THEN front[n] ELSE back[n - Len(front)]
    BY <1>2, <1>3, ConcatProperties
  <2>2. Len(front) = k /\ Len(front) + Len(back) = Len(s) + 1
    BY <1>1, <1>2, <1>3
  <2> QED
    BY <2>1, <2>2
<1>6. ASSUME NEW n \in 1..Len(s) + 1
      PROVE  (front \o back)[n] = IF n < k THEN s[n] ELSE IF n = k THEN e ELSE s[n - 1]
  <2>1. CASE n <= k
    BY <1>2, <1>5, <2>1
  <2>2. CASE ~(n <= k)
    <3>1. n - k \in 1..Len(s) - k + 1 /\ k + (n - k) - 1 = n - 1
      BY <1>1, <2>2
    <3>2. (front \o back)[n] = back[n - k] /\ back[n - k] = s[k + (n - k) - 1]
      BY <1>3, <1>5, <2>2, <3>1, Zenon
    <3> QED
      BY <2>2, <3>1, <3>2
  <2> QED
    BY <2>1, <2>2, Zenon
<1> QED
  BY <1>4, <1>5, <1>6 DEF Inserted

\* Who is taken along in his order is ranked no higher among more.
LEMMA RanksGrow ==
    ASSUME NEW N, NEW M, N \subseteq Int, M \subseteq Int, IsFiniteSet(N), IsFiniteSet(M),
           NEW f, f \in [N -> M], \A a, b \in N : a < b <=> f[a] < f[b],
           NEW n \in N
    PROVE  Rank(N, n) \in Nat /\ Rank(M, f[n]) \in Nat /\ Rank(N, n) <= Rank(M, f[n])
<1> DEFINE below == {a \in N : a < n}
           above == {b \in M : b < f[n]}
           g == [a \in below |-> f[a]]
<1>1. below \subseteq N /\ above \subseteq M
  OBVIOUS
<1>2. IsFiniteSet(below) /\ IsFiniteSet(above)
  <2> HIDE DEF below, above
  <2> QED
    BY <1>1, SmallerPart, Zenon
<1>3. \A a, b \in below : g[a] = g[b] => a = b
  <2> SUFFICES ASSUME NEW a \in below, NEW b \in below, f[a] = f[b] PROVE a = b
    OBVIOUS
  <2>1. a \in Int /\ b \in Int /\ a \in N /\ b \in N /\ f[a] \in Int /\ f[b] \in Int
    BY Zenon
  <2>2. ~(a < b) /\ ~(b < a)
    BY <2>1
  <2> QED
    BY <2>1, <2>2
<1>4. g \in [below -> {g[a] : a \in below}]
  BY Zenon
<1>5. {g[a] : a \in below} \subseteq above
  OBVIOUS
<1>6. Cardinality({g[a] : a \in below}) = Cardinality(below)
  <2> HIDE DEF below, g
  <2> QED
    BY <1>2, <1>3, <1>4, SameSize
<1>7. /\ Cardinality({g[a] : a \in below}) <= Cardinality(above)
      /\ Cardinality({g[a] : a \in below}) \in Nat /\ Cardinality(above) \in Nat
  <2> HIDE DEF below, above, g
  <2> QED
    BY <1>2, <1>5, SmallerPart
<1> QED
  BY <1>6, <1>7 DEF Rank

-----------------------------------------------------------------------------
(***************************************************************************)
(* Sums.                                                                   *)
(***************************************************************************)
\* A table of numbers can be added up, one after the other.
LEMMA SumsExist ==
    ASSUME NEW N \in Nat, NEW a, \A n \in 1..N : a[n] \in Int
    PROVE  \E g : g = [n \in 0..N |-> IF n = 0 THEN 0 ELSE g[n - 1] + a[n]]
<1> DEFINE Good(m, g) == /\ g \in [0..m -> Int] /\ g[0] = 0
                         /\ \A n \in 1..m : g[n] = g[n - 1] + a[n]
           L == {m \in Nat : m <= N => \E g : Good(m, g)}
<1>1. 0 \in L
  <2>1. Good(0, [n \in 0..0 |-> 0])
    OBVIOUS
  <2> QED
    BY <2>1, Zenon
<1>2. ASSUME NEW m \in Nat, m \in L PROVE m + 1 \in L
  <2> SUFFICES ASSUME m + 1 <= N PROVE \E g : Good(m + 1, g)
    OBVIOUS
  <2>1. m <= N /\ m + 1 \in 1..N
    OBVIOUS
  <2>2. PICK g : Good(m, g)
    BY <1>2, <2>1, Zenon
  <2> DEFINE h == [n \in 0..m + 1 |-> IF n = m + 1 THEN g[m] + a[m + 1] ELSE g[n]]
  <2>3. g[m] \in Int /\ a[m + 1] \in Int
    BY <2>1, <2>2
  <2>4. h \in [0..m + 1 -> Int]
    BY <2>2, <2>3
  <2>5. h[0] = 0
    BY <2>2
  <2>6. ASSUME NEW n \in 1..m + 1 PROVE h[n] = h[n - 1] + a[n]
    <3>1. CASE n = m + 1
      BY <3>1
    <3>2. CASE n # m + 1
      BY <2>2, <3>2
    <3> QED
      BY <3>1, <3>2
  <2> QED
    BY <2>4, <2>5, <2>6, Zenon
<1>3. Nat \subseteq L
  <2> HIDE DEF L
  <2> QED
    BY <1>1, <1>2, Induction
<1>4. PICK g : Good(N, g)
  BY <1>3
<1>5. g = [n \in 0..N |-> IF n = 0 THEN 0 ELSE g[n - 1] + a[n]]
  <2>1. g = [n \in 0..N |-> g[n]]
    BY <1>4
  <2>2. \A n \in 0..N : g[n] = IF n = 0 THEN 0 ELSE g[n - 1] + a[n]
    BY <1>4
  <2> QED
    BY <2>1, <2>2, Zenon
<1> QED
  BY <1>5

\* Sums are what they are defined as.
LEMMA SumsAre ==
    ASSUME NEW N \in Nat, NEW a \in [1..N -> Int]
    PROVE  /\ Sums(a)[0] = 0
           /\ \A n \in 1..N : Sums(a)[n] = Sums(a)[n - 1] + a[n]
           /\ \A n \in 0..N : Sums(a)[n] \in Int
           /\ SumOf(a) = Sums(a)[N]
<1>1. Len(a) = N
  OBVIOUS
<1>2. \E g : g = [n \in 0..N |-> IF n = 0 THEN 0 ELSE g[n - 1] + a[n]]
  BY SumsExist, Zenon
<1>3. Sums(a) = [n \in 0..N |-> IF n = 0 THEN 0 ELSE Sums(a)[n - 1] + a[n]]
  <2>1. Sums(a) = CHOOSE g : g = [n \in 0..N |-> IF n = 0 THEN 0 ELSE g[n - 1] + a[n]]
    BY <1>1 DEF Sums
  <2> QED
    BY <1>2, <2>1, Zenon
<1>4. Sums(a)[0] = 0 /\ \A n \in 1..N : Sums(a)[n] = Sums(a)[n - 1] + a[n]
  BY <1>3
<1>5. \A n \in 0..N : Sums(a)[n] \in Int
  <2> DEFINE L == {n \in Nat : n <= N => Sums(a)[n] \in Int}
  <2>1. 0 \in L
    BY <1>4
  <2>2. ASSUME NEW n \in Nat, n \in L PROVE n + 1 \in L
    <3> SUFFICES ASSUME n + 1 <= N PROVE Sums(a)[n + 1] \in Int
      OBVIOUS
    <3>1. n + 1 \in 1..N /\ Sums(a)[n] \in Int /\ a[n + 1] \in Int
      BY <2>2
    <3> QED
      BY <1>4, <3>1
  <2>3. Nat \subseteq L
    <3> HIDE DEF L
    <3> QED
      BY <2>1, <2>2, Induction
  <2> QED
    BY <2>3
<1> QED
  BY <1>1, <1>4, <1>5 DEF SumOf

\* The sum of sums.
LEMMA SumAdds ==
    ASSUME NEW N \in Nat, NEW a \in [1..N -> Int], NEW b \in [1..N -> Int],
           NEW c \in [1..N -> Int], \A n \in 1..N : c[n] = a[n] + b[n]
    PROVE  SumOf(c) = SumOf(a) + SumOf(b)
<1>1. c \in [1..N -> Int] /\ \A n \in 1..N : c[n] = a[n] + b[n]
  OBVIOUS
<1> DEFINE L == {n \in Nat : n <= N => Sums(c)[n] = Sums(a)[n] + Sums(b)[n]}
<1>a. /\ Sums(a)[0] = 0 /\ SumOf(a) = Sums(a)[N] /\ \A n \in 0..N : Sums(a)[n] \in Int
      /\ \A n \in 1..N : Sums(a)[n] = Sums(a)[n - 1] + a[n]
  BY SumsAre, Zenon
<1>b. /\ Sums(b)[0] = 0 /\ SumOf(b) = Sums(b)[N] /\ \A n \in 0..N : Sums(b)[n] \in Int
      /\ \A n \in 1..N : Sums(b)[n] = Sums(b)[n - 1] + b[n]
  BY SumsAre, Zenon
<1>c. /\ Sums(c)[0] = 0 /\ SumOf(c) = Sums(c)[N]
      /\ \A n \in 1..N : Sums(c)[n] = Sums(c)[n - 1] + c[n]
  BY <1>1, SumsAre, Zenon
<1>2. 0 \in L
  BY <1>a, <1>b, <1>c
<1>3. ASSUME NEW n \in Nat, n \in L PROVE n + 1 \in L
  <2> SUFFICES ASSUME n + 1 <= N PROVE Sums(c)[n + 1] = Sums(a)[n + 1] + Sums(b)[n + 1]
    OBVIOUS
  <2>1. n + 1 \in 1..N /\ n \in 0..N /\ (n + 1) - 1 = n /\ Sums(c)[n] = Sums(a)[n] + Sums(b)[n]
    BY <1>3
  <2>2. /\ Sums(a)[n + 1] = Sums(a)[n] + a[n + 1] /\ Sums(a)[n] \in Int
        /\ Sums(b)[n + 1] = Sums(b)[n] + b[n + 1] /\ Sums(b)[n] \in Int
        /\ Sums(c)[n + 1] = Sums(c)[n] + c[n + 1]
    BY <1>a, <1>b, <1>c, <2>1, Zenon
  <2>3. a[n + 1] \in Int /\ b[n + 1] \in Int /\ c[n + 1] = a[n + 1] + b[n + 1]
    BY <1>1, <2>1
  <2> QED
    BY <2>1, <2>2, <2>3
<1>4. Nat \subseteq L
  <2> HIDE DEF L
  <2> QED
    BY <1>2, <1>3, Induction, Zenon
<1>5. Sums(c)[N] = Sums(a)[N] + Sums(b)[N]
  BY <1>4
<1> QED
  BY <1>5, <1>a, <1>b, <1>c

\* The sum of a table that has one number, and else nothing.
LEMMA SumOfOne ==
    ASSUME NEW N \in Nat, NEW e \in 1..N, NEW v \in Int,
           NEW a \in [1..N -> Int], \A n \in 1..N : a[n] = IF n = e THEN v ELSE 0
    PROVE  SumOf(a) = v
<1>1. a \in [1..N -> Int] /\ \A n \in 1..N : a[n] = IF n = e THEN v ELSE 0
  OBVIOUS
<1> DEFINE L == {n \in Nat : n <= N => Sums(a)[n] = IF e <= n THEN v ELSE 0}
<1>2. 0 \in L
  BY <1>1, SumsAre
<1>3. ASSUME NEW n \in Nat, n \in L PROVE n + 1 \in L
  <2> SUFFICES ASSUME n + 1 <= N PROVE Sums(a)[n + 1] = IF e <= n + 1 THEN v ELSE 0
    OBVIOUS
  <2>1. n + 1 \in 1..N /\ (n + 1) - 1 = n /\ Sums(a)[n] = IF e <= n THEN v ELSE 0
    BY <1>3
  <2>2. Sums(a)[n + 1] = Sums(a)[n] + a[n + 1]
    <3>1. \A k \in 1..N : Sums(a)[k] = Sums(a)[k - 1] + a[k]
      BY SumsAre, Zenon
    <3> QED
      BY <2>1, <3>1
  <2> QED
    BY <1>1, <2>1, <2>2
<1>4. Nat \subseteq L
  <2> HIDE DEF L
  <2> QED
    BY <1>2, <1>3, Induction, Zenon
<1>5. Sums(a)[N] = v
  BY <1>4
<1> QED
  BY <1>1, <1>5, SumsAre

\* The sum of a table that has nothing.
LEMMA SumOfNone ==
    ASSUME NEW N \in Nat, NEW a \in [1..N -> Int], \A n \in 1..N : a[n] = 0
    PROVE  SumOf(a) = 0
<1>1. a \in [1..N -> Int] /\ \A n \in 1..N : a[n] = 0
  OBVIOUS
<1> DEFINE L == {n \in Nat : n <= N => Sums(a)[n] = 0}
<1>2. 0 \in L
  BY <1>1, SumsAre
<1>3. ASSUME NEW n \in Nat, n \in L PROVE n + 1 \in L
  <2> SUFFICES ASSUME n + 1 <= N PROVE Sums(a)[n + 1] = 0
    OBVIOUS
  <2>1. n + 1 \in 1..N /\ (n + 1) - 1 = n /\ Sums(a)[n] = 0
    BY <1>3
  <2>2. Sums(a)[n + 1] = Sums(a)[n] + a[n + 1]
    <3>1. \A k \in 1..N : Sums(a)[k] = Sums(a)[k - 1] + a[k]
      BY SumsAre
    <3> QED
      BY <2>1, <3>1, Zenon
  <2> QED
    BY <1>1, <2>1, <2>2
<1>4. Nat \subseteq L
  <2> HIDE DEF L
  <2> QED
    BY <1>2, <1>3, Induction
<1>5. Sums(a)[N] = 0
  BY <1>4
<1> QED
  BY <1>1, <1>5, SumsAre

\* What is sorted into boxes adds up, box by box, to the whole.
BoxSums(a, box, N, D) ==
    [d \in 1..D |-> SumOf([n \in 1..N |-> IF box[n] = d THEN a[n] ELSE 0])]

LEMMA BoxesAddUp ==
    ASSUME NEW N \in Nat, NEW a \in [1..N -> Int],
           NEW D \in Nat, NEW box \in [1..N -> 1..D]
    PROVE  SumOf(BoxSums(a, box, N, D)) = SumOf(a)
<1> DEFINE sums == BoxSums(a, box, N, D)
<1>a. sums = [d \in 1..D |-> SumOf([n \in 1..N |-> IF box[n] = d THEN a[n] ELSE 0])]
  BY DEF BoxSums
<1> HIDE DEF sums
<1> DEFINE Row(d) == [n \in 1..N |-> IF box[n] = d THEN a[n] ELSE 0]
           Part(m) == [d \in 1..D |-> Sums(Row(d))[m]]
           L == {m \in Nat : m <= N => SumOf(Part(m)) = Sums(a)[m]}
<1>1. ASSUME NEW d PROVE Row(d) \in [1..N -> Int]
  OBVIOUS
<1>2. ASSUME NEW d
      PROVE  /\ Sums(Row(d))[0] = 0 /\ SumOf(Row(d)) = Sums(Row(d))[N]
             /\ \A n \in 1..N : /\ Sums(Row(d))[n] = Sums(Row(d))[n - 1] + Row(d)[n]
                                /\ Row(d)[n] = IF box[n] = d THEN a[n] ELSE 0
             /\ \A n \in 0..N : Sums(Row(d))[n] \in Int
  <2>1. \A n \in 1..N : Row(d)[n] = IF box[n] = d THEN a[n] ELSE 0
    OBVIOUS
  <2> HIDE DEF Row
  <2> QED
    BY <1>1, <2>1, SumsAre
<1> HIDE DEF Row
<1>3. 0 \in L
  <2>1. Part(0) \in [1..D -> Int] /\ \A d \in 1..D : Part(0)[d] = 0
    BY <1>2
  <2>2. SumOf(Part(0)) = 0
    <3> HIDE DEF Part
    <3> QED
      BY <2>1, SumOfNone, Zenon
  <2>3. Sums(a)[0] = 0
    BY SumsAre
  <2> HIDE DEF Part
  <2> QED
    BY <2>2, <2>3
<1>4. ASSUME NEW m \in Nat, m \in L PROVE m + 1 \in L
  <2> SUFFICES ASSUME m + 1 <= N PROVE SumOf(Part(m + 1)) = Sums(a)[m + 1]
    OBVIOUS
  <2>1. m + 1 \in 1..N /\ m \in 0..N /\ (m + 1) - 1 = m /\ SumOf(Part(m)) = Sums(a)[m]
    <3> HIDE DEF Part
    <3> QED
      BY <1>4
  <2> DEFINE one == [d \in 1..D |-> IF d = box[m + 1] THEN a[m + 1] ELSE 0]
  <2>2. box[m + 1] \in 1..D /\ a[m + 1] \in Int
    BY <2>1
  <2>3. one \in [1..D -> Int] /\ Part(m) \in [1..D -> Int]
    BY <1>2, <2>1, <2>2
  <2>4. /\ Part(m + 1) \in [1..D -> Int]
        /\ \A d \in 1..D : Part(m + 1)[d] = Part(m)[d] + one[d]
    <3>1. ASSUME NEW d \in 1..D PROVE Sums(Row(d))[m + 1] = Sums(Row(d))[m] + one[d]
      BY <1>2, <2>1
    <3> QED
      BY <1>2, <2>1, <3>1
  <2>5. SumOf(one) = a[m + 1]
    <3> DEFINE e == box[m + 1]
               v == a[m + 1]
    <3>1. /\ \A d \in 1..D : one[d] = IF d = e THEN v ELSE 0
          /\ e \in 1..D /\ v \in Int
      BY <2>2
    <3> HIDE DEF one, e, v
    <3>2. SumOf(one) = v
      BY <2>3, <3>1, SumOfOne, Zenon
    <3> QED
      BY <3>2 DEF v
  <2> HIDE DEF Part, one
  <2> DEFINE x == Part(m)
             z == Part(m + 1)
  <2>6. SumOf(z) = SumOf(x) + SumOf(one)
    <3>1. x \in [1..D -> Int] /\ z \in [1..D -> Int] /\ \A d \in 1..D : z[d] = x[d] + one[d]
      BY <2>3, <2>4, Zenon
    <3> HIDE DEF x, z
    <3> QED
      BY <2>3, <3>1, SumAdds, Zenon
  <2>7. Sums(a)[m + 1] = Sums(a)[m] + a[m + 1]
    <3>1. \A n \in 1..N : Sums(a)[n] = Sums(a)[n - 1] + a[n]
      BY SumsAre, Zenon
    <3> QED
      BY <2>1, <3>1
  <2> QED
    BY <2>1, <2>5, <2>6, <2>7
<1>5. Nat \subseteq L
  <2> HIDE DEF L
  <2> QED
    BY <1>3, <1>4, Induction, Zenon
<1>6. SumOf(Part(N)) = Sums(a)[N]
  <2> HIDE DEF Part
  <2> QED
    BY <1>5
<1>7. Part(N) = sums
  <2>1. \A d \in 1..D : Sums(Row(d))[N] = SumOf(Row(d))
    BY <1>2
  <2>2. sums = [d \in 1..D |-> SumOf(Row(d))]
    BY <1>a DEF Row
  <2> QED
    BY <2>1, <2>2
<1> HIDE DEF Part
<1> QED
  BY <1>6, <1>7, SumsAre DEF sums
-----------------------------------------------------------------------------
(***************************************************************************)
(* Notifications.                                                          *)
(***************************************************************************)
\* What a page knows is a record of notes.
LEMMA PagesAre ==
    ASSUME Notifications!TypeOK, NEW p \in Pages
    PROVE  /\ page[p] \in Notifications!Page
           /\ page[p].queue \subseteq Notifications!Note
           /\ page[p].shown \subseteq Notifications!Note
           /\ page[p].listed \subseteq Notifications!Note
           /\ page[p].before \subseteq Notifications!Note
BY DEF Notifications!TypeOK, Notifications!Page

\* The webhook's handler publishes before it commits.
LEMMA SaleIsSafe ==
    ASSUME Notifications!IndInv, NEW s \in Sales,
           \/ Notifications!BeginSale(s) \/ Notifications!Publish(s)
           \/ Notifications!CommitSale(s) \/ Notifications!AbortSale(s)
    PROVE  Notifications!IndInv'
<1> USE StaffAssumption DEF Notifications!NotificationsAssumption
<1>0. /\ Notifications!TypeOK /\ Notifications!PublishedFirst /\ Notifications!PagesKnow
      /\ handler \in [Sales -> [try : 0..MaxTries, open : BOOLEAN,
                                told : SUBSET Notifications!Roles]]
  BY DEF Notifications!IndInv, Notifications!TypeOK
<1>1. CASE Notifications!BeginSale(s)
  <2>1. /\ handler' = [handler EXCEPT ![s] = [try |-> handler[s].try + 1, open |-> TRUE,
                                             told |-> {}]]
        /\ handler[s].try \in 0..MaxTries /\ handler[s].try < MaxTries
        /\ UNCHANGED <<notes, read, loaded, page, published>>
    BY <1>0, <1>1 DEF Notifications!BeginSale
  <2>2. Notifications!TypeOK'
    BY <1>0, <2>1 DEF Notifications!TypeOK
  <2>3. Notifications!PublishedFirst'
    BY <1>0, <2>1 DEF Notifications!PublishedFirst, Notifications!NoteOf
  <2>4. Notifications!PagesKnow'
    BY <1>0, <2>1 DEF Notifications!PagesKnow, Notifications!VisibleTo
  <2> QED
    BY <2>2, <2>3, <2>4 DEF Notifications!IndInv
<1>2. CASE Notifications!Publish(s)
  <2>1. PICK r \in Notifications!Roles \ handler[s].told :
          /\ handler[s].open
          /\ handler' = [handler EXCEPT ![s].told = @ \cup {r}]
          /\ published' = published \cup {Notifications!NoteOf(s, r)}
          /\ page' = [p \in Pages |->
                        IF Notifications!Receives(p, Notifications!NoteOf(s, r))
                        THEN [page[p] EXCEPT
                                !.queue = @ \cup {Notifications!NoteOf(s, r)}]
                        ELSE page[p]]
          /\ UNCHANGED <<notes, read, loaded>>
    BY <1>2, Zenon DEF Notifications!Publish
  <2> DEFINE n == Notifications!NoteOf(s, r)
  <2>2. n \in Notifications!Note
    <3>1. handler[s].try \in 0..MaxTries /\ handler[s].try # 0
      BY <1>0, <2>1 DEF Notifications!PublishedFirst
    <3> QED
      BY <3>1 DEF Notifications!NoteOf, Notifications!Note
  <2>3. ASSUME NEW p \in Pages
        PROVE  /\ page'[p] \in Notifications!Page
               /\ page'[p].socket = page[p].socket /\ page'[p].shown = page[p].shown
               /\ page'[p].listed = page[p].listed /\ page'[p].before = page[p].before
               /\ page[p].queue \subseteq page'[p].queue
               /\ Notifications!Receives(p, n) => n \in page'[p].queue
    <3> HIDE DEF n
    <3> QED
      BY <1>0, <2>1, <2>2, PagesAre, Zenon DEF Notifications!Page, n
  <2>4. Notifications!TypeOK'
    <3>1. page' \in [Pages -> Notifications!Page]
      BY <2>1, <2>3
    <3>2. handler' \in [Sales -> [try : 0..MaxTries, open : BOOLEAN,
                                  told : SUBSET Notifications!Roles]]
      BY <1>0, <2>1
    <3> QED
      BY <1>0, <2>1, <2>2, <3>1, <3>2 DEF Notifications!TypeOK
  <2>5. Notifications!PublishedFirst'
    <3>1. ASSUME NEW t \in Sales, handler'[t].open
          PROVE  /\ handler'[t].try # 0
                 /\ \A x \in handler'[t].told : Notifications!NoteOf(t, x)' \in published'
      BY <1>0, <2>1, <3>1 DEF Notifications!PublishedFirst, Notifications!NoteOf
    <3>2. notes' \subseteq published'
      BY <1>0, <2>1 DEF Notifications!PublishedFirst
    <3>3. \A p \in Pages : loaded'[p] \subseteq notes' /\ page'[p].listed \subseteq notes'
      BY <1>0, <2>1, <2>3 DEF Notifications!PublishedFirst
    <3> QED
      BY <3>1, <3>2, <3>3 DEF Notifications!PublishedFirst
  <2>6. Notifications!PagesKnow'
    <3> SUFFICES ASSUME NEW p \in Pages, page'[p].socket = "subscribed",
                        NEW m \in published' \ read', Notifications!VisibleTo(p, m)
                 PROVE  m \in page'[p].listed \cup page'[p].shown \cup page'[p].queue
                               \cup page'[p].before
      BY DEF Notifications!PagesKnow, Notifications!VisibleTo
    <3>1. CASE m = n
      BY <2>3, <3>1 DEF Notifications!Receives
    <3>2. CASE m # n
      <4>1. m \in published \ read /\ page[p].socket = "subscribed"
        BY <2>1, <2>3, <3>2
      <4> QED
        BY <1>0, <2>3, <4>1 DEF Notifications!PagesKnow
    <3> QED
      BY <3>1, <3>2
  <2> QED
    BY <2>4, <2>5, <2>6 DEF Notifications!IndInv
<1>3. CASE Notifications!CommitSale(s)
  <2>1. /\ handler[s].open /\ handler[s].told = Notifications!Roles
        /\ notes' = notes \cup {Notifications!NoteOf(s, r) : r \in Notifications!Roles}
        /\ handler' = [handler EXCEPT ![s].open = FALSE]
        /\ UNCHANGED <<read, loaded, page, published>>
    BY <1>3 DEF Notifications!CommitSale, Notifications!MayCommit
  <2>2. {Notifications!NoteOf(s, r) : r \in Notifications!Roles} \subseteq published
    BY <1>0, <2>1 DEF Notifications!PublishedFirst
  <2>3. Notifications!TypeOK'
    BY <1>0, <2>1, <2>2, Zenon DEF Notifications!TypeOK
  <2>4. Notifications!PublishedFirst'
    <3>1. ASSUME NEW t \in Sales, handler'[t].open
          PROVE  /\ handler'[t].try # 0
                 /\ \A x \in handler'[t].told : Notifications!NoteOf(t, x)' \in published'
      BY <1>0, <2>1, <3>1 DEF Notifications!PublishedFirst, Notifications!NoteOf
    <3> QED
      BY <1>0, <2>1, <2>2, <3>1 DEF Notifications!PublishedFirst
  <2>5. Notifications!PagesKnow'
    BY <1>0, <2>1 DEF Notifications!PagesKnow, Notifications!VisibleTo
  <2> QED
    BY <2>3, <2>4, <2>5 DEF Notifications!IndInv
<1>4. CASE Notifications!AbortSale(s)
  <2>1. /\ handler' = [handler EXCEPT ![s].open = FALSE]
        /\ UNCHANGED <<notes, read, loaded, page, published>>
    BY <1>4 DEF Notifications!AbortSale
  <2>2. Notifications!TypeOK'
    BY <1>0, <2>1, Zenon DEF Notifications!TypeOK
  <2>3. Notifications!PublishedFirst'
    BY <1>0, <2>1 DEF Notifications!PublishedFirst, Notifications!NoteOf
  <2>4. Notifications!PagesKnow'
    BY <1>0, <2>1 DEF Notifications!PagesKnow, Notifications!VisibleTo
  <2> QED
    BY <2>2, <2>3, <2>4 DEF Notifications!IndInv
<1> QED
  BY <1>1, <1>2, <1>3, <1>4

\* A websocket gets what is published from when it subscribes, and a list what was
\* committed before.
LEMMA PageIsSafe ==
    ASSUME Notifications!IndInv, NEW p \in Pages,
           \/ Notifications!Connect(p) \/ Notifications!Subscribe(p)
           \/ Notifications!Forward(p) \/ Notifications!Disconnect(p)
           \/ Notifications!List(p)
    PROVE  Notifications!IndInv'
<1>0. /\ Notifications!TypeOK /\ Notifications!PublishedFirst /\ Notifications!PagesKnow
      /\ page \in [Pages -> Notifications!Page]
  BY DEF Notifications!IndInv, Notifications!TypeOK
<1> DEFINE Known(pg) == pg.listed \cup pg.shown \cup pg.queue \cup pg.before
           Unread == {n \in published \ read : Notifications!VisibleTo(p, n)}
<1>1. ASSUME NEW pg \in Notifications!Page, page' = [page EXCEPT ![p] = pg],
             UNCHANGED <<handler, notes, read, loaded, published>>,
             pg.listed \subseteq notes,
             pg.socket = "subscribed" => Unread \subseteq Known(pg)
      PROVE  Notifications!IndInv'
  <2>1. Notifications!TypeOK'
    BY <1>0, <1>1 DEF Notifications!TypeOK
  <2>2. Notifications!PublishedFirst'
    BY <1>0, <1>1 DEF Notifications!PublishedFirst, Notifications!NoteOf
  <2>3. Notifications!PagesKnow'
    <3> SUFFICES ASSUME NEW q \in Pages, page'[q].socket = "subscribed",
                        NEW m \in published \ read, Notifications!VisibleTo(q, m)
                 PROVE  m \in Known(page'[q])
      BY <1>1 DEF Notifications!PagesKnow, Notifications!VisibleTo
    <3>1. CASE q = p
      BY <1>0, <1>1, <3>1
    <3>2. CASE q # p
      BY <1>0, <1>1, <3>2 DEF Notifications!PagesKnow
    <3> QED
      BY <3>1, <3>2
  <2> QED
    BY <2>1, <2>2, <2>3 DEF Notifications!IndInv
<1>2. /\ page[p] \in Notifications!Page /\ page[p].listed \subseteq notes
      /\ page[p].socket = "subscribed" => Unread \subseteq Known(page[p])
  BY <1>0 DEF Notifications!PublishedFirst, Notifications!PagesKnow
<1>3. CASE Notifications!Connect(p)
  <2> DEFINE pg == [page[p] EXCEPT !.socket = "accepted"]
  <2>1. /\ pg \in Notifications!Page /\ page' = [page EXCEPT ![p] = pg]
        /\ UNCHANGED <<handler, notes, read, loaded, published>>
        /\ pg.listed \subseteq notes /\ pg.socket # "subscribed"
    BY <1>0, <1>2, <1>3 DEF Notifications!Connect, Notifications!Page
  <2> QED
    BY <1>1, <2>1, Zenon
<1>4. CASE Notifications!Subscribe(p)
  <2> DEFINE pg == [page[p] EXCEPT !.socket = "subscribed", !.before = published]
  <2>1. /\ pg \in Notifications!Page /\ page' = [page EXCEPT ![p] = pg]
        /\ UNCHANGED <<handler, notes, read, loaded, published>>
        /\ pg.listed \subseteq notes /\ pg.before = published
    BY <1>0, <1>2, <1>4, Zenon
    DEF Notifications!Subscribe, Notifications!Page, Notifications!TypeOK
  <2>2. Unread \subseteq Known(pg)
    BY <2>1
  <2> QED
    BY <1>1, <2>1, <2>2, Zenon
<1>5. CASE Notifications!Forward(p)
  <2>1. PICK n \in page[p].queue :
          /\ page' = [page EXCEPT ![p].queue = @ \ {n}, ![p].shown = @ \cup {n}]
          /\ UNCHANGED <<handler, notes, read, loaded, published>>
    BY <1>5, Zenon DEF Notifications!Forward
  <2> DEFINE pg == [page[p] EXCEPT !.queue = @ \ {n}, !.shown = @ \cup {n}]
  <2>2. /\ pg \in Notifications!Page /\ page' = [page EXCEPT ![p] = pg]
        /\ pg.listed = page[p].listed /\ pg.socket = page[p].socket
        /\ pg.queue = page[p].queue \ {n} /\ pg.shown = page[p].shown \cup {n}
        /\ pg.before = page[p].before
    BY <1>0, <1>2, <2>1, Zenon DEF Notifications!Page
  <2>3. Known(page[p]) \subseteq Known(pg)
    BY <2>2
  <2> QED
    BY <1>1, <1>2, <2>1, <2>2, <2>3, Zenon
<1>6. CASE Notifications!Disconnect(p)
  <2>1. Notifications!ClosedPage \in Notifications!Page
    BY DEF Notifications!ClosedPage, Notifications!Page
  <2> QED
    BY <1>1, <1>6, <2>1, Zenon DEF Notifications!Disconnect, Notifications!ClosedPage
<1>7. CASE Notifications!List(p)
  <2>1. PICK listed \in {Notifications!Visible(p), Notifications!Visible(p) \ read} :
          /\ page' = [page EXCEPT ![p].before = @ \ notes, ![p].listed = listed]
          /\ UNCHANGED <<handler, notes, read, loaded, published>>
    BY <1>7, Zenon DEF Notifications!List
  <2> DEFINE pg == [page[p] EXCEPT !.before = @ \ notes, !.listed = listed]
  <2>2. listed \subseteq notes /\ Notifications!Visible(p) \ read \subseteq listed
    BY DEF Notifications!Visible
  <2>3. /\ pg \in Notifications!Page /\ page' = [page EXCEPT ![p] = pg]
        /\ pg.listed = listed /\ pg.socket = page[p].socket
        /\ pg.queue = page[p].queue /\ pg.shown = page[p].shown
        /\ pg.before = page[p].before \ notes
    BY <1>0, <1>2, <2>1, <2>2, Zenon DEF Notifications!Page, Notifications!TypeOK
  <2>4. ASSUME page[p].socket = "subscribed", NEW n \in Unread PROVE n \in Known(pg)
    <3>1. n \in notes => n \in listed
      BY <2>2 DEF Notifications!Visible
    <3>2. n \in Known(page[p])
      BY <1>2, <2>4
    <3> QED
      BY <1>2, <2>3, <3>1, <3>2
  <2> QED
    BY <1>1, <2>1, <2>2, <2>3, <2>4, Zenon
<1> QED
  BY <1>3, <1>4, <1>5, <1>6, <1>7

\* Notes that are read are none that a page needs to know of.
LEMMA ReadingIsSafe ==
    ASSUME Notifications!IndInv, NEW p \in Pages,
           \/ Notifications!LoadNote(p) \/ Notifications!CommitRead(p)
           \/ Notifications!MarkAllRead(p)
    PROVE  Notifications!IndInv'
<1>0. /\ Notifications!TypeOK /\ Notifications!PublishedFirst /\ Notifications!PagesKnow
      /\ loaded \in [Pages -> SUBSET Notifications!Note]
      /\ notes \subseteq Notifications!Note
  BY DEF Notifications!IndInv, Notifications!TypeOK
<1>1. /\ UNCHANGED <<handler, notes, page, published>>
      /\ loaded' \in [Pages -> SUBSET notes]
      /\ read' \subseteq notes /\ read \subseteq read'
  <2>1. loaded \in [Pages -> SUBSET notes] /\ read \subseteq notes
    BY <1>0 DEF Notifications!PublishedFirst, Notifications!TypeOK
  <2>2. CASE Notifications!LoadNote(p)
    BY <2>1, <2>2 DEF Notifications!LoadNote, Notifications!Found, Notifications!Visible
  <2>3. CASE Notifications!CommitRead(p)
    BY <2>1, <2>3 DEF Notifications!CommitRead
  <2>4. CASE Notifications!MarkAllRead(p)
    BY <2>1, <2>4 DEF Notifications!MarkAllRead, Notifications!Visible
  <2> QED
    BY <2>2, <2>3, <2>4
<1>2. Notifications!TypeOK'
  BY <1>0, <1>1 DEF Notifications!TypeOK
<1>3. Notifications!PublishedFirst'
  BY <1>0, <1>1 DEF Notifications!PublishedFirst, Notifications!NoteOf
<1>4. Notifications!PagesKnow'
  BY <1>0, <1>1 DEF Notifications!PagesKnow, Notifications!VisibleTo
<1> QED
  BY <1>2, <1>3, <1>4 DEF Notifications!IndInv

\* A page that listens has got, or may list, every note that was published since
\* (realtime.py, owner_notifications.py).
THEOREM NotesReachPages == Notifications!Spec => []Notifications!IndInv
<1>1. Notifications!Init => Notifications!IndInv
  <2> SUFFICES ASSUME Notifications!Init PROVE Notifications!IndInv
    OBVIOUS
  <2>1. Notifications!TypeOK
    BY StaffAssumption
    DEF Notifications!Init, Notifications!TypeOK, Notifications!ClosedPage,
        Notifications!Page, Notifications!NotificationsAssumption
  <2>2. Notifications!PublishedFirst /\ Notifications!PagesKnow
    BY DEF Notifications!Init, Notifications!PublishedFirst, Notifications!PagesKnow,
           Notifications!ClosedPage
  <2> QED
    BY <2>1, <2>2 DEF Notifications!IndInv
<1>2. Notifications!IndInv /\ [Notifications!Next]_(Notifications!vars)
        => Notifications!IndInv'
  <2> SUFFICES ASSUME Notifications!IndInv, [Notifications!Next]_(Notifications!vars)
               PROVE  Notifications!IndInv'
    OBVIOUS
  <2>1. CASE Notifications!Next
    BY <2>1, SaleIsSafe, PageIsSafe, ReadingIsSafe DEF Notifications!Next
  <2>2. CASE UNCHANGED Notifications!vars
    BY <2>2
    DEF Notifications!vars, Notifications!IndInv, Notifications!TypeOK,
        Notifications!PublishedFirst, Notifications!PagesKnow, Notifications!NoteOf,
        Notifications!VisibleTo
  <2> QED
    BY <2>1, <2>2
<1> QED
  BY <1>1, <1>2, PTL DEF Notifications!Spec
-----------------------------------------------------------------------------
(***************************************************************************)
(* The pages of orders.                                                    *)
(***************************************************************************)
\* The lists of orders are counted as here.
LEMMA SameOrderLists ==
    /\ \A S : OrderList!IsFiniteSet(S) = IsFiniteSet(S)
    /\ \A S : OrderList!Cardinality(S) = Cardinality(S)
    /\ \A s, N : OrderList!Chosen(s, N) = Chosen(s, N)
    /\ \A s : OrderList!ToSet(s) = {s[n] : n \in DOMAIN s}
<1>1. \A S : OrderList!Cardinality(S) = Cardinality(S)
  BY DEF OrderList!Cardinality, Cardinality
<1>2. \A S : OrderList!IsFiniteSet(S) = IsFiniteSet(S)
  BY DEF OrderList!IsFiniteSet, IsFiniteSet
<1>3. \A s, N : OrderList!Chosen(s, N) = Chosen(s, N)
  BY DEF OrderList!Chosen, OrderList!Rank, OrderList!Cardinality, Chosen, Rank, Cardinality
<1>4. \A s : OrderList!ToSet(s) = {s[n] : n \in DOMAIN s}
  BY DEF OrderList!ToSet
<1> QED
  BY <1>1, <1>2, <1>3, <1>4

\* Where the orders of the list stand among all.
Positions == {n \in DOMAIN made : OrderList!Passes(filter, made[n])}

\* The table has each committed order once.
CommittedOnce ==
    /\ made \in Seq(Orders)
    /\ \A m, n \in DOMAIN made : made[m] = made[n] => m = n
    /\ status \in [Orders -> Statuses \cup {None}]
    /\ \A o \in Orders : status[o] # None => \E n \in DOMAIN made : made[n] = o

\* The invariant says so.
LEMMA OrdersAreCommittedOnce == OrderList!IndInv => CommittedOnce
BY SameOrderLists
DEF OrderList!IndInv, OrderList!TypeOK, OrderList!IsInjective, CommittedOnce

\* An order of the list stands where as many of the list are ahead of it.
LEMMA PositionsAre ==
    ASSUME CommittedOnce
    PROVE  /\ Positions \subseteq DOMAIN made /\ IsFiniteSet(Positions)
           /\ OrderList!List(filter) = Chosen(made, Positions)
           /\ OrderList!Listed = {made[n] : n \in Positions}
           /\ IsFiniteSet(OrderList!Listed)
           /\ Cardinality(OrderList!Listed) = Cardinality(Positions)
           /\ \A n \in Positions : /\ IsFiniteSet(OrderList!Ahead(made[n]))
                                   /\ Cardinality(OrderList!Ahead(made[n])) = Rank(Positions, n)
<1>1. /\ Positions \subseteq DOMAIN made /\ Positions \subseteq Int
      /\ IsFiniteSet(Positions)
  <2>1. Positions \subseteq DOMAIN made
    BY DEF Positions
  <2>2. Positions \subseteq Int
    BY <2>1 DEF CommittedOnce
  <2> QED
    BY <2>1, <2>2, ChosenIs DEF CommittedOnce
<1>2. OrderList!List(filter) = Chosen(made, Positions)
  BY SameOrderLists DEF OrderList!List, Positions
<1>3. OrderList!Listed = {made[n] : n \in Positions}
  BY DEF OrderList!Listed, OrderList!Passes, Positions, CommittedOnce
<1>4. ASSUME NEW S, S \subseteq Positions
      PROVE  /\ IsFiniteSet({made[n] : n \in S})
             /\ Cardinality({made[n] : n \in S}) = Cardinality(S)
  <2> DEFINE f == [n \in S |-> made[n]]
  <2>1. IsFiniteSet(S)
    BY <1>1, <1>4, SmallerPart
  <2>2. {f[n] : n \in S} = {made[n] : n \in S} /\ f \in [S -> {f[n] : n \in S}]
    OBVIOUS
  <2>3. \A m, n \in S : f[m] = f[n] => m = n
    BY <1>1, <1>4 DEF CommittedOnce
  <2>4. /\ IsFiniteSet({f[n] : n \in S})
        /\ Cardinality({f[n] : n \in S}) = Cardinality(S)
    <3> HIDE DEF f
    <3> QED
      BY <2>1, <2>2, <2>3, SameSize
  <2> QED
    BY <2>2, <2>4, Zenon
<1>5. ASSUME NEW n \in Positions
      PROVE  /\ IsFiniteSet(OrderList!Ahead(made[n]))
             /\ Cardinality(OrderList!Ahead(made[n])) = Rank(Positions, n)
  <2> DEFINE S == {m \in Positions : m < n}
  <2>1. OrderList!Ahead(made[n]) = {made[m] : m \in S}
    <3>1. ASSUME NEW p \in OrderList!Ahead(made[n]) PROVE p \in {made[m] : m \in S}
      <4>1. PICK m \in DOMAIN made, k \in DOMAIN made :
                m < k /\ made[m] = p /\ made[k] = made[n]
        BY <3>1 DEF OrderList!Ahead, OrderList!Newer
      <4>2. k = n
        BY <1>1, <4>1 DEF CommittedOnce
      <4>3. m \in Positions
        BY <3>1, <4>1 DEF OrderList!Ahead, OrderList!Listed, Positions
      <4> QED
        BY <4>1, <4>2, <4>3
    <3>2. ASSUME NEW m \in S PROVE made[m] \in OrderList!Ahead(made[n])
      BY <1>1, <1>3 DEF OrderList!Ahead, OrderList!Newer
    <3> QED
      BY <3>1, <3>2
  <2>2. S \subseteq Positions
    OBVIOUS
  <2> QED
    BY <1>4, <2>1, <2>2 DEF Rank
<1>6. /\ IsFiniteSet(OrderList!Listed)
      /\ Cardinality(OrderList!Listed) = Cardinality(Positions)
  BY <1>3, <1>4
<1> QED
  BY <1>1, <1>2, <1>3, <1>5, <1>6

\* The orders of the list are ranked, and a page has those of its ranks.
LEMMA OrdersAreRanked ==
    ASSUME CommittedOnce, ordersOffset \in Nat
    PROVE  /\ IsFiniteSet(OrderList!Listed) /\ Cardinality(OrderList!Listed) \in Nat
           /\ \A o \in OrderList!Listed :
                 /\ IsFiniteSet(OrderList!Ahead(o)) /\ Cardinality(OrderList!Ahead(o)) \in Nat
                 /\ Cardinality(OrderList!Ahead(o)) < Cardinality(OrderList!Listed)
           /\ \A o, p \in OrderList!Listed :
                 Cardinality(OrderList!Ahead(o)) = Cardinality(OrderList!Ahead(p)) => o = p
           /\ \A o \in OrderList!Listed : \A p \in OrderList!Ahead(o) :
                 Cardinality(OrderList!Ahead(p)) < Cardinality(OrderList!Ahead(o))
<1>0. \A o \in OrderList!Listed : \E n \in Positions : made[n] = o
  BY PositionsAre
<1>1. IsFiniteSet(OrderList!Listed) /\ Cardinality(OrderList!Listed) \in Nat
  BY PositionsAre, FS_CardinalityType
<1>2. Positions \subseteq Int
  BY PositionsAre DEF CommittedOnce
<1>3. ASSUME NEW o \in OrderList!Listed
      PROVE  /\ IsFiniteSet(OrderList!Ahead(o)) /\ Cardinality(OrderList!Ahead(o)) \in Nat
             /\ Cardinality(OrderList!Ahead(o)) < Cardinality(OrderList!Listed)
  <2>1. PICK n \in Positions : made[n] = o
    BY <1>0
  <2>2. Rank(Positions, n) \in 0..Cardinality(Positions) - 1 /\ Cardinality(Positions) \in Nat
    BY <1>2, PositionsAre, RanksAre, Zenon
  <2> QED
    BY <2>1, <2>2, PositionsAre
<1>4. ASSUME NEW o \in OrderList!Listed, NEW p \in OrderList!Listed,
             Cardinality(OrderList!Ahead(o)) = Cardinality(OrderList!Ahead(p))
      PROVE  o = p
  <2>1. PICK m \in Positions, n \in Positions : made[m] = o /\ made[n] = p
    BY <1>0
  <2>2. Rank(Positions, m) = Rank(Positions, n)
    BY <1>4, <2>1, PositionsAre
  <2> QED
    BY <1>2, <2>1, <2>2, PositionsAre, RanksAre, Zenon
<1>5. ASSUME NEW o \in OrderList!Listed, NEW p \in OrderList!Ahead(o)
      PROVE  Cardinality(OrderList!Ahead(p)) < Cardinality(OrderList!Ahead(o))
  <2>1. p \in OrderList!Listed
    BY DEF OrderList!Ahead
  <2>2. PICK m \in DOMAIN made, n \in DOMAIN made : m < n /\ made[m] = p /\ made[n] = o
    BY DEF OrderList!Ahead, OrderList!Newer
  <2>3. m \in Positions /\ n \in Positions
    BY <2>1, <2>2 DEF OrderList!Listed, Positions
  <2>4. Rank(Positions, m) < Rank(Positions, n)
    BY <1>2, <2>2, <2>3, PositionsAre, RanksAre, Zenon
  <2> QED
    BY <2>2, <2>3, <2>4, PositionsAre
<1> QED
  BY <1>1, <1>3, <1>4, <1>5

\* A page has the orders of its ranks, and is no longer than what is left of the list.
LEMMA OrderPageIs ==
    ASSUME CommittedOnce, ordersOffset \in Nat, NEW rs, rs = OrderList!Page(OrderList!List(filter))
    PROVE  /\ OrderList!CountOf(filter) = Cardinality(OrderList!Listed)
           /\ rs \in Seq(Orders) /\ OrderList!ToSet(rs) \subseteq OrderList!Listed
           /\ rs # <<>> => ordersOffset + Len(rs) <= Cardinality(OrderList!Listed)
           /\ \A o \in OrderList!Listed :
                 /\ ordersOffset <= Cardinality(OrderList!Ahead(o))
                 /\ Cardinality(OrderList!Ahead(o)) < ordersOffset + PageSize
                 => o \in OrderList!ToSet(rs)
<1> DEFINE list == OrderList!List(filter)
           end == OrderList!Smaller(ordersOffset + PageSize, Len(list))
<1>0. PageSize \in Nat \ {0}
  BY OrderListAssumption DEF OrderList!PagesAssumption
<1>1. /\ list \in Seq(Orders) /\ Len(list) = Cardinality(OrderList!Listed)
      /\ Len(list) \in Nat
      /\ \A k \in 1..Len(list) : list[k] \in OrderList!Listed
      /\ \A o \in OrderList!Listed : list[Cardinality(OrderList!Ahead(o)) + 1] = o
  <2>1. list = Chosen(made, Positions) /\ Positions \subseteq DOMAIN made
    BY PositionsAre
  <2>2. /\ list \in Seq(Orders) /\ Len(list) = Cardinality(Positions)
        /\ Cardinality(Positions) \in Nat
        /\ \A n \in Positions : list[Rank(Positions, n) + 1] = made[n]
        /\ \A k \in 1..Cardinality(Positions) : \E n \in Positions : list[k] = made[n]
    <3> HIDE DEF list
    <3> QED
      BY <2>1, ChosenIs DEF CommittedOnce
  <2> HIDE DEF list
  <2> QED
    BY <2>2, PositionsAre
<1> HIDE DEF list
<1>2. /\ end \in Nat /\ end <= Len(list) /\ end <= ordersOffset + PageSize
      /\ end = Len(list) \/ end = ordersOffset + PageSize
  BY <1>0, <1>1 DEF OrderList!Smaller
<1> HIDE DEF end
<1>3. rs = SubSeq(list, ordersOffset + 1, end)
  BY DEF OrderList!Page, list, end
<1>4. /\ rs \in Seq(Orders)
      /\ Len(rs) = IF ordersOffset + 1 <= end THEN end - ordersOffset ELSE 0
      /\ \A k \in 1..Len(rs) : rs[k] = list[ordersOffset + k]
  BY <1>1, <1>2, <1>3
<1>5. OrderList!CountOf(filter) = Cardinality(OrderList!Listed)
  BY <1>1 DEF OrderList!CountOf, list
<1>6. OrderList!ToSet(rs) \subseteq OrderList!Listed
  <2> SUFFICES ASSUME NEW k \in 1..Len(rs) PROVE rs[k] \in OrderList!Listed
    BY <1>4, SameOrderLists
  <2>1. ordersOffset + k \in 1..Len(list)
    BY <1>2, <1>4
  <2> QED
    BY <1>1, <1>4, <2>1
<1>7. rs # <<>> => ordersOffset + Len(rs) <= Cardinality(OrderList!Listed)
  <2>1. rs # <<>> => Len(rs) # 0
    BY <1>4
  <2> QED
    BY <1>1, <1>2, <1>4, <2>1
<1>8. ASSUME NEW o \in OrderList!Listed,
             ordersOffset <= Cardinality(OrderList!Ahead(o)),
             Cardinality(OrderList!Ahead(o)) < ordersOffset + PageSize
      PROVE  o \in OrderList!ToSet(rs)
  <2> DEFINE k == Cardinality(OrderList!Ahead(o)) + 1 - ordersOffset
  <2>1. Cardinality(OrderList!Ahead(o)) \in Nat /\ Cardinality(OrderList!Ahead(o)) < Len(list)
    BY <1>1, OrdersAreRanked
  <2>2. k \in 1..Len(rs) /\ ordersOffset + k = Cardinality(OrderList!Ahead(o)) + 1
    BY <1>0, <1>2, <1>4, <1>8, <2>1
  <2>3. rs[k] = o
    BY <1>1, <1>4, <2>2, Zenon
  <2> QED
    BY <1>4, <2>2, <2>3, SameOrderLists
<1> QED
  BY <1>4, <1>5, <1>6, <1>7, <1>8

\* A table that keeps its listed orders in their order loses nobody's row.
LEMMA ListGrows ==
    ASSUME OrderList!IndInv, UNCHANGED OrderList!reader, CommittedOnce',
           \A o \in Orders : status[o] # None => status'[o] # None,
           OrderList!Listed \subseteq OrderList!Listed',
           \A p, q \in OrderList!Listed : OrderList!Newer(p, q) => OrderList!Newer(p, q)'
    PROVE  OrderList!Lost' \subseteq OrderList!Lost
<1>1. IsFiniteSet(Orders) /\ ordersOffset \in Nat
  BY OrderListAssumption, SameOrderLists
  DEF OrderList!PagesAssumption, OrderList!IndInv, OrderList!TypeOK
<1>2. OrderList!Turned' = OrderList!Turned /\ OrderList!Turned \in Nat
  BY <1>1, OrderListAssumption
  DEF OrderList!Turned, OrderList!reader, OrderList!PagesAssumption
<1>3. ordersStart' = ordersStart /\ ordersSeen' = ordersSeen
  BY DEF OrderList!reader
<1> SUFFICES ASSUME NEW q, q \in OrderList!Lost' PROVE q \in OrderList!Lost
  OBVIOUS
<1>4. /\ q \in ordersStart \ ordersSeen
      /\ q \in OrderList!Listed' => Cardinality(OrderList!Ahead(q)') < OrderList!Turned
  BY <1>2, <1>3, SameOrderLists DEF OrderList!Lost
<1>5. ASSUME q \in OrderList!Listed PROVE Cardinality(OrderList!Ahead(q)) < OrderList!Turned
  <2>1. OrderList!Ahead(q) \subseteq OrderList!Ahead(q)'
    BY <1>5 DEF OrderList!Ahead
  <2>2. OrderList!Ahead(q)' \subseteq Orders
    BY DEF OrderList!Ahead, OrderList!Listed
  <2>3. IsFiniteSet(OrderList!Ahead(q)')
    BY <1>1, <2>2, SmallerPart
  <2>4. /\ Cardinality(OrderList!Ahead(q)) <= Cardinality(OrderList!Ahead(q)')
        /\ Cardinality(OrderList!Ahead(q)) \in Nat /\ Cardinality(OrderList!Ahead(q)') \in Nat
    BY <2>1, <2>3, SmallerPart
  <2> QED
    BY <1>2, <1>4, <1>5, <2>4
<1> QED
  BY <1>4, <1>5, SameOrderLists DEF OrderList!Lost

\* A change of the table is safe that costs no more rows than it counts as left.
LEMMA TableStepIsSafe ==
    ASSUME OrderList!IndInv, UNCHANGED OrderList!reader, CommittedOnce',
           \A o \in Orders : status[o] # None => status'[o] # None,
           left' \in 0..MaxLeft, left' >= left,
           Cardinality(OrderList!Lost') <= left',
           left' = 0 => OrderList!Listed \subseteq OrderList!Listed'
    PROVE  OrderList!IndInv'
<1>1. /\ OrderList!TypeOK /\ OrderList!NothingSkipped /\ OrderList!TotalCoversRows
      /\ next = 2 /\ left = 0 /\ rows # <<>>
           => OrderList!Cardinality(OrderList!Listed) >= ordersOffset + Len(rows)
  BY DEF OrderList!IndInv
<1>2. IsFiniteSet(Orders)
  BY OrderListAssumption, SameOrderLists DEF OrderList!PagesAssumption
<1>3. OrderList!TypeOK'
  BY <1>1, SameOrderLists
  DEF OrderList!TypeOK, OrderList!reader, OrderList!IsInjective, CommittedOnce
<1>4. \A o \in Orders : status'[o] # None => o \in OrderList!ToSet(made)'
  BY SameOrderLists DEF CommittedOnce, OrderList!ToSet
<1>5. OrderList!Cardinality(OrderList!Lost)' <= left'
  BY SameOrderLists DEF OrderList!Cardinality, Cardinality
<1>6. OrderList!NothingSkipped'
  <2>1. IsFiniteSet(ordersStart \ ordersSeen)
    <3>1. ordersStart \ ordersSeen \subseteq Orders
      BY <1>1 DEF OrderList!TypeOK
    <3> QED
      BY <1>2, <3>1, SmallerPart
  <2>2. Cardinality(ordersStart \ ordersSeen) \in Nat
    BY <2>1, FS_CardinalityType
  <2> QED
    BY <1>1, <2>2, SameOrderLists
    DEF OrderList!NothingSkipped, OrderList!AtEnd, OrderList!reader, OrderList!TypeOK
<1>7. next' = 2 /\ left' = 0 /\ rows' # <<>>
        => OrderList!Cardinality(OrderList!Listed)' >= ordersOffset' + Len(rows')
  <2> SUFFICES ASSUME next' = 2, left' = 0, rows' # <<>>
               PROVE  Cardinality(OrderList!Listed') >= ordersOffset' + Len(rows')
    BY SameOrderLists DEF OrderList!Cardinality, Cardinality
  <2>1. OrderList!Listed' \subseteq Orders
    BY DEF OrderList!Listed
  <2>2. IsFiniteSet(OrderList!Listed')
    BY <1>2, <2>1, SmallerPart
  <2>3. /\ Cardinality(OrderList!Listed) <= Cardinality(OrderList!Listed')
        /\ Cardinality(OrderList!Listed) \in Nat /\ Cardinality(OrderList!Listed') \in Nat
    BY <2>2, SmallerPart
  <2>4. left = 0 /\ next = 2 /\ rows' = rows /\ ordersOffset' = ordersOffset /\ rows # <<>>
    BY <1>1 DEF OrderList!reader, OrderList!TypeOK
  <2>5. Cardinality(OrderList!Listed) >= ordersOffset + Len(rows)
    BY <1>1, <2>4, SameOrderLists
  <2>6. ordersOffset + Len(rows) \in Nat
    BY <1>1 DEF OrderList!TypeOK
  <2> QED
    BY <2>3, <2>4, <2>5, <2>6
<1>8. OrderList!TotalCoversRows'
  BY <1>1 DEF OrderList!TotalCoversRows, OrderList!reader, OrderList!TypeOK
<1> QED
  BY <1>3, <1>4, <1>5, <1>6, <1>7, <1>8 DEF OrderList!IndInv

\* Who leaves the list costs one row at most: his own, or the one that moves up to
\* where the reader has already been.
LEMMA LeavingCostsOne ==
    ASSUME OrderList!IndInv, UNCHANGED <<OrderList!reader, made>>, NEW o \in OrderList!Listed,
           OrderList!Listed' = OrderList!Listed \ {o}
    PROVE  Cardinality(OrderList!Lost') <= Cardinality(OrderList!Lost) + 1
<1>1. IsFiniteSet(Orders) /\ ordersOffset \in Nat /\ CommittedOnce
  BY OrderListAssumption, SameOrderLists, OrdersAreCommittedOnce
  DEF OrderList!PagesAssumption, OrderList!IndInv, OrderList!TypeOK
<1>2. OrderList!Turned' = OrderList!Turned /\ OrderList!Turned \in Nat
  BY <1>1, OrderListAssumption
  DEF OrderList!Turned, OrderList!reader, OrderList!PagesAssumption
<1>3. ordersStart' = ordersStart /\ ordersSeen' = ordersSeen
  BY DEF OrderList!reader
<1>4. ASSUME NEW q \in OrderList!Lost' \ OrderList!Lost
      PROVE  /\ q \in OrderList!Listed
             /\ q # o => /\ o \in OrderList!Ahead(q)
                         /\ Cardinality(OrderList!Ahead(q)) = OrderList!Turned
             /\ q = o => Cardinality(OrderList!Ahead(q)) >= OrderList!Turned
  <2>1. /\ q \in ordersStart \ ordersSeen
        /\ q \in OrderList!Listed' => Cardinality(OrderList!Ahead(q)') < OrderList!Turned
    BY <1>2, <1>3, SameOrderLists DEF OrderList!Lost
  <2>2. q \in OrderList!Listed /\ ~(Cardinality(OrderList!Ahead(q)) < OrderList!Turned)
    BY <2>1, SameOrderLists DEF OrderList!Lost
  <2>3. Cardinality(OrderList!Ahead(q)) \in Nat /\ IsFiniteSet(OrderList!Ahead(q))
    BY <1>1, <2>2, OrdersAreRanked
  <2>4. ASSUME q # o
        PROVE  o \in OrderList!Ahead(q) /\ Cardinality(OrderList!Ahead(q)) = OrderList!Turned
    <3>1. OrderList!Ahead(q)' = OrderList!Ahead(q) \ {o}
      BY DEF OrderList!Ahead, OrderList!Newer
    <3>2. Cardinality(OrderList!Ahead(q) \ {o})
            = IF o \in OrderList!Ahead(q) THEN Cardinality(OrderList!Ahead(q)) - 1
              ELSE Cardinality(OrderList!Ahead(q))
      BY <2>3, FS_RemoveElement, Zenon
    <3>3. Cardinality(OrderList!Ahead(q) \ {o}) < OrderList!Turned
      BY <2>1, <2>2, <2>4, <3>1
    <3> QED
      BY <1>2, <2>2, <2>3, <3>2, <3>3
  <2> QED
    BY <1>2, <2>2, <2>3, <2>4
<1>5. ASSUME NEW q \in OrderList!Lost' \ OrderList!Lost, NEW r \in OrderList!Lost' \ OrderList!Lost
      PROVE  q = r
  <2>1. ASSUME NEW x \in OrderList!Lost' \ OrderList!Lost, x # o,
               o \in OrderList!Lost' \ OrderList!Lost
        PROVE  FALSE
    <3>1. /\ x \in OrderList!Listed /\ o \in OrderList!Ahead(x)
          /\ Cardinality(OrderList!Ahead(x)) = OrderList!Turned
          /\ Cardinality(OrderList!Ahead(o)) >= OrderList!Turned
      BY <1>4, <2>1
    <3>2. /\ Cardinality(OrderList!Ahead(o)) < Cardinality(OrderList!Ahead(x))
          /\ Cardinality(OrderList!Ahead(o)) \in Nat
      BY <1>1, <3>1, OrdersAreRanked
    <3> QED
      BY <1>2, <3>1, <3>2
  <2>2. CASE q = o \/ r = o
    BY <2>1, <2>2
  <2>3. CASE q # o /\ r # o
    <3>1. /\ q \in OrderList!Listed /\ r \in OrderList!Listed
          /\ Cardinality(OrderList!Ahead(q)) = Cardinality(OrderList!Ahead(r))
      BY <1>4, <2>3
    <3> QED
      BY <1>1, <3>1, OrdersAreRanked
  <2> QED
    BY <2>2, <2>3
<1>6. IsFiniteSet(OrderList!Lost)
  <2>1. OrderList!Lost \subseteq Orders
    BY DEF OrderList!Lost, OrderList!IndInv, OrderList!TypeOK
  <2> QED
    BY <1>1, <2>1, SmallerPart
<1>7. CASE OrderList!Lost' \subseteq OrderList!Lost
  BY <1>6, <1>7, SmallerPart
<1>8. ASSUME NEW q \in OrderList!Lost', q \notin OrderList!Lost
      PROVE  Cardinality(OrderList!Lost') <= Cardinality(OrderList!Lost) + 1
  <2>1. OrderList!Lost' \subseteq OrderList!Lost \cup {q}
    BY <1>5, <1>8
  <2>2. /\ IsFiniteSet(OrderList!Lost \cup {q})
        /\ Cardinality(OrderList!Lost \cup {q}) = Cardinality(OrderList!Lost) + 1
    BY <1>6, <1>8, FS_AddElement
  <2> QED
    BY <2>1, <2>2, SmallerPart
<1> QED
  BY <1>7, <1>8

\* A change of the table is safe that keeps the listed orders in their order.
LEMMA GrowingIsSafe ==
    ASSUME OrderList!IndInv, UNCHANGED <<OrderList!reader, left>>, CommittedOnce',
           \A o \in Orders : status[o] # None => status'[o] # None,
           OrderList!Listed \subseteq OrderList!Listed',
           \A p, q \in OrderList!Listed : OrderList!Newer(p, q) => OrderList!Newer(p, q)'
    PROVE  OrderList!IndInv'
<1>1. UNCHANGED OrderList!reader
  BY DEF OrderList!reader
<1>2. OrderList!Lost' \subseteq OrderList!Lost
  BY <1>1, ListGrows
<1>3. left \in 0..MaxLeft /\ left' = left /\ MaxLeft \in Nat
  BY OrderListAssumption
  DEF OrderList!IndInv, OrderList!TypeOK, OrderList!PagesAssumption
<1>4. Cardinality(OrderList!Lost) <= left /\ OrderList!Lost \subseteq Orders
  BY SameOrderLists DEF OrderList!IndInv, OrderList!TypeOK, OrderList!Lost
<1>5. IsFiniteSet(OrderList!Lost)
  BY <1>4, OrderListAssumption, SameOrderLists, SmallerPart DEF OrderList!PagesAssumption
<1>6. /\ Cardinality(OrderList!Lost') <= Cardinality(OrderList!Lost)
      /\ Cardinality(OrderList!Lost') \in Nat /\ Cardinality(OrderList!Lost) \in Nat
  BY <1>2, <1>5, SmallerPart
<1>7. Cardinality(OrderList!Lost') <= left' /\ left' \in 0..MaxLeft /\ left' >= left
  BY <1>3, <1>4, <1>6
<1> QED
  BY <1>1, <1>7, TableStepIsSafe

\* A new order is the first.
LEMMA InsertIsSafe ==
    ASSUME OrderList!IndInv, NEW o \in Orders, OrderList!Insert(o)
    PROVE  OrderList!IndInv'
<1>1. /\ CommittedOnce /\ UNCHANGED <<OrderList!reader, left>> /\ status' = status
      /\ \A n \in DOMAIN made : made[n] # o
      /\ made' = <<o>> \o made
  BY OrdersAreCommittedOnce, SameOrderLists DEF OrderList!Insert
<1>2. /\ made' \in Seq(Orders) /\ Len(made') = Len(made) + 1 /\ Len(made) \in Nat
      /\ made'[1] = o /\ \A n \in 1..Len(made) : made'[n + 1] = made[n]
      /\ \A n \in 2..Len(made) + 1 : made'[n] = made[n - 1]
  BY <1>1 DEF CommittedOnce
<1>3. DOMAIN made = 1..Len(made) /\ DOMAIN made' = 1..Len(made) + 1
  BY <1>1, <1>2 DEF CommittedOnce
<1>4. CommittedOnce'
  <2>1. ASSUME NEW m \in DOMAIN made', NEW n \in DOMAIN made', made'[m] = made'[n] PROVE m = n
    <3>1. CASE m = 1 \/ n = 1
      BY <1>1, <1>2, <1>3, <2>1, <3>1
    <3>2. CASE m # 1 /\ n # 1
      <4>1. m - 1 \in DOMAIN made /\ n - 1 \in DOMAIN made /\ made[m - 1] = made[n - 1]
        BY <1>2, <1>3, <2>1, <3>2
      <4>2. m - 1 = n - 1
        BY <1>1, <4>1 DEF CommittedOnce
      <4> QED
        BY <1>2, <1>3, <4>2
    <3> QED
      BY <3>1, <3>2
  <2>2. ASSUME NEW q \in Orders, status'[q] # None PROVE \E n \in DOMAIN made' : made'[n] = q
    <3>1. PICK n \in DOMAIN made : made[n] = q
      BY <1>1, <2>2 DEF CommittedOnce
    <3>2. n + 1 \in DOMAIN made' /\ made'[n + 1] = q
      BY <1>2, <1>3, <3>1
    <3> QED
      BY <3>2
  <2> QED
    BY <1>1, <1>2, <2>1, <2>2, Zenon DEF CommittedOnce
<1>5. OrderList!Listed' = OrderList!Listed
  BY <1>1 DEF OrderList!Listed, OrderList!Passes, OrderList!reader
<1>6. ASSUME NEW p \in OrderList!Listed, NEW q \in OrderList!Listed, OrderList!Newer(p, q)
      PROVE  OrderList!Newer(p, q)'
  <2>1. PICK m \in DOMAIN made, n \in DOMAIN made : m < n /\ made[m] = p /\ made[n] = q
    BY <1>6 DEF OrderList!Newer
  <2>2. /\ m + 1 \in DOMAIN made' /\ n + 1 \in DOMAIN made' /\ m + 1 < n + 1
        /\ made'[m + 1] = p /\ made'[n + 1] = q
    BY <1>2, <1>3, <2>1
  <2> QED
    BY <2>2 DEF OrderList!Newer
<1> QED
  BY <1>1, <1>4, <1>5, <1>6, GrowingIsSafe

\* An order is committed where it stands.
LEMMA CommitIsSafe ==
    ASSUME OrderList!IndInv, NEW o \in Orders, OrderList!Commit(o)
    PROVE  OrderList!IndInv'
<1>1. /\ CommittedOnce /\ UNCHANGED <<OrderList!reader, left>> /\ made' = made
      /\ status[o] = None /\ status' = [status EXCEPT ![o] = "processing"]
      /\ \E n \in DOMAIN made : made[n] = o
      /\ "processing" \in Statuses /\ None \notin Statuses
  BY OrdersAreCommittedOnce, SameOrderLists, OrderListAssumption
  DEF OrderList!Commit, OrderList!PagesAssumption
<1>2. CommittedOnce'
  BY <1>1 DEF CommittedOnce
<1>3. OrderList!Listed \subseteq OrderList!Listed'
  BY <1>1 DEF OrderList!Listed, OrderList!Passes, OrderList!reader, CommittedOnce
<1>4. \A p, q \in OrderList!Listed : OrderList!Newer(p, q) => OrderList!Newer(p, q)'
  BY <1>1 DEF OrderList!Newer
<1>5. \A p \in Orders : status[p] # None => status'[p] # None
  BY <1>1 DEF CommittedOnce
<1> QED
  BY <1>1, <1>2, <1>3, <1>4, <1>5, GrowingIsSafe

\* An order that is not committed is in no list.
LEMMA RollbackIsSafe ==
    ASSUME OrderList!IndInv, NEW o \in Orders, OrderList!Rollback(o)
    PROVE  OrderList!IndInv'
<1>1. /\ CommittedOnce /\ UNCHANGED <<OrderList!reader, left>> /\ status' = status
      /\ status[o] = None
  BY OrdersAreCommittedOnce DEF OrderList!Rollback
<1>2. PICK k \in DOMAIN made : made[k] = o /\ made' = RemoveAt(made, k)
  BY Zenon DEF OrderList!Rollback, OrderList!RemoveAt, RemoveAt
<1> DEFINE To(n) == IF n < k THEN n ELSE n - 1
<1>3. /\ made' \in Seq(Orders) /\ Len(made') = Len(made) - 1 /\ Len(made) \in Nat
      /\ k \in 1..Len(made)
      /\ \A n \in 1..Len(made) - 1 : made'[n] = IF n < k THEN made[n] ELSE made[n + 1]
  BY <1>1, <1>2, RemovedIs DEF CommittedOnce
<1>4. DOMAIN made = 1..Len(made) /\ DOMAIN made' = 1..Len(made) - 1
  BY <1>1, <1>3 DEF CommittedOnce
<1>5. ASSUME NEW n \in DOMAIN made, made[n] # o
      PROVE  To(n) \in DOMAIN made' /\ made'[To(n)] = made[n]
  <2>1. CASE n < k
    BY <1>3, <1>4, <2>1
  <2>2. CASE ~(n < k)
    <3>1. n # k /\ n - 1 \in 1..Len(made) - 1 /\ ~(n - 1 < k) /\ (n - 1) + 1 = n /\ To(n) = n - 1
      BY <1>2, <1>3, <1>4, <1>5, <2>2
    <3>2. made'[n - 1] = made[(n - 1) + 1]
      BY <1>3, <3>1
    <3> QED
      BY <1>4, <3>1, <3>2
  <2> QED
    BY <2>1, <2>2
<1>6. CommittedOnce'
  <2>1. ASSUME NEW m \in DOMAIN made', NEW n \in DOMAIN made', made'[m] = made'[n] PROVE m = n
    <3> DEFINE From(i) == IF i < k THEN i ELSE i + 1
    <3>1. From(m) \in DOMAIN made /\ From(n) \in DOMAIN made /\ made[From(m)] = made[From(n)]
      BY <1>3, <1>4, <2>1
    <3>2. From(m) = From(n)
      BY <1>1, <3>1 DEF CommittedOnce
    <3> QED
      BY <1>3, <1>4, <3>2
  <2>2. ASSUME NEW q \in Orders, status'[q] # None PROVE \E n \in DOMAIN made' : made'[n] = q
    <3>1. PICK n \in DOMAIN made : made[n] = q
      BY <1>1, <2>2 DEF CommittedOnce
    <3>2. made[n] # o
      BY <1>1, <2>2, <3>1
    <3> QED
      BY <1>5, <3>1, <3>2
  <2> QED
    BY <1>1, <1>3, <2>1, <2>2 DEF CommittedOnce
<1>7. OrderList!Listed' = OrderList!Listed /\ o \notin OrderList!Listed
  BY <1>1 DEF OrderList!Listed, OrderList!Passes, OrderList!reader
<1>8. ASSUME NEW p \in OrderList!Listed, NEW q \in OrderList!Listed, OrderList!Newer(p, q)
      PROVE  OrderList!Newer(p, q)'
  <2>1. PICK m \in DOMAIN made, n \in DOMAIN made : m < n /\ made[m] = p /\ made[n] = q
    BY <1>8 DEF OrderList!Newer
  <2>2. m # k /\ n # k /\ made[m] # o /\ made[n] # o
    BY <1>2, <1>7, <2>1
  <2>3. To(m) < To(n)
    BY <1>3, <1>4, <2>1, <2>2
  <2>4. /\ To(m) \in DOMAIN made' /\ made'[To(m)] = p
        /\ To(n) \in DOMAIN made' /\ made'[To(n)] = q
    BY <1>5, <2>1, <2>2
  <2> HIDE DEF To
  <2> QED
    BY <2>3, <2>4 DEF OrderList!Newer
<1> QED
  BY <1>1, <1>6, <1>7, <1>8, GrowingIsSafe

\* A status takes an order out of the list or into it.
LEMMA SetStatusIsSafe ==
    ASSUME OrderList!IndInv, NEW o \in Orders, NEW s \in Statuses, OrderList!SetStatus(o, s)
    PROVE  OrderList!IndInv'
<1>1. /\ CommittedOnce /\ UNCHANGED OrderList!reader /\ made' = made
      /\ status[o] # None /\ status[o] # s /\ s # None
      /\ status' = [status EXCEPT ![o] = s]
      /\ left' = IF OrderList!Passes(filter, o) /\ filter \notin {None, s} THEN left + 1 ELSE left
      /\ left' <= MaxLeft /\ left \in 0..MaxLeft /\ MaxLeft \in Nat
      /\ filter \in Statuses \cup {None}
  BY OrdersAreCommittedOnce, OrderListAssumption
  DEF OrderList!SetStatus, OrderList!PagesAssumption, OrderList!IndInv, OrderList!TypeOK
<1>2. CommittedOnce' /\ \A p \in Orders : status[p] # None => status'[p] # None
  BY <1>1 DEF CommittedOnce
<1>3. filter' = filter
  BY <1>1 DEF OrderList!reader
<1>4. CASE OrderList!Passes(filter, o) /\ filter \notin {None, s}
  <2>1. o \in OrderList!Listed /\ OrderList!Listed' = OrderList!Listed \ {o}
    BY <1>1, <1>3, <1>4 DEF OrderList!Listed, OrderList!Passes, CommittedOnce
  <2>2. Cardinality(OrderList!Lost') <= Cardinality(OrderList!Lost) + 1
    BY <1>1, <2>1, LeavingCostsOne
  <2>3. Cardinality(OrderList!Lost) <= left /\ OrderList!Lost \subseteq Orders
    BY SameOrderLists DEF OrderList!IndInv, OrderList!TypeOK, OrderList!Lost
  <2>4. IsFiniteSet(OrderList!Lost) /\ IsFiniteSet(OrderList!Lost')
    <3>1. OrderList!Lost' \subseteq Orders
      BY <1>1 DEF OrderList!IndInv, OrderList!TypeOK, OrderList!Lost, OrderList!reader
    <3> QED
      BY <2>3, <3>1, OrderListAssumption, SameOrderLists, SmallerPart
      DEF OrderList!PagesAssumption
  <2>5. Cardinality(OrderList!Lost) \in Nat /\ Cardinality(OrderList!Lost') \in Nat
    BY <2>4, FS_CardinalityType
  <2>6. left' = left + 1
    BY <1>1, <1>4
  <2>7. /\ Cardinality(OrderList!Lost') <= left' /\ left' \in 0..MaxLeft /\ left' >= left
        /\ left' # 0
    BY <1>1, <2>2, <2>3, <2>5, <2>6
  <2> QED
    BY <1>1, <1>2, <2>7, TableStepIsSafe
<1>5. CASE ~(OrderList!Passes(filter, o) /\ filter \notin {None, s})
  <2>1. left' = left
    BY <1>1, <1>5
  <2>2. OrderList!Listed \subseteq OrderList!Listed'
    BY <1>1, <1>3, <1>5 DEF OrderList!Listed, OrderList!Passes, CommittedOnce
  <2>3. \A p, q \in OrderList!Listed : OrderList!Newer(p, q) => OrderList!Newer(p, q)'
    BY <1>1 DEF OrderList!Newer
  <2> QED
    BY <1>1, <1>2, <2>1, <2>2, <2>3, GrowingIsSafe
<1> QED
  BY <1>4, <1>5

\* What a list shows when it is opened.
WholeList ==
    /\ OrderList!ToSet(OrderList!List(filter)) = OrderList!Listed
    /\ ordersOffset = 0 => \A o \in OrderList!Listed : Cardinality(OrderList!Ahead(o)) \in Nat

\* It has all orders of the filter.
LEMMA ListsAreWhole == (CommittedOnce => WholeList) /\ (CommittedOnce' => WholeList')
<1>1. CommittedOnce => WholeList
  <2> SUFFICES ASSUME CommittedOnce PROVE WholeList
    OBVIOUS
  <2>1. /\ Positions \subseteq DOMAIN made /\ OrderList!List(filter) = Chosen(made, Positions)
        /\ OrderList!Listed = {made[n] : n \in Positions}
    BY PositionsAre
  <2>2. OrderList!ToSet(Chosen(made, Positions)) = {made[n] : n \in Positions}
    <3> DEFINE c == Chosen(made, Positions)
    <3>1. /\ c \in Seq(Orders) /\ Len(c) = Cardinality(Positions)
          /\ \A n \in Positions : /\ Rank(Positions, n) \in 0..Cardinality(Positions) - 1
                                  /\ c[Rank(Positions, n) + 1] = made[n]
          /\ \A k \in 1..Cardinality(Positions) : \E n \in Positions : c[k] = made[n]
          /\ Cardinality(Positions) \in Nat
      BY <2>1, ChosenIs DEF CommittedOnce
    <3> HIDE DEF c
    <3>2. DOMAIN c = 1..Cardinality(Positions)
      BY <3>1
    <3>3. \A n \in Positions : Rank(Positions, n) + 1 \in DOMAIN c
      BY <3>1, <3>2
    <3>4. OrderList!ToSet(c) = {c[n] : n \in DOMAIN c}
      BY SameOrderLists
    <3>5. {c[n] : n \in DOMAIN c} \subseteq {made[n] : n \in Positions}
      BY <3>1, <3>2
    <3>6. ASSUME NEW n \in Positions PROVE made[n] \in {c[k] : k \in DOMAIN c}
      BY <3>1, <3>3
    <3> QED
      BY <3>4, <3>5, <3>6 DEF c
  <2>3. ASSUME ordersOffset = 0, NEW o \in OrderList!Listed
        PROVE  Cardinality(OrderList!Ahead(o)) \in Nat
    <3>1. ordersOffset \in Nat
      BY <2>3
    <3> QED
      BY <2>3, <3>1, OrdersAreRanked
  <2> QED
    BY <2>1, <2>2, <2>3 DEF WholeList
<1>2. CommittedOnce' => WholeList'
  BY <1>1, PTL
<1> QED
  BY <1>1, <1>2

\* An opened list has lost nothing yet.
LEMMA OpenIsSafe ==
    ASSUME OrderList!IndInv, NEW f \in Statuses \cup {None}, OrderList!Open(f)
    PROVE  OrderList!IndInv'
<1>1. /\ CommittedOnce /\ UNCHANGED <<made, status>>
      /\ filter' = f /\ ordersOffset' = 0 /\ next' = 1 /\ rows' = <<>> /\ total' = 0
      /\ ordersSeen' = {} /\ ordersStart' = OrderList!ToSet(OrderList!List(f)) /\ left' = 0
  BY OrdersAreCommittedOnce DEF OrderList!Open, OrderList!table
<1>2. CommittedOnce'
  BY <1>1 DEF CommittedOnce
<1>3. ordersStart' = OrderList!Listed'
  <2>1. ordersStart' = OrderList!ToSet(OrderList!List(filter)')
    BY <1>1 DEF OrderList!List, OrderList!Passes
  <2>2. OrderList!ToSet(OrderList!List(filter))' = OrderList!Listed'
    BY <1>2, ListsAreWhole DEF WholeList
  <2> QED
    BY <2>1, <2>2 DEF OrderList!ToSet
<1>4. \A o \in ordersSeen' \cup ordersStart' : o \in Orders /\ status'[o] # None
  BY <1>1, <1>3 DEF OrderList!Listed, OrderList!Passes
<1>5. OrderList!TypeOK'
  <2>1. 0 \in 0..Cardinality(Orders) /\ 0 \in 0..MaxLeft
    BY OrderListAssumption, SameOrderLists, FS_CardinalityType DEF OrderList!PagesAssumption
  <2> QED
    BY <1>1, <1>4, <2>1, SameOrderLists
    DEF OrderList!IndInv, OrderList!TypeOK, OrderList!IsInjective
<1>6. OrderList!Lost' = {}
  <2> SUFFICES ASSUME NEW o \in OrderList!Lost' PROVE FALSE
    OBVIOUS
  <2>1. o \in OrderList!Listed' /\ Cardinality(OrderList!Ahead(o)') < OrderList!Turned'
    BY <1>3, SameOrderLists DEF OrderList!Lost
  <2>2. OrderList!Turned' = 0
    BY <1>1 DEF OrderList!Turned
  <2>3. Cardinality(OrderList!Ahead(o))' \in Nat
    BY <1>1, <1>2, <2>1, ListsAreWhole DEF WholeList
  <2>4. Cardinality(OrderList!Ahead(o))' = Cardinality(OrderList!Ahead(o)')
    BY DEF Cardinality
  <2> QED
    BY <2>1, <2>2, <2>3, <2>4
<1>7. OrderList!Cardinality(OrderList!Lost)' <= left'
  <2>1. OrderList!Cardinality(OrderList!Lost)' = Cardinality(OrderList!Lost')
    BY DEF OrderList!Cardinality, Cardinality
  <2> QED
    BY <1>1, <1>6, <2>1, FS_EmptySet
<1>8. \A o \in Orders : status'[o] # None => o \in OrderList!ToSet(made)'
  BY <1>2 DEF CommittedOnce, OrderList!ToSet
<1> QED
  BY <1>1, <1>5, <1>7, <1>8
  DEF OrderList!IndInv, OrderList!NothingSkipped, OrderList!AtEnd, OrderList!TotalCoversRows

\* The rows read are the next of the list: what is lost was lost before.
LEMMA ReadRowsIsSafe ==
    ASSUME OrderList!IndInv, OrderList!ReadRows
    PROVE  OrderList!IndInv'
<1> DEFINE rs == OrderList!Page(OrderList!List(filter))
<1>1. /\ CommittedOnce /\ ordersOffset \in Nat /\ PageSize \in Nat
      /\ IsFiniteSet(Orders) /\ left \in 0..MaxLeft /\ MaxLeft \in Nat
  BY OrdersAreCommittedOnce, OrderListAssumption, SameOrderLists
  DEF OrderList!IndInv, OrderList!TypeOK, OrderList!PagesAssumption
<1>2. /\ next = 1 /\ next' = 2 /\ rows' = rs
      /\ ordersSeen' = ordersSeen \cup OrderList!ToSet(rs)
      /\ UNCHANGED <<made, status, filter, ordersOffset, total, ordersStart, left>>
  BY DEF OrderList!ReadRows, OrderList!Statements, OrderList!Following, OrderList!IndInv,
         OrderList!TypeOK, OrderList!table
<1>3. /\ rs \in Seq(Orders) /\ OrderList!ToSet(rs) \subseteq OrderList!Listed
      /\ rs # <<>> => ordersOffset + Len(rs) <= Cardinality(OrderList!Listed)
      /\ \A o \in OrderList!Listed :
            /\ ordersOffset <= Cardinality(OrderList!Ahead(o))
            /\ Cardinality(OrderList!Ahead(o)) < ordersOffset + PageSize
            => o \in OrderList!ToSet(rs)
  <2> HIDE DEF rs
  <2> QED
    BY <1>1, OrderPageIs DEF rs
<1> HIDE DEF rs
<1>4. OrderList!Listed' = OrderList!Listed
  BY <1>2 DEF OrderList!Listed, OrderList!Passes
<1>5. OrderList!TypeOK'
  BY <1>2, <1>3 DEF OrderList!IndInv, OrderList!TypeOK, OrderList!IsInjective, OrderList!Listed,
                    OrderList!Passes
<1>6. OrderList!Lost' \subseteq OrderList!Lost
  <2> SUFFICES ASSUME NEW q \in OrderList!Lost' PROVE q \in OrderList!Lost
    OBVIOUS
  <2>1. /\ q \in ordersStart \ ordersSeen /\ q \notin OrderList!ToSet(rs)
        /\ q \in OrderList!Listed
             => OrderList!Cardinality(OrderList!Ahead(q))' < ordersOffset + PageSize
    BY <1>2, <1>4 DEF OrderList!Lost, OrderList!Turned
  <2>2. OrderList!Cardinality(OrderList!Ahead(q))' = Cardinality(OrderList!Ahead(q))
    BY <1>2, <1>4 DEF OrderList!Ahead, OrderList!Newer, OrderList!Cardinality, Cardinality
  <2>3. q \in OrderList!Listed => Cardinality(OrderList!Ahead(q)) \in Nat
    BY <1>1, OrdersAreRanked
  <2>4. q \in OrderList!Listed => Cardinality(OrderList!Ahead(q)) < ordersOffset
    BY <1>1, <1>3, <2>1, <2>2, <2>3
  <2> QED
    BY <1>2, <2>1, <2>4, SameOrderLists DEF OrderList!Lost, OrderList!Turned
<1>7. OrderList!Cardinality(OrderList!Lost)' <= left'
  <2>1. Cardinality(OrderList!Lost) <= left /\ OrderList!Lost \subseteq Orders
    BY SameOrderLists DEF OrderList!IndInv, OrderList!TypeOK, OrderList!Lost
  <2>2. IsFiniteSet(OrderList!Lost)
    BY <1>1, <2>1, SmallerPart
  <2>3. /\ Cardinality(OrderList!Lost') <= Cardinality(OrderList!Lost)
        /\ Cardinality(OrderList!Lost') \in Nat /\ Cardinality(OrderList!Lost) \in Nat
    BY <1>6, <2>2, SmallerPart
  <2>4. OrderList!Cardinality(OrderList!Lost)' = Cardinality(OrderList!Lost')
    BY DEF OrderList!Cardinality, Cardinality
  <2> QED
    BY <1>1, <1>2, <2>1, <2>3, <2>4
<1>8. rows' # <<>> => OrderList!Cardinality(OrderList!Listed)' >= ordersOffset' + Len(rows')
  <2>1. OrderList!Cardinality(OrderList!Listed)' = Cardinality(OrderList!Listed)
    BY <1>4 DEF OrderList!Cardinality, Cardinality
  <2>2. Cardinality(OrderList!Listed) \in Nat /\ Len(rs) \in Nat
    BY <1>1, <1>3, OrdersAreRanked
  <2> QED
    BY <1>1, <1>2, <1>3, <2>1, <2>2
<1>9. \A o \in Orders : status'[o] # None => o \in OrderList!ToSet(made)'
  BY <1>2 DEF OrderList!IndInv, OrderList!ToSet
<1> QED
  BY <1>2, <1>5, <1>7, <1>8, <1>9
  DEF OrderList!IndInv, OrderList!NothingSkipped, OrderList!AtEnd, OrderList!TotalCoversRows

\* The total that ends the list says that all of it was covered.
LEMMA ReadCountIsSafe ==
    ASSUME OrderList!IndInv, OrderList!ReadCount
    PROVE  OrderList!IndInv'
<1>1. /\ CommittedOnce /\ ordersOffset \in Nat /\ PageSize \in Nat
      /\ IsFiniteSet(Orders) /\ left \in 0..MaxLeft /\ MaxLeft \in Nat
  BY OrdersAreCommittedOnce, OrderListAssumption, SameOrderLists
  DEF OrderList!IndInv, OrderList!TypeOK, OrderList!PagesAssumption
<1>2. /\ next = 2 /\ next' = 0 /\ total' = OrderList!CountOf(filter)
      /\ UNCHANGED <<made, status, filter, ordersOffset, rows, ordersSeen, ordersStart, left>>
  BY DEF OrderList!ReadCount, OrderList!Statements, OrderList!Following, OrderList!IndInv,
         OrderList!TypeOK, OrderList!table
<1>3. total' = Cardinality(OrderList!Listed)
  BY <1>1, <1>2, OrderPageIs
<1>4. OrderList!Listed' = OrderList!Listed /\ OrderList!Turned' = ordersOffset + PageSize
      /\ OrderList!Turned = ordersOffset + PageSize
  BY <1>2 DEF OrderList!Listed, OrderList!Passes, OrderList!Turned
<1>5. OrderList!TypeOK'
  <2>1. OrderList!Listed \subseteq Orders
    BY DEF OrderList!Listed
  <2>2. total' \in 0..OrderList!Cardinality(Orders)
    BY <1>1, <1>3, <2>1, SmallerPart, SameOrderLists
  <2> QED
    BY <1>2, <2>2 DEF OrderList!IndInv, OrderList!TypeOK, OrderList!IsInjective
<1>6. OrderList!Lost' = OrderList!Lost
  BY <1>2, <1>4 DEF OrderList!Lost, OrderList!Ahead, OrderList!Newer, OrderList!Cardinality
<1>7. OrderList!Cardinality(OrderList!Lost)' <= left'
  BY <1>2, <1>6 DEF OrderList!Cardinality, OrderList!IndInv
<1>8. OrderList!NothingSkipped'
  <2> SUFFICES ASSUME ordersOffset + PageSize >= total'
               PROVE  OrderList!Cardinality(ordersStart \ ordersSeen)' <= left'
    BY <1>2 DEF OrderList!NothingSkipped, OrderList!AtEnd
  <2>1. ASSUME NEW o \in OrderList!Listed
        PROVE  Cardinality(OrderList!Ahead(o)) < OrderList!Turned
    <3>1. /\ Cardinality(OrderList!Ahead(o)) \in Nat /\ Cardinality(OrderList!Listed) \in Nat
          /\ Cardinality(OrderList!Ahead(o)) < Cardinality(OrderList!Listed)
      BY <1>1, OrdersAreRanked
    <3> QED
      BY <1>1, <1>3, <1>4, <3>1
  <2>2. OrderList!Lost = ordersStart \ ordersSeen
    BY <2>1, SameOrderLists DEF OrderList!Lost
  <2>3. OrderList!Cardinality(ordersStart \ ordersSeen)'
          = OrderList!Cardinality(ordersStart \ ordersSeen)
    BY <1>2 DEF OrderList!Cardinality
  <2> QED
    BY <1>2, <2>2, <2>3 DEF OrderList!IndInv
<1>9. OrderList!TotalCoversRows'
  BY <1>2, <1>3, SameOrderLists DEF OrderList!TotalCoversRows, OrderList!IndInv
<1>10. \A o \in Orders : status'[o] # None => o \in OrderList!ToSet(made)'
  BY <1>2 DEF OrderList!IndInv, OrderList!ToSet
<1> QED
  BY <1>2, <1>5, <1>7, <1>8, <1>9, <1>10 DEF OrderList!IndInv

\* The next page begins where the last one ends.
LEMMA TurnIsSafe ==
    ASSUME OrderList!IndInv, OrderList!Turn
    PROVE  OrderList!IndInv'
<1>1. /\ ordersOffset \in Nat /\ PageSize \in Nat
      /\ next = 0 /\ next' = 1 /\ ordersOffset' = ordersOffset + PageSize
      /\ UNCHANGED <<made, status, filter, rows, total, ordersSeen, ordersStart, left>>
  BY OrderListAssumption
  DEF OrderList!Turn, OrderList!table, OrderList!IndInv, OrderList!TypeOK,
      OrderList!PagesAssumption
<1>2. OrderList!TypeOK'
  BY <1>1 DEF OrderList!IndInv, OrderList!TypeOK, OrderList!IsInjective
<1>3. OrderList!Turned' = OrderList!Turned
  BY <1>1 DEF OrderList!Turned
<1>4. OrderList!Lost' = OrderList!Lost
  BY <1>1, <1>3 DEF OrderList!Lost, OrderList!Listed, OrderList!Passes, OrderList!Ahead,
                    OrderList!Newer, OrderList!Cardinality
<1>5. OrderList!Cardinality(OrderList!Lost)' <= left'
  BY <1>1, <1>4 DEF OrderList!Cardinality, OrderList!IndInv
<1>6. \A o \in Orders : status'[o] # None => o \in OrderList!ToSet(made)'
  BY <1>1 DEF OrderList!IndInv, OrderList!ToSet
<1> QED
  BY <1>1, <1>2, <1>5, <1>6
  DEF OrderList!IndInv, OrderList!NothingSkipped, OrderList!AtEnd, OrderList!TotalCoversRows

\* The pages of orders keep their types, skip no more orders than have left the
\* list, and the total covers the rows it comes with (list_orders, count_orders).
THEOREM PagesSkipNothing == OrderList!Spec => []OrderList!IndInv
<1>1. OrderList!Init => OrderList!IndInv
  <2> SUFFICES ASSUME OrderList!Init PROVE OrderList!IndInv
    OBVIOUS
  <2>1. /\ made = <<>> /\ status = [o \in Orders |-> None] /\ filter = None
        /\ ordersOffset = 0 /\ next = 0 /\ rows = <<>> /\ total = 0 /\ ordersSeen = {}
        /\ ordersStart = {} /\ left = 0
    BY DEF OrderList!Init
  <2>2. /\ OrderList!Cardinality({}) = 0 /\ OrderList!Cardinality(Orders) \in Nat
        /\ MaxLeft \in Nat
    BY OrderListAssumption, SameOrderLists, FS_EmptySet, FS_CardinalityType
    DEF OrderList!PagesAssumption
  <2>3. OrderList!TypeOK
    BY <2>1, <2>2 DEF OrderList!TypeOK, OrderList!IsInjective
  <2>4. OrderList!Lost = {}
    BY <2>1 DEF OrderList!Lost
  <2> QED
    BY <2>1, <2>2, <2>3, <2>4
    DEF OrderList!IndInv, OrderList!NothingSkipped, OrderList!TotalCoversRows
<1>2. OrderList!IndInv /\ [OrderList!Next]_(OrderList!vars) => OrderList!IndInv'
  <2> SUFFICES ASSUME OrderList!IndInv, [OrderList!Next]_(OrderList!vars)
               PROVE  OrderList!IndInv'
    OBVIOUS
  <2>1. CASE OrderList!Next
    BY <2>1, InsertIsSafe, CommitIsSafe, RollbackIsSafe, SetStatusIsSafe, OpenIsSafe,
       ReadRowsIsSafe, ReadCountIsSafe, TurnIsSafe
    DEF OrderList!Next
  <2>2. CASE UNCHANGED OrderList!vars
    <3>1. CommittedOnce /\ UNCHANGED <<OrderList!reader, left, made, status>>
      BY <2>2, OrdersAreCommittedOnce DEF OrderList!vars, OrderList!table
    <3>2. CommittedOnce'
      BY <3>1 DEF CommittedOnce
    <3>3. OrderList!Listed' = OrderList!Listed
      BY <3>1 DEF OrderList!Listed, OrderList!Passes, OrderList!reader
    <3>4. \A p, q \in OrderList!Listed : OrderList!Newer(p, q) => OrderList!Newer(p, q)'
      BY <3>1 DEF OrderList!Newer
    <3> QED
      BY <3>1, <3>2, <3>3, <3>4, GrowingIsSafe
  <2> QED
    BY <2>1, <2>2
<1> QED
  BY <1>1, <1>2, PTL DEF OrderList!Spec
-----------------------------------------------------------------------------
(***************************************************************************)
(* The catalog, page by page.                                              *)
(***************************************************************************)
\* Its lists are counted as here.
LEMMA SamePagedLists ==
    /\ \A N, n : Paged!Rank(N, n) = Rank(N, n)
    /\ \A s, N : Paged!Chosen(s, N) = Chosen(s, N)
    /\ \A s : Paged!ToSet(s) = {s[n] : n \in DOMAIN s}
    /\ \A s, n, e : Paged!InsertAt(s, n, e) = InsertAt(s, n, e)
    /\ \A s, n : Paged!RemoveAt(s, n) = RemoveAt(s, n)
    /\ \A a, b \in Int : Paged!Min({a, b}) = IF a < b THEN a ELSE b
<1>1. \A N, n : Paged!Rank(N, n) = Rank(N, n)
  BY DEF Paged!Rank, Paged!Cardinality, Rank, Cardinality
<1>2. \A s, N : Paged!Chosen(s, N) = Chosen(s, N)
  BY DEF Paged!Chosen, Paged!Rank, Paged!Cardinality, Chosen, Rank, Cardinality
<1>3. \A s : Paged!ToSet(s) = {s[n] : n \in DOMAIN s}
  BY DEF Paged!ToSet
<1>4. \A s, n, e : Paged!InsertAt(s, n, e) = InsertAt(s, n, e)
  BY DEF Paged!InsertAt, InsertAt
<1>5. \A s, n : Paged!RemoveAt(s, n) = RemoveAt(s, n)
  BY DEF Paged!RemoveAt, RemoveAt
<1>6. \A a, b \in Int : Paged!Min({a, b}) = IF a < b THEN a ELSE b
  BY DEF Paged!Min
<1> QED
  BY <1>1, <1>2, <1>3, <1>4, <1>5, <1>6

\* A row of the table.
PagedRow == [id : Paged!Ids, entry : PagedEntries]

\* The rows that pass.
PagedPassing(q) == {n \in DOMAIN pagedTable : Paged!Passes(pagedTable[n].entry, q)}

\* The list has each row that passes at its rank.
LEMMA PagedListIs ==
    ASSUME pagedTable \in Seq(PagedRow), NEW q, NEW list, list = Paged!Matches(pagedTable, q)
    PROVE  /\ list \in Seq(PagedRow) /\ Len(list) = Cardinality(PagedPassing(q))
           /\ Len(list) \in Nat /\ IsFiniteSet(PagedPassing(q)) /\ PagedPassing(q) \subseteq Int
           /\ \A n \in PagedPassing(q) : /\ Rank(PagedPassing(q), n) \in 0..Len(list) - 1
                                         /\ list[Rank(PagedPassing(q), n) + 1] = pagedTable[n]
           /\ \A k \in 1..Len(list) : \E n \in PagedPassing(q) :
                 Rank(PagedPassing(q), n) + 1 = k /\ list[k] = pagedTable[n]
<1>1. PagedPassing(q) \subseteq DOMAIN pagedTable /\ list = Chosen(pagedTable, PagedPassing(q))
  BY SamePagedLists DEF Paged!Matches, PagedPassing
<1>2. PagedPassing(q) \subseteq Int
  BY <1>1
<1> DEFINE P == PagedPassing(q)
<1> HIDE DEF P
<1>3. P \subseteq DOMAIN pagedTable /\ list = Chosen(pagedTable, P)
  BY <1>1 DEF P
<1>4. /\ IsFiniteSet(P) /\ Cardinality(P) \in Nat
      /\ list \in Seq(PagedRow) /\ Len(list) = Cardinality(P)
      /\ \A n \in P : /\ Rank(P, n) \in 0..Cardinality(P) - 1
                      /\ list[Rank(P, n) + 1] = pagedTable[n]
      /\ \A k \in 1..Cardinality(P) : \E n \in P : /\ Rank(P, n) + 1 = k
                                                  /\ list[k] = pagedTable[n]
  BY <1>3, ChosenIs
<1> QED
  BY <1>2, <1>4 DEF P

\* A list is of the table and the query it is made of, before and after a step.
LEMMA PagedListMoves ==
    /\ Paged!Matches(pagedTable, pagedQuery)' = Paged!Matches(pagedTable', pagedQuery')
    /\ \A n : Paged!Rank(Paged!Passing, n)' = Rank(Paged!Passing', n)
<1>1. Paged!Matches(pagedTable, pagedQuery)' = Paged!Matches(pagedTable', pagedQuery')
  BY DEF Paged!Matches, Paged!Passes, Paged!FiltersVariants, Paged!VariantPasses, Paged!Chosen,
         Paged!Rank, Paged!Cardinality, Paged!split_csv_filter, Paged!Plain, Paged!ToSet
<1>2. ASSUME NEW n PROVE Paged!Rank(Paged!Passing, n)' = Rank(Paged!Passing', n)
  BY DEF Paged!Rank, Paged!Cardinality, Rank, Cardinality
<1> QED
  BY <1>1, <1>2

\* A page has the rows of the list from where it begins.
LEMMA PagedPageIs ==
    ASSUME pagedTable \in Seq(PagedRow), pagedOffset \in Nat,
           NEW list, list = Paged!Matches(pagedTable, pagedQuery),
           NEW pg, pg = Paged!Page(list, pagedOffset)
    PROVE  /\ pg \in Seq(PagedRow) /\ \A k \in 1..Len(pg) : pg[k] = list[pagedOffset + k]
           /\ pg = <<>> => Len(list) <= pagedOffset
           /\ pg # <<>> => /\ pagedOffset < Len(list)
                           /\ pagedOffset + Len(pg) = Paged!Min({pagedOffset + PageSize, Len(list)})
                           /\ pagedOffset + Len(pg) \in Nat
                           /\ pagedOffset + Len(pg) <= Len(list)
                           /\ pagedOffset + Len(pg) <= pagedOffset + PageSize
                           /\ \/ pagedOffset + Len(pg) = Len(list)
                              \/ pagedOffset + Len(pg) = pagedOffset + PageSize
<1> DEFINE end == Paged!Min({pagedOffset + PageSize, Len(list)})
<1>1. PageSize \in Nat \ {0}
  BY PagedAssumption DEF Paged!ListingAssumption
<1>2. list \in Seq(PagedRow) /\ Len(list) \in Nat
  BY PagedListIs
<1>3. end = IF pagedOffset + PageSize < Len(list) THEN pagedOffset + PageSize ELSE Len(list)
  <2>1. pagedOffset + PageSize \in Int /\ Len(list) \in Int
    BY <1>1, <1>2
  <2> QED
    BY <2>1, SamePagedLists
<1>4. pg = SubSeq(list, pagedOffset + 1, end)
  BY DEF Paged!Page
<1> HIDE DEF end
<1>5. \A k \in pagedOffset + 1..end : list[k] \in PagedRow
  BY <1>1, <1>2, <1>3
<1>6. /\ pg \in Seq(PagedRow)
      /\ Len(pg) = IF pagedOffset + 1 <= end THEN end - (pagedOffset + 1) + 1 ELSE 0
      /\ \A k \in 1..end - (pagedOffset + 1) + 1 : pg[k] = list[pagedOffset + 1 + k - 1]
  BY <1>1, <1>2, <1>3, <1>4, <1>5, SubSeqProperties
<1>7. pg = <<>> <=> Len(pg) = 0
  BY <1>6
<1>8. \A k \in 1..Len(pg) : pg[k] = list[pagedOffset + k]
  <2> SUFFICES ASSUME NEW k \in 1..Len(pg) PROVE pg[k] = list[pagedOffset + k]
    OBVIOUS
  <2>1. k \in 1..end - (pagedOffset + 1) + 1 /\ pagedOffset + 1 + k - 1 = pagedOffset + k
    BY <1>1, <1>2, <1>3, <1>6
  <2> QED
    BY <1>6, <2>1
<1>9. pg = <<>> => Len(list) <= pagedOffset
  BY <1>1, <1>2, <1>3, <1>6, <1>7
<1>10. ASSUME pg # <<>>
       PROVE  /\ pagedOffset < Len(list) /\ pagedOffset + Len(pg) = end
              /\ end \in Nat /\ end <= Len(list) /\ end <= pagedOffset + PageSize
              /\ end = Len(list) \/ end = pagedOffset + PageSize
  <2>1. pagedOffset + 1 <= end
    BY <1>6, <1>7, <1>10
  <2> QED
    BY <1>1, <1>2, <1>3, <1>6, <2>1
<1> QED
  BY <1>6, <1>8, <1>9, <1>10, Zenon DEF end

\* What the invariant says of the types.
LEMMA PagedTypes ==
    ASSUME Paged!IndInv
    PROVE  /\ pagedTable \in Seq(PagedRow) /\ pagedQuery \in PagedQueries /\ pagedOffset \in Nat
           /\ pagedSeen \in Seq(Paged!Ids) /\ pagedStart \subseteq Paged!Ids
           /\ pagedChanged \subseteq {"published", "edited", "withdrawn"}
           /\ PageSize \in Nat \ {0} /\ Len(pagedTable) \in Nat
           /\ DOMAIN pagedTable = 1..Len(pagedTable)
           /\ \A m, n \in 1..Len(pagedTable) : pagedTable[m].id = pagedTable[n].id => m = n
<1>1. pagedTable \in Seq(PagedRow)
  BY DEF Paged!IndInv, Paged!TypeOK, PagedRow
<1> QED
  BY <1>1, PagedAssumption DEF Paged!IndInv, Paged!TypeOK, Paged!ListingAssumption

\* An entry that is published only pushes others down.
LEMMA PublishIsSafe ==
    ASSUME Paged!IndInv, Paged!Publish
    PROVE  Paged!IndInv'
<1>1. PICK i \in Paged!Ids \ Paged!IdsOf(pagedTable), e \in PagedEntries,
           k \in 1..Len(pagedTable) + 1 :
        /\ i \notin pagedStart
        /\ pagedTable' = InsertAt(pagedTable, k, [id |-> i, entry |-> e])
  BY SamePagedLists DEF Paged!Publish
<1>2. /\ pagedChanged' = pagedChanged \cup {"published"}
      /\ UNCHANGED <<pagedQuery, pagedOffset, pagedSeen, pagedStart>>
  BY DEF Paged!Publish
<1> DEFINE row == [id |-> i, entry |-> e]
           P == PagedPassing(pagedQuery)
           To(n) == IF n < k THEN n ELSE n + 1
<1>3. row \in PagedRow /\ \A n \in 1..Len(pagedTable) : pagedTable[n].id # i
  <2>1. \A n \in DOMAIN pagedTable : pagedTable[n].id \in Paged!IdsOf(pagedTable)
    BY SamePagedLists DEF Paged!IdsOf
  <2> QED
    BY <1>1, <2>1, PagedTypes DEF PagedRow
<1>4. /\ pagedTable' \in Seq(PagedRow) /\ Len(pagedTable') = Len(pagedTable) + 1
      /\ \A n \in 1..Len(pagedTable) + 1 :
           pagedTable'[n] = IF n < k THEN pagedTable[n]
                            ELSE IF n = k THEN row ELSE pagedTable[n - 1]
  <2>1. pagedTable' = InsertAt(pagedTable, k, row)
    BY <1>1
  <2> HIDE DEF row
  <2>2. pagedTable \in Seq(PagedRow) /\ row \in PagedRow /\ k \in 1..Len(pagedTable) + 1
    BY <1>1, <1>3, PagedTypes
  <2>3. /\ InsertAt(pagedTable, k, row) \in Seq(PagedRow)
        /\ Inserted(InsertAt(pagedTable, k, row), pagedTable, k, row)
    BY <2>2, InsertedIs
  <2> QED
    BY <2>1, <2>3 DEF Inserted
<1>5. DOMAIN pagedTable' = 1..Len(pagedTable) + 1
  BY <1>4
<1>6. ASSUME NEW n \in 1..Len(pagedTable)
      PROVE  To(n) \in 1..Len(pagedTable) + 1 /\ pagedTable'[To(n)] = pagedTable[n]
  <2>1. CASE n < k
    BY <1>4, <2>1, PagedTypes
  <2>2. CASE ~(n < k)
    <3>1. n + 1 \in 1..Len(pagedTable) + 1 /\ ~(n + 1 < k) /\ n + 1 # k /\ (n + 1) - 1 = n
      BY <2>2, PagedTypes
    <3> QED
      BY <1>4, <2>2, <3>1
  <2> QED
    BY <2>1, <2>2
<1>7. Paged!TypeOK'
  BY <1>2, <1>4, PagedTypes DEF Paged!TypeOK, PagedRow
<1>8. ASSUME NEW m \in DOMAIN pagedTable', NEW n \in DOMAIN pagedTable',
             pagedTable'[m].id = pagedTable'[n].id
      PROVE  m = n
  <2> DEFINE From(j) == IF j < k THEN j ELSE j - 1
  <2>1. ASSUME NEW j \in 1..Len(pagedTable) + 1, j # k
        PROVE  From(j) \in 1..Len(pagedTable) /\ pagedTable'[j] = pagedTable[From(j)]
    BY <1>4, <2>1, PagedTypes
  <2>2. pagedTable'[k].id = i
    BY <1>4, PagedTypes
  <2>3. CASE m = k \/ n = k
    BY <1>3, <1>5, <1>8, <2>1, <2>2, <2>3
  <2>4. CASE m # k /\ n # k
    <3>1. /\ From(m) \in 1..Len(pagedTable) /\ From(n) \in 1..Len(pagedTable)
          /\ pagedTable[From(m)].id = pagedTable[From(n)].id
      <4> HIDE DEF From
      <4> QED
        BY <1>5, <1>8, <2>1, <2>4
    <3>2. From(m) = From(n)
      <4> HIDE DEF From
      <4> QED
        BY <3>1, PagedTypes
    <3> QED
      BY <1>5, <2>4, <3>2, PagedTypes
  <2> QED
    BY <2>3, <2>4
<1>9. Paged!ShownInOrder'
  BY <1>2 DEF Paged!ShownInOrder
<1>10. Paged!ShownOrAhead'
  <2> SUFFICES ASSUME pagedChanged' \subseteq {"published"}, NEW x \in pagedStart'
               PROVE  \E n \in Paged!Passing' :
                         /\ pagedTable'[n].id = x
                         /\ Rank(Paged!Passing', n) < pagedOffset' => x \in Paged!ToSet(pagedSeen)'
    BY SamePagedLists, Zenon
    DEF Paged!ShownOrAhead, Paged!Rank, Paged!Cardinality, Rank, Cardinality
  <2>1. PICK m \in P : /\ pagedTable[m].id = x
                       /\ Rank(P, m) < pagedOffset => x \in Paged!ToSet(pagedSeen)
    BY <1>2, SamePagedLists, Zenon
    DEF Paged!IndInv, Paged!ShownOrAhead, Paged!Passing, PagedPassing
  <2>2. /\ P \subseteq Int /\ IsFiniteSet(P) /\ P \subseteq 1..Len(pagedTable)
    BY PagedTypes, PagedListIs, Zenon DEF PagedPassing
  <2>3. Paged!Passing' \subseteq 1..Len(pagedTable) + 1
    BY <1>5 DEF Paged!Passing
  <2>4. Paged!Passing' \subseteq Int /\ IsFiniteSet(Paged!Passing')
    <3>1. 1 \in Int /\ Len(pagedTable) + 1 \in Int
      BY PagedTypes
    <3>2. IsFiniteSet(1..Len(pagedTable) + 1)
      BY <3>1, FS_Interval
    <3>3. IsFiniteSet(Paged!Passing')
      BY <2>3, <3>2, SmallerPart, Zenon
    <3> QED
      BY <2>3, <3>1, <3>3
  <2>5. ASSUME NEW n \in P PROVE To(n) \in Paged!Passing'
    <3>1. To(n) \in DOMAIN pagedTable' /\ pagedTable'[To(n)] = pagedTable[n]
      BY <1>5, <1>6, <2>2
    <3>2. Paged!Passes(pagedTable'[To(n)].entry, pagedQuery)
      BY <3>1 DEF PagedPassing
    <3> HIDE DEF To
    <3> QED
      BY <1>2, <3>1, <3>2
      DEF Paged!Passing, Paged!Passes, Paged!FiltersVariants, Paged!VariantPasses
  <2> DEFINE f == [n \in P |-> To(n)]
  <2>6. f \in [P -> Paged!Passing']
    BY <2>5
  <2>7. \A a, b \in P : a < b <=> f[a] < f[b]
    BY <2>2, PagedTypes
  <2>8. f[m] = To(m) /\ m \in 1..Len(pagedTable)
    BY <2>2
  <2>9. Rank(P, m) \in Nat /\ Rank(Paged!Passing', To(m)) \in Nat
        /\ Rank(P, m) <= Rank(Paged!Passing', To(m))
    <3> HIDE DEF f, P, To
    <3> QED
      BY <2>2, <2>4, <2>6, <2>7, <2>8, RanksGrow, Zenon
  <2>10. pagedOffset' = pagedOffset /\ pagedOffset \in Nat
         /\ Paged!ToSet(pagedSeen)' = Paged!ToSet(pagedSeen)
    BY <1>2, PagedTypes DEF Paged!ToSet
  <2>11. pagedTable'[To(m)].id = x
    BY <1>6, <2>1, <2>8
  <2>12. Rank(Paged!Passing', To(m)) < pagedOffset' => x \in Paged!ToSet(pagedSeen)'
    <3> HIDE DEF To, P
    <3> QED
      BY <2>1, <2>9, <2>10
  <2> HIDE DEF To
  <2> QED
    BY <2>5, <2>11, <2>12
<1> QED
  BY <1>7, <1>8, <1>9, <1>10 DEF Paged!IndInv

\* An edited entry keeps its place.
LEMMA EditIsSafe ==
    ASSUME Paged!IndInv, Paged!Edit
    PROVE  Paged!IndInv'
<1>1. PICK k \in 1..Len(pagedTable), e \in PagedEntries :
        pagedTable' = [pagedTable EXCEPT ![k].entry = e]
  BY Zenon DEF Paged!Edit
<1>2. /\ pagedChanged' = pagedChanged \cup {"edited"}
      /\ UNCHANGED <<pagedQuery, pagedOffset, pagedSeen, pagedStart>>
  BY DEF Paged!Edit
<1>3. /\ pagedTable' \in Seq(PagedRow) /\ Len(pagedTable') = Len(pagedTable)
      /\ \A n \in 1..Len(pagedTable) : pagedTable'[n].id = pagedTable[n].id
  <2> DEFINE row == [pagedTable[k] EXCEPT !.entry = e]
  <2>1. row \in PagedRow /\ row.id = pagedTable[k].id
    <3>1. pagedTable[k] \in PagedRow /\ e \in PagedEntries
      BY <1>1, PagedTypes
    <3> QED
      BY <3>1 DEF PagedRow
  <2>2. pagedTable' = [pagedTable EXCEPT ![k] = row]
    BY <1>1, PagedTypes
  <2> HIDE DEF row
  <2>3. k \in 1..Len(pagedTable) /\ pagedTable \in Seq(PagedRow)
    BY <1>1, PagedTypes
  <2> QED
    BY <2>1, <2>2, <2>3, ExceptSeq
<1>4. Paged!TypeOK'
  BY <1>2, <1>3, PagedTypes DEF Paged!TypeOK, PagedRow
<1>5. \A m, n \in DOMAIN pagedTable' : pagedTable'[m].id = pagedTable'[n].id => m = n
  BY <1>3, PagedTypes
<1>6. Paged!ShownInOrder' /\ Paged!ShownOrAhead'
  BY <1>2, Zenon DEF Paged!ShownInOrder, Paged!ShownOrAhead
<1> QED
  BY <1>4, <1>5, <1>6 DEF Paged!IndInv

\* One that is withdrawn leaves the others in their order.
LEMMA WithdrawIsSafe ==
    ASSUME Paged!IndInv, Paged!Withdraw
    PROVE  Paged!IndInv'
<1>1. PICK k \in 1..Len(pagedTable) : pagedTable' = RemoveAt(pagedTable, k)
  BY SamePagedLists DEF Paged!Withdraw
<1>2. /\ pagedChanged' = pagedChanged \cup {"withdrawn"}
      /\ UNCHANGED <<pagedQuery, pagedOffset, pagedSeen, pagedStart>>
  BY DEF Paged!Withdraw
<1>3. /\ pagedTable' \in Seq(PagedRow) /\ Len(pagedTable') = Len(pagedTable) - 1
      /\ \A n \in 1..Len(pagedTable) - 1 :
           pagedTable'[n] = IF n < k THEN pagedTable[n] ELSE pagedTable[n + 1]
  <2>1. k \in 1..Len(pagedTable) /\ pagedTable \in Seq(PagedRow)
    BY <1>1, PagedTypes
  <2>2. /\ RemoveAt(pagedTable, k) \in Seq(PagedRow)
        /\ Len(RemoveAt(pagedTable, k)) = Len(pagedTable) - 1
        /\ \A n \in 1..Len(pagedTable) - 1 :
             RemoveAt(pagedTable, k)[n] = IF n < k THEN pagedTable[n] ELSE pagedTable[n + 1]
    BY <2>1, RemovedIs
  <2> QED
    BY <1>1, <2>2
<1>4. Paged!TypeOK'
  BY <1>2, <1>3, PagedTypes DEF Paged!TypeOK, PagedRow
<1>5. ASSUME NEW m \in DOMAIN pagedTable', NEW n \in DOMAIN pagedTable',
             pagedTable'[m].id = pagedTable'[n].id
      PROVE  m = n
  <2> DEFINE From(j) == IF j < k THEN j ELSE j + 1
  <2>1. DOMAIN pagedTable' = 1..Len(pagedTable) - 1 /\ k \in 1..Len(pagedTable)
    BY <1>1, <1>3, PagedTypes
  <2>2. ASSUME NEW j \in DOMAIN pagedTable'
        PROVE  From(j) \in 1..Len(pagedTable) /\ pagedTable'[j] = pagedTable[From(j)]
    BY <1>3, <2>1, PagedTypes
  <2>3. From(m) = From(n)
    <3> HIDE DEF From
    <3> QED
      BY <1>5, <2>2, PagedTypes
  <2> QED
    BY <2>1, <2>3, PagedTypes
<1>6. Paged!ShownInOrder' /\ Paged!ShownOrAhead'
  BY <1>2 DEF Paged!ShownInOrder, Paged!ShownOrAhead
<1> QED
  BY <1>4, <1>5, <1>6 DEF Paged!IndInv

\* A search begins with nothing shown.
LEMMA SearchIsSafe ==
    ASSUME Paged!IndInv, Paged!Search
    PROVE  Paged!IndInv'
<1>1. /\ pagedQuery' \in PagedQueries /\ pagedOffset' = 0 /\ pagedSeen' = <<>>
      /\ pagedChanged' = {} /\ pagedTable' = pagedTable
      /\ pagedStart' = Paged!IdsOf(Paged!Matches(pagedTable, pagedQuery'))
  BY DEF Paged!Search
<1> DEFINE list == Paged!Matches(pagedTable, pagedQuery')
           P == PagedPassing(pagedQuery')
<1>2. /\ list \in Seq(PagedRow) /\ Len(list) \in Nat
      /\ \A k \in 1..Len(list) : \E n \in P : list[k] = pagedTable[n]
      /\ P \subseteq Int /\ IsFiniteSet(P) /\ P \subseteq DOMAIN pagedTable
  <2> HIDE DEF list
  <2>1. pagedTable \in Seq(PagedRow)
    BY PagedTypes
  <2>2. P \subseteq DOMAIN pagedTable
    BY DEF PagedPassing
  <2>3. /\ list \in Seq(PagedRow) /\ Len(list) \in Nat
        /\ \A k \in 1..Len(list) : \E n \in P : list[k] = pagedTable[n]
        /\ P \subseteq Int /\ IsFiniteSet(P)
    BY <2>1, PagedListIs DEF list
  <2> QED
    BY <2>2, <2>3
<1>3. Paged!Matches(pagedTable, pagedQuery)' = list
  BY <1>1, PagedListMoves
<1>4. Paged!Passing' = P
  BY <1>1
  DEF Paged!Passing, PagedPassing, Paged!Passes, Paged!FiltersVariants, Paged!VariantPasses
<1> HIDE DEF list, P
<1>5. pagedStart' = {list[k].id : k \in 1..Len(list)}
  <2>1. DOMAIN list = 1..Len(list)
    BY <1>2
  <2>2. pagedStart' = {r.id : r \in {list[k] : k \in 1..Len(list)}}
    BY <1>1, <2>1, SamePagedLists DEF Paged!IdsOf, list
  <2> QED
    BY <2>2
<1>6. Paged!TypeOK'
  <2>1. pagedStart' \subseteq Paged!Ids
    <3>1. \A k \in 1..Len(list) : list[k] \in PagedRow
      BY <1>2
    <3> QED
      BY <1>5, <3>1 DEF PagedRow
  <2> QED
    BY <1>1, <2>1, PagedTypes DEF Paged!TypeOK, PagedRow
<1>7. Paged!ShownInOrder'
  <2>1. Paged!Min({0, Len(list)}) = 0
    BY <1>2, SamePagedLists
  <2>2. [n \in 1..0 |-> list[n].id] = <<>>
    OBVIOUS
  <2>3. Paged!Min({pagedOffset, Len(Paged!Matches(pagedTable, pagedQuery))})'
          = Paged!Min({0, Len(list)})
    BY <1>1, <1>3 DEF Paged!Min
  <2> QED
    BY <1>1, <1>3, <2>1, <2>2, <2>3, Zenon DEF Paged!ShownInOrder
<1>8. Paged!ShownOrAhead'
  <2> SUFFICES ASSUME NEW x \in pagedStart'
               PROVE  \E n \in P : /\ pagedTable[n].id = x
                                   /\ Rank(P, n) < 0 => x \in Paged!ToSet(pagedSeen)'
    BY <1>1, <1>4, PagedListMoves DEF Paged!ShownOrAhead
  <2>1. PICK n \in P : pagedTable[n].id = x
    BY <1>2, <1>5
  <2>2. Rank(P, n) \in Nat
    <3>1. Cardinality(P) \in Nat /\ Rank(P, n) \in 0..Cardinality(P) - 1
      BY <1>2, <2>1, RanksAre, Zenon
    <3> QED
      BY <3>1
  <2> QED
    BY <2>1, <2>2
<1>9. \A m, n \in DOMAIN pagedTable' : pagedTable'[m].id = pagedTable'[n].id => m = n
  BY <1>1, PagedTypes
<1> QED
  BY <1>6, <1>7, <1>8, <1>9 DEF Paged!IndInv

\* A page shows the next of the list.
LEMMA NextPageIsSafe ==
    ASSUME Paged!IndInv, Paged!NextPage
    PROVE  Paged!IndInv'
<1> DEFINE list == Paged!Matches(pagedTable, pagedQuery)
           pg == Paged!Page(list, pagedOffset)
           P == PagedPassing(pagedQuery)
           ids == [n \in 1..Len(pg) |-> pg[n].id]
<1>1. /\ pg # <<>> /\ pagedSeen' = pagedSeen \o ids
      /\ pagedOffset' = pagedOffset + PageSize
      /\ UNCHANGED <<pagedTable, pagedQuery, pagedStart, pagedChanged>>
  BY DEF Paged!NextPage
<1>2. /\ pagedTable \in Seq(PagedRow) /\ pagedOffset \in Nat /\ PageSize \in Nat \ {0}
      /\ pagedSeen \in Seq(Paged!Ids)
  BY PagedTypes
<1>3. /\ list \in Seq(PagedRow) /\ Len(list) \in Nat
      /\ P \subseteq Int /\ IsFiniteSet(P) /\ P \subseteq DOMAIN pagedTable
      /\ \A n \in P : Rank(P, n) \in 0..Len(list) - 1 /\ list[Rank(P, n) + 1] = pagedTable[n]
  <2> HIDE DEF list
  <2>1. P \subseteq DOMAIN pagedTable
    BY DEF PagedPassing
  <2>2. /\ list \in Seq(PagedRow) /\ Len(list) \in Nat /\ P \subseteq Int /\ IsFiniteSet(P)
        /\ \A n \in P : Rank(P, n) \in 0..Len(list) - 1 /\ list[Rank(P, n) + 1] = pagedTable[n]
    BY <1>2, PagedListIs DEF list
  <2> QED
    BY <2>1, <2>2
<1>4. Paged!Matches(pagedTable, pagedQuery)' = list
  BY <1>1, PagedListMoves
<1>5. Paged!Passing' = P
  BY <1>1
  DEF Paged!Passing, PagedPassing, Paged!Passes, Paged!FiltersVariants, Paged!VariantPasses
<1>6. /\ pg \in Seq(PagedRow) /\ \A k \in 1..Len(pg) : pg[k] = list[pagedOffset + k]
      /\ pagedOffset < Len(list) /\ pagedOffset + Len(pg) <= Len(list)
      /\ pagedOffset + Len(pg) = Paged!Min({pagedOffset + PageSize, Len(list)})
      /\ \/ pagedOffset + Len(pg) = Len(list)
         \/ pagedOffset + Len(pg) = pagedOffset + PageSize
  <2>1. \A l, p : l = list /\ p = Paged!Page(l, pagedOffset) /\ p # <<>> =>
          /\ p \in Seq(PagedRow) /\ \A k \in 1..Len(p) : p[k] = l[pagedOffset + k]
          /\ pagedOffset < Len(l) /\ pagedOffset + Len(p) <= Len(l)
          /\ pagedOffset + Len(p) = Paged!Min({pagedOffset + PageSize, Len(l)})
          /\ \/ pagedOffset + Len(p) = Len(l)
             \/ pagedOffset + Len(p) = pagedOffset + PageSize
    BY <1>2, PagedPageIs, Zenon
  <2> HIDE DEF list
  <2> QED
    BY <1>1, <2>1, Zenon
<1> HIDE DEF list, P, pg
<1>7. Len(pg) \in Nat
  BY <1>6
<1>8. ids \in Seq(Paged!Ids) /\ Len(ids) = Len(pg)
  <2>1. \A n \in 1..Len(pg) : pg[n] \in PagedRow
    BY <1>6
  <2>2. \A n \in 1..Len(pg) : pg[n].id \in Paged!Ids
    BY <2>1 DEF PagedRow
  <2> QED
    BY <1>7, <2>2
<1>9. \A k \in 1..Len(pg) : ids[k] = list[pagedOffset + k].id
  BY <1>6
<1> HIDE DEF ids
<1>10. /\ pagedSeen' \in Seq(Paged!Ids) /\ Len(pagedSeen') = Len(pagedSeen) + Len(ids)
       /\ \A n \in 1..Len(pagedSeen) + Len(ids) :
            pagedSeen'[n] = IF n <= Len(pagedSeen) THEN pagedSeen[n] ELSE ids[n - Len(pagedSeen)]
  <2>1. /\ pagedSeen \o ids \in Seq(Paged!Ids)
        /\ Len(pagedSeen \o ids) = Len(pagedSeen) + Len(ids)
        /\ \A n \in 1..Len(pagedSeen) + Len(ids) :
             (pagedSeen \o ids)[n]
               = IF n <= Len(pagedSeen) THEN pagedSeen[n] ELSE ids[n - Len(pagedSeen)]
    BY <1>2, <1>8, ConcatProperties, Zenon
  <2> QED
    BY <1>1, <2>1
<1>11. Paged!TypeOK'
  BY <1>1, <1>2, <1>10, PagedTypes DEF Paged!TypeOK, PagedRow
<1>12. Len(pagedSeen) \in Nat /\ DOMAIN pagedSeen = 1..Len(pagedSeen)
  BY <1>2
<1>13. Paged!ShownInOrder'
  <2> SUFFICES ASSUME pagedChanged = {}
               PROVE  pagedSeen' = [n \in 1..pagedOffset + Len(pg) |-> list[n].id]
    <3>1. Paged!Min({pagedOffset, Len(Paged!Matches(pagedTable, pagedQuery))})'
            = Paged!Min({pagedOffset + PageSize, Len(list)})
      BY <1>1, <1>4 DEF Paged!Min
    <3> QED
      BY <1>1, <1>4, <1>6, <3>1, Zenon DEF Paged!ShownInOrder
  <2>1. pagedSeen = [n \in 1..pagedOffset |-> list[n].id] /\ Len(pagedSeen) = pagedOffset
    <3>1. Paged!Min({pagedOffset, Len(list)}) = pagedOffset
      <4>1. pagedOffset \in Int /\ Len(list) \in Int /\ pagedOffset < Len(list)
        BY <1>2, <1>3, <1>6
      <4> QED
        BY <4>1, SamePagedLists
    <3>2. pagedSeen = [n \in 1..pagedOffset |-> list[n].id]
      BY <3>1, Zenon DEF Paged!IndInv, Paged!ShownInOrder, list
    <3> QED
      BY <1>2, <3>2
  <2>2. ASSUME NEW n \in 1..pagedOffset + Len(pg) PROVE pagedSeen'[n] = list[n].id
    <3>1. CASE n <= pagedOffset
      BY <1>2, <1>7, <1>8, <1>10, <2>1, <3>1
    <3>2. CASE ~(n <= pagedOffset)
      <4>1. n - pagedOffset \in 1..Len(pg) /\ pagedOffset + (n - pagedOffset) = n
        BY <1>2, <1>7, <3>2
      <4>2. pagedSeen'[n] = ids[n - pagedOffset]
        BY <1>8, <1>10, <2>1, <3>2, Zenon
      <4> QED
        BY <1>9, <4>1, <4>2
    <3> QED
      BY <3>1, <3>2
  <2>3. Len(pagedSeen') = pagedOffset + Len(pg) /\ pagedSeen' \in Seq(Paged!Ids)
    BY <1>8, <1>10, <2>1, Zenon
  <2>4. pagedSeen' = [n \in 1..pagedOffset + Len(pg) |-> pagedSeen'[n]]
    BY <2>3
  <2> QED
    BY <2>2, <2>4
<1>14. Paged!ShownOrAhead'
  <2> SUFFICES ASSUME pagedChanged \subseteq {"published"}, NEW x \in pagedStart
               PROVE  \E n \in P : /\ pagedTable[n].id = x
                                   /\ Rank(P, n) < pagedOffset + PageSize
                                        => x \in {pagedSeen'[k] : k \in DOMAIN pagedSeen'}
    BY <1>1, <1>5, PagedListMoves DEF Paged!ShownOrAhead, Paged!ToSet
  <2>1. PICK n \in P : /\ pagedTable[n].id = x
                       /\ Rank(P, n) < pagedOffset => x \in {pagedSeen[k] : k \in DOMAIN pagedSeen}
    BY SamePagedLists, Zenon
    DEF Paged!IndInv, Paged!ShownOrAhead, Paged!Passing, PagedPassing, P
  <2>2. DOMAIN pagedSeen' = 1..Len(pagedSeen) + Len(pg)
    BY <1>7, <1>8, <1>10, <1>12
  <2>3. CASE Rank(P, n) < pagedOffset
    <3>1. PICK k \in 1..Len(pagedSeen) : pagedSeen[k] = x
      BY <1>12, <2>1, <2>3
    <3>2. k \in DOMAIN pagedSeen' /\ pagedSeen'[k] = x
      BY <1>7, <1>8, <1>10, <1>12, <2>2, <3>1
    <3> QED
      BY <2>1, <3>2
  <2>4. CASE ~(Rank(P, n) < pagedOffset) /\ Rank(P, n) < pagedOffset + PageSize
    <3> DEFINE k == Rank(P, n) + 1 - pagedOffset
    <3>1. /\ Rank(P, n) \in 0..Len(list) - 1 /\ list[Rank(P, n) + 1] = pagedTable[n]
      BY <1>3, <2>1
    <3>2. k \in 1..Len(pg) /\ pagedOffset + k = Rank(P, n) + 1
      BY <1>2, <1>3, <1>6, <1>7, <2>4, <3>1
    <3> HIDE DEF k
    <3>3. ids[k] = x
      BY <1>9, <2>1, <3>1, <3>2
    <3>4. /\ Len(pagedSeen) + k \in 1..Len(pagedSeen) + Len(ids)
          /\ ~(Len(pagedSeen) + k <= Len(pagedSeen)) /\ (Len(pagedSeen) + k) - Len(pagedSeen) = k
      BY <1>7, <1>8, <1>12, <3>2
    <3>5. pagedSeen'[Len(pagedSeen) + k] = x
      BY <1>10, <3>3, <3>4
    <3>6. Len(pagedSeen) + k \in DOMAIN pagedSeen'
      BY <1>8, <2>2, <3>4
    <3> QED
      BY <2>1, <3>5, <3>6
  <2> QED
    BY <2>1, <2>3, <2>4
<1>15. \A m, n \in DOMAIN pagedTable' : pagedTable'[m].id = pagedTable'[n].id => m = n
  BY <1>1, PagedTypes, Zenon
<1> QED
  BY <1>11, <1>13, <1>14, <1>15 DEF Paged!IndInv

\* Page by page the list keeps its types, shows what it holds in its order, and
\* publishing hides none of it (list_shrimp).
THEOREM PagesAreShown == Paged!Spec => []Paged!IndInv
<1>1. Paged!Init => Paged!IndInv
  <2> SUFFICES ASSUME Paged!Init PROVE Paged!IndInv
    OBVIOUS
  <2>1. /\ pagedTable = <<>> /\ pagedQuery \in PagedQueries /\ pagedOffset = 0
        /\ pagedSeen = <<>> /\ pagedStart = {} /\ pagedChanged = {}
    BY DEF Paged!Init
  <2>2. pagedTable \in Seq(PagedRow)
    BY <2>1
  <2>3. Len(Paged!Matches(pagedTable, pagedQuery)) \in Nat
    BY <2>2, PagedListIs
  <2>4. Paged!Min({0, Len(Paged!Matches(pagedTable, pagedQuery))}) = 0
    <3>1. Len(Paged!Matches(pagedTable, pagedQuery)) \in Int
          /\ ~(Len(Paged!Matches(pagedTable, pagedQuery)) < 0)
      BY <2>3
    <3> QED
      BY <3>1, SamePagedLists
  <2>5. Paged!ShownInOrder
    <3> DEFINE list == Paged!Matches(pagedTable, pagedQuery)
    <3> HIDE DEF list
    <3>1. Paged!Min({pagedOffset, Len(list)}) = 0
      BY <2>1, <2>4 DEF list
    <3>2. [n \in 1..0 |-> list[n].id] = <<>>
      OBVIOUS
    <3>3. pagedSeen = [n \in 1..Paged!Min({pagedOffset, Len(list)}) |-> list[n].id]
      BY <2>1, <3>1, <3>2, Zenon
    <3> QED
      BY <3>3 DEF Paged!ShownInOrder, list
  <2> QED
    BY <2>1, <2>5 DEF Paged!IndInv, Paged!TypeOK, Paged!ShownOrAhead
<1>2. Paged!IndInv /\ [Paged!Next]_(Paged!vars) => Paged!IndInv'
  <2> SUFFICES ASSUME Paged!IndInv, [Paged!Next]_(Paged!vars) PROVE Paged!IndInv'
    OBVIOUS
  <2>1. CASE Paged!Next
    BY <2>1, PublishIsSafe, EditIsSafe, WithdrawIsSafe, SearchIsSafe, NextPageIsSafe
    DEF Paged!Next
  <2>2. CASE UNCHANGED Paged!vars
    <3>1. UNCHANGED <<pagedTable, pagedQuery, pagedOffset, pagedSeen, pagedStart, pagedChanged>>
      BY <2>2 DEF Paged!vars, Paged!reader
    <3>2. Paged!TypeOK' /\ \A m, n \in DOMAIN pagedTable' :
                              pagedTable'[m].id = pagedTable'[n].id => m = n
      BY <3>1 DEF Paged!IndInv, Paged!TypeOK
    <3>3. Paged!ShownInOrder'
      <4>1. Paged!Matches(pagedTable, pagedQuery)' = Paged!Matches(pagedTable, pagedQuery)
        BY <3>1, PagedListMoves
      <4> QED
        BY <3>1, <4>1 DEF Paged!IndInv, Paged!ShownInOrder, Paged!Min
    <3>4. Paged!ShownOrAhead'
      <4>1. Paged!Passing' = Paged!Passing
        BY <3>1
        DEF Paged!Passing, Paged!Passes, Paged!FiltersVariants, Paged!VariantPasses
      <4> QED
        BY <3>1, <4>1, PagedListMoves, SamePagedLists
        DEF Paged!IndInv, Paged!ShownOrAhead, Paged!ToSet
    <3> QED
      BY <3>2, <3>3, <3>4 DEF Paged!IndInv
  <2> QED
    BY <2>1, <2>2
<1> QED
  BY <1>1, <1>2, PTL DEF Paged!Spec

\* At its end all of the list has been shown.
LEMMA PagesEnd == Paged!IndInv => Paged!PagesMakeTheList /\ Paged!PublishingHidesNothing
<1> SUFFICES ASSUME Paged!IndInv, Paged!AtEnd
             PROVE  /\ pagedChanged = {} =>
                         pagedSeen = [n \in 1..Len(Paged!Matches(pagedTable, pagedQuery)) |->
                                        Paged!Matches(pagedTable, pagedQuery)[n].id]
                    /\ pagedChanged \subseteq {"published"} =>
                         pagedStart \subseteq Paged!ToSet(pagedSeen)
  BY DEF Paged!PagesMakeTheList, Paged!PublishingHidesNothing
<1> DEFINE list == Paged!Matches(pagedTable, pagedQuery)
           P == PagedPassing(pagedQuery)
<1>1. pagedTable \in Seq(PagedRow) /\ pagedOffset \in Nat
  BY PagedTypes
<1>2. /\ Len(list) \in Nat
      /\ \A n \in P : Rank(P, n) \in 0..Len(list) - 1
  <2> HIDE DEF list
  <2> QED
    BY <1>1, PagedListIs DEF list
<1>3. Len(list) <= pagedOffset
  <2>1. Paged!Page(list, pagedOffset) = <<>>
    BY DEF Paged!AtEnd
  <2> HIDE DEF list
  <2>2. \A l, p : l = Paged!Matches(pagedTable, pagedQuery) /\ p = Paged!Page(l, pagedOffset)
                    /\ p = <<>> => Len(l) <= pagedOffset
    BY <1>1, PagedPageIs, Zenon
  <2> QED
    BY <2>1, <2>2 DEF list
<1> HIDE DEF list, P
<1>4. ASSUME pagedChanged = {} PROVE pagedSeen = [n \in 1..Len(list) |-> list[n].id]
  <2>1. Paged!Min({pagedOffset, Len(list)}) = Len(list)
    <3>1. pagedOffset \in Int /\ Len(list) \in Int /\ (pagedOffset < Len(list) \/ pagedOffset >= Len(list))
      BY <1>1, <1>2
    <3>2. ~(pagedOffset < Len(list))
      BY <1>1, <1>2, <1>3
    <3> QED
      BY <3>1, <3>2, SamePagedLists
  <2> QED
    BY <1>4, <2>1, Zenon DEF Paged!IndInv, Paged!ShownInOrder, list
<1>5. ASSUME pagedChanged \subseteq {"published"}, NEW x \in pagedStart
      PROVE  x \in Paged!ToSet(pagedSeen)
  <2>1. PICK n \in P : Rank(P, n) < pagedOffset => x \in Paged!ToSet(pagedSeen)
    BY <1>5, SamePagedLists, Zenon
    DEF Paged!IndInv, Paged!ShownOrAhead, Paged!Passing, PagedPassing, P
  <2>2. Rank(P, n) < pagedOffset
    BY <1>1, <1>2, <1>3, <2>1
  <2> QED
    BY <2>1, <2>2
<1> QED
  BY <1>4, <1>5 DEF list
-----------------------------------------------------------------------------
(***************************************************************************)
(* The catalog, with all filters.                                          *)
(***************************************************************************)
\* A row of the table.
FilteredRow == [id : Filters!Ids, entry : Entries]

\* The list has a row for each that passes.
LEMMA FilteredListIs ==
    ASSUME table \in Seq(FilteredRow), NEW q
    PROVE  /\ Filters!Matches(table, q) \in Seq(FilteredRow)
           /\ \A r \in Filters!ToSet(Filters!Matches(table, q)) :
                 /\ r \in FilteredRow /\ Filters!Passes(r.entry, q)
                 /\ \E n \in DOMAIN table : table[n] = r
           /\ \A n \in DOMAIN table :
                 Filters!Passes(table[n].entry, q) => Filters!Matches(table, q) # <<>>
<1> DEFINE P == {n \in DOMAIN table : Filters!Passes(table[n].entry, q)}
<1>1. Filters!Matches(table, q) = Chosen(table, P) /\ P \subseteq DOMAIN table
  BY DEF Filters!Matches, Filters!Chosen, Filters!Rank, Filters!Cardinality, Chosen, Rank,
         Cardinality
<1>2. \A n \in P : /\ Filters!Passes(table[n].entry, q) /\ table[n] \in FilteredRow
                   /\ n \in DOMAIN table
  OBVIOUS
<1>3. \A n \in DOMAIN table : Filters!Passes(table[n].entry, q) => n \in P
  OBVIOUS
<1> DEFINE list == Chosen(table, P)
<1> HIDE DEF P
<1>4. /\ list \in Seq(FilteredRow) /\ Len(list) = Cardinality(P) /\ Cardinality(P) \in Nat
      /\ \A n \in P : Rank(P, n) \in 0..Cardinality(P) - 1
      /\ \A k \in 1..Cardinality(P) : \E n \in P : list[k] = table[n]
  BY <1>1, ChosenIs
<1> HIDE DEF list
<1>5. ASSUME NEW r \in Filters!ToSet(list)
      PROVE  /\ r \in FilteredRow /\ Filters!Passes(r.entry, q)
             /\ \E n \in DOMAIN table : table[n] = r
  <2>1. PICK k \in 1..Cardinality(P) : list[k] = r
    BY <1>4 DEF Filters!ToSet
  <2>2. PICK n \in P : r = table[n]
    BY <1>4, <2>1
  <2> QED
    BY <1>2, <2>2
<1>6. ASSUME NEW n \in DOMAIN table, Filters!Passes(table[n].entry, q) PROVE list # <<>>
  <2>1. Len(list) # 0
    BY <1>3, <1>4, <1>6
  <2> QED
    BY <2>1
<1> QED
  BY <1>1, <1>4, <1>5, <1>6 DEF list

\* A page is a part of the list.
LEMMA FilteredPageIs ==
    ASSUME NEW list \in Seq(FilteredRow), NEW from \in Nat
    PROVE  Filters!Page(list, from) \in Seq(FilteredRow)
<1> DEFINE end == Filters!Min({from + Limit, Len(list)})
<1>1. Limit \in Nat /\ Len(list) \in Nat
  BY FiltersAssumption DEF Filters!ListingAssumption
<1>2. end \in Int /\ end <= Len(list)
  BY <1>1 DEF Filters!Min
<1> HIDE DEF end
<1>3. \A k \in from + 1..end : list[k] \in FilteredRow
  BY <1>1, <1>2
<1>4. SubSeq(list, from + 1, end) \in Seq(FilteredRow)
  BY <1>2, <1>3, SubSeqProperties
<1> QED
  BY <1>4, Zenon DEF Filters!Page, end

\* The catalog keeps its types.
THEOREM FilteredTypes == Filters!Spec => []Filters!TypeOK
<1>1. Filters!Init => Filters!TypeOK
  BY DEF Filters!Init, Filters!TypeOK
<1>2. Filters!TypeOK /\ [Filters!Next]_(Filters!vars) => Filters!TypeOK'
  <2> SUFFICES ASSUME Filters!TypeOK, [Filters!Next]_(Filters!vars) PROVE Filters!TypeOK'
    OBVIOUS
  <2>0. /\ table \in Seq(FilteredRow) /\ query \in Queries /\ offset \in Nat
        /\ seen \in Seq(Filters!Ids) /\ start \subseteq Filters!Ids
        /\ changed \subseteq {"published", "edited", "withdrawn"}
        /\ Limit \in Nat
    BY FiltersAssumption DEF Filters!TypeOK, Filters!ListingAssumption, FilteredRow
  <2>1. CASE Filters!Publish
    <3>1. PICK i \in Filters!Ids, e \in Entries, k \in 1..Len(table) + 1 :
            table' = InsertAt(table, k, [id |-> i, entry |-> e])
      BY <2>1, Zenon DEF Filters!Publish, Filters!InsertAt, InsertAt
    <3> DEFINE row == [id |-> i, entry |-> e]
    <3>2. row \in FilteredRow /\ table' = InsertAt(table, k, row) /\ k \in 1..Len(table) + 1
      BY <3>1 DEF FilteredRow
    <3> HIDE DEF row
    <3>3. InsertAt(table, k, row) \in Seq(FilteredRow)
      BY <2>0, <3>2, InsertedIs
    <3>4. /\ changed' = changed \cup {"published"}
          /\ UNCHANGED <<query, offset, seen, start>>
      BY <2>1 DEF Filters!Publish
    <3> QED
      BY <2>0, <3>2, <3>3, <3>4 DEF Filters!TypeOK, FilteredRow
  <2>2. CASE Filters!Edit
    <3>1. PICK k \in 1..Len(table), e \in Entries : table' = [table EXCEPT ![k].entry = e]
      BY <2>2, Zenon DEF Filters!Edit
    <3> DEFINE row == [table[k] EXCEPT !.entry = e]
    <3>2. table[k] \in FilteredRow /\ e \in Entries /\ k \in 1..Len(table)
      BY <2>0, <3>1
    <3>3. row \in FilteredRow /\ table' = [table EXCEPT ![k] = row]
      BY <3>1, <3>2 DEF FilteredRow
    <3> HIDE DEF row
    <3>4. table' \in Seq(FilteredRow)
      BY <2>0, <3>2, <3>3, ExceptSeq
    <3>5. changed' = changed \cup {"edited"} /\ UNCHANGED <<query, offset, seen, start>>
      BY <2>2 DEF Filters!Edit
    <3> QED
      BY <2>0, <3>4, <3>5 DEF Filters!TypeOK, FilteredRow
  <2>3. CASE Filters!Withdraw
    <3>1. PICK k \in 1..Len(table) : table' = RemoveAt(table, k)
      BY <2>3, Zenon DEF Filters!Withdraw, Filters!RemoveAt, RemoveAt
    <3>2. RemoveAt(table, k) \in Seq(FilteredRow)
      BY <2>0, <3>1, RemovedIs
    <3>3. changed' = changed \cup {"withdrawn"} /\ UNCHANGED <<query, offset, seen, start>>
      BY <2>3 DEF Filters!Withdraw
    <3> QED
      BY <2>0, <3>1, <3>2, <3>3 DEF Filters!TypeOK, FilteredRow
  <2>4. CASE Filters!Search
    <3>1. /\ query' \in Queries /\ offset' = 0 /\ seen' = <<>> /\ changed' = {}
          /\ start' = Filters!IdsOf(Filters!Matches(table, query')) /\ table' = table
      BY <2>4 DEF Filters!Search
    <3>2. \A r \in Filters!ToSet(Filters!Matches(table, query')) : r \in FilteredRow
      BY <2>0, FilteredListIs
    <3>3. start' \subseteq Filters!Ids
      BY <3>1, <3>2 DEF Filters!IdsOf, FilteredRow
    <3> QED
      BY <2>0, <3>1, <3>3 DEF Filters!TypeOK, FilteredRow
  <2>5. CASE Filters!NextPage
    <3> DEFINE pg == Filters!Page(Filters!Matches(table, query), offset)
               ids == [n \in 1..Len(pg) |-> pg[n].id]
    <3>1. /\ seen' = seen \o ids /\ offset' = offset + Limit
          /\ UNCHANGED <<table, query, start, changed>>
      BY <2>5 DEF Filters!NextPage
    <3>2. pg \in Seq(FilteredRow)
      <4>1. Filters!Matches(table, query) \in Seq(FilteredRow)
        BY <2>0, FilteredListIs
      <4> QED
        BY <2>0, <4>1, FilteredPageIs
    <3> HIDE DEF pg
    <3>3. \A n \in 1..Len(pg) : pg[n] \in FilteredRow
      BY <3>2
    <3>4. Len(pg) \in Nat /\ \A n \in 1..Len(pg) : pg[n].id \in Filters!Ids
      BY <3>2, <3>3 DEF FilteredRow
    <3>5. ids \in Seq(Filters!Ids)
      BY <3>4
    <3> HIDE DEF ids
    <3>6. seen \o ids \in Seq(Filters!Ids)
      BY <2>0, <3>5, ConcatProperties
    <3> QED
      BY <2>0, <3>1, <3>6 DEF Filters!TypeOK, FilteredRow
  <2>6. CASE UNCHANGED Filters!vars
    BY <2>6 DEF Filters!vars, Filters!reader, Filters!TypeOK
  <2> QED
    BY <2>1, <2>2, <2>3, <2>4, <2>5, <2>6 DEF Filters!Next
<1> QED
  BY <1>1, <1>2, PTL DEF Filters!Spec

\* What passes the filters shows figures that agree with them.
LEMMA ItemsAgree == Filters!TypeOK => Filters!ListAgreesWithItems
<1> SUFFICES ASSUME Filters!TypeOK,
                    NEW r \in Filters!ToSet(Filters!Matches(table, query))
             PROVE  /\ query.in_stock = TRUE => Filters!IsAvailable(r.entry)
                    /\ query.max_price # None =>
                         /\ Filters!MinPrice(r.entry) # None
                         /\ Filters!MinPrice(r.entry) <= query.max_price
  BY Zenon DEF Filters!ListAgreesWithItems
<1>1. table \in Seq(FilteredRow) /\ query \in Filters!Query
  BY FiltersAssumption DEF Filters!TypeOK, Filters!ListingAssumption, FilteredRow
<1>2. r \in FilteredRow /\ Filters!Passes(r.entry, query)
  BY <1>1, FilteredListIs
<1>3. /\ r.entry \in Filters!Entry /\ r.entry.variants \subseteq Filters!Variant
      /\ None \notin 0..MaxPrice /\ None \notin BOOLEAN /\ MaxPrice \in Nat
  BY <1>2, FiltersAssumption DEF FilteredRow, Filters!ListingAssumption, Filters!Entry
<1>4. ASSUME query.in_stock = TRUE PROVE Filters!IsAvailable(r.entry)
  <2>1. PICK v \in r.entry.variants : Filters!VariantPasses(v, query)
    BY <1>2, <1>3, <1>4, Zenon DEF Filters!Passes, Filters!FiltersVariants
  <2>2. v.is_active /\ v.stock_quantity > 0
    BY <1>3, <1>4, <2>1, Zenon DEF Filters!VariantPasses
  <2> QED
    BY <2>1, <2>2 DEF Filters!IsAvailable, Filters!ActiveVariants
<1>5. ASSUME query.max_price # None
      PROVE  /\ Filters!MinPrice(r.entry) # None
             /\ Filters!MinPrice(r.entry) <= query.max_price
  <2>1. PICK v \in r.entry.variants : Filters!VariantPasses(v, query)
    BY <1>2, <1>5 DEF Filters!Passes, Filters!FiltersVariants
  <2> DEFINE prices == {w.price : w \in Filters!ActiveVariants(r.entry)}
  <2>2. v \in Filters!ActiveVariants(r.entry) /\ v.price <= query.max_price
    BY <1>5, <2>1 DEF Filters!VariantPasses, Filters!ActiveVariants
  <2>3. /\ \A w \in Filters!ActiveVariants(r.entry) : w.price \in 0..MaxPrice
        /\ query.max_price \in 0..MaxPrice
    BY <1>1, <1>3, <1>5 DEF Filters!ActiveVariants, Filters!Variant, Filters!Query
  <2>4. v.price \in prices /\ prices \subseteq 0..MaxPrice /\ prices \subseteq Nat
    BY <1>3, <2>2, <2>3
  <2> HIDE DEF prices
  <2>5. \E n \in prices : \A m \in prices : n <= m
    BY <2>4, LeastNumber, Zenon
  <2>6. /\ Filters!Min(prices) \in prices
        /\ \A m \in prices : Filters!Min(prices) <= m
    BY <2>5 DEF Filters!Min
  <2>7. Filters!MinPrice(r.entry) = Filters!Min(prices)
    BY <2>2 DEF Filters!MinPrice, prices
  <2>8. Filters!Min(prices) \in 0..MaxPrice /\ Filters!Min(prices) <= v.price
    BY <2>4, <2>6
  <2> QED
    BY <1>3, <2>2, <2>3, <2>4, <2>7, <2>8
<1> QED
  BY <1>4, <1>5, Zenon

\* A filter asks for words: not for a grade that is missing or empty.
LEMMA WordsAreAsked ==
    ASSUME NEW g \in Grades
    PROVE  /\ None \notin Filters!split_csv_filter(g)
           /\ Filters!Empty \notin Filters!split_csv_filter(g)
<1>1. /\ None \notin Words /\ None \notin Filters!Text /\ g \in Filters!Text
  BY FiltersAssumption DEF Filters!ListingAssumption
<1>2. g \in Seq(Filters!Piece)
  BY <1>1 DEF Filters!Text
<1>3. ASSUME NEW text \in Filters!split_csv_filter(g)
      PROVE  \E w \in Words : text = Filters!Plain(w)
  <2>1. PICK piece \in Filters!ToSet(g) : piece.word # None /\ text = Filters!Plain(piece.word)
    BY <1>3, Zenon DEF Filters!split_csv_filter
  <2>2. piece \in Filters!Piece
    BY <1>2 DEF Filters!ToSet
  <2>3. piece.word \in Words
    BY <2>1, <2>2 DEF Filters!Piece
  <2> QED
    BY <2>1, <2>3
<1>4. ASSUME NEW w \in Words PROVE Filters!Plain(w) # Filters!Empty /\ Filters!Plain(w) # None
  <2>1. [word |-> w, padded |-> FALSE] \in Filters!Piece
    BY DEF Filters!Piece
  <2>2. Filters!Plain(w) \in Filters!Text
    BY <2>1 DEF Filters!Plain, Filters!Text
  <2>3. Filters!Plain(w)[1].word = w /\ Filters!Empty[1].word = None
    BY DEF Filters!Plain, Filters!Empty
  <2> QED
    BY <1>1, <2>2, <2>3
<1> QED
  BY <1>3, <1>4

\* What is offered is of an entry, which passes with it.
LEMMA OffersFind == Filters!TypeOK => Filters!OfferedFiltersFind /\ Filters!CatalogOptionsFind
<1> SUFFICES ASSUME Filters!TypeOK
             PROVE  Filters!OfferedFiltersFind /\ Filters!CatalogOptionsFind
  OBVIOUS
<1>1. table \in Seq(FilteredRow) /\ query \in Filters!Query
  BY FiltersAssumption DEF Filters!TypeOK, Filters!ListingAssumption, FilteredRow
<1>2. ASSUME NEW n \in DOMAIN table, NEW q, Filters!Passes(table[n].entry, q)
      PROVE  Filters!Matches(table, q) # <<>>
  BY <1>1, <1>2, FilteredListIs
<1>3. ASSUME NEW r \in Filters!ToSet(Filters!Matches(table, query))
      PROVE  \E n \in DOMAIN table : table[n] = r /\ Filters!Passes(table[n].entry, query)
  BY <1>1, FilteredListIs
<1>4. Filters!OfferedFiltersFind
  <2> DEFINE offered == Filters!FilterOptions(table, query)
  <2>1. ASSUME NEW g \in offered.grades, Filters!AsksForOffered(g, offered.grades)
        PROVE  Filters!Matches(table, [query EXCEPT !.grade = g]) # <<>>
    <3>1. PICK r \in Filters!ToSet(Filters!Matches(table, query)) :
            \/ Filters!split_csv_filter(g) = {}
            \/ r.entry.grade \in Filters!split_csv_filter(g)
      BY <2>1 DEF Filters!FilterOptions, Filters!AsksForOffered
    <3>2. PICK n \in DOMAIN table : table[n] = r /\ Filters!Passes(table[n].entry, query)
      BY <1>3
    <3>3. Filters!Passes(table[n].entry, [query EXCEPT !.grade = g])
      BY <1>1, <3>1, <3>2
      DEF Filters!Passes, Filters!FiltersVariants, Filters!VariantPasses, Filters!Query
    <3> QED
      BY <1>2, <3>3
  <2>2. ASSUME NEW s \in offered.species, Like[s] \cap offered.species # {}
        PROVE  Filters!Matches(table, [query EXCEPT !.species = s]) # <<>>
    <3>1. PICK r \in Filters!ToSet(Filters!Matches(table, query)) : r.entry.species \in Like[s]
      BY <2>2 DEF Filters!FilterOptions
    <3>2. PICK n \in DOMAIN table : table[n] = r /\ Filters!Passes(table[n].entry, query)
      BY <1>3
    <3>3. Filters!Passes(table[n].entry, [query EXCEPT !.species = s])
      BY <1>1, <3>1, <3>2
      DEF Filters!Passes, Filters!FiltersVariants, Filters!VariantPasses, Filters!Query
    <3> QED
      BY <1>2, <3>3
  <2>3. ASSUME NEW c \in Filters!FilterOptions(table, query).colors
        PROVE  Filters!Matches(table, [query EXCEPT !.color = c]) # <<>>
    <3>1. PICK r \in Filters!ToSet(Filters!Matches(table, query)) : c \in r.entry.colors
      BY DEF Filters!FilterOptions
    <3>2. PICK n \in DOMAIN table : table[n] = r /\ Filters!Passes(table[n].entry, query)
      BY <1>3
    <3>3. Filters!Passes(table[n].entry, [query EXCEPT !.color = c])
      BY <1>1, <3>1, <3>2
      DEF Filters!Passes, Filters!FiltersVariants, Filters!VariantPasses, Filters!Query
    <3> QED
      BY <1>2, <3>3
  <2>4. ASSUME "in-stock" \in Filters!FilterOptions(table, query).availability,
               ~Filters!FiltersVariants(query)
        PROVE  Filters!Matches(table, [query EXCEPT !.in_stock = TRUE]) # <<>>
    <3>1. PICK r \in Filters!ToSet(Filters!Matches(table, query)) : Filters!IsAvailable(r.entry)
      BY <2>4 DEF Filters!FilterOptions
    <3>2. PICK n \in DOMAIN table : table[n] = r /\ Filters!Passes(table[n].entry, query)
      BY <1>3
    <3>3. Filters!Passes(table[n].entry, [query EXCEPT !.in_stock = TRUE])
      BY <1>1, <2>4, <3>1, <3>2, Zenon
      DEF Filters!Passes, Filters!FiltersVariants, Filters!VariantPasses, Filters!Query,
          Filters!IsAvailable, Filters!ActiveVariants
    <3> QED
      BY <1>2, <3>3
  <2> QED
    BY <2>1, <2>2, <2>3, <2>4 DEF Filters!OfferedFiltersFind
<1>5. Filters!CatalogOptionsFind
  <2> DEFINE free == Filters!NoFilters
             offered == Filters!CatalogOptions(table)
  <2>1. ASSUME NEW g \in offered.grades, Filters!AsksForOffered(g, offered.grades)
        PROVE  Filters!Matches(table, [free EXCEPT !.grade = g]) # <<>>
    <3>1. PICK n \in DOMAIN table :
            /\ table[n].entry.catalog_status = "active"
            /\ \/ Filters!split_csv_filter(g) = {}
               \/ table[n].entry.grade \in Filters!split_csv_filter(g)
      BY <2>1 DEF Filters!CatalogOptions, Filters!AsksForOffered, Filters!ToSet
    <3>2. Filters!Passes(table[n].entry, [free EXCEPT !.grade = g])
      BY <3>1 DEF Filters!Passes, Filters!FiltersVariants, Filters!NoFilters
    <3> QED
      BY <1>2, <3>2
  <2>2. ASSUME NEW g \in offered.grades, Filters!Matches(table, [free EXCEPT !.grade = g]) # <<>>
        PROVE  Filters!AsksForOffered(g, offered.grades)
    <3> DEFINE q == [free EXCEPT !.grade = g]
               list == Filters!Matches(table, q)
    <3>1. /\ list \in Seq(FilteredRow) /\ list # <<>>
          /\ \A r \in Filters!ToSet(list) :
                /\ Filters!Passes(r.entry, q)
                /\ \E n \in DOMAIN table : table[n] = r
      BY <1>1, <2>2, FilteredListIs
    <3> HIDE DEF list
    <3>2. list[1] \in Filters!ToSet(list)
      BY <3>1 DEF Filters!ToSet
    <3>3. PICK n \in DOMAIN table : Filters!Passes(table[n].entry, q)
      BY <3>1, <3>2
    <3>4. /\ table[n].entry.catalog_status = "active"
          /\ \/ Filters!split_csv_filter(g) = {}
             \/ table[n].entry.grade \in Filters!split_csv_filter(g)
      BY <3>3 DEF Filters!Passes, Filters!NoFilters
    <3>5. None \notin Filters!split_csv_filter(g) /\ Filters!Empty \notin Filters!split_csv_filter(g)
      <4>1. PICK r \in Filters!ToSet(table) : r.entry.grade = g /\ g # None
        BY <2>2 DEF Filters!CatalogOptions
      <4>2. r \in FilteredRow
        BY <1>1, <4>1 DEF Filters!ToSet
      <4>3. g \in Grades
        BY <4>1, <4>2, FiltersAssumption
        DEF FilteredRow, Filters!ListingAssumption, Filters!Entry
      <4> QED
        BY <4>3, WordsAreAsked
    <3> QED
      BY <3>4, <3>5 DEF Filters!AsksForOffered, Filters!CatalogOptions, Filters!ToSet
  <2>3. ASSUME NEW c \in Filters!CatalogOptions(table).colors
        PROVE  Filters!Matches(table, [free EXCEPT !.color = c]) # <<>>
    <3>1. PICK n \in DOMAIN table :
            c \in table[n].entry.colors /\ table[n].entry.catalog_status = "active"
      BY DEF Filters!CatalogOptions, Filters!ToSet
    <3>2. Filters!Passes(table[n].entry, [free EXCEPT !.color = c])
      <4>1. Filters!split_csv_filter(None) = {}
        BY DEF Filters!split_csv_filter
      <4> QED
        BY <3>1, <4>1 DEF Filters!Passes, Filters!FiltersVariants, Filters!NoFilters
    <3> QED
      BY <1>2, <3>2
  <2> QED
    BY <2>1, <2>2, <2>3 DEF Filters!CatalogOptionsFind
<1> QED
  BY <1>4, <1>5
-----------------------------------------------------------------------------
(***************************************************************************)
(* The dashboard.                                                          *)
(***************************************************************************)
\* What is assumed of the calendar.
LEMMA CalendarIs ==
    /\ LastDay \in Nat /\ Days \in Nat \ {0} /\ PageSize \in Nat \ {0} /\ MaxLedger \in Nat
    /\ DayLength \in [0..LastDay -> Nat \ {0}]
BY DashboardAssumption DEF Dashboard!AnalyticsAssumption, Dashboard!Dates

\* Midnight comes once a day, and time goes on.
LEMMA MidnightsAre ==
    /\ Dashboard!Midnight[0] = 0
    /\ \A d \in 0..LastDay : Dashboard!Midnight[d + 1] = Dashboard!Midnight[d] + DayLength[d]
    /\ \A d \in 0..LastDay + 1 : Dashboard!Midnight[d] \in Nat
    /\ \A d, e \in 0..LastDay + 1 : d < e => Dashboard!Midnight[d] < Dashboard!Midnight[e]
<1> DEFINE N == LastDay + 1
           a == [d \in 1..N |-> DayLength[d - 1]]
           M == Dashboard!Midnight
<1>1. N \in Nat /\ a \in [1..N -> Int] /\ \A d \in 1..N : a[d] = DayLength[d - 1]
  BY CalendarIs
<1>2. \E g : g = [d \in 0..N |-> IF d = 0 THEN 0 ELSE g[d - 1] + a[d]]
  <2>1. \A d \in 1..N : a[d] \in Int
    BY <1>1
  <2> HIDE DEF N, a
  <2> QED
    BY <1>1, <2>1, SumsExist, Zenon
<1>3. \E g : g = [d \in 0..LastDay + 1 |-> IF d = 0 THEN 0 ELSE g[d - 1] + DayLength[d - 1]]
  <2>1. PICK g : g = [d \in 0..N |-> IF d = 0 THEN 0 ELSE g[d - 1] + a[d]]
    BY <1>2, Zenon
  <2>2. ASSUME NEW d \in 0..N
        PROVE  (IF d = 0 THEN 0 ELSE g[d - 1] + a[d])
                 = (IF d = 0 THEN 0 ELSE g[d - 1] + DayLength[d - 1])
    BY <1>1
  <2>3. g = [d \in 0..N |-> IF d = 0 THEN 0 ELSE g[d - 1] + DayLength[d - 1]]
    <3> HIDE DEF a
    <3>1. [d \in 0..N |-> IF d = 0 THEN 0 ELSE g[d - 1] + a[d]]
            = [d \in 0..N |-> IF d = 0 THEN 0 ELSE g[d - 1] + DayLength[d - 1]]
      BY <2>2
    <3> QED
      BY <2>1, <3>1, Zenon
  <2> QED
    BY <2>3, Zenon
<1>4. M = [d \in 0..LastDay + 1 |-> IF d = 0 THEN 0 ELSE M[d - 1] + DayLength[d - 1]]
  BY <1>3, Zenon DEF Dashboard!Midnight
<1> HIDE DEF M
<1>5. M[0] = 0 /\ \A d \in 0..LastDay : M[d + 1] = M[d] + DayLength[d]
  <2>1. M[0] = 0
    BY <1>4, CalendarIs
  <2>2. ASSUME NEW d \in 0..LastDay PROVE M[d + 1] = M[d] + DayLength[d]
    <3>1. d + 1 \in 0..LastDay + 1 /\ d + 1 # 0 /\ (d + 1) - 1 = d
      BY CalendarIs
    <3> QED
      BY <1>4, <3>1, Zenon
  <2> QED
    BY <2>1, <2>2
<1>6. \A d \in 0..LastDay + 1 : M[d] \in Nat
  <2> DEFINE L == {d \in Nat : d <= LastDay + 1 => M[d] \in Nat}
  <2>1. 0 \in L
    BY <1>5
  <2>2. ASSUME NEW d \in Nat, d \in L PROVE d + 1 \in L
    <3> SUFFICES ASSUME d + 1 <= LastDay + 1 PROVE M[d + 1] \in Nat
      OBVIOUS
    <3>1. d \in 0..LastDay /\ M[d] \in Nat /\ DayLength[d] \in Nat
      BY <2>2, CalendarIs
    <3> QED
      BY <1>5, <3>1
  <2>3. Nat \subseteq L
    <3> HIDE DEF L
    <3> QED
      BY <2>1, <2>2, Induction
  <2> QED
    BY <2>3
<1>7. \A d, e \in 0..LastDay + 1 : d < e => M[d] < M[e]
  <2> DEFINE L == {k \in Nat : \A d \in 0..LastDay + 1 :
                                 d + k + 1 <= LastDay + 1 => M[d] < M[d + k + 1]}
  <2>0. \A d \in 0..LastDay : M[d] \in Nat /\ M[d + 1] \in Nat /\ M[d] < M[d + 1]
    <3> SUFFICES ASSUME NEW d \in 0..LastDay
                 PROVE  M[d] \in Nat /\ M[d + 1] \in Nat /\ M[d] < M[d + 1]
      OBVIOUS
    <3>1. DayLength[d] \in Nat \ {0} /\ d \in 0..LastDay + 1 /\ d + 1 \in 0..LastDay + 1
      BY CalendarIs
    <3> QED
      BY <1>5, <1>6, <3>1
  <2>1. 0 \in L
    <3> SUFFICES ASSUME NEW d \in 0..LastDay + 1, d + 0 + 1 <= LastDay + 1
                 PROVE  M[d] < M[d + 0 + 1]
      OBVIOUS
    <3>1. d \in 0..LastDay /\ d + 0 + 1 = d + 1
      BY CalendarIs
    <3> QED
      BY <2>0, <3>1
  <2>2. ASSUME NEW k \in Nat, k \in L PROVE k + 1 \in L
    <3> SUFFICES ASSUME NEW d \in 0..LastDay + 1, d + (k + 1) + 1 <= LastDay + 1
                 PROVE  M[d] < M[d + (k + 1) + 1]
      OBVIOUS
    <3>1. /\ d + k + 1 <= LastDay + 1 /\ d + k + 1 \in 0..LastDay /\ d \in 0..LastDay
          /\ (d + k + 1) + 1 = d + (k + 1) + 1
      BY CalendarIs
    <3>2. M[d] < M[d + k + 1]
      BY <2>2, <3>1
    <3>3. M[d + k + 1] < M[(d + k + 1) + 1] /\ M[d] \in Nat /\ M[d + k + 1] \in Nat
          /\ M[(d + k + 1) + 1] \in Nat
      BY <2>0, <3>1
    <3>4. M[d] < M[(d + k + 1) + 1]
      BY <3>2, <3>3
    <3> QED
      BY <3>1, <3>4
  <2>3. Nat \subseteq L
    <3> HIDE DEF L
    <3> QED
      BY <2>1, <2>2, Induction
  <2> SUFFICES ASSUME NEW d \in 0..LastDay + 1, NEW e \in 0..LastDay + 1, d < e
               PROVE  M[d] < M[e]
    OBVIOUS
  <2>4. e - d - 1 \in Nat /\ d + (e - d - 1) + 1 = e
    BY CalendarIs
  <2>5. d + (e - d - 1) + 1 <= LastDay + 1 => M[d] < M[d + (e - d - 1) + 1]
    BY <2>3, <2>4, Zenon
  <2> QED
    BY <2>4, <2>5, CalendarIs
<1> QED
  BY <1>5, <1>6, <1>7 DEF M

\* Each time has its date, and a period of days has the times between two midnights.
LEMMA DatesAre ==
    ASSUME NEW t \in Nat, t < Dashboard!Midnight[LastDay + 1]
    PROVE  /\ Dashboard!Date(t) \in 0..LastDay
           /\ \A d \in 0..LastDay :
                 Dashboard!Date(t) = d <=> /\ Dashboard!Midnight[d] <= t
                                           /\ t < Dashboard!Midnight[d + 1]
           /\ \A d \in 0..LastDay + 1 : Dashboard!Date(t) >= d <=> Dashboard!Midnight[d] <= t
<1> DEFINE M == Dashboard!Midnight
           T == {d \in 0..LastDay + 1 : t < M[d]}
<1>0. /\ LastDay \in Nat /\ M[0] = 0 /\ \A d \in 0..LastDay + 1 : M[d] \in Nat
      /\ \A d, e \in 0..LastDay + 1 : d < e => M[d] < M[e]
  BY CalendarIs, MidnightsAre
<1>1. PICK m \in T : \A d \in T : m <= d
  <2>1. T \subseteq Nat /\ LastDay + 1 \in T
    BY <1>0
  <2> HIDE DEF T
  <2> QED
    BY <2>1, LeastNumber, Zenon
<1>2. m # 0 /\ m - 1 \in 0..LastDay /\ (m - 1) + 1 = m
  BY <1>0, <1>1
<1>3. M[m - 1] <= t /\ t < M[m]
  <2>1. m - 1 \notin T
    BY <1>1, <1>2
  <2>2. m - 1 \in 0..LastDay + 1
    BY <1>0, <1>2
  <2> QED
    BY <1>0, <1>1, <2>1, <2>2
<1> HIDE DEF M, T
<1>4. ASSUME NEW d \in 0..LastDay, NEW e \in 0..LastDay, M[d] <= t, t < M[e + 1]
      PROVE  d <= e
  <2>1. d \in 0..LastDay + 1 /\ e + 1 \in 0..LastDay + 1 /\ M[d] \in Nat /\ M[e + 1] \in Nat
    BY <1>0
  <2>2. M[d] < M[e + 1]
    BY <1>4, <2>1
  <2>3. ~(e + 1 < d) /\ e + 1 # d
    BY <1>0, <2>1, <2>2
  <2> QED
    BY <1>0, <2>3
<1>5. Dashboard!Date(t) = CHOOSE d \in 0..LastDay : M[d] <= t /\ t < M[d + 1]
  BY DEF Dashboard!Date, Dashboard!Dates, M
<1>6. \E d \in 0..LastDay : M[d] <= t /\ t < M[d + 1]
  BY <1>2, <1>3
<1> DEFINE D == Dashboard!Date(t)
<1>7. D \in 0..LastDay /\ M[D] <= t /\ t < M[D + 1]
  BY <1>5, <1>6
<1> HIDE DEF D
<1>8. \A d \in 0..LastDay : D = d <=> M[d] <= t /\ t < M[d + 1]
  <2> SUFFICES ASSUME NEW d \in 0..LastDay, M[d] <= t, t < M[d + 1] PROVE D = d
    BY <1>7
  <2>1. d <= D /\ D <= d
    BY <1>4, <1>7
  <2> QED
    BY <1>7, <2>1
<1>9. ASSUME NEW d \in 0..LastDay + 1 PROVE D >= d <=> M[d] <= t
  <2>1. ASSUME M[d] <= t PROVE D >= d
    <3>1. d # LastDay + 1
      <4>1. M[LastDay + 1] \in Nat /\ t < M[LastDay + 1]
        BY <1>0 DEF M
      <4> QED
        BY <2>1, <4>1
    <3>2. d \in 0..LastDay
      BY <1>0, <3>1
    <3>3. d <= D
      BY <1>4, <1>7, <2>1, <3>2
    <3> QED
      BY <1>7, <3>2, <3>3
  <2>2. ASSUME D >= d PROVE M[d] <= t
    <3>1. d = D \/ d < D
      BY <1>7, <2>2
    <3>2. CASE d = D
      BY <1>7, <3>2
    <3>3. CASE d < D
      <4>1. D \in 0..LastDay + 1
        BY <1>0, <1>7
      <4>2. M[d] < M[D] /\ M[d] \in Nat /\ M[D] \in Nat
        BY <1>0, <3>3, <4>1
      <4> QED
        BY <1>7, <4>2
    <3> QED
      BY <3>1, <3>2, <3>3
  <2> QED
    BY <2>1, <2>2
<1> QED
  BY <1>7, <1>8, <1>9 DEF D, M

\* The lists of Stripe are made as here.
LEMMA SameLedgers ==
    /\ \A s, N : Dashboard!Chosen(s, N) = Chosen(s, N)
    /\ \A a : Dashboard!SumOf(a) = SumOf(a)
    /\ \A s : Dashboard!ToSet(s) = {s[n] : n \in DOMAIN s}
    /\ \A s : Dashboard!Last(s) = s[Len(s)]
    /\ \A a, b \in Int : Dashboard!Min({a, b}) = IF a < b THEN a ELSE b
<1>1. \A s, N : Dashboard!Chosen(s, N) = Chosen(s, N)
  BY DEF Dashboard!Chosen, Dashboard!Rank, Dashboard!Cardinality, Chosen, Rank, Cardinality
<1>2. \A a : Dashboard!SumOf(a) = SumOf(a)
  BY DEF Dashboard!SumOf, Dashboard!Sums, SumOf, Sums
<1>3. \A s : Dashboard!ToSet(s) = {s[n] : n \in DOMAIN s}
  BY DEF Dashboard!ToSet
<1>4. \A s : Dashboard!Last(s) = s[Len(s)]
  BY DEF Dashboard!Last
<1>5. \A a, b \in Int : Dashboard!Min({a, b}) = IF a < b THEN a ELSE b
  BY DEF Dashboard!Min
<1> QED
  BY <1>1, <1>2, <1>3, <1>4, <1>5, Zenon

\* The ids go down.
GoesDown(s) == \A m, n \in DOMAIN s : m < n => s[n].id < s[m].id

\* What is chosen of a list that goes down does so too.
LEMMA ChosenGoDown ==
    ASSUME NEW S, NEW s \in Seq(S), GoesDown(s), NEW N, N \subseteq DOMAIN s
    PROVE  /\ Chosen(s, N) \in Seq(S) /\ GoesDown(Chosen(s, N))
           /\ \A k \in DOMAIN Chosen(s, N) : \E n \in N : Chosen(s, N)[k] = s[n]
           /\ \A n \in N : \E k \in DOMAIN Chosen(s, N) : Chosen(s, N)[k] = s[n]
<1> DEFINE list == Chosen(s, N)
<1>1. /\ list \in Seq(S) /\ Len(list) = Cardinality(N) /\ Cardinality(N) \in Nat
      /\ \A n \in N : Rank(N, n) \in 0..Cardinality(N) - 1 /\ list[Rank(N, n) + 1] = s[n]
      /\ \A k \in 1..Cardinality(N) : \E n \in N : Rank(N, n) + 1 = k /\ list[k] = s[n]
  BY ChosenIs
<1>a. \A n, m \in N : n < m <=> Rank(N, n) < Rank(N, m)
  BY ChosenIs, Zenon
<1> HIDE DEF list
<1>2. DOMAIN list = 1..Cardinality(N)
  BY <1>1
<1>3. ASSUME NEW j \in DOMAIN list, NEW k \in DOMAIN list, j < k PROVE list[k].id < list[j].id
  <2>1. PICK m \in N : Rank(N, m) + 1 = j /\ list[j] = s[m]
    BY <1>1, <1>2
  <2>2. PICK n \in N : Rank(N, n) + 1 = k /\ list[k] = s[n]
    BY <1>1, <1>2
  <2>3. Rank(N, m) \in Int /\ Rank(N, n) \in Int
    BY <1>1
  <2>4. Rank(N, m) < Rank(N, n)
    BY <1>3, <2>1, <2>2, <2>3
  <2>5. m < n
    BY <1>a, <2>4
  <2> QED
    BY <2>1, <2>2, <2>5 DEF GoesDown
<1>4. \A n \in N : Rank(N, n) + 1 \in DOMAIN list
  BY <1>1, <1>2
<1> QED
  BY <1>1, <1>2, <1>3, <1>4, Zenon DEF list, GoesDown

\* How far a period has been read.
Reading(known, got, from, to, complete) ==
    /\ GoesDown(got)
    /\ \A n \in DOMAIN got : from <= got[n].created /\ got[n].created < to
    /\ \A x \in known : from <= x.created /\ x.created < to =>
         \/ \E n \in DOMAIN got : got[n] = x
         \/ ~complete /\ (got = <<>> \/ x.id < got[Len(got)].id)

\* How far a request has come.
Reads(r) ==
    r.phase # "idle" =>
      /\ r.today + 1 >= 2 * Days
      /\ Reading(r.known, r.current, Dashboard!Midnight[(r.today + 1) - Days],
                 Dashboard!Midnight[r.today + 1], r.phase # "current")
      /\ Reading(r.known, r.previous, Dashboard!Midnight[(r.today + 1) - 2 * Days],
                 Dashboard!Midnight[(r.today + 1) - Days], r.phase = "done")

\* The invariant says so, before and after a step.
LEMMA RequestIs ==
    /\ Dashboard!RequestReads <=> Reads(request)
    /\ Dashboard!RequestReads' <=> Reads(request')
<1>1. Dashboard!RequestReads <=> Reads(request)
  <2>1. ASSUME NEW got, NEW from, NEW to, NEW complete
        PROVE  Dashboard!ReadSoFar(got, from, to, complete)
                 <=> Reading(request.known, got, from, to, complete)
    BY SameLedgers DEF Dashboard!ReadSoFar, Reading, GoesDown
  <2>2. Dashboard!RequestReads <=>
          (request.phase # "idle" =>
             /\ request.today + 1 >= 2 * Days
             /\ Dashboard!ReadSoFar(request.current, Dashboard!CurrentFrom(request.today),
                    Dashboard!CurrentTo(request.today), request.phase # "current")
             /\ Dashboard!ReadSoFar(request.previous, Dashboard!PreviousFrom(request.today),
                    Dashboard!CurrentFrom(request.today), request.phase = "done"))
    BY Zenon DEF Dashboard!RequestReads, Dashboard!Done
  <2>3. /\ Dashboard!CurrentFrom(request.today) = Dashboard!Midnight[(request.today + 1) - Days]
        /\ Dashboard!CurrentTo(request.today) = Dashboard!Midnight[request.today + 1]
        /\ Dashboard!PreviousFrom(request.today)
             = Dashboard!Midnight[(request.today + 1) - 2 * Days]
    BY Zenon DEF Dashboard!CurrentFrom, Dashboard!CurrentTo, Dashboard!PreviousFrom,
                 Dashboard!DaysBefore
  <2> QED
    BY <2>1, <2>2, <2>3, Zenon DEF Reads
<1>2. Dashboard!RequestReads' <=> Reads(request)'
  BY <1>1, PTL
<1>3. Reads(request)' <=> Reads(request')
  BY DEF Reads, Reading, GoesDown, Dashboard!Midnight
<1> QED
  BY <1>1, <1>2, <1>3

\* The ledger goes down, and holds the times up to now.
LEMMA LedgerIs ==
    ASSUME Dashboard!TypeOK, Dashboard!LedgerGrows
    PROVE  /\ ledger \in Seq(Dashboard!Transaction) /\ GoesDown(ledger)
           /\ \A n \in DOMAIN ledger : /\ ledger[n].created \in Nat
                                       /\ ledger[n].created < Dashboard!Midnight[LastDay + 1]
                                       /\ ledger[n].id \in Nat
<1>1. /\ ledger \in Seq(Dashboard!Transaction) /\ Len(ledger) \in Nat
      /\ \A n \in DOMAIN ledger : /\ ledger[n].id = Len(ledger) + 1 - n
                                  /\ ledger[n].created <= now
      /\ now \in Nat /\ now < Dashboard!Midnight[LastDay + 1]
  BY DEF Dashboard!TypeOK, Dashboard!LedgerGrows
<1>2. Dashboard!Midnight[LastDay + 1] \in Nat
  BY MidnightsAre, CalendarIs
<1>3. \A n \in DOMAIN ledger : ledger[n] \in Dashboard!Transaction
  BY <1>1
<1>4. \A n \in DOMAIN ledger : ledger[n].created \in Nat
  BY <1>3 DEF Dashboard!Transaction
<1>5. \A n \in DOMAIN ledger : ledger[n].created < Dashboard!Midnight[LastDay + 1]
  BY <1>1, <1>2, <1>4
<1>6. \A n \in DOMAIN ledger : n \in 1..Len(ledger)
  BY <1>1
<1>7. GoesDown(ledger) /\ \A n \in DOMAIN ledger : ledger[n].id \in Nat
  BY <1>1, <1>6 DEF GoesDown
<1> QED
  BY <1>1, <1>4, <1>5, <1>7

\* What comes behind the last one read is the rest of the period.
LEMMA RestIs ==
    ASSUME Dashboard!TypeOK, Dashboard!LedgerGrows, NEW from, NEW to,
           NEW got, NEW rest, rest = Dashboard!After(Dashboard!Within(from, to), got)
    PROVE  /\ rest \in Seq(Dashboard!Transaction) /\ GoesDown(rest)
           /\ \A k \in DOMAIN rest : /\ from <= rest[k].created /\ rest[k].created < to
                                     /\ got # <<>> => rest[k].id < got[Len(got)].id
           /\ \A n \in DOMAIN ledger :
                /\ from <= ledger[n].created /\ ledger[n].created < to
                /\ got = <<>> \/ ledger[n].id < got[Len(got)].id
                => \E k \in DOMAIN rest : rest[k] = ledger[n]
<1> DEFINE N == {n \in DOMAIN ledger : from <= ledger[n].created /\ ledger[n].created < to}
           list == Chosen(ledger, N)
           K == {k \in DOMAIN list : list[k].id < got[Len(got)].id}
<1>1. ledger \in Seq(Dashboard!Transaction) /\ GoesDown(ledger)
  BY LedgerIs
<1>2. Dashboard!Within(from, to) = list
  BY SameLedgers DEF Dashboard!Within
<1>3. /\ list \in Seq(Dashboard!Transaction) /\ GoesDown(list)
      /\ \A k \in DOMAIN list : \E n \in N : list[k] = ledger[n]
      /\ \A n \in N : \E k \in DOMAIN list : list[k] = ledger[n]
  <2>1. N \subseteq DOMAIN ledger
    OBVIOUS
  <2> HIDE DEF N
  <2> QED
    BY <1>1, <2>1, ChosenGoDown
<1>4. \A k \in DOMAIN list : from <= list[k].created /\ list[k].created < to
  <2> HIDE DEF list
  <2> QED
    BY <1>3
<1> HIDE DEF list
<1>5. ASSUME NEW n \in DOMAIN ledger, from <= ledger[n].created, ledger[n].created < to
      PROVE  \E k \in DOMAIN list : list[k] = ledger[n]
  BY <1>3, <1>5
<1>6. CASE got = <<>>
  <2>1. rest = list
    BY <1>2, <1>6 DEF Dashboard!After
  <2> HIDE DEF N
  <2> QED
    BY <1>3, <1>4, <1>5, <1>6, <2>1
<1>7. CASE got # <<>>
  <2>1. rest = Chosen(list, K)
    BY <1>2, <1>7, SameLedgers, Zenon DEF Dashboard!After
  <2>2. K \subseteq DOMAIN list /\ \A k \in K : list[k].id < got[Len(got)].id
    OBVIOUS
  <2>3. \A k \in DOMAIN list : list[k].id < got[Len(got)].id => k \in K
    OBVIOUS
  <2> HIDE DEF K, N
  <2>4. /\ rest \in Seq(Dashboard!Transaction) /\ GoesDown(rest)
        /\ \A j \in DOMAIN rest : \E k \in K : rest[j] = list[k]
        /\ \A k \in K : \E j \in DOMAIN rest : rest[j] = list[k]
    BY <1>3, <2>1, <2>2, ChosenGoDown
  <2>5. ASSUME NEW j \in DOMAIN rest
        PROVE  /\ from <= rest[j].created /\ rest[j].created < to
               /\ rest[j].id < got[Len(got)].id
    <3>1. PICK k \in K : rest[j] = list[k]
      BY <2>4
    <3> QED
      BY <1>4, <2>2, <3>1
  <2>6. ASSUME NEW n \in DOMAIN ledger, from <= ledger[n].created, ledger[n].created < to,
               ledger[n].id < got[Len(got)].id
        PROVE  \E j \in DOMAIN rest : rest[j] = ledger[n]
    <3>1. PICK k \in DOMAIN list : list[k] = ledger[n]
      BY <1>5, <2>6
    <3>2. k \in K
      BY <2>3, <2>6, <3>1
    <3> QED
      BY <2>4, <3>1, <3>2
  <2> QED
    BY <1>7, <2>4, <2>5, <2>6
<1> QED
  BY <1>6, <1>7

\* What goes down goes on down with what lies below it.
Numbered(S) == \A x \in S : x.id \in Nat
Below(more, got) == got # <<>> => \A k \in DOMAIN more : more[k].id < got[Len(got)].id

HoldsBoth(both, got, more) ==
    /\ \A n \in DOMAIN both : \/ \E k \in DOMAIN got : both[n] = got[k]
                              \/ \E k \in DOMAIN more : both[n] = more[k]
    /\ \A k \in DOMAIN got : \E n \in DOMAIN both : both[n] = got[k]
    /\ \A k \in DOMAIN more : \E n \in DOMAIN both : both[n] = more[k]
    /\ more # <<>> => both[Len(both)] = more[Len(more)]

LEMMA ReadOn ==
    ASSUME NEW S, Numbered(S), NEW got \in Seq(S), GoesDown(got),
           NEW more \in Seq(S), GoesDown(more), Below(more, got),
           NEW both, both = got \o more
    PROVE  both \in Seq(S) /\ GoesDown(both) /\ HoldsBoth(both, got, more)
<1> DEFINE l == Len(got)
           c == Len(more)
<1>1. /\ l \in Nat /\ c \in Nat /\ DOMAIN got = 1..l /\ DOMAIN more = 1..c
      /\ (got = <<>> <=> l = 0) /\ (more = <<>> <=> c = 0)
  OBVIOUS
<1>2. /\ both \in Seq(S) /\ Len(both) = l + c
      /\ \A n \in 1..l + c : both[n] = IF n <= l THEN got[n] ELSE more[n - l]
  BY ConcatProperties
<1>3. /\ \A k \in 1..l : got[k].id \in Nat
      /\ \A k \in 1..c : more[k].id \in Nat
      /\ l # 0 => \A k \in 1..c : more[k].id < got[l].id
  <2>1. ASSUME NEW k \in 1..l PROVE got[k].id \in Nat
    <3>1. got[k] \in S
      OBVIOUS
    <3> QED
      BY <3>1 DEF Numbered
  <2>2. ASSUME NEW k \in 1..c PROVE more[k].id \in Nat
    <3>1. more[k] \in S
      OBVIOUS
    <3> QED
      BY <3>1 DEF Numbered
  <2>3. l # 0 => \A k \in 1..c : more[k].id < got[l].id
    BY <1>1 DEF Below
  <2> QED
    BY <2>1, <2>2, <2>3
<1> HIDE DEF l, c
<1>4. DOMAIN both = 1..l + c
  BY <1>2
<1>5. ASSUME NEW k \in 1..l PROVE k \in 1..l + c /\ both[k] = got[k]
  BY <1>1, <1>2
<1>6. ASSUME NEW k \in 1..c PROVE l + k \in 1..l + c /\ both[l + k] = more[k]
  <2>1. l + k \in 1..l + c /\ ~(l + k <= l) /\ (l + k) - l = k
    BY <1>1
  <2> QED
    BY <1>2, <2>1
<1>7. ASSUME NEW n \in 1..l + c, ~(n <= l)
      PROVE  n - l \in 1..c /\ both[n] = more[n - l]
  <2>1. n - l \in 1..c
    BY <1>1, <1>7
  <2>2. both[n] = more[n - l]
    BY <1>2, <1>7
  <2> QED
    BY <2>1, <2>2
<1>8. ASSUME NEW m \in 1..l + c, NEW n \in 1..l + c, m < n
      PROVE  both[n].id < both[m].id
  <2>1. CASE n <= l
    <3>1. n \in 1..l /\ m \in 1..l
      BY <1>1, <1>8, <2>1
    <3>2. got[n].id < got[m].id
      BY <1>1, <1>8, <3>1, Zenon DEF GoesDown
    <3> QED
      BY <1>5, <3>1, <3>2, Zenon
  <2>2. CASE ~(n <= l) /\ ~(m <= l)
    <3>1. n - l \in 1..c /\ m - l \in 1..c /\ m - l < n - l
      BY <1>1, <1>8, <2>2
    <3>2. more[n - l].id < more[m - l].id
      BY <1>1, <3>1, Zenon DEF GoesDown
    <3> QED
      BY <1>7, <2>2, <3>2, Zenon
  <2>3. CASE ~(n <= l) /\ m <= l
    <3>1. m \in 1..l /\ l \in 1..l /\ (m < l \/ m = l) /\ n - l \in 1..c
      BY <1>1, <2>3
    <3>2. both[m] = got[m] /\ both[n] = more[n - l]
      BY <1>5, <1>7, <2>3, <3>1, Zenon
    <3>3. more[n - l].id < got[l].id
      BY <1>1, <1>3, <3>1
    <3>4. got[m].id = got[l].id \/ got[l].id < got[m].id
      BY <1>1, <3>1, Zenon DEF GoesDown
    <3>5. got[m].id \in Nat /\ got[l].id \in Nat /\ more[n - l].id \in Nat
      BY <1>3, <3>1, Zenon
    <3>6. more[n - l].id < got[m].id
      BY <3>3, <3>4, <3>5
    <3> QED
      BY <3>2, <3>6
  <2> QED
    BY <2>1, <2>2, <2>3, Zenon
<1>9. GoesDown(both)
  BY <1>4, <1>8, Zenon DEF GoesDown
<1>10. ASSUME NEW n \in DOMAIN both
       PROVE  \/ \E k \in DOMAIN got : both[n] = got[k]
              \/ \E k \in DOMAIN more : both[n] = more[k]
  <2>1. CASE n <= l
    <3>1. n \in 1..l
      BY <1>1, <1>4, <2>1
    <3> QED
      BY <1>1, <1>5, <3>1
  <2>2. CASE ~(n <= l)
    BY <1>1, <1>4, <1>7, <2>2, Zenon
  <2> QED
    BY <2>1, <2>2
<1>11. more # <<>> => both[Len(both)] = more[Len(more)]
  <2> SUFFICES ASSUME more # <<>> PROVE both[l + c] = more[c]
    BY <1>2 DEF c
  <2>1. c \in 1..c
    BY <1>1
  <2> QED
    BY <1>6, <2>1, Zenon
<1>12. \A k \in DOMAIN got : \E n \in DOMAIN both : both[n] = got[k]
  BY <1>1, <1>4, <1>5
<1>13. \A k \in DOMAIN more : \E n \in DOMAIN both : both[n] = more[k]
  BY <1>1, <1>4, <1>6, Zenon
<1> QED
  BY <1>2, <1>9, <1>10, <1>11, <1>12, <1>13, Zenon DEF HoldsBoth

\* The first of a sequence.
LEMMA FirstOf ==
    ASSUME NEW S, NEW s \in Seq(S), NEW c \in 0..Len(s)
    PROVE  /\ SubSeq(s, 1, c) \in Seq(S) /\ Len(SubSeq(s, 1, c)) = c
           /\ \A k \in 1..c : SubSeq(s, 1, c)[k] = s[k]
<1>1. Len(s) \in Nat /\ c \in Int /\ 1 \in Int
  OBVIOUS
<1>2. \A k \in 1..c : s[k] \in S
  OBVIOUS
<1>3. /\ SubSeq(s, 1, c) \in Seq(S)
      /\ Len(SubSeq(s, 1, c)) = IF 1 <= c THEN c - 1 + 1 ELSE 0
      /\ \A k \in 1..c - 1 + 1 : SubSeq(s, 1, c)[k] = s[1 + k - 1]
  BY <1>1, <1>2, SubSeqProperties
<1>4. c - 1 + 1 = c /\ (~(1 <= c) => c = 0) /\ \A k \in 1..c : 1 + k - 1 = k
  BY <1>1
<1> QED
  BY <1>3, <1>4

\* A page takes the first of what is left, as many as it holds.
Takes(more, rest) ==
    /\ Len(more) <= Len(rest)
    /\ Len(more) = Len(rest) \/ (Len(more) = PageSize /\ PageSize < Len(rest))
    /\ \A k \in 1..Len(more) : more[k] = rest[k]

LEMMA TakenIs ==
    ASSUME NEW S, NEW rest \in Seq(S), GoesDown(rest), NEW more \in Seq(S), Takes(more, rest)
    PROVE  /\ GoesDown(more)
           /\ \A k \in DOMAIN more : k \in DOMAIN rest /\ more[k] = rest[k]
           /\ \A k \in DOMAIN rest :
                \/ k \in DOMAIN more
                \/ /\ ~(Len(rest) <= PageSize) /\ more # <<>>
                   /\ rest[k].id < more[Len(more)].id
<1> DEFINE l == Len(rest)
           c == Len(more)
<1>1. /\ PageSize \in Nat \ {0} /\ l \in Nat /\ c \in Nat
      /\ DOMAIN rest = 1..l /\ DOMAIN more = 1..c /\ (c # 0 => more # <<>>)
  BY CalendarIs
<1>2. /\ c <= l /\ (c = l \/ (c = PageSize /\ PageSize < l))
      /\ \A k \in 1..c : more[k] = rest[k]
  BY DEF Takes
<1> HIDE DEF l, c
<1>3. \A k \in DOMAIN more : k \in DOMAIN rest /\ more[k] = rest[k]
  BY <1>1, <1>2
<1>4. GoesDown(more)
  BY <1>3 DEF GoesDown
<1>5. ASSUME NEW k \in DOMAIN rest, k \notin DOMAIN more
      PROVE  ~(l <= PageSize) /\ more # <<>> /\ rest[k].id < more[c].id
  <2>1. k \in 1..l /\ c < k
    BY <1>1, <1>5
  <2>2. c = PageSize /\ PageSize < l /\ c \in 1..c /\ c \in 1..l
    BY <1>1, <1>2, <2>1
  <2>3. rest[k].id < rest[c].id
    BY <1>1, <2>1, <2>2 DEF GoesDown
  <2> QED
    BY <1>1, <1>2, <2>2, <2>3
<1> QED
  BY <1>3, <1>4, <1>5 DEF l, c

\* A page more leaves nothing out.
LEMMA PageGoesDown ==
    ASSUME Dashboard!TypeOK, Dashboard!LedgerGrows, NEW from, NEW to,
           NEW known, known \subseteq {ledger[n] : n \in DOMAIN ledger},
           NEW got \in Seq(Dashboard!Transaction), Reading(known, got, from, to, FALSE),
           NEW p, p = Dashboard!PageAfter(Dashboard!Within(from, to), got)
    PROVE  /\ p.read \in Seq(Dashboard!Transaction) /\ p.last \in BOOLEAN
           /\ Reading(known, p.read, from, to, p.last)
<1> DEFINE rest == Dashboard!After(Dashboard!Within(from, to), got)
           taken == Dashboard!Min({PageSize, Len(rest)})
           more == SubSeq(rest, 1, taken)
           both == got \o more
<1>1. /\ rest \in Seq(Dashboard!Transaction) /\ GoesDown(rest)
      /\ \A k \in DOMAIN rest : /\ from <= rest[k].created /\ rest[k].created < to
                                /\ got # <<>> => rest[k].id < got[Len(got)].id
      /\ \A n \in DOMAIN ledger :
           /\ from <= ledger[n].created /\ ledger[n].created < to
           /\ got = <<>> \/ ledger[n].id < got[Len(got)].id
           => \E k \in DOMAIN rest : rest[k] = ledger[n]
  BY RestIs
<1>2. p = [read |-> both, last |-> Len(rest) <= PageSize]
  BY DEF Dashboard!PageAfter
<1> HIDE DEF rest
<1>a. taken = IF PageSize < Len(rest) THEN PageSize ELSE Len(rest)
  <2>1. PageSize \in Int /\ Len(rest) \in Int
    BY <1>1, CalendarIs
  <2> DEFINE l == Len(rest)
  <2> HIDE DEF l
  <2>2. l \in Int => taken = IF PageSize < l THEN PageSize ELSE l
    BY <2>1, SameLedgers, Zenon DEF l
  <2> QED
    BY <2>1, <2>2 DEF l
<1>b. more \in Seq(Dashboard!Transaction) /\ Takes(more, rest)
  <2> HIDE DEF taken
  <2> DEFINE l == Len(rest)
  <2>1. PageSize \in Nat /\ l \in Nat
    BY <1>1, CalendarIs
  <2>2. taken = IF PageSize < l THEN PageSize ELSE l
    BY <1>a
  <2> HIDE DEF l
  <2>3. taken \in 0..l /\ taken <= l /\ (taken = l \/ (taken = PageSize /\ PageSize < l))
    BY <2>1, <2>2
  <2>4. /\ more \in Seq(Dashboard!Transaction) /\ Len(more) = taken
        /\ \A k \in 1..taken : more[k] = rest[k]
    BY <1>1, <2>3, FirstOf DEF l
  <2> QED
    BY <2>3, <2>4 DEF Takes, l
<1>c. both = got \o more
  OBVIOUS
<1> HIDE DEF taken, more, both
<1>3. /\ more \in Seq(Dashboard!Transaction) /\ GoesDown(more)
      /\ \A k \in DOMAIN more : k \in DOMAIN rest /\ more[k] = rest[k]
      /\ \A k \in DOMAIN rest :
           \/ k \in DOMAIN more
           \/ /\ ~(Len(rest) <= PageSize) /\ more # <<>>
              /\ rest[k].id < more[Len(more)].id
  BY <1>1, <1>a, <1>b, TakenIs
<1>4. /\ GoesDown(got)
      /\ \A n \in DOMAIN got : from <= got[n].created /\ got[n].created < to
      /\ \A x \in known : from <= x.created /\ x.created < to =>
           \/ \E n \in DOMAIN got : got[n] = x
           \/ got = <<>> \/ x.id < got[Len(got)].id
  BY DEF Reading
<1>5. Numbered(Dashboard!Transaction)
  BY CalendarIs DEF Dashboard!Transaction, Numbered
<1>6. Below(more, got)
  BY <1>1, <1>3 DEF Below
<1>d. both \in Seq(Dashboard!Transaction) /\ GoesDown(both) /\ HoldsBoth(both, got, more)
  BY <1>b, <1>c, <1>3, <1>4, <1>5, <1>6, ReadOn, Zenon
<1>7. /\ both \in Seq(Dashboard!Transaction) /\ GoesDown(both)
      /\ \A n \in DOMAIN both : \/ \E k \in DOMAIN got : both[n] = got[k]
                                \/ \E k \in DOMAIN more : both[n] = more[k]
      /\ \A k \in DOMAIN got : \E n \in DOMAIN both : both[n] = got[k]
      /\ \A k \in DOMAIN more : \E n \in DOMAIN both : both[n] = more[k]
      /\ more # <<>> => both[Len(both)] = more[Len(more)]
  BY <1>d DEF HoldsBoth
<1>8. p.read = both /\ p.last = (Len(rest) <= PageSize) /\ p.last \in BOOLEAN
  BY <1>2
<1>9. ASSUME NEW n \in DOMAIN both PROVE from <= both[n].created /\ both[n].created < to
  <2>1. CASE \E k \in DOMAIN got : both[n] = got[k]
    BY <1>4, <2>1
  <2>2. CASE \E k \in DOMAIN more : both[n] = more[k]
    BY <1>1, <1>3, <2>2
  <2> QED
    BY <1>7, <2>1, <2>2
<1>10. ASSUME NEW x \in known, from <= x.created, x.created < to,
              ~ \E n \in DOMAIN both : both[n] = x
       PROVE  ~p.last /\ x.id < both[Len(both)].id
  <2>1. ~ \E n \in DOMAIN got : got[n] = x
    BY <1>7, <1>10
  <2>2. got = <<>> \/ x.id < got[Len(got)].id
    BY <1>4, <1>10, <2>1
  <2>3. PICK n \in DOMAIN ledger : ledger[n] = x
    OBVIOUS
  <2>4. PICK k \in DOMAIN rest : rest[k] = x
    BY <1>1, <1>10, <2>2, <2>3
  <2>5. k \notin DOMAIN more
    BY <1>3, <1>7, <1>10, <2>4
  <2> QED
    BY <1>3, <1>7, <1>8, <2>4, <2>5, Zenon
<1>11. Reading(known, both, from, to, p.last)
  BY <1>7, <1>9, <1>10 DEF Reading
<1> QED
  BY <1>7, <1>8, <1>11

\* A step that leaves the clock and the ledger keeps the invariant if the request does.
LEMMA RequestStepIsSafe ==
    ASSUME Dashboard!IndInv, UNCHANGED <<now, ledger>>,
           request' \in [phase : {"idle", "current", "previous", "done"}, today : 0..LastDay,
                         current : Seq(Dashboard!Transaction),
                         previous : Seq(Dashboard!Transaction),
                         known : SUBSET Dashboard!Transaction],
           request'.known \subseteq {ledger[n] : n \in DOMAIN ledger}, Reads(request'),
           request'.phase = "idle" => request' = Dashboard!Idle
    PROVE  Dashboard!IndInv'
<1>1. Dashboard!TypeOK /\ Dashboard!LedgerGrows
  BY DEF Dashboard!IndInv
<1>2. Dashboard!TypeOK'
  <2>1. now' \in Nat /\ ledger' \in Seq(Dashboard!Transaction)
    BY <1>1 DEF Dashboard!TypeOK
  <2>2. request'.known \subseteq {ledger'[n] : n \in DOMAIN ledger'}
    OBVIOUS
  <2> QED
    BY <2>1, <2>2 DEF Dashboard!TypeOK, Dashboard!Dates, Dashboard!Transaction,
       Dashboard!Kinds, Dashboard!ToSet
<1>3. Dashboard!LedgerGrows'
  BY <1>1 DEF Dashboard!LedgerGrows, Dashboard!Midnight
<1>4. Dashboard!RequestReads'
  BY RequestIs
<1> QED
  BY <1>2, <1>3, <1>4 DEF Dashboard!IndInv, Dashboard!Idle

\* What the invariant says of a request.
LEMMA RequestTypes ==
    ASSUME Dashboard!IndInv
    PROVE  /\ Dashboard!TypeOK /\ Dashboard!LedgerGrows /\ Reads(request)
           /\ request \in [phase : {"idle", "current", "previous", "done"}, today : 0..LastDay,
                           current : Seq(Dashboard!Transaction),
                           previous : Seq(Dashboard!Transaction),
                           known : SUBSET Dashboard!Transaction]
           /\ request.known \subseteq {ledger[n] : n \in DOMAIN ledger}
           /\ request.phase = "idle" => request = Dashboard!Idle
<1>1. Dashboard!TypeOK /\ Dashboard!LedgerGrows
  BY DEF Dashboard!IndInv
<1>2. Reads(request)
  BY RequestIs DEF Dashboard!IndInv
<1>3. request.phase = "idle" => request = Dashboard!Idle
  BY DEF Dashboard!IndInv
<1> QED
  BY <1>1, <1>2, <1>3, SameLedgers DEF Dashboard!TypeOK, Dashboard!Dates

\* Time goes on.
LEMMA TickIsSafe == ASSUME Dashboard!IndInv, Dashboard!Tick PROVE Dashboard!IndInv'
<1>1. /\ now + 1 < Dashboard!Midnight[LastDay + 1] /\ now' = now + 1
      /\ ledger' = ledger /\ request' = request
  BY DEF Dashboard!Tick
<1>2. Dashboard!TypeOK /\ Dashboard!LedgerGrows /\ Reads(request)
  BY RequestTypes
<1>3. Dashboard!TypeOK'
  BY <1>1, <1>2 DEF Dashboard!TypeOK, Dashboard!Dates, Dashboard!Transaction,
     Dashboard!Kinds, Dashboard!ToSet
<1>4. Dashboard!LedgerGrows'
  <2>1. now' < Dashboard!Midnight[LastDay + 1]
    BY <1>1
  <2>2. (Dashboard!Midnight[LastDay + 1])' = Dashboard!Midnight[LastDay + 1]
    BY DEF Dashboard!Midnight
  <2>3. \A n \in DOMAIN ledger : ledger[n].created \in Nat
    BY <1>2, LedgerIs
  <2>4. now \in Nat /\ Len(ledger) <= MaxLedger
        /\ \A n \in DOMAIN ledger : /\ ledger[n].id = Len(ledger) + 1 - n
                                    /\ ledger[n].created <= now
    BY <1>2 DEF Dashboard!TypeOK, Dashboard!LedgerGrows
  <2>5. \A n \in DOMAIN ledger : ledger[n].created <= now + 1
    BY <2>3, <2>4
  <2> QED
    BY <1>1, <2>1, <2>2, <2>4, <2>5 DEF Dashboard!LedgerGrows
<1>5. Dashboard!RequestReads'
  BY <1>1, <1>2, RequestIs
<1>6. (request.phase = "idle" => request = Dashboard!Idle)
        /\ request' = request
  BY <1>1, RequestTypes
<1> QED
  BY <1>3, <1>4, <1>5, <1>6 DEF Dashboard!IndInv, Dashboard!Idle

\* A transaction comes at the top of the list.
LEMMA RecordIsSafe == ASSUME Dashboard!IndInv, Dashboard!Record PROVE Dashboard!IndInv'
<1>1. Dashboard!TypeOK /\ Dashboard!LedgerGrows /\ Reads(request)
  BY RequestTypes
<1>2. PICK k \in Dashboard!Kinds :
        ledger' = <<[id |-> Len(ledger) + 1, created |-> now, kind |-> k]>> \o ledger
  BY DEF Dashboard!Record
<1>3. Len(ledger) < MaxLedger /\ now' = now /\ request' = request
  BY DEF Dashboard!Record
<1> DEFINE e == [id |-> Len(ledger) + 1, created |-> now, kind |-> k]
           l == Len(ledger)
<1>4. /\ now \in Nat /\ ledger \in Seq(Dashboard!Transaction) /\ l \in Nat
      /\ DOMAIN ledger = 1..l
      /\ \A n \in 1..l : ledger[n].id = l + 1 - n /\ ledger[n].created <= now
      /\ now < Dashboard!Midnight[LastDay + 1]
  BY <1>1 DEF Dashboard!TypeOK, Dashboard!LedgerGrows
<1>5. e \in Dashboard!Transaction /\ e.id = l + 1 /\ e.created = now
  BY <1>2, <1>3, <1>4, CalendarIs DEF Dashboard!Transaction
<1>6. ledger' = <<e>> \o ledger
  BY <1>2
<1> HIDE DEF e
<1>7. <<e>> \in Seq(Dashboard!Transaction) /\ Len(<<e>>) = 1 /\ <<e>>[1] = e
  BY <1>5
<1>8. /\ ledger' \in Seq(Dashboard!Transaction) /\ Len(ledger') = 1 + l
      /\ \A n \in 1..1 + l : ledger'[n] = IF n <= 1 THEN <<e>>[n] ELSE ledger[n - 1]
  BY <1>4, <1>6, <1>7, ConcatProperties
<1>9. DOMAIN ledger' = 1..1 + l
  BY <1>8
<1> HIDE DEF l
<1>10. ASSUME NEW n \in 1..1 + l
       PROVE  ledger'[n].id = (1 + l) + 1 - n /\ ledger'[n].created <= now
  <2>1. CASE n = 1
    <3>1. ledger'[n] = e
      BY <1>4, <1>7, <1>8, <2>1
    <3> QED
      BY <1>4, <1>5, <2>1, <3>1
  <2>2. CASE n # 1
    <3>1. n - 1 \in 1..l /\ ~(n <= 1)
      BY <1>4, <2>2
    <3>2. ledger'[n] = ledger[n - 1]
      BY <1>8, <3>1
    <3>3. ledger[n - 1].id = l + 1 - (n - 1) /\ ledger[n - 1].created <= now
      BY <1>4, <3>1
    <3>4. l + 1 - (n - 1) = (1 + l) + 1 - n
      BY <1>4
    <3> QED
      BY <3>2, <3>3, <3>4
  <2> QED
    BY <2>1, <2>2
<1>11. \A n \in 1..l : n + 1 \in 1..1 + l /\ ledger'[n + 1] = ledger[n]
  <2> SUFFICES ASSUME NEW n \in 1..l
               PROVE  n + 1 \in 1..1 + l /\ ledger'[n + 1] = ledger[n]
    OBVIOUS
  <2>1. n + 1 \in 1..1 + l /\ ~(n + 1 <= 1) /\ (n + 1) - 1 = n
    BY <1>4
  <2> QED
    BY <1>8, <2>1
<1>12. request.known \subseteq {ledger'[n] : n \in DOMAIN ledger'}
  <2> SUFFICES ASSUME NEW x \in request.known PROVE \E m \in DOMAIN ledger' : ledger'[m] = x
    OBVIOUS
  <2>1. request.known \subseteq {ledger[n] : n \in DOMAIN ledger}
    BY RequestTypes
  <2>2. PICK n \in DOMAIN ledger : ledger[n] = x
    BY <2>1
  <2>3. n + 1 \in DOMAIN ledger' /\ ledger'[n + 1] = ledger[n]
    BY <1>4, <1>9, <1>11, <2>2
  <2> QED
    BY <2>2, <2>3
<1>13. Dashboard!TypeOK'
  <2>1. now' \in Nat
    BY <1>3, <1>4
  <2>2. request' \in [phase : {"idle", "current", "previous", "done"}, today : 0..LastDay,
                      current : Seq(Dashboard!Transaction),
                      previous : Seq(Dashboard!Transaction),
                      known : SUBSET Dashboard!Transaction]
    BY <1>3, RequestTypes
  <2>3. request'.known \subseteq {ledger'[n] : n \in DOMAIN ledger'}
    BY <1>3, <1>12
  <2> QED
    BY <1>8, <2>1, <2>2, <2>3 DEF Dashboard!TypeOK, Dashboard!Dates, Dashboard!Transaction,
       Dashboard!Kinds, Dashboard!ToSet
<1>14. Dashboard!LedgerGrows'
  <2>1. (Dashboard!Midnight[LastDay + 1])' = Dashboard!Midnight[LastDay + 1]
    BY DEF Dashboard!Midnight
  <2>2. 1 + l <= MaxLedger
    BY <1>3, <1>4, CalendarIs DEF l
  <2>3. \A n \in DOMAIN ledger' : ledger'[n].id = Len(ledger') + 1 - n
    BY <1>8, <1>9, <1>10
  <2>4. \A n \in DOMAIN ledger' : ledger'[n].created <= now
    BY <1>9, <1>10
  <2> QED
    BY <1>3, <1>4, <1>8, <2>1, <2>2, <2>3, <2>4 DEF Dashboard!LedgerGrows
<1>15. Dashboard!RequestReads'
  BY <1>1, <1>3, RequestIs
<1>16. (request.phase = "idle" => request = Dashboard!Idle) /\ request' = request
  BY <1>3, RequestTypes
<1> QED
  BY <1>13, <1>14, <1>15, <1>16 DEF Dashboard!IndInv, Dashboard!Idle

\* A request begins with the transactions that are known then.
LEMMA AskIsSafe == ASSUME Dashboard!IndInv, Dashboard!Ask PROVE Dashboard!IndInv'
<1> DEFINE K == {ledger[n] : n \in DOMAIN ledger}
           t == Dashboard!Date(now)
<1>1. Dashboard!TypeOK /\ Dashboard!LedgerGrows
  BY RequestTypes
<1>2. /\ t + 1 >= 2 * Days /\ now' = now /\ ledger' = ledger
      /\ request' = [Dashboard!Idle EXCEPT !.phase = "current", !.today = t, !.known = K]
  BY SameLedgers, Zenon DEF Dashboard!Ask, Dashboard!AskedOn
<1>3. t \in 0..LastDay
  <2>1. now \in Nat /\ now < Dashboard!Midnight[LastDay + 1]
    BY <1>1 DEF Dashboard!TypeOK, Dashboard!LedgerGrows
  <2> QED
    BY <2>1, DatesAre
<1>4. K \subseteq Dashboard!Transaction
  BY <1>1 DEF Dashboard!TypeOK
<1> HIDE DEF K, t
<1>5. request' = [phase |-> "current", today |-> t, current |-> <<>>, previous |-> <<>>,
                  known |-> K]
  BY <1>2, Zenon DEF Dashboard!Idle
<1>6. <<>> \in Seq(Dashboard!Transaction)
  OBVIOUS
<1>7. \A from, to : Reading(K, <<>>, from, to, FALSE)
  BY DEF Reading, GoesDown
<1>8. Reads(request')
  <2>1. /\ request'.phase = "current" /\ request'.today = t /\ request'.current = <<>>
        /\ request'.previous = <<>> /\ request'.known = K
    BY <1>5
  <2>2. /\ (request'.phase # "current") = FALSE
        /\ (request'.phase = "done") = FALSE
    BY <2>1
  <2> QED
    BY <1>2, <1>7, <2>1, <2>2, Zenon DEF Reads
<1> QED
  <2>1. request' \in [phase : {"idle", "current", "previous", "done"}, today : 0..LastDay,
                      current : Seq(Dashboard!Transaction),
                      previous : Seq(Dashboard!Transaction),
                      known : SUBSET Dashboard!Transaction]
    BY <1>3, <1>4, <1>5, <1>6
  <2>2. request'.known = {ledger[n] : n \in DOMAIN ledger} /\ request'.phase # "idle"
    BY <1>5 DEF K
  <2> QED
    BY <1>2, <1>8, <2>1, <2>2, RequestStepIsSafe

\* The current period is read on.
LEMMA ReadCurrentIsSafe == ASSUME Dashboard!IndInv, Dashboard!ReadCurrent PROVE Dashboard!IndInv'
<1> DEFINE from == Dashboard!Midnight[(request.today + 1) - Days]
           to == Dashboard!Midnight[request.today + 1]
           p == Dashboard!PageAfter(Dashboard!Within(from, to), request.current)
<1>1. /\ Dashboard!TypeOK /\ Dashboard!LedgerGrows /\ Reads(request)
      /\ request \in [phase : {"idle", "current", "previous", "done"}, today : 0..LastDay,
                      current : Seq(Dashboard!Transaction),
                      previous : Seq(Dashboard!Transaction),
                      known : SUBSET Dashboard!Transaction]
      /\ request.known \subseteq {ledger[n] : n \in DOMAIN ledger}
  BY RequestTypes
<1>2. /\ request.phase = "current" /\ now' = now /\ ledger' = ledger
      /\ request' = [request EXCEPT !.current = p.read,
                       !.phase = IF p.last THEN "previous" ELSE "current"]
  BY DEF Dashboard!ReadCurrent, Dashboard!CurrentFrom, Dashboard!CurrentTo, Dashboard!DaysBefore
<1>3. /\ (request.phase # "current") = FALSE /\ (request.phase = "done") = FALSE
      /\ request.phase # "idle"
  BY <1>2
<1>4. /\ request.today + 1 >= 2 * Days
      /\ Reading(request.known, request.current, from, to, FALSE)
      /\ Reading(request.known, request.previous,
                 Dashboard!Midnight[(request.today + 1) - 2 * Days], from, FALSE)
  BY <1>1, <1>3, Zenon DEF Reads
<1>5. /\ p.read \in Seq(Dashboard!Transaction) /\ p.last \in BOOLEAN
      /\ Reading(request.known, p.read, from, to, p.last)
  <2>1. \E q : q = p
    OBVIOUS
  <2>2. PICK q : q = p
    BY <2>1
  <2>3. request.current \in Seq(Dashboard!Transaction)
    BY <1>1
  <2> HIDE DEF from, to
  <2>4. q = Dashboard!PageAfter(Dashboard!Within(from, to), request.current)
    BY <2>2
  <2>5. /\ q.read \in Seq(Dashboard!Transaction) /\ q.last \in BOOLEAN
        /\ Reading(request.known, q.read, from, to, q.last)
    BY <1>1, <1>4, <2>3, <2>4, PageGoesDown, Zenon
  <2> HIDE DEF p
  <2> QED
    BY <2>2, <2>5
<1> HIDE DEF p, from, to
<1>6. /\ request'.phase = IF p.last THEN "previous" ELSE "current"
      /\ request'.today = request.today /\ request'.current = p.read
      /\ request'.previous = request.previous /\ request'.known = request.known
      /\ request'.phase # "idle"
      /\ request' \in [phase : {"idle", "current", "previous", "done"}, today : 0..LastDay,
                       current : Seq(Dashboard!Transaction),
                       previous : Seq(Dashboard!Transaction),
                       known : SUBSET Dashboard!Transaction]
  BY <1>1, <1>2, <1>5, Zenon
<1>7. /\ (request'.phase # "current") = p.last /\ (request'.phase = "done") = FALSE
  BY <1>5, <1>6
<1>8. Reads(request')
  BY <1>4, <1>5, <1>6, <1>7, Zenon DEF Reads, from, to
<1> QED
  BY <1>1, <1>2, <1>6, <1>8, RequestStepIsSafe

\* The period before is read on.
LEMMA ReadPreviousIsSafe ==
    ASSUME Dashboard!IndInv, Dashboard!ReadPrevious PROVE Dashboard!IndInv'
<1> DEFINE from == Dashboard!Midnight[(request.today + 1) - 2 * Days]
           to == Dashboard!Midnight[(request.today + 1) - Days]
           p == Dashboard!PageAfter(Dashboard!Within(from, to), request.previous)
<1>1. /\ Dashboard!TypeOK /\ Dashboard!LedgerGrows /\ Reads(request)
      /\ request \in [phase : {"idle", "current", "previous", "done"}, today : 0..LastDay,
                      current : Seq(Dashboard!Transaction),
                      previous : Seq(Dashboard!Transaction),
                      known : SUBSET Dashboard!Transaction]
      /\ request.known \subseteq {ledger[n] : n \in DOMAIN ledger}
  BY RequestTypes
<1>2. /\ request.phase = "previous" /\ now' = now /\ ledger' = ledger
      /\ request' = [request EXCEPT !.previous = p.read,
                       !.phase = IF p.last THEN "done" ELSE "previous"]
  BY DEF Dashboard!ReadPrevious, Dashboard!CurrentFrom, Dashboard!PreviousFrom,
         Dashboard!DaysBefore
<1>3. /\ (request.phase # "current") = TRUE /\ (request.phase = "done") = FALSE
      /\ request.phase # "idle"
  BY <1>2
<1>4. /\ request.today + 1 >= 2 * Days
      /\ Reading(request.known, request.current, to,
                 Dashboard!Midnight[request.today + 1], TRUE)
      /\ Reading(request.known, request.previous, from, to, FALSE)
  BY <1>1, <1>3, Zenon DEF Reads
<1>5. /\ p.read \in Seq(Dashboard!Transaction) /\ p.last \in BOOLEAN
      /\ Reading(request.known, p.read, from, to, p.last)
  <2>1. \E q : q = p
    OBVIOUS
  <2>2. PICK q : q = p
    BY <2>1
  <2>3. request.previous \in Seq(Dashboard!Transaction)
    BY <1>1
  <2> HIDE DEF from, to
  <2>4. q = Dashboard!PageAfter(Dashboard!Within(from, to), request.previous)
    BY <2>2
  <2>5. /\ q.read \in Seq(Dashboard!Transaction) /\ q.last \in BOOLEAN
        /\ Reading(request.known, q.read, from, to, q.last)
    BY <1>1, <1>4, <2>3, <2>4, PageGoesDown, Zenon
  <2> HIDE DEF p
  <2> QED
    BY <2>2, <2>5
<1> HIDE DEF p, from, to
<1>6. /\ request'.phase = IF p.last THEN "done" ELSE "previous"
      /\ request'.today = request.today /\ request'.current = request.current
      /\ request'.previous = p.read /\ request'.known = request.known
      /\ request'.phase # "idle"
      /\ request' \in [phase : {"idle", "current", "previous", "done"}, today : 0..LastDay,
                       current : Seq(Dashboard!Transaction),
                       previous : Seq(Dashboard!Transaction),
                       known : SUBSET Dashboard!Transaction]
  BY <1>1, <1>2, <1>5, Zenon
<1>7. /\ (request'.phase # "current") = TRUE /\ (request'.phase = "done") = p.last
  BY <1>5, <1>6
<1>8. Reads(request')
  BY <1>4, <1>5, <1>6, <1>7, Zenon DEF Reads, from, to
<1> QED
  BY <1>1, <1>2, <1>6, <1>8, RequestStepIsSafe

\* A request ends, answered or not.
LEMMA EndIsSafe ==
    ASSUME Dashboard!IndInv, request' = Dashboard!Idle, UNCHANGED <<now, ledger>>
    PROVE  Dashboard!IndInv'
<1>1. request' = [phase |-> "idle", today |-> 0, current |-> <<>>, previous |-> <<>>,
                  known |-> {}]
  BY DEF Dashboard!Idle
<1>2. 0 \in 0..LastDay /\ <<>> \in Seq(Dashboard!Transaction)
  BY CalendarIs
<1>3. Reads(request')
  BY <1>1 DEF Reads
<1> QED
  BY <1>1, <1>2, <1>3, RequestStepIsSafe

\* The pages of Stripe's list go down it, and what was known when the request came is
\* on those read or comes behind (paginate_stripe_list).
THEOREM LedgerIsRead == Dashboard!Spec => []Dashboard!IndInv
<1>1. Dashboard!Init => Dashboard!IndInv
  <2> SUFFICES ASSUME Dashboard!Init PROVE Dashboard!IndInv
    OBVIOUS
  <2>1. now = 0 /\ ledger = <<>> /\ request = Dashboard!Idle
    BY DEF Dashboard!Init
  <2>2. request = [phase |-> "idle", today |-> 0, current |-> <<>>, previous |-> <<>>,
                   known |-> {}]
    BY <2>1 DEF Dashboard!Idle
  <2>3. 0 \in 0..LastDay /\ <<>> \in Seq(Dashboard!Transaction) /\ MaxLedger \in Nat
    BY CalendarIs
  <2>4. Dashboard!TypeOK
    BY <2>1, <2>2, <2>3 DEF Dashboard!TypeOK, Dashboard!Dates
  <2>5. Dashboard!LedgerGrows
    <3>1. 0 < Dashboard!Midnight[LastDay + 1]
      BY MidnightsAre, CalendarIs
    <3> QED
      BY <2>1, <2>3, <3>1 DEF Dashboard!LedgerGrows
  <2>6. Reads(request)
    BY <2>2 DEF Reads
  <2> QED
    BY <2>1, <2>4, <2>5, <2>6, RequestIs DEF Dashboard!IndInv
<1>2. Dashboard!IndInv /\ [Dashboard!Next]_Dashboard!vars => Dashboard!IndInv'
  <2> SUFFICES ASSUME Dashboard!IndInv, [Dashboard!Next]_Dashboard!vars
               PROVE  Dashboard!IndInv'
    OBVIOUS
  <2>1. CASE Dashboard!Tick
    BY <2>1, TickIsSafe
  <2>2. CASE Dashboard!Record
    BY <2>2, RecordIsSafe
  <2>3. CASE Dashboard!Ask
    BY <2>3, AskIsSafe
  <2>4. CASE Dashboard!ReadCurrent
    BY <2>4, ReadCurrentIsSafe
  <2>5. CASE Dashboard!ReadPrevious
    BY <2>5, ReadPreviousIsSafe
  <2>6. CASE Dashboard!Answer
    BY <2>6, EndIsSafe DEF Dashboard!Answer
  <2>7. CASE Dashboard!Fail
    BY <2>7, EndIsSafe DEF Dashboard!Fail
  <2>8. CASE UNCHANGED Dashboard!vars
    <3>1. now' = now /\ ledger' = ledger /\ request' = request
      BY <2>8 DEF Dashboard!vars
    <3> QED
      BY <3>1, RequestTypes, RequestStepIsSafe
  <2> QED
    BY <2>1, <2>2, <2>3, <2>4, <2>5, <2>6, <2>7, <2>8 DEF Dashboard!Next
<1> QED
  BY <1>1, <1>2, PTL DEF Dashboard!Spec

\* What is read of a period is of its days, and nothing known of them is missing.
Covers(got, known, d) ==
    /\ \A n \in DOMAIN got : Dashboard!Date(got[n].created) \in d..d + Days - 1
    /\ \A x \in known : Dashboard!Date(x.created) \in d..d + Days - 1
         => \E n \in DOMAIN got : got[n] = x

LEMMA PeriodIs ==
    ASSUME Dashboard!TypeOK, Dashboard!LedgerGrows,
           NEW d \in 0..LastDay + 1, NEW e \in 0..LastDay + 1, e = d + Days,
           NEW known, known \subseteq {ledger[n] : n \in DOMAIN ledger},
           NEW got \in Seq(Dashboard!Transaction),
           Reading(known, got, Dashboard!Midnight[d], Dashboard!Midnight[e], TRUE)
    PROVE  Covers(got, known, d)
<1> DEFINE M == Dashboard!Midnight
<1>1. /\ LastDay \in Nat /\ Days \in Nat \ {0} /\ M[d] \in Nat /\ M[e] \in Nat
      /\ M[LastDay + 1] \in Nat /\ (e = LastDay + 1 \/ M[e] < M[LastDay + 1])
  BY CalendarIs, MidnightsAre
<1>2. ASSUME NEW t \in Nat, t < M[LastDay + 1]
      PROVE  Dashboard!Date(t) \in d..d + Days - 1 <=> M[d] <= t /\ t < M[e]
  <2> DEFINE D == Dashboard!Date(t)
  <2>1. /\ D \in 0..LastDay /\ (D >= d <=> M[d] <= t) /\ (D >= e <=> M[e] <= t)
    BY <1>2, DatesAre
  <2> HIDE DEF D, M
  <2>2. D \in d..d + Days - 1 <=> D >= d /\ ~(D >= e)
    BY <1>1, <2>1
  <2>3. ~(M[e] <= t) <=> t < M[e]
    BY <1>1, <1>2
  <2> QED
    BY <2>1, <2>2, <2>3 DEF D
<1>3. /\ \A n \in DOMAIN got : M[d] <= got[n].created /\ got[n].created < M[e]
      /\ \A x \in known : M[d] <= x.created /\ x.created < M[e] =>
           \E n \in DOMAIN got : got[n] = x
  BY DEF Reading
<1>4. \A n \in DOMAIN ledger : ledger[n].created \in Nat /\ ledger[n].created < M[LastDay + 1]
  BY LedgerIs
<1> HIDE DEF M
<1>5. ASSUME NEW n \in DOMAIN got
      PROVE  Dashboard!Date(got[n].created) \in d..d + Days - 1
  <2>1. got[n].created \in Nat
    <3>1. got[n] \in Dashboard!Transaction
      BY <1>5
    <3> QED
      BY <3>1 DEF Dashboard!Transaction
  <2>2. got[n].created < M[LastDay + 1]
    BY <1>1, <1>3, <2>1
  <2> QED
    BY <1>2, <1>3, <2>1, <2>2
<1>6. ASSUME NEW x \in known, Dashboard!Date(x.created) \in d..d + Days - 1
      PROVE  \E n \in DOMAIN got : got[n] = x
  <2>1. PICK n \in DOMAIN ledger : ledger[n] = x
    OBVIOUS
  <2>2. x.created \in Nat /\ x.created < M[LastDay + 1]
    BY <1>4, <2>1
  <2> QED
    BY <1>2, <1>3, <1>6, <2>2
<1> QED
  BY <1>5, <1>6 DEF Covers

\* The chart of a period has a point for each of its days, which add up to the total.
AddsUp(series, got, first) ==
    /\ DOMAIN series = first..first + Days - 1
    /\ \A f \in Dashboard!Figures :
         SumOf([n \in 1..Days |-> series[first + n - 1][f]]) = Dashboard!Revenue(got)[f]

LEMMA ChartAddsUp ==
    ASSUME NEW first \in 0..LastDay, NEW today \in 0..LastDay, first + Days = today + 1,
           NEW got \in Seq(Dashboard!Transaction),
           NEW known, Covers(got, known, first),
           NEW series, series = Dashboard!RevenueSeries(got, Dashboard!Midnight[first],
                                                        Dashboard!Midnight[today + 1])
    PROVE  AddsUp(series, got, first)
<1> DEFINE M == Dashboard!Midnight
<1>1. /\ LastDay \in Nat /\ Days \in Nat \ {0}
      /\ first \in 0..LastDay + 1 /\ first + 1 \in 0..LastDay + 1 /\ today + 1 \in 0..LastDay + 1
      /\ today \in 0..LastDay + 1 /\ LastDay + 1 \in 0..LastDay + 1
  BY CalendarIs
<1>2. /\ \A d \in 0..LastDay + 1 : M[d] \in Nat
      /\ \A d, e \in 0..LastDay + 1 : d < e => M[d] < M[e]
  BY MidnightsAre
<1> HIDE DEF M
<1>3. Dashboard!Date(M[first]) = first
  <2>1. M[first] < M[first + 1] /\ M[first] < M[LastDay + 1]
    BY <1>1, <1>2
  <2>2. M[first] \in Nat /\ M[first] <= M[first]
    BY <1>1, <1>2
  <2> QED
    BY <2>1, <2>2, DatesAre DEF M
<1>4. Dashboard!Date(M[today + 1] - 1) = today
  <2> DEFINE t == M[today + 1] - 1
  <2>1. /\ M[today] < M[today + 1] /\ M[today] \in Nat /\ M[today + 1] \in Nat
        /\ M[LastDay + 1] \in Nat
        /\ (M[today + 1] < M[LastDay + 1] \/ today + 1 = LastDay + 1)
    BY <1>1, <1>2
  <2>2. t \in Nat /\ M[today] <= t /\ t < M[today + 1] /\ t < M[LastDay + 1]
    BY <2>1
  <2> HIDE DEF t
  <2>3. Dashboard!Date(t) = today
    BY <2>2, DatesAre DEF M
  <2> QED
    BY <2>3 DEF t
<1>5. Dashboard!SeriesDates(M[first], M[today + 1]) = first..today
  BY <1>3, <1>4 DEF Dashboard!SeriesDates
<1>6. first..today = first..first + Days - 1
  <2>1. today = first + Days - 1
    BY <1>1
  <2> QED
    BY <2>1
<1> DEFINE Row(d, f) == [n \in 1..Len(got) |->
                           IF Dashboard!Date(got[n].created) = d
                           THEN Dashboard!Amounts[got[n].kind][f] ELSE 0]
<1>7. series = [d \in first..first + Days - 1 |-> [f \in Dashboard!Figures |-> SumOf(Row(d, f))]]
  <2>1. series = [d \in Dashboard!SeriesDates(M[first], M[today + 1]) |->
                    [f \in Dashboard!Figures |-> Dashboard!SumOf(Row(d, f))]]
    BY DEF Dashboard!RevenueSeries, M
  <2>2. \A a : Dashboard!SumOf(a) = SumOf(a)
    BY SameLedgers
  <2>3. Dashboard!SeriesDates(M[first], M[today + 1]) = first..first + Days - 1
    BY <1>5, <1>6
  <2> HIDE DEF Row
  <2> QED
    BY <2>1, <2>2, <2>3
<1>8. DOMAIN series = first..first + Days - 1
  BY <1>7
<1>9. \A d \in first..first + Days - 1 : \A f \in Dashboard!Figures :
        series[d][f] = SumOf(Row(d, f))
  <2> HIDE DEF Row
  <2> QED
    BY <1>7
<1>10. ASSUME NEW f \in Dashboard!Figures
       PROVE  SumOf([n \in 1..Days |-> series[first + n - 1][f]]) = Dashboard!Revenue(got)[f]
  <2> DEFINE N == Len(got)
             a == [n \in 1..N |-> Dashboard!Amounts[got[n].kind][f]]
             box == [n \in 1..N |-> Dashboard!Date(got[n].created) - first + 1]
             sums == BoxSums(a, box, N, Days)
  <2>1. N \in Nat /\ DOMAIN got = 1..N
    OBVIOUS
  <2>2. a \in [1..N -> Int]
    <3> SUFFICES ASSUME NEW n \in 1..N PROVE Dashboard!Amounts[got[n].kind][f] \in Int
      OBVIOUS
    <3>1. got[n] \in Dashboard!Transaction
      BY <2>1
    <3>2. got[n].kind \in {"charge", "refund", "other"}
      BY <3>1 DEF Dashboard!Transaction, Dashboard!Kinds
    <3> QED
      BY <3>2 DEF Dashboard!Amounts, Dashboard!Figures
  <2>3. \A n \in 1..N : Dashboard!Date(got[n].created) \in first..first + Days - 1
    BY <2>1 DEF Covers
  <2>4. box \in [1..N -> 1..Days]
    BY <1>1, <2>1, <2>3
  <2>5. \A n \in 1..N : box[n] = Dashboard!Date(got[n].created) - first + 1
    OBVIOUS
  <2>6. \A n \in 1..N : a[n] = Dashboard!Amounts[got[n].kind][f]
    OBVIOUS
  <2>7. sums = [d \in 1..Days |-> SumOf([n \in 1..N |-> IF box[n] = d THEN a[n] ELSE 0])]
    BY DEF BoxSums
  <2>8. SumOf(a) = Dashboard!Revenue(got)[f]
    BY SameLedgers DEF Dashboard!Revenue
  <2>9. ASSUME NEW d \in 1..Days
        PROVE  SumOf([n \in 1..N |-> IF box[n] = d THEN a[n] ELSE 0]) = series[first + d - 1][f]
    <3>1. first + d - 1 \in first..first + Days - 1
      BY <1>1
    <3>2. \A n \in 1..N : box[n] = d <=> Dashboard!Date(got[n].created) = first + d - 1
      <4> SUFFICES ASSUME NEW n \in 1..N
                   PROVE  box[n] = d <=> Dashboard!Date(got[n].created) = first + d - 1
        OBVIOUS
      <4> DEFINE D == Dashboard!Date(got[n].created)
      <4>1. D \in first..first + Days - 1 /\ box[n] = D - first + 1
        BY <2>3, <2>5
      <4> HIDE DEF box, D, N
      <4>2. D \in Int /\ first \in Int /\ d \in Int
        BY <1>1, <4>1
      <4> QED
        BY <4>1, <4>2 DEF D
    <3>3. Row(first + d - 1, f)
            = [n \in 1..N |-> IF Dashboard!Date(got[n].created) = first + d - 1
                              THEN Dashboard!Amounts[got[n].kind][f] ELSE 0]
      OBVIOUS
    <3> HIDE DEF Row, N, a, box
    <3>4. Row(first + d - 1, f) = [n \in 1..N |-> IF box[n] = d THEN a[n] ELSE 0]
      BY <2>6, <3>2, <3>3, Zenon
    <3> QED
      BY <1>9, <3>1, <3>4
  <2> HIDE DEF N, a, box, Row, sums
  <2>10. sums = [n \in 1..Days |-> series[first + n - 1][f]]
    BY <2>7, <2>9
  <2>11. SumOf(sums) = SumOf(a)
    <3>1. Days \in Nat
      BY <1>1
    <3> QED
      BY <2>1, <2>2, <2>4, <3>1, BoxesAddUp, Zenon DEF sums
  <2> QED
    BY <2>8, <2>10, <2>11
<1> QED
  BY <1>8, <1>10 DEF AddsUp

\* What the dashboard promises follows.
LEMMA DashboardIsRight ==
    Dashboard!IndInv =>
      Dashboard!PagesGoDown /\ Dashboard!PeriodIsLocalDays /\ Dashboard!SeriesAddsUp
<1> SUFFICES ASSUME Dashboard!IndInv
             PROVE  Dashboard!PagesGoDown /\ Dashboard!PeriodIsLocalDays
                      /\ Dashboard!SeriesAddsUp
  OBVIOUS
<1>1. /\ Dashboard!TypeOK /\ Dashboard!LedgerGrows /\ Reads(request)
      /\ request \in [phase : {"idle", "current", "previous", "done"}, today : 0..LastDay,
                      current : Seq(Dashboard!Transaction),
                      previous : Seq(Dashboard!Transaction),
                      known : SUBSET Dashboard!Transaction]
      /\ request.known \subseteq {ledger[n] : n \in DOMAIN ledger}
      /\ request.phase = "idle" => request = Dashboard!Idle
  BY RequestTypes
<1>2. GoesDown(request.current) /\ GoesDown(request.previous)
  <2>1. CASE request.phase = "idle"
    BY <1>1, <2>1 DEF Dashboard!Idle, GoesDown
  <2>2. CASE request.phase # "idle"
    BY <1>1, <2>2 DEF Reads, Reading
  <2> QED
    BY <2>1, <2>2
<1>3. Dashboard!PagesGoDown
  BY <1>2 DEF Dashboard!PagesGoDown, GoesDown
<1>4. ASSUME request.phase = "done"
      PROVE  /\ request.today + 1 >= 2 * Days
             /\ Reading(request.known, request.current,
                        Dashboard!Midnight[(request.today + 1) - Days],
                        Dashboard!Midnight[request.today + 1], TRUE)
             /\ Reading(request.known, request.previous,
                        Dashboard!Midnight[(request.today + 1) - 2 * Days],
                        Dashboard!Midnight[(request.today + 1) - Days], TRUE)
  <2>1. /\ request.phase # "idle" /\ (request.phase # "current") = TRUE
        /\ (request.phase = "done") = TRUE
    BY <1>4
  <2> QED
    BY <1>1, <2>1, Zenon DEF Reads
<1> DEFINE b == (request.today + 1) - 2 * Days
           c == (request.today + 1) - Days
           e == request.today + 1
<1>5. ASSUME request.phase = "done"
      PROVE  /\ b \in 0..LastDay + 1 /\ c \in 0..LastDay + 1 /\ e \in 0..LastDay + 1
             /\ c = b + Days /\ e = c + Days /\ c \in 0..LastDay
             /\ request.today + 1 - Days = c /\ request.today + 1 - 2 * Days = b
  <2>1. request.today \in 0..LastDay /\ LastDay \in Nat /\ Days \in Nat \ {0}
    BY <1>1, CalendarIs
  <2>2. request.today + 1 >= 2 * Days
    BY <1>4, <1>5
  <2> QED
    BY <2>1, <2>2
<1>6. ASSUME request.phase = "done"
      PROVE  Covers(request.current, request.known, c)
  <2>1. Reading(request.known, request.current, Dashboard!Midnight[c],
                Dashboard!Midnight[e], TRUE)
    BY <1>4, <1>6, Zenon
  <2>2. request.current \in Seq(Dashboard!Transaction)
    BY <1>1
  <2>3. c \in 0..LastDay + 1 /\ e \in 0..LastDay + 1 /\ e = c + Days
    BY <1>5, <1>6
  <2> HIDE DEF c, e
  <2> QED
    BY <1>1, <2>1, <2>2, <2>3, PeriodIs, Zenon
<1>7. ASSUME request.phase = "done"
      PROVE  Covers(request.previous, request.known, b)
  <2>1. Reading(request.known, request.previous, Dashboard!Midnight[b],
                Dashboard!Midnight[c], TRUE)
    BY <1>4, <1>7, Zenon
  <2>2. request.previous \in Seq(Dashboard!Transaction)
    BY <1>1
  <2>3. b \in 0..LastDay + 1 /\ c \in 0..LastDay + 1 /\ c = b + Days
    BY <1>5, <1>7
  <2> HIDE DEF b, c
  <2> QED
    BY <1>1, <2>1, <2>2, <2>3, PeriodIs, Zenon
<1>8. Dashboard!PeriodIsLocalDays
  <2> SUFFICES ASSUME request.phase = "done",
                      NEW p \in {<<request.current, request.today + 1 - Days>>,
                                 <<request.previous, request.today + 1 - 2 * Days>>}
               PROVE  /\ \A x \in Dashboard!ToSet(p[1]) :
                           Dashboard!Date(x.created) \in Dashboard!DatesFrom(p[2])
                      /\ \A x \in request.known :
                           Dashboard!Date(x.created) \in Dashboard!DatesFrom(p[2])
                             => x \in Dashboard!ToSet(p[1])
    BY Zenon DEF Dashboard!PeriodIsLocalDays, Dashboard!Done
  <2>1. p = <<request.current, c>> \/ p = <<request.previous, b>>
    BY <1>5
  <2> HIDE DEF b, c
  <2>2. \A s : Dashboard!ToSet(s) = {s[n] : n \in DOMAIN s}
    BY SameLedgers
  <2>3. CASE p = <<request.current, c>>
    BY <1>6, <2>2, <2>3 DEF Dashboard!DatesFrom, Covers
  <2>4. CASE p = <<request.previous, b>>
    BY <1>7, <2>2, <2>4 DEF Dashboard!DatesFrom, Covers
  <2> QED
    BY <2>1, <2>3, <2>4
<1>9. Dashboard!SeriesAddsUp
  <2> DEFINE first == request.today + 1 - Days
             series == Dashboard!RevenueSeries(request.current,
                           Dashboard!CurrentFrom(request.today),
                           Dashboard!CurrentTo(request.today))
  <2> SUFFICES ASSUME request.phase = "done"
               PROVE  /\ DOMAIN series = Dashboard!DatesFrom(first)
                      /\ \A f \in Dashboard!Figures :
                           Dashboard!SumOf([n \in 1..Days |-> series[first + n - 1][f]])
                             = Dashboard!Revenue(request.current)[f]
    BY Zenon DEF Dashboard!SeriesAddsUp, Dashboard!Done
  <2>1. first = c
    BY <1>5
  <2>2. series = Dashboard!RevenueSeries(request.current, Dashboard!Midnight[c],
                                         Dashboard!Midnight[request.today + 1])
    BY DEF Dashboard!CurrentFrom, Dashboard!CurrentTo, Dashboard!DaysBefore
  <2>3. request.current \in Seq(Dashboard!Transaction) /\ request.today \in 0..LastDay
    BY <1>1
  <2>4. c \in 0..LastDay /\ c + Days = request.today + 1
    BY <1>5
  <2> HIDE DEF first, series, c
  <2>5. AddsUp(series, request.current, c)
    BY <1>6, <2>2, <2>3, <2>4, ChartAddsUp
  <2> QED
    BY <2>1, <2>5, SameLedgers, Zenon DEF Dashboard!DatesFrom, AddsUp
<1> QED
  BY <1>3, <1>8, <1>9
-----------------------------------------------------------------------------
(***************************************************************************)
(* All readers.                                                            *)
(***************************************************************************)
\* The readers' steps are steps of each of them or leave it as it is.
LEMMA EachReader ==
    Spec => /\ Filters!Spec /\ Paged!Spec /\ OrderList!Spec
            /\ Notifications!Spec /\ Dashboard!Spec
<1>1. Init => /\ Filters!Init /\ Paged!Init /\ OrderList!Init
              /\ Notifications!Init /\ Dashboard!Init
  BY DEF Init
<1>2. /\ UNCHANGED FiltersVars => UNCHANGED Filters!vars
      /\ UNCHANGED PagesVars => UNCHANGED Paged!vars
      /\ UNCHANGED OrdersVars => UNCHANGED OrderList!vars
      /\ UNCHANGED NotificationsVars => UNCHANGED Notifications!vars
      /\ UNCHANGED DashboardVars => UNCHANGED Dashboard!vars
  BY DEF FiltersVars, Filters!vars, Filters!reader, PagesVars, Paged!vars, Paged!reader,
         OrdersVars, OrderList!vars, OrderList!table, OrderList!reader,
         NotificationsVars, Notifications!vars, DashboardVars, Dashboard!vars
<1>3. UNCHANGED vars =>
        UNCHANGED <<FiltersVars, PagesVars, OrdersVars, NotificationsVars, DashboardVars>>
  BY DEF vars
<1>4. [Next]_vars => [Filters!Next]_(Filters!vars)
  BY <1>2, <1>3
  DEF Next, FiltersStep, PagesStep, OrdersStep, NotificationsStep, DashboardStep
<1>5. [Next]_vars => [Paged!Next]_(Paged!vars)
  BY <1>2, <1>3
  DEF Next, FiltersStep, PagesStep, OrdersStep, NotificationsStep, DashboardStep
<1>6. [Next]_vars => [OrderList!Next]_(OrderList!vars)
  BY <1>2, <1>3
  DEF Next, FiltersStep, PagesStep, OrdersStep, NotificationsStep, DashboardStep
<1>7. [Next]_vars => [Notifications!Next]_(Notifications!vars)
  BY <1>2, <1>3
  DEF Next, FiltersStep, PagesStep, OrdersStep, NotificationsStep, DashboardStep
<1>8. [Next]_vars => [Dashboard!Next]_(Dashboard!vars)
  BY <1>2, <1>3
  DEF Next, FiltersStep, PagesStep, OrdersStep, NotificationsStep, DashboardStep
<1> QED
  BY <1>1, <1>4, <1>5, <1>6, <1>7, <1>8, PTL
  DEF Spec, Filters!Spec, Paged!Spec, OrderList!Spec, Notifications!Spec, Dashboard!Spec

\* What the readers hold has its types and agrees with what they read: the inductive
\* invariants of the pages, the notifications and the dashboard among it.
THEOREM ReadersAreTyped == Spec => []TypesOK
<1>1. Filters!TypeOK /\ Paged!IndInv /\ OrderList!IndInv /\ Notifications!IndInv
        /\ Dashboard!IndInv => TypesOK
  BY DEF TypesOK
<1> QED
  BY <1>1, EachReader, FilteredTypes, PagesAreShown, PagesSkipNothing, NotesReachPages,
     LedgerIsRead, PTL

\* Whatever filters are set, the list agrees with the figures of its items, and a filter
\* that is offered leads to entries: a color always, a grade or a species if what it asks
\* for once it comes back is offered (apply_shrimp_filters, split_csv_filter,
\* to_shrimp_list_item_response, get_catalog_filter_options, get_catalog_options).
THEOREM ListsAgreeWithFilters == Spec => []FiltersAgree
<1>1. Filters!TypeOK => FiltersAgree
  BY ItemsAgree, OffersFind DEF FiltersAgree
<1> QED
  BY <1>1, EachReader, FilteredTypes, PTL

\* A reader who turns the pages of the catalog while it changes is shown each entry
\* that was there all along, and publishing hides none (list_shrimp_catalog_items).
THEOREM CatalogIsShown == Spec => []PagesShowTheList
<1>1. Paged!IndInv => PagesShowTheList
  BY PagesEnd DEF PagesShowTheList
<1> QED
  BY <1>1, EachReader, PagesAreShown, PTL

\* The pages of orders miss at most one order for each that leaves the list, and their
\* total covers the rows it comes with (list_customer_orders, list_owner_orders).
THEOREM OrderPagesAreShown == Spec => []OrdersAreShown
<1>1. OrderList!IndInv => OrdersAreShown
  BY DEF OrderList!IndInv, OrdersAreShown
<1> QED
  BY <1>1, EachReader, PagesSkipNothing, PTL

\* A page that listens knows of each unread note of its role, but for those of a payment
\* that was being recorded when it came (owner_notifications.py, realtime.py).
THEOREM NoNoteIsMissed == Spec => []NothingMissed
<1>1. Notifications!IndInv => NothingMissed
  BY DEF Notifications!IndInv, Notifications!PublishedFirst, Notifications!PagesKnow,
         NothingMissed, Notifications!NothingMissed
<1> QED
  BY <1>1, EachReader, NotesReachPages, PTL

\* A dashboard covers the local days it says, also across a change of the clocks,
\* transaction by transaction, and its chart adds up to its totals
\* (stripe_analytics_service.py).
THEOREM DaysAreCovered == Spec => []DashboardCoversItsDays
<1>1. Dashboard!IndInv => DashboardCoversItsDays
  BY DashboardIsRight DEF DashboardCoversItsDays
<1> QED
  BY <1>1, EachReader, LedgerIsRead, PTL
=============================================================================
