--------------------------- MODULE OrderingProofs ---------------------------
(***************************************************************************)
(* What the operators of Ordering return: every member once, and in order. *)
(***************************************************************************)
EXTENDS Ordering, FunctionTheorems, FiniteSetTheorems, TLAPS

StrictOrder(S, before) ==
    /\ \A x \in S : <<x, x>> \notin before
    /\ \A x, y, z \in S : <<x, y>> \in before /\ <<y, z>> \in before => <<x, z>> \in before
    /\ \A x, y \in S : x = y \/ <<x, y>> \in before \/ <<y, x>> \in before

\* A member that comes later has more members before it.
LEMMA RankGrows ==
    ASSUME NEW S, IsFiniteSet(S), NEW before, StrictOrder(S, before), NEW x \in S
    PROVE  LET Below(z) == {y \in S : <<y, z>> \in before}
           IN  /\ Cardinality(Below(x)) \in 0 .. (Cardinality(S) - 1)
               /\ \A z \in S : <<x, z>> \in before => Cardinality(Below(x)) < Cardinality(Below(z))
<1> DEFINE Below(z) == {y \in S : <<y, z>> \in before}
<1>1. \A z \in S : IsFiniteSet(Below(z)) /\ Cardinality(Below(z)) \in Nat
  BY FS_Subset, FS_CardinalityType
<1>2. /\ IsFiniteSet(Below(x) \cup {x})
      /\ Cardinality(Below(x) \cup {x}) = Cardinality(Below(x)) + 1
  <2>1. x \notin Below(x)
    BY DEF StrictOrder
  <2> QED
    BY <1>1, <2>1, FS_AddElement
<1>3. Cardinality(Below(x)) \in 0 .. (Cardinality(S) - 1)
  <2>1. Cardinality(Below(x) \cup {x}) <= Cardinality(S)
    BY FS_Subset
  <2> QED
    BY <1>1, <1>2, <2>1, FS_CardinalityType
<1>4. ASSUME NEW z \in S, <<x, z>> \in before
      PROVE  Cardinality(Below(x)) < Cardinality(Below(z))
  <2>1. Below(x) \cup {x} \subseteq Below(z)
    BY <1>4 DEF StrictOrder
  <2>2. Cardinality(Below(x) \cup {x}) <= Cardinality(Below(z))
    BY <1>1, <2>1, FS_Subset
  <2> QED
    BY <1>1, <1>2, <2>2
<1> QED
  BY <1>3, <1>4

\* The list has at each place the member with so many before it, if there is one.
Lists(s, S, before) ==
    /\ s = [n \in 1 .. Cardinality(S) |-> s[n]]
    /\ \A n \in 1 .. Cardinality(S) :
         (\E x \in S : Cardinality({y \in S : <<y, x>> \in before}) = n - 1) =>
             s[n] \in S /\ Cardinality({y \in S : <<y, s[n]>> \in before}) = n - 1

\* Such a list has every member once and follows the order.
LEMMA ListedByRank ==
    ASSUME NEW S, IsFiniteSet(S), NEW before, StrictOrder(S, before),
           NEW s, Lists(s, S, before)
    PROVE  /\ Cardinality(S) \in Nat
           /\ s \in [1 .. Cardinality(S) -> S]
           /\ \A x \in S : \E n \in 1 .. Cardinality(S) : s[n] = x
           /\ \A m, n \in 1 .. Cardinality(S) : m < n <=> <<s[m], s[n]>> \in before
<1> DEFINE Below(z) == {y \in S : <<y, z>> \in before}
           N == Cardinality(S)
           rank == [x \in S |-> Cardinality(Below(x)) + 1]
<1>1. N \in Nat
  BY FS_CardinalityType
<1>2. \A x \in S : Cardinality(Below(x)) \in 0 .. (N - 1)
  BY RankGrows
<1>3. ASSUME NEW x \in S, NEW z \in S, <<x, z>> \in before
      PROVE  rank[x] < rank[z]
  <2>1. Cardinality(Below(x)) < Cardinality(Below(z))
    BY <1>3, RankGrows
  <2> QED
    BY <1>1, <1>2, <2>1
<1>4. rank \in [S -> 1 .. N]
  BY <1>1, <1>2
<1>5. ASSUME NEW x \in S, NEW z \in S, rank[x] = rank[z]
      PROVE  x = z
  <2>1. rank[x] \in Nat /\ rank[z] \in Nat
    BY <1>1, <1>4
  <2>2. ~(rank[x] < rank[z]) /\ ~(rank[z] < rank[x])
    BY <1>5, <2>1
  <2>3. <<x, z>> \notin before /\ <<z, x>> \notin before
    BY <1>3, <2>2
  <2> QED
    BY <2>3 DEF StrictOrder
<1>6. rank \in Injection(S, 1 .. N)
  BY <1>4, <1>5, Fun_IsInj
<1>7. \A n \in 1 .. N : \E x \in S : rank[x] = n
  <2>1. IsFiniteSet(1 .. N) /\ Cardinality(1 .. N) = N
    BY <1>1, FS_Interval
  <2>2. rank \in Surjection(S, 1 .. N)
    BY <1>6, <2>1, FS_Injection
  <2> QED
    BY <2>2 DEF Surjection
<1>8. ASSUME NEW n \in 1 .. N
      PROVE  s[n] \in S /\ rank[s[n]] = n
  <2>1. PICK w \in S : rank[w] = n
    BY <1>7
  <2>4. Cardinality(Below(w)) = n - 1
    BY <1>1, <1>2, <2>1
  <2>3. s[n] \in S /\ Cardinality(Below(s[n])) = n - 1
    BY <2>1, <2>4 DEF Lists
  <2> QED
    BY <1>1, <2>3
<1>9. s \in [1 .. N -> S]
  BY <1>8 DEF Lists
<1>10. \A x \in S : \E n \in 1 .. N : s[n] = x
  BY <1>4, <1>5, <1>8
<1>11. \A m, n \in 1 .. N : m < n <=> <<s[m], s[n]>> \in before
  <2>1. SUFFICES ASSUME NEW m \in 1 .. N, NEW n \in 1 .. N
                 PROVE  m < n <=> <<s[m], s[n]>> \in before
    OBVIOUS
  <2>2. /\ s[m] \in S /\ s[n] \in S /\ rank[s[m]] = m /\ rank[s[n]] = n
    BY <1>8
  <2>3. s[m] = s[n] \/ <<s[m], s[n]>> \in before \/ <<s[n], s[m]>> \in before
    BY <2>2 DEF StrictOrder
  <2>4. <<s[m], s[n]>> \in before => m < n
    BY <1>3, <2>2
  <2>5. <<s[n], s[m]>> \in before => n < m
    BY <1>3, <2>2
  <2>6. m \in Nat /\ n \in Nat
    BY <1>1
  <2>7. ASSUME m < n
        PROVE  <<s[m], s[n]>> \in before
    BY <2>2, <2>3, <2>5, <2>6, <2>7
  <2> QED
    BY <2>4, <2>7
<1> QED
  BY <1>1, <1>9, <1>10, <1>11

\* A finite set in a strict order is listed without gap or repetition, and the
\* list follows the order.
THEOREM OrderedLists ==
    ASSUME NEW S, IsFiniteSet(S), NEW before, StrictOrder(S, before)
    PROVE  LET s == Ordered(S, before)
           IN  /\ Cardinality(S) \in Nat
               /\ s \in [1 .. Cardinality(S) -> S]
               /\ \A x \in S : \E n \in 1 .. Cardinality(S) : s[n] = x
               /\ \A m, n \in 1 .. Cardinality(S) : m < n <=> <<s[m], s[n]>> \in before
<1> DEFINE s == Ordered(S, before)
<1>1. s = [n \in 1 .. Cardinality(S) |-> s[n]]
  <2> DEFINE at(n) == CHOOSE x \in S : Cardinality({y \in S : <<y, x>> \in before}) = n - 1
  <2>1. s = [n \in 1 .. Cardinality(S) |-> at(n)]
    BY DEF Ordered
  <2> HIDE DEF s, at
  <2> QED
    BY <2>1
<1>2. ASSUME NEW n \in 1 .. Cardinality(S),
             \E x \in S : Cardinality({y \in S : <<y, x>> \in before}) = n - 1
      PROVE  s[n] \in S /\ Cardinality({y \in S : <<y, s[n]>> \in before}) = n - 1
  <2>1. s[n] = CHOOSE x \in S : Cardinality({y \in S : <<y, x>> \in before}) = n - 1
    BY DEF Ordered
  <2> HIDE DEF s
  <2> QED
    BY <1>2, <2>1
<1> HIDE DEF s
<1>3. /\ Cardinality(S) \in Nat
      /\ s \in [1 .. Cardinality(S) -> S]
      /\ \A x \in S : \E n \in 1 .. Cardinality(S) : s[n] = x
      /\ \A m, n \in 1 .. Cardinality(S) : m < n <=> <<s[m], s[n]>> \in before
  <2>1. Lists(s, S, before)
    BY <1>1, <1>2 DEF Lists
  <2> QED
    BY <2>1, ListedByRank
<1> QED
  BY <1>3 DEF s

\* If the order has members' ranks known, the list has each at its rank.
THEOREM OrderedByRank ==
    ASSUME NEW N \in Nat, NEW S, NEW rank \in Bijection(S, 1 .. N), NEW before,
           \A x, y \in S : <<x, y>> \in before <=> rank[x] < rank[y]
    PROVE  /\ IsFiniteSet(S) /\ Cardinality(S) = N
           /\ \A n \in 1 .. N : Ordered(S, before)[n] \in S /\ rank[Ordered(S, before)[n]] = n
<1> DEFINE Below(z) == {y \in S : <<y, z>> \in before}
<1>1. /\ rank \in [S -> 1 .. N]
      /\ \A x, y \in S : rank[x] = rank[y] => x = y
      /\ \A n \in 1 .. N : \E x \in S : rank[x] = n
  BY DEF Bijection, Injection, Surjection, IsInjective
<1>2. IsFiniteSet(S) /\ Cardinality(S) = N
  <2>1. Inverse(rank, S, 1 .. N) \in Bijection(1 .. N, S)
    BY Fun_BijInverse
  <2>2. IsFiniteSet(1 .. N) /\ Cardinality(1 .. N) = N
    BY FS_Interval
  <2> QED
    BY <2>1, <2>2, FS_Bijection DEF ExistsBijection
<1>3. ASSUME NEW z \in S
      PROVE  Cardinality(Below(z)) = rank[z] - 1
  <2> DEFINE r == [y \in Below(z) |-> rank[y]]
  <2>1. rank[z] - 1 \in Nat
    BY <1>1
  <2>2. r \in [Below(z) -> 1 .. (rank[z] - 1)]
    BY <1>1
  <2>3. \A x, y \in Below(z) : r[x] = r[y] => x = y
    BY <1>1
  <2>4. \A n \in 1 .. (rank[z] - 1) : \E y \in Below(z) : r[y] = n
    <3>1. SUFFICES ASSUME NEW n \in 1 .. (rank[z] - 1)
                   PROVE  \E y \in Below(z) : r[y] = n
      OBVIOUS
    <3>2. n \in 1 .. N /\ n < rank[z]
      BY <1>1
    <3>3. PICK y \in S : rank[y] = n
      BY <1>1, <3>2
    <3>4. y \in Below(z)
      BY <3>2, <3>3
    <3> QED
      BY <3>3, <3>4
  <2>5. r \in Bijection(Below(z), 1 .. (rank[z] - 1))
    BY <2>2, <2>3, <2>4, Fun_IsBij
  <2>6. IsFiniteSet(Below(z))
    BY <1>2, FS_Subset
  <2>7. Cardinality(1 .. (rank[z] - 1)) = Cardinality(Below(z))
    BY <2>5, <2>6, FS_Bijection DEF ExistsBijection
  <2> QED
    BY <2>1, <2>7, FS_Interval
<1>4. ASSUME NEW n \in 1 .. N
      PROVE  Ordered(S, before)[n] \in S /\ rank[Ordered(S, before)[n]] = n
  <2>1. Ordered(S, before)[n] = CHOOSE x \in S : Cardinality(Below(x)) = n - 1
    BY <1>2 DEF Ordered
  <2>2. PICK w \in S : rank[w] = n
    BY <1>1
  <2>3. Cardinality(Below(w)) = n - 1
    BY <1>3, <2>2
  <2>4. Ordered(S, before)[n] \in S /\ Cardinality(Below(Ordered(S, before)[n])) = n - 1
    BY <2>1, <2>3
  <2>5. rank[Ordered(S, before)[n]] - 1 = n - 1 /\ rank[Ordered(S, before)[n]] \in 1 .. N
    BY <1>1, <1>3, <2>4
  <2> QED
    BY <2>4, <2>5
<1> QED
  BY <1>2, <1>4

\* A finite set of numbers is listed from the lowest to the highest.
THEOREM AscendingLists ==
    ASSUME NEW S \in SUBSET Nat, IsFiniteSet(S)
    PROVE  /\ Cardinality(S) \in Nat
           /\ Ascending(S) \in [1 .. Cardinality(S) -> S]
           /\ \A x \in S : \E n \in 1 .. Cardinality(S) : Ascending(S)[n] = x
           /\ \A m, n \in 1 .. Cardinality(S) : m < n <=> Ascending(S)[m] < Ascending(S)[n]
<1> DEFINE before == {p \in S \X S : p[1] < p[2]}
           s == Ascending(S)
<1>1. \A x, y \in S : <<x, y>> \in before <=> x < y
  OBVIOUS
<1>2. \A x \in S : x \in Nat
  OBVIOUS
<1>3. \A x \in S : {y \in S : <<y, x>> \in before} = {y \in S : y < x}
  BY <1>1
<1> HIDE DEF before
<1>4. StrictOrder(S, before)
  BY <1>1, <1>2 DEF StrictOrder
<1>5. s = [n \in 1 .. Cardinality(S) |-> s[n]]
  <2> DEFINE at(n) == CHOOSE x \in S : Cardinality({y \in S : y < x}) = n - 1
  <2>1. s = [n \in 1 .. Cardinality(S) |-> at(n)]
    BY DEF Ascending
  <2> HIDE DEF s, at
  <2> QED
    BY <2>1
<1>6. ASSUME NEW n \in 1 .. Cardinality(S),
             \E x \in S : Cardinality({y \in S : <<y, x>> \in before}) = n - 1
      PROVE  s[n] \in S /\ Cardinality({y \in S : <<y, s[n]>> \in before}) = n - 1
  <2>1. s[n] = CHOOSE x \in S : Cardinality({y \in S : y < x}) = n - 1
    BY DEF Ascending
  <2>2. \E x \in S : Cardinality({y \in S : y < x}) = n - 1
    BY <1>3, <1>6
  <2> HIDE DEF s
  <2>3. s[n] \in S /\ Cardinality({y \in S : y < s[n]}) = n - 1
    BY <2>1, <2>2
  <2> QED
    BY <1>3, <2>3
<1> HIDE DEF s
<1>7. /\ Cardinality(S) \in Nat
      /\ s \in [1 .. Cardinality(S) -> S]
      /\ \A x \in S : \E n \in 1 .. Cardinality(S) : s[n] = x
      /\ \A m, n \in 1 .. Cardinality(S) : m < n <=> <<s[m], s[n]>> \in before
  <2>1. Lists(s, S, before)
    BY <1>5, <1>6 DEF Lists
  <2> QED
    BY <1>4, <2>1, ListedByRank
<1>8. \A m, n \in 1 .. Cardinality(S) : s[m] \in S /\ s[n] \in S
  BY <1>7
<1> QED
  BY <1>1, <1>7, <1>8 DEF s

\* A set of numbers has a lowest one.
THEOREM LowestNumber ==
    ASSUME NEW S \in SUBSET Nat, S # {}
    PROVE  \E m \in S : \A x \in S : m <= x
<1>1. PICK top \in S : TRUE
  OBVIOUS
<1> DEFINE T == {x \in S : x <= top}
           s == Ascending(T)
<1>2. \A x \in S : x \in Nat
  OBVIOUS
<1>3. \A x : x \in T <=> x \in S /\ x <= top
  OBVIOUS
<1>4. T \in SUBSET Nat /\ IsFiniteSet(T)
  <2>1. ASSUME NEW x \in T
        PROVE  x \in 0 .. top
    <3> HIDE DEF T
    <3>1. x \in Nat /\ x <= top /\ top \in Nat
      BY <1>1, <1>2, <1>3
    <3> QED
      BY <3>1
  <2>2. IsFiniteSet(0 .. top)
    BY <1>2, FS_Interval
  <2> QED
    BY <2>1, <2>2, FS_Subset
<1>5. top \in T
  BY <1>1, <1>2, <1>3
<1> HIDE DEF T, s
<1>6. /\ Cardinality(T) \in Nat /\ s \in [1 .. Cardinality(T) -> T]
      /\ \A x \in T : \E n \in 1 .. Cardinality(T) : s[n] = x
      /\ \A m, n \in 1 .. Cardinality(T) : m < n <=> s[m] < s[n]
  BY <1>4, AscendingLists DEF s
<1>7. 1 \in 1 .. Cardinality(T)
  BY <1>5, <1>6
<1>8. s[1] \in T
  BY <1>6, <1>7
<1>9. ASSUME NEW x \in T
      PROVE  s[1] <= x
  <2>1. PICK n \in 1 .. Cardinality(T) : s[n] = x
    BY <1>6
  <2>2. n = 1 \/ 1 < n
    BY <1>6
  <2>3. s[1] \in Nat /\ x \in Nat
    BY <1>4, <1>8
  <2> QED
    BY <1>6, <1>7, <2>1, <2>2, <2>3
<1>10. ASSUME NEW x \in S
       PROVE  s[1] <= x
  <2>1. s[1] \in Nat /\ x \in Nat /\ top \in Nat /\ s[1] <= top
    BY <1>2, <1>3, <1>8
  <2>2. CASE x <= top
    BY <1>3, <1>9, <2>2
  <2>3. CASE ~(x <= top)
    BY <2>1, <2>3
  <2> QED
    BY <2>2, <2>3
<1> QED
  BY <1>3, <1>8, <1>10

\* What is kept of a list is there, in the order of the list.
THEOREM KeptLists ==
    ASSUME NEW T, NEW s \in Seq(T), NEW K \in SUBSET DOMAIN s
    PROVE  /\ Kept(s, K) \in Seq(T)
           /\ DOMAIN Kept(s, K) = 1 .. Cardinality(K)
           /\ {Kept(s, K)[n] : n \in DOMAIN Kept(s, K)} = {s[i] : i \in K}
<1>1. DOMAIN s = 1 .. Len(s) /\ Len(s) \in Nat /\ \A i \in K : s[i] \in T
  OBVIOUS
<1>2. IsFiniteSet(K) /\ K \subseteq Nat
  <2>1. IsFiniteSet(1 .. Len(s)) /\ K \subseteq 1 .. Len(s)
    BY <1>1, FS_Interval
  <2> QED
    BY <2>1, FS_Subset
<1>3. /\ Cardinality(K) \in Nat
      /\ Ascending(K) \in [1 .. Cardinality(K) -> K]
      /\ \A x \in K : \E n \in 1 .. Cardinality(K) : Ascending(K)[n] = x
  BY <1>2, AscendingLists
<1>4. Kept(s, K) = [n \in 1 .. Cardinality(K) |-> s[Ascending(K)[n]]]
  BY <1>3 DEF Kept
<1>5. Kept(s, K) \in [1 .. Cardinality(K) -> T]
  BY <1>1, <1>3, <1>4
<1>6. Kept(s, K) \in Seq(T)
  BY <1>3, <1>5
<1>7. {Kept(s, K)[n] : n \in 1 .. Cardinality(K)} = {s[i] : i \in K}
  <2>1. \A n \in 1 .. Cardinality(K) : Kept(s, K)[n] = s[Ascending(K)[n]] /\ Ascending(K)[n] \in K
    BY <1>3, <1>4
  <2>2. \A i \in K : \E n \in 1 .. Cardinality(K) : Kept(s, K)[n] = s[i]
    BY <1>3, <2>1
  <2> QED
    BY <2>1, <2>2
<1> QED
  BY <1>4, <1>6, <1>7

\* Finitely many finite sets in one.
LEMMA FiniteUnion ==
    ASSUME NEW I, IsFiniteSet(I), NEW f, \A i \in I : IsFiniteSet(f[i])
    PROVE  IsFiniteSet(UNION {f[i] : i \in I})
<1> DEFINE rows == {f[i] : i \in I}
           row == [i \in I |-> f[i]]
<1>1. \A x \in rows : IsFiniteSet(x)
  OBVIOUS
<1>2. row \in Surjection(I, rows)
  BY DEF Surjection
<1> HIDE DEF row, rows
<1>3. IsFiniteSet(rows)
  BY <1>2, FS_Surjection
<1>4. IsFiniteSet(UNION rows)
  BY <1>1, <1>3, FS_UNION
<1> QED
  BY <1>4 DEF rows

\* A list of lists has finitely many places, in the order of one list after another.
LEMMA PlacesOrdered ==
    ASSUME NEW T, NEW ss \in Seq(Seq(T))
    PROVE  /\ IsFiniteSet(Places(ss))
           /\ StrictOrder(Places(ss), {e \in Places(ss) \X Places(ss) : Precedes(e[1], e[2])})
           /\ \A p \in Places(ss) : p[1] \in DOMAIN ss /\ p[2] \in DOMAIN ss[p[1]]
           /\ \A i \in DOMAIN ss : \A k \in DOMAIN ss[i] : <<i, k>> \in Places(ss)
<1> DEFINE rows == {{i} \X DOMAIN ss[i] : i \in DOMAIN ss}
           row == [i \in DOMAIN ss |-> {i} \X DOMAIN ss[i]]
           before == {e \in Places(ss) \X Places(ss) : Precedes(e[1], e[2])}
<1>1. DOMAIN ss = 1 .. Len(ss) /\ Len(ss) \in Nat /\ \A i \in DOMAIN ss : ss[i] \in Seq(T)
  OBVIOUS
<1>2. \A i \in DOMAIN ss : DOMAIN ss[i] = 1 .. Len(ss[i]) /\ Len(ss[i]) \in Nat
  BY <1>1
<1>3. \A p : p \in Places(ss) <=> \E i \in DOMAIN ss : \E k \in DOMAIN ss[i] : p = <<i, k>>
  BY DEF Places
<1>4. \A p \in Places(ss) : /\ p = <<p[1], p[2]>> /\ p[1] \in DOMAIN ss /\ p[2] \in DOMAIN ss[p[1]]
                            /\ p[1] \in Nat /\ p[2] \in Nat
  <2>1. SUFFICES ASSUME NEW p \in Places(ss)
                 PROVE  /\ p = <<p[1], p[2]>> /\ p[1] \in DOMAIN ss /\ p[2] \in DOMAIN ss[p[1]]
                        /\ p[1] \in Nat /\ p[2] \in Nat
    OBVIOUS
  <2>2. PICK i \in DOMAIN ss : \E k \in DOMAIN ss[i] : p = <<i, k>>
    BY <1>3
  <2>3. PICK k \in DOMAIN ss[i] : p = <<i, k>>
    BY <2>2
  <2>4. i \in Nat /\ k \in Nat
    BY <1>1, <1>2
  <2> QED
    BY <2>3, <2>4
<1>5. IsFiniteSet(Places(ss))
  <2>1. ASSUME NEW i \in DOMAIN ss
        PROVE  IsFiniteSet({i} \X DOMAIN ss[i])
    <3>1. DOMAIN ss[i] = 1 .. Len(ss[i]) /\ 1 \in Int /\ Len(ss[i]) \in Int
      BY <1>2
    <3>2. IsFiniteSet(DOMAIN ss[i])
      BY <3>1, FS_Interval
    <3>3. IsFiniteSet({i})
      BY FS_Singleton
    <3> QED
      BY <3>2, <3>3, FS_Product
  <2>2. IsFiniteSet(DOMAIN ss) /\ \A i \in DOMAIN ss : IsFiniteSet(row[i])
    BY <1>1, <2>1, FS_Interval
  <2>3. {row[i] : i \in DOMAIN ss} = rows
    OBVIOUS
  <2> HIDE DEF row
  <2>4. IsFiniteSet(UNION {row[i] : i \in DOMAIN ss})
    BY <2>2, FiniteUnion
  <2> QED
    BY <2>3, <2>4 DEF Places
<1>6. StrictOrder(Places(ss), before)
  <2>1. \A p, q \in Places(ss) : <<p, q>> \in before <=> Precedes(p, q)
    OBVIOUS
  <2> HIDE DEF before
  <2>2. \A p \in Places(ss) : ~Precedes(p, p)
    BY <1>4 DEF Precedes
  <2>3. \A p, q, r \in Places(ss) : Precedes(p, q) /\ Precedes(q, r) => Precedes(p, r)
    BY <1>4 DEF Precedes
  <2>4. \A p, q \in Places(ss) : p = q \/ Precedes(p, q) \/ Precedes(q, p)
    BY <1>4 DEF Precedes
  <2> QED
    BY <2>1, <2>2, <2>3, <2>4 DEF StrictOrder
<1>7. \A i \in DOMAIN ss : \A k \in DOMAIN ss[i] : <<i, k>> \in Places(ss)
  BY <1>3
<1> QED
  BY <1>4, <1>5, <1>6, <1>7

\* Flattened loses nothing, adds nothing, and keeps to the order of the places.
THEOREM FlattenedLists ==
    ASSUME NEW T, NEW ss \in Seq(Seq(T))
    PROVE  /\ Flattened(ss) \in Seq(T)
           /\ \A n \in DOMAIN Flattened(ss) :
                \E i \in DOMAIN ss : \E k \in DOMAIN ss[i] : Flattened(ss)[n] = ss[i][k]
           /\ \A i \in DOMAIN ss : \A k \in DOMAIN ss[i] :
                \E n \in DOMAIN Flattened(ss) : Flattened(ss)[n] = ss[i][k]
<1> DEFINE before == {e \in Places(ss) \X Places(ss) : Precedes(e[1], e[2])}
           order == Ordered(Places(ss), before)
           N == Cardinality(Places(ss))
<1>1. /\ IsFiniteSet(Places(ss)) /\ StrictOrder(Places(ss), before)
      /\ \A p \in Places(ss) : p[1] \in DOMAIN ss /\ p[2] \in DOMAIN ss[p[1]]
      /\ \A i \in DOMAIN ss : \A k \in DOMAIN ss[i] : <<i, k>> \in Places(ss)
  BY PlacesOrdered
<1>2. Flattened(ss) = [n \in DOMAIN order |-> ss[order[n][1]][order[n][2]]]
  BY DEF Flattened
<1> HIDE DEF before
<1>3. /\ N \in Nat /\ order \in [1 .. N -> Places(ss)]
      /\ \A p \in Places(ss) : \E n \in 1 .. N : order[n] = p
  BY <1>1, OrderedLists
<1> HIDE DEF order, N
<1>4. \A n \in 1 .. N : order[n][1] \in DOMAIN ss /\ order[n][2] \in DOMAIN ss[order[n][1]]
  BY <1>1, <1>3
<1>5. \A i \in DOMAIN ss : \A k \in DOMAIN ss[i] : ss[i][k] \in T
  OBVIOUS
<1>6. /\ DOMAIN Flattened(ss) = 1 .. N
      /\ \A n \in 1 .. N : Flattened(ss)[n] = ss[order[n][1]][order[n][2]]
  BY <1>2, <1>3
<1>7. Flattened(ss) \in [1 .. N -> T]
  <2>1. \A n \in 1 .. N : ss[order[n][1]][order[n][2]] \in T
    BY <1>4, <1>5
  <2> QED
    BY <1>2, <1>3, <2>1
<1>8. Flattened(ss) \in Seq(T)
  BY <1>3, <1>7
<1>9. ASSUME NEW i \in DOMAIN ss, NEW k \in DOMAIN ss[i]
      PROVE  \E n \in 1 .. N : Flattened(ss)[n] = ss[i][k]
  <2>1. PICK n \in 1 .. N : order[n] = <<i, k>>
    BY <1>1, <1>3
  <2> QED
    BY <1>6, <2>1
<1>10. ASSUME NEW n \in 1 .. N
       PROVE  \E i \in DOMAIN ss : \E k \in DOMAIN ss[i] : Flattened(ss)[n] = ss[i][k]
  BY <1>4, <1>6
<1>11. \A n \in DOMAIN Flattened(ss) :
          \E i \in DOMAIN ss : \E k \in DOMAIN ss[i] : Flattened(ss)[n] = ss[i][k]
  BY <1>6, <1>10
<1>12. \A i \in DOMAIN ss : \A k \in DOMAIN ss[i] :
          \E n \in DOMAIN Flattened(ss) : Flattened(ss)[n] = ss[i][k]
  BY <1>6, <1>9
<1> QED
  BY <1>8, <1>11, <1>12

\* Lists of lists of one shape flatten alike: their members are in the same places.
THEOREM FlattenedAlike ==
    ASSUME NEW T, NEW U, NEW ss \in Seq(Seq(T)), NEW rr \in Seq(Seq(U)),
           DOMAIN rr = DOMAIN ss, \A i \in DOMAIN ss : DOMAIN rr[i] = DOMAIN ss[i]
    PROVE  /\ DOMAIN Flattened(rr) = DOMAIN Flattened(ss)
           /\ \A n \in DOMAIN Flattened(ss) : \E i \in DOMAIN ss : \E k \in DOMAIN ss[i] :
                Flattened(ss)[n] = ss[i][k] /\ Flattened(rr)[n] = rr[i][k]
<1> DEFINE before == {e \in Places(ss) \X Places(ss) : Precedes(e[1], e[2])}
           order == Ordered(Places(ss), before)
           N == Cardinality(Places(ss))
<1>1. /\ IsFiniteSet(Places(ss)) /\ StrictOrder(Places(ss), before)
      /\ \A p \in Places(ss) : p[1] \in DOMAIN ss /\ p[2] \in DOMAIN ss[p[1]]
  BY PlacesOrdered
<1>2. Places(rr) = Places(ss)
  BY DEF Places
<1>3. /\ Flattened(ss) = [n \in DOMAIN order |-> ss[order[n][1]][order[n][2]]]
      /\ Flattened(rr) = [n \in DOMAIN order |-> rr[order[n][1]][order[n][2]]]
  BY <1>2 DEF Flattened
<1> HIDE DEF before
<1>4. order \in [1 .. N -> Places(ss)]
  BY <1>1, OrderedLists
<1> HIDE DEF order, N
<1>5. \A n \in DOMAIN order : order[n][1] \in DOMAIN ss /\ order[n][2] \in DOMAIN ss[order[n][1]]
  BY <1>1, <1>4
<1>6. DOMAIN Flattened(ss) = DOMAIN order /\ DOMAIN Flattened(rr) = DOMAIN order
  BY <1>3
<1>7. ASSUME NEW n \in DOMAIN order
      PROVE  \E i \in DOMAIN ss : \E k \in DOMAIN ss[i] : Flattened(ss)[n] = ss[i][k] /\ Flattened(rr)[n] = rr[i][k]
  <2>1. Flattened(ss)[n] = ss[order[n][1]][order[n][2]] /\ Flattened(rr)[n] = rr[order[n][1]][order[n][2]]
    BY <1>3
  <2> QED
    BY <1>5, <2>1
<1> QED
  BY <1>6, <1>7
=============================================================================
