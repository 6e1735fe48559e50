-------------------------- MODULE StoreReadersProofs --------------------------
(***************************************************************************)
(* Theorems about the readers of the store, for any rows, queries and page *)
(* sizes and any number of pages and writes.                               *)
(***************************************************************************)
EXTENDS StoreReaders, CommittedStoreProofs, WellFoundedInduction, FunctionTheorems

USE DEF store, StoreTypeOK, readers, summaryVars

-----------------------------------------------------------------------------
(* Sizes of finite sets *)

\* The numbers below k, and those up to k, are k.
LEMMA Numbers ==
  ASSUME NEW k \in Nat
  PROVE  /\ IsFiniteSet(0..(k - 1)) /\ Cardinality(0..(k - 1)) = k
         /\ IsFiniteSet(1..k) /\ Cardinality(1..k) = k
<1>1. 0 \in Int /\ 1 \in Int /\ k \in Int /\ k - 1 \in Int
  OBVIOUS
<1>2. /\ IsFiniteSet(0..(k - 1))
      /\ Cardinality(0..(k - 1)) = IF 0 > k - 1 THEN 0 ELSE (k - 1) - 0 + 1
  BY <1>1, FS_Interval
<1>3. /\ IsFiniteSet(1..k)
      /\ Cardinality(1..k) = IF 1 > k THEN 0 ELSE k - 1 + 1
  BY <1>1, FS_Interval
<1> QED
  BY <1>2, <1>3

\* A set within the union of two is no larger than the two together.
LEMMA UnionBound ==
  ASSUME NEW S, IsFiniteSet(S), NEW T, IsFiniteSet(T), NEW U, U \subseteq S \cup T
  PROVE  /\ IsFiniteSet(S \cup T) /\ IsFiniteSet(U)
         /\ Cardinality(U) <= Cardinality(S) + Cardinality(T)
         /\ Cardinality(S \cup T) <= Cardinality(S) + Cardinality(T)
<1>1. /\ IsFiniteSet(S \cup T)
      /\ Cardinality(S \cup T) = Cardinality(S) + Cardinality(T) - Cardinality(S \cap T)
  BY FS_Union
<1>2. IsFiniteSet(U) /\ Cardinality(U) <= Cardinality(S \cup T)
  BY <1>1, FS_Subset
<1>3. IsFiniteSet(S \cap T)
  BY FS_Intersection
<1>4. /\ Cardinality(S) \in Nat /\ Cardinality(T) \in Nat /\ Cardinality(U) \in Nat
      /\ Cardinality(S \cap T) \in Nat /\ Cardinality(S \cup T) \in Nat
  BY <1>1, <1>2, <1>3, FS_CardinalityType
<1> QED
  BY <1>1, <1>2, <1>4

\* Two sets that share nothing are as large together as each for itself.
LEMMA DisjointUnion ==
  ASSUME NEW S, IsFiniteSet(S), NEW T, IsFiniteSet(T), S \cap T = {}
  PROVE  Cardinality(S \cup T) = Cardinality(S) + Cardinality(T)
<1>1. Cardinality(S \cup T) = Cardinality(S) + Cardinality(T) - Cardinality(S \cap T)
  BY FS_Union
<1>2. Cardinality(S \cap T) = 0
  BY FS_EmptySet
<1>3. Cardinality(S) \in Nat /\ Cardinality(T) \in Nat
  BY FS_CardinalityType
<1> QED
  BY <1>1, <1>2, <1>3

-----------------------------------------------------------------------------
(* Finite sets in order, and what stands first in them *)

\* R is a strict total order of S.
Orders(R, S) ==
  /\ \A a \in S : <<a, a>> \notin R
  /\ \A a, b, c \in S : <<a, b>> \in R /\ <<b, c>> \in R => <<a, c>> \in R
  /\ \A a, b \in S : a = b \/ <<a, b>> \in R \/ <<b, a>> \in R

\* The elements before r, its place counted from 0, and the first n elements.
Below(R, S, r) == {s \in S : <<s, r>> \in R}

Place(R, S, r) == Cardinality(Below(R, S, r))

First(R, S, n) == {r \in S : Place(R, S, r) < n}

\* Every element has a rank, and who comes later has a higher one.
LEMMA Ranks ==
  ASSUME NEW S, IsFiniteSet(S), NEW R, Orders(R, S)
  PROVE  /\ \A r \in S : /\ IsFiniteSet(Below(R, S, r))
                         /\ Place(R, S, r) \in 0..(Cardinality(S) - 1)
         /\ \A r, s \in S : <<r, s>> \in R => Place(R, S, r) < Place(R, S, s)
         /\ \A r, s \in S : Place(R, S, r) = Place(R, S, s) => r = s
<1>1. ASSUME NEW r \in S
      PROVE  /\ IsFiniteSet(Below(R, S, r))
             /\ Place(R, S, r) \in 0..(Cardinality(S) - 1)
  <2>1. Below(R, S, r) \subseteq S \ {r}
    BY DEF Below, Orders
  <2>2. IsFiniteSet(S \ {r}) /\ Cardinality(S \ {r}) = Cardinality(S) - 1
    BY FS_RemoveElement
  <2>3. /\ IsFiniteSet(Below(R, S, r))
        /\ Cardinality(Below(R, S, r)) <= Cardinality(S \ {r})
    BY <2>1, <2>2, FS_Subset
  <2>4. Cardinality(Below(R, S, r)) \in Nat /\ Cardinality(S) \in Nat
    BY <2>3, FS_CardinalityType
  <2> QED
    BY <2>2, <2>3, <2>4 DEF Place
<1>2. ASSUME NEW r \in S, NEW s \in S, <<r, s>> \in R
      PROVE  Place(R, S, r) < Place(R, S, s)
  <2>. DEFINE B == Below(R, S, r)
  <2>1. B \cup {r} \subseteq Below(R, S, s) /\ r \notin B
    BY <1>2 DEF Below, Orders
  <2>2. IsFiniteSet(B) /\ IsFiniteSet(Below(R, S, s))
    BY <1>1
  <2>. HIDE DEF B
  <2>3. Cardinality(B \cup {r}) = Cardinality(B) + 1
    BY <2>1, <2>2, FS_AddElement
  <2>4. Cardinality(B \cup {r}) <= Cardinality(Below(R, S, s))
    BY <2>1, <2>2, FS_Subset
  <2>5. Cardinality(B) \in Nat /\ Cardinality(Below(R, S, s)) \in Nat
    BY <2>2, FS_CardinalityType
  <2> QED
    BY <2>3, <2>4, <2>5 DEF Place, B
<1>3. ASSUME NEW r \in S, NEW s \in S, Place(R, S, r) = Place(R, S, s), r # s
      PROVE  FALSE
  <2>1. Place(R, S, r) \in Nat
    BY <1>1, FS_CardinalityType
  <2>2. <<r, s>> \in R \/ <<s, r>> \in R
    BY <1>3 DEF Orders
  <2>3. Place(R, S, r) < Place(R, S, s) \/ Place(R, S, s) < Place(R, S, r)
    BY <1>2, <2>2
  <2> QED
    BY <1>3, <2>1, <2>3
<1> QED
  BY <1>1, <1>2, <1>3

\* The places are the numbers below the size of the set.
LEMMA EveryPlaceIsTaken ==
  ASSUME NEW S, IsFiniteSet(S), NEW R, Orders(R, S)
  PROVE  \A i \in 0..(Cardinality(S) - 1) : \E r \in S : Place(R, S, r) = i
<1>. DEFINE N == Cardinality(S)
            f == [r \in S |-> Place(R, S, r)]
<1>1. IsFiniteSet(0..(N - 1)) /\ Cardinality(0..(N - 1)) = N
  <2>. N \in Nat
    BY FS_CardinalityType
  <2>. HIDE DEF N
  <2> QED
    BY Numbers
<1>2. f \in Injection(S, 0..(N - 1))
  BY Ranks DEF Injection, IsInjective
<1>3. f \in Surjection(S, 0..(N - 1))
  BY <1>1, <1>2, FS_Injection
<1> QED
  BY <1>3 DEF Surjection

\* There are n first elements, or there are no more than n elements.
LEMMA FirstSize ==
  ASSUME NEW S, IsFiniteSet(S), NEW R, Orders(R, S), NEW n \in Nat
  PROVE  /\ IsFiniteSet(First(R, S, n))
         /\ Cardinality(First(R, S, n)) =
              IF n <= Cardinality(S) THEN n ELSE Cardinality(S)
<1>. DEFINE N == Cardinality(S)
            m == IF n <= N THEN n ELSE N
<1>1. N \in Nat /\ m \in 0..N
  BY FS_CardinalityType
<1>2. /\ IsFiniteSet(0..(N - 1)) /\ Cardinality(0..(N - 1)) = N
      /\ IsFiniteSet(0..(m - 1)) /\ Cardinality(0..(m - 1)) = m
  <2>. N \in Nat /\ m \in Nat
    BY <1>1
  <2>. HIDE DEF N, m
  <2> QED
    BY Numbers
<1>3. \A r \in S : Place(R, S, r) \in 0..(N - 1)
  BY Ranks
<1>4. \A i \in 0..(N - 1) : \E r \in S : Place(R, S, r) = i
  BY EveryPlaceIsTaken
<1>5. IsFiniteSet(First(R, S, n))
  BY FS_Subset DEF First
<1>6. Cardinality(First(R, S, n)) = Cardinality(0..(m - 1))
  <2>. DEFINE F == First(R, S, n)
              g == [r \in F |-> Place(R, S, r)]
  <2>1. \A r \in F : r \in S /\ Place(R, S, r) \in 0..(m - 1)
    BY <1>1, <1>3 DEF First
  <2>2. g \in Injection(F, 0..(m - 1))
    BY <2>1, Ranks DEF Injection, IsInjective
  <2>3. \A i \in 0..(m - 1) : \E r \in F : Place(R, S, r) = i
    <3>. SUFFICES ASSUME NEW i \in 0..(m - 1)
                  PROVE  \E r \in F : Place(R, S, r) = i
      OBVIOUS
    <3>1. i \in 0..(N - 1) /\ i < n
      BY <1>1
    <3>2. PICK r \in S : Place(R, S, r) = i
      BY <1>4, <3>1
    <3>. QED
      BY <3>1, <3>2 DEF First
  <2>4. g \in Surjection(F, 0..(m - 1))
    BY <2>2, <2>3 DEF Surjection, Injection
  <2>. HIDE DEF g
  <2> QED
    BY <1>2, <2>2, <2>4, FS_Injection
<1> QED
  BY <1>2, <1>5, <1>6

\* When the set changes from S to T and all but X of it moves, the elements of S
\* that come to be among the first n are no more than those of the first n that
\* were taken away and those that have moved.
LEMMA FirstChanges ==
  ASSUME NEW S, IsFiniteSet(S), NEW R, Orders(R, S),
         NEW T, IsFiniteSet(T), NEW Q, Orders(Q, T),
         NEW X, X \subseteq S \cap T,
         \A a, b \in X : <<a, b>> \in R <=> <<a, b>> \in Q,
         NEW n \in Nat
  PROVE  Cardinality((First(Q, T, n) \ First(R, S, n)) \cap S)
           <= Cardinality((S \ T) \cap First(R, S, n)) + Cardinality((S \cap T) \ X)
<1>. DEFINE A == First(R, S, n)
            B == First(Q, T, n)
            left == (S \ T) \cap A
            moved == (S \cap T) \ X
<1>1. A \subseteq S /\ B \subseteq T
  BY DEF First
<1>2. /\ IsFiniteSet(A) /\ IsFiniteSet(B)
      /\ IsFiniteSet(left) /\ IsFiniteSet(moved)
      /\ IsFiniteSet(A \ B) /\ IsFiniteSet(B \ A) /\ IsFiniteSet((B \ A) \cap S)
  BY <1>1, FS_Subset
<1>3. /\ Cardinality(A) \in Nat /\ Cardinality(B) \in Nat
      /\ Cardinality(left) \in Nat /\ Cardinality(moved) \in Nat
      /\ Cardinality(A \ B) \in Nat /\ Cardinality(B \ A) \in Nat
      /\ Cardinality((B \ A) \cap S) \in Nat
  BY <1>2, FS_CardinalityType
<1>4. /\ \A r, s \in S : <<r, s>> \in R /\ s \in A => r \in A
      /\ \A r, s \in T : <<r, s>> \in Q /\ s \in B => r \in B
  <2>1. /\ \A r \in S : Place(R, S, r) \in Nat
        /\ \A r \in T : Place(Q, T, r) \in Nat
    BY Ranks, FS_CardinalityType
  <2>2. /\ \A r, s \in S : <<r, s>> \in R => Place(R, S, r) < Place(R, S, s)
        /\ \A r, s \in T : <<r, s>> \in Q => Place(Q, T, r) < Place(Q, T, s)
    BY Ranks
  <2> QED
    BY <2>1, <2>2 DEF First
<1>5. CASE (B \ A) \cap X = {}
  <2>1. (B \ A) \cap S \subseteq moved
    BY <1>1, <1>5
  <2>2. Cardinality((B \ A) \cap S) <= Cardinality(moved)
    BY <1>2, <2>1, FS_Subset
  <2> QED
    BY <1>3, <2>2
<1>6. ASSUME NEW x \in (B \ A) \cap X
      PROVE  Cardinality((B \ A) \cap S) <= Cardinality(left) + Cardinality(moved)
  <2>1. A \cap X \subseteq B
    BY <1>4, <1>6 DEF Orders
  <2>2. A \ B \subseteq left \cup moved
    BY <1>1, <2>1
  <2>3. Cardinality(A) = n
    <3>1. Place(R, S, x) \in 0..(Cardinality(S) - 1) /\ ~ (Place(R, S, x) < n)
      BY <1>6, Ranks DEF First
    <3>2. n <= Cardinality(S)
      BY <3>1, FS_CardinalityType
    <3> QED
      BY <3>2, FirstSize
  <2>4. Cardinality(B) <= n
    <3>1. Cardinality(B) = IF n <= Cardinality(T) THEN n ELSE Cardinality(T)
      BY FirstSize
    <3>2. Cardinality(T) \in Nat
      BY FS_CardinalityType
    <3>. HIDE DEF B
    <3> QED
      BY <3>1, <3>2
  <2>5. /\ Cardinality(A \ B) = Cardinality(A) - Cardinality(A \cap B)
        /\ Cardinality(B \ A) = Cardinality(B) - Cardinality(B \cap A)
        /\ Cardinality(A \cap B) \in Nat /\ A \cap B = B \cap A
    BY <1>2, FS_Difference, FS_Intersection, FS_CardinalityType
  <2>6. Cardinality(B \ A) <= Cardinality(A \ B)
    <3>. DEFINE both == Cardinality(A \cap B)
    <3>1. /\ Cardinality(A \ B) = Cardinality(A) - both
          /\ Cardinality(B \ A) = Cardinality(B) - both
          /\ both \in Nat
      BY <2>5
    <3>. HIDE DEF A, B, both
    <3> QED
      BY <1>3, <2>3, <2>4, <3>1
  <2>7. Cardinality((B \ A) \cap S) <= Cardinality(B \ A)
    BY <1>2, FS_Subset
  <2>. HIDE DEF left, moved
  <2>8. /\ IsFiniteSet(left \cup moved)
        /\ Cardinality(left \cup moved) <= Cardinality(left) + Cardinality(moved)
    <3>1. /\ IsFiniteSet(left \cup moved)
          /\ Cardinality(left \cup moved) =
               Cardinality(left) + Cardinality(moved) - Cardinality(left \cap moved)
      BY <1>2, FS_Union
    <3>2. Cardinality(left \cap moved) \in Nat
      BY <1>2, FS_Intersection, FS_CardinalityType
    <3> QED
      BY <1>3, <3>1, <3>2
  <2>9. Cardinality(A \ B) <= Cardinality(left \cup moved)
    BY <2>2, <2>8, FS_Subset
  <2>10. Cardinality(left \cup moved) \in Nat
    BY <2>8, FS_CardinalityType
  <2> QED
    BY <1>3, <2>6, <2>7, <2>8, <2>9, <2>10
<1> QED
  BY <1>5, <1>6

\* A list of the set in its order has each element at the place of its rank.
LEMMA RanksInList ==
  ASSUME NEW S, IsFiniteSet(S), NEW R, Orders(R, S),
         NEW list \in [1..Cardinality(S) -> S],
         \A i, j \in 1..Cardinality(S) : i # j => list[i] # list[j],
         \A i, j \in 1..Cardinality(S) : <<list[i], list[j]>> \in R => i < j
  PROVE  /\ \A i \in 1..Cardinality(S) : Place(R, S, list[i]) = i - 1
         /\ \A r \in S : \E i \in 1..Cardinality(S) : r = list[i]
<1>. DEFINE N == Cardinality(S)
<1>1. N \in Nat /\ IsFiniteSet(1..N) /\ Cardinality(1..N) = N
  BY FS_CardinalityType, Numbers
<1>2. \A r \in S : \E i \in 1..N : r = list[i]
  <2>1. list \in Injection(1..N, S)
    BY DEF Injection, IsInjective
  <2>2. list \in Surjection(1..N, S)
    BY <1>1, <2>1, FS_Injection
  <2> QED
    BY <2>2 DEF Surjection
<1>3. ASSUME NEW i \in 1..N
      PROVE  Place(R, S, list[i]) = i - 1
  <2>. DEFINE B == Below(R, S, list[i])
              f == [j \in 1..(i - 1) |-> list[j]]
  <2>1. \A j \in 1..N : j < i => list[j] \in B
    <3>. SUFFICES ASSUME NEW j \in 1..N, j < i
                  PROVE  <<list[j], list[i]>> \in R
      BY DEF Below
    <3>1. list[i] \in S /\ list[j] \in S /\ list[i] # list[j]
      BY <1>1
    <3>2. <<list[i], list[j]>> \notin R
      BY <1>1
    <3> QED
      BY <3>1, <3>2 DEF Orders
  <2>2. \A r \in B : \E j \in 1..(i - 1) : r = list[j]
    <3>. SUFFICES ASSUME NEW r \in B
                  PROVE  \E j \in 1..(i - 1) : r = list[j]
      OBVIOUS
    <3>1. r \in S /\ <<r, list[i]>> \in R
      BY DEF Below
    <3>2. PICK j \in 1..N : r = list[j]
      BY <1>2, <3>1
    <3>3. j < i
      BY <3>1, <3>2
    <3>. QED
      BY <3>2, <3>3
  <2>3. IsFiniteSet(1..(i - 1)) /\ Cardinality(1..(i - 1)) = i - 1
    <3>. i - 1 \in Nat
      BY <1>1
    <3> QED
      BY Numbers
  <2>4. f \in [1..(i - 1) -> B]
    BY <1>1, <2>1
  <2>5. f \in Bijection(1..(i - 1), B)
    <3>1. \A j \in 1..(i - 1) : f[j] = list[j] /\ j \in 1..N
      BY <1>1
    <3>2. \A j, k \in 1..(i - 1) : f[j] = f[k] => j = k
      BY <1>1, <3>1
    <3>3. \A r \in B : \E j \in 1..(i - 1) : f[j] = r
      BY <2>2, <3>1
    <3>. HIDE DEF f, B
    <3> QED
      BY <2>4, <3>2, <3>3 DEF Bijection, Injection, Surjection, IsInjective
  <2>. HIDE DEF f, B
  <2>6. Cardinality(B) = i - 1
    BY <2>3, <2>5, FS_Bijection DEF ExistsBijection
  <2> QED
    BY <2>6 DEF Place, B
<1> QED
  BY <1>2, <1>3

-----------------------------------------------------------------------------
(* A list has an order *)

\* The table of the list, and the order of its rows as a relation.
Listed == IF query.table = "logs" THEN Logs ELSE Groups

Order == {p \in Matching \X Matching : Precedes(p[1], p[2])}

\* A query is for logs by their timestamp, or for groups by a number of theirs.
LEMMA QueryCases ==
  ASSUME query \in Queries
  PROVE  /\ query.from \in Nat /\ query.to \in Nat /\ query.order \in {"asc", "desc"}
         /\ \/ query.table = "logs"
            \/ /\ query.table # "logs"
               /\ query.by = "last_seen" \/ query.by = "count"
BY ListingAssumption, RowsAssumption DEF QueryType, Times

\* What a list is sorted by is a number.
LEMMA KeysAreNumbers ==
  ASSUME StoreTypeOK, query \in Queries, NEW r \in Matching
  PROVE  r \in Listed /\ Key(r) \in Nat
<1>1. CASE query.table = "logs"
  BY <1>1, RowsAssumption DEF Matching, Listed, Key, LogRows, Times
<1>2. CASE query.table # "logs"
  <2>1. r \in Groups /\ groups[r] \in GroupRows
    BY <1>2 DEF Matching
  <2>2. groups[r].last_seen \in Nat /\ groups[r].count \in Nat
    BY <2>1, RowsAssumption DEF GroupRows, Times
  <2>3. CASE query.by = "last_seen"
    BY <1>2, <2>1, <2>2, <2>3 DEF Key, Listed
  <2>4. CASE query.by = "count"
    BY <1>2, <2>1, <2>2, <2>4 DEF Key, Listed
  <2> QED
    BY <1>2, <2>3, <2>4, QueryCases
<1> QED
  BY <1>1, <1>2

\* Some log was committed into each group that is there, so there are finitely
\* many.
LEMMA PresentIsFinite ==
  ASSUME CountsAreExact
  PROVE  IsFiniteSet(Present)
<1>. DEFINE image == {GroupOf[l] : l \in Logs}
            f == [l \in Logs |-> GroupOf[l]]
<1>1. Present \subseteq image
  <2>. SUFFICES ASSUME NEW g \in Present
                PROVE  \E l \in Logs : g = GroupOf[l]
    OBVIOUS
  <2>1. CommittedInto(g) # {}
    BY DEF CountsAreExact, Present
  <2> QED
    BY <2>1 DEF CommittedInto
<1>2. f \in Surjection(Logs, image)
  BY DEF Surjection
<1>. HIDE DEF f, image
<1>3. IsFiniteSet(image)
  BY <1>2, RowsAssumption, FS_Surjection
<1> QED
  BY <1>1, <1>3, FS_Subset

\* A list is of stored logs, or of groups that are there.
LEMMA ListIsFinite ==
  ASSUME StoreTypeOK, CountsAreExact
  PROVE  IsFiniteSet(Matching)
<1>1. Matching \subseteq Logs \/ Matching \subseteq Present
  BY DEF Matching, Matches, Present
<1> QED
  BY <1>1, RowsAssumption, PresentIsFinite, FS_Subset

\* The list has a strict order: ids tell rows with the same key apart.
LEMMA ListIsOrdered ==
  ASSUME StoreTypeOK, query \in Queries
  PROVE  Orders(Order, Matching)
<1>1. \A r \in Matching : Key(r) \in Nat /\ Id[r] \in Nat
  BY KeysAreNumbers, ListingAssumption DEF Listed
<1>2. \A r, s \in Matching : Id[r] = Id[s] => r = s
  BY KeysAreNumbers, ListingAssumption DEF Listed
<1>3. \A r, s \in Matching : <<r, s>> \in Order <=> Precedes(r, s)
  BY DEF Order
<1>4. CASE query.order = "asc"
  <2>1. \A r, s \in Matching :
          Precedes(r, s) <=> Key(r) < Key(s) \/ (Key(r) = Key(s) /\ Id[r] < Id[s])
    BY <1>4 DEF Precedes
  <2> QED
    BY <1>1, <1>2, <1>3, <2>1 DEF Orders
<1>5. CASE query.order # "asc"
  <2>1. \A r, s \in Matching :
          Precedes(r, s) <=> Key(s) < Key(r) \/ (Key(s) = Key(r) /\ Id[s] < Id[r])
    BY <1>5 DEF Precedes
  <2> QED
    BY <1>1, <1>2, <1>3, <2>1 DEF Orders
<1> QED
  BY <1>4, <1>5

\* What the lemmas about a list need of the rows and of the query.
ListInv ==
  /\ StoreTypeOK /\ CountsAreExact
  /\ query \in Queries
  /\ IsFiniteSet(Matching) /\ IsFiniteSet(Present)
  /\ Orders(Order, Matching)

\* Readers and writers change the rows as CommittedStore does: what is proved of
\* it holds beside any reader.
THEOREM ReadersUseTheStore == ReadersSpec => CommittedSpec
<1>1. ReadersInit => Empty
  BY DEF ReadersInit
<1>2. [ReadersNext]_<<store, readers>> => [Write]_store
  <2>1. WriteMeanwhile => Write
    BY StoreReadersAssumption DEF WriteMeanwhile, Write
  <2>2. ClientStep \/ WorkerStep => UNCHANGED store
    BY DEF ClientStep, WorkerStep
  <2> QED
    BY <2>1, <2>2 DEF ReadersNext
<1> QED
  BY <1>1, <1>2, PTL DEF ReadersSpec, CommittedSpec

\* Every list that a client goes through is finite and strictly ordered.
THEOREM ListsAreOrdered == ReadersSpec => []ListInv
<1>1. ReadersInit => query \in Queries
  BY DEF ReadersInit, ListingInit
<1>2. query \in Queries /\ [ReadersNext]_<<store, readers>> => (query \in Queries)'
  BY DEF ReadersNext, WriteMeanwhile, ListChanges, ClientStep, ListStep, CountRows,
         SelectPage, WorkerStep
<1>3. StoreTypeOK /\ CountsAreExact /\ query \in Queries => ListInv
  BY ListIsFinite, PresentIsFinite, ListIsOrdered DEF ListInv
<1> QED
  BY <1>1, <1>2, <1>3, ReadersUseTheStore, StoreTypeCorrect, CountsMatchLogs, PTL
     DEF ReadersSpec

-----------------------------------------------------------------------------
(* The pages that were read *)

ListingRows == SUBSET (Logs \cup Groups)

ListingType ==
  [pc : {"count", "select"}, page : Nat, total : Nat,
   returned : ListingRows, repeats : Nat, lasting : ListingRows,
   left : Nat, entered : Nat, moved : Nat, drift : Nat,
   answer : [items : Nat, total : Nat, pages : Int]]

\* A page that is counted but not yet selected is not read.
ReadPages == IF listing.pc = "count" THEN listing.page ELSE listing.page - 1

\* The rows that now stand where the client has read.
ReadPart == First(Order, Matching, ReadPages * PageSize)

\* Rows that stood in the list throughout and were never shown, though the client
\* has read past them; rows that were shown and now stand further on.
Missed == (listing.lasting \ listing.returned) \cap ReadPart

Pushed == (listing.returned \cap Matching) \ ReadPart

\* A row is missed when it has come into the part that was read, and is met
\* again once it was pushed out of it.
PagingInv ==
  /\ listing \in ListingType
  /\ listing.page = 0 => listing = NoListing
  /\ listing.lasting \subseteq Matching
  /\ Cardinality(Missed) <= listing.left + listing.moved
  /\ listing.repeats + Cardinality(Pushed) <= listing.entered + listing.moved

\* The pages read, and the rows on them, are counted from 0.
LEMMA ReadPagesAreNumbers ==
  ASSUME listing \in ListingType, listing.page = 0 => listing = NoListing
  PROVE  ReadPages \in Nat /\ ReadPages * PageSize \in Nat
<1>1. ReadPages \in Nat
  BY DEF ReadPages, ListingType, NoListing
<1> QED
  BY <1>1, ListingAssumption

\* Nobody has read anything to begin with.
LEMMA PagingInit ==
  ASSUME ListingInit
  PROVE  PagingInv
<1>1. listing = NoListing
  BY DEF ListingInit
<1>2. listing \in ListingType
  BY <1>1 DEF NoListing, ListingType, ListingRows
<1>3. Missed = {} /\ Pushed = {}
  BY <1>1 DEF Missed, Pushed, NoListing
<1> QED
  BY <1>1, <1>2, <1>3, FS_EmptySet DEF PagingInv, NoListing

\* The list is made of the rows and of the query only.
LEMMA SameList ==
  ASSUME UNCHANGED store, query' = query
  PROVE  Matching' = Matching /\ Order' = Order
<1>1. Matching' = Matching
  BY DEF Matching, Matches, Stored
<1>2. \A r : Key(r)' = Key(r)
  BY DEF Key
<1>3. \A r, s : Precedes(r, s)' <=> Precedes(r, s)
  BY <1>2 DEF Precedes
<1> QED
  BY <1>1, <1>3 DEF Order

\* A count moves nothing.
LEMMA CountKeepsPaging ==
  ASSUME ListInv, PagingInv, CountRows, UNCHANGED store
  PROVE  PagingInv'
<1>0. /\ listing \in ListingType /\ query' = query
      /\ listing' = [listing EXCEPT !.pc = "select", !.page = @ + 1,
                                !.total = Cardinality(Matching), !.drift = 0,
                                !.lasting = IF listing.page = 0 THEN Matching ELSE @]
      /\ listing.pc = "count"
  BY DEF CountRows, PagingInv
<1>1. Matching' = Matching /\ Order' = Order /\ Matching \in ListingRows
  BY <1>0, SameList DEF Matching, ListingRows
<1>2. Cardinality(Matching) \in Nat
  BY FS_CardinalityType DEF ListInv
<1>3. listing' \in ListingType
  <2>. DEFINE lasting == IF listing.page = 0 THEN Matching ELSE listing.lasting
              at == [listing EXCEPT !.pc = "select"]
              paged == [at EXCEPT !.page = listing.page + 1]
              counted == [paged EXCEPT !.total = Cardinality(Matching)]
              still == [counted EXCEPT !.drift = 0]
              new == [still EXCEPT !.lasting = lasting]
  <2>1. listing' = new
    BY <1>0, Zenon
  <2>2. lasting \in ListingRows /\ listing.page + 1 \in Nat
    BY <1>0, <1>1 DEF ListingType
  <2>3. at \in ListingType
    BY <1>0 DEF ListingType
  <2>. HIDE DEF lasting, at
  <2>4. paged \in ListingType
    BY <2>2, <2>3 DEF ListingType
  <2>. HIDE DEF paged
  <2>5. counted \in ListingType
    BY <1>2, <2>4 DEF ListingType
  <2>. HIDE DEF counted
  <2>6. still \in ListingType
    BY <2>5 DEF ListingType
  <2>. HIDE DEF still
  <2>7. new \in ListingType
    BY <2>2, <2>6 DEF ListingType
  <2> QED
    BY <2>1, <2>7
<1>4. /\ listing'.pc = "select" /\ listing'.page = listing.page + 1
      /\ listing'.returned = listing.returned /\ listing'.repeats = listing.repeats
      /\ listing'.left = listing.left /\ listing'.entered = listing.entered
      /\ listing'.moved = listing.moved
      /\ listing'.lasting = IF listing.page = 0 THEN Matching ELSE listing.lasting
  BY <1>0 DEF ListingType
<1>5. ReadPages' = ReadPages
  BY <1>0, <1>4 DEF ReadPages, ListingType
<1>6. ReadPart' = ReadPart
  BY <1>1, <1>5 DEF ReadPart, First, Place, Below
<1>7. Pushed' = Pushed
  BY <1>1, <1>4, <1>6 DEF Pushed
<1>8. Missed' = Missed
  <2>1. CASE listing.page = 0
    <3>1. ReadPages * PageSize = 0
      BY <1>0, <2>1, ListingAssumption DEF ReadPages
    <3>2. ReadPart = {}
      <4>1. \A r \in Matching : Place(Order, Matching, r) \in Nat
        BY Ranks, FS_CardinalityType DEF ListInv
      <4> QED
        BY <3>1, <4>1 DEF ReadPart, First
    <3> QED
      BY <1>6, <3>2 DEF Missed
  <2>2. CASE listing.page # 0
    BY <1>4, <1>6, <2>2 DEF Missed
  <2> QED
    BY <2>1, <2>2
<1>9. listing'.page # 0
  BY <1>0, <1>4 DEF ListingType
<1> QED
  BY <1>1, <1>3, <1>4, <1>7, <1>8, <1>9 DEF PagingInv

-----------------------------------------------------------------------------
(* What a write does to the part that was read *)

\* What a write does to the list: rows leave it, enter it, or move in it.
Leaving == {r \in Matching : ~ Matches(r)'}
Entering == Matching' \ Matching
Moving == {r \in Matching \ Leaving : Key(r)' # Key(r)}

\* The rows that left are those not in the list any more.
LEMMA LeavingRows ==
  ASSUME query' = query
  PROVE  /\ Leaving = Matching \ Matching'
         /\ Moving = {r \in Matching \cap Matching' : Key(r)' # Key(r)}
<1>1. Leaving = Matching \ Matching'
  BY DEF Leaving, Matching
<1> QED
  BY <1>1 DEF Moving

\* What the part that was read gains of the rows that stay, and what it loses of
\* them and of the rows that come, is made up for by the rows that left, came
\* and moved.
LEMMA ReadPartShifts ==
  ASSUME ListInv, ListInv', query' = query, NEW n \in Nat
  PROVE  LET A == First(Order, Matching, n)
             B == First(Order', Matching', n)
         IN  /\ IsFiniteSet(A) /\ IsFiniteSet(B)
             /\ Cardinality((B \ A) \cap Matching)
                  <= Cardinality(Leaving) + Cardinality(Moving)
             /\ Cardinality((A \ B) \cap Matching') + Cardinality(Entering \ B)
                  <= Cardinality(Entering) + Cardinality(Moving)
<1>. DEFINE S == Matching
            T == Matching'
            R == Order
            Q == Order'
            X == (S \cap T) \ Moving
            A == First(R, S, n)
            B == First(Q, T, n)
<1>1. /\ IsFiniteSet(S) /\ Orders(R, S)
      /\ IsFiniteSet(T) /\ Orders(Q, T)
  BY DEF ListInv, Orders
<1>2. /\ X \subseteq S \cap T /\ Moving = (S \cap T) \ X
      /\ Leaving = S \ T /\ Entering = T \ S
  BY LeavingRows DEF Entering
<1>3. \A a, b \in X : <<a, b>> \in R <=> <<a, b>> \in Q
  <2>1. \A a \in X : Key(a)' = Key(a)
    BY LeavingRows
  <2>2. \A a, b \in X : Precedes(a, b)' <=> Precedes(a, b)
    BY <2>1 DEF Precedes
  <2>3. \A a, b \in S : <<a, b>> \in R <=> Precedes(a, b)
    BY DEF Order
  <2>4. \A a, b \in T : <<a, b>> \in Q <=> Precedes(a, b)'
    BY DEF Order
  <2> QED
    BY <1>2, <2>2, <2>3, <2>4
<1>. HIDE DEF S, T, R, Q, X
<1>4. /\ A \subseteq S /\ B \subseteq T
      /\ IsFiniteSet(A) /\ IsFiniteSet(B)
  BY <1>1, FirstSize DEF First
<1>5. /\ IsFiniteSet(S \ T) /\ IsFiniteSet(T \ S) /\ IsFiniteSet(Moving)
      /\ IsFiniteSet((S \ T) \cap A)
      /\ IsFiniteSet((T \ S) \cap B) /\ IsFiniteSet((T \ S) \ B)
  BY <1>1, <1>2, FS_Subset, FS_Difference
<1>6. Cardinality((B \ A) \cap S)
        <= Cardinality((S \ T) \cap A) + Cardinality((S \cap T) \ X)
  BY <1>1, <1>2, <1>3, FirstChanges
<1>7. Cardinality((A \ B) \cap T)
        <= Cardinality((T \ S) \cap B) + Cardinality((T \cap S) \ X)
  <2>1. X \subseteq T \cap S
    BY <1>2
  <2> QED
    BY <1>1, <1>3, <2>1, FirstChanges
<1>8. Cardinality((S \ T) \cap A) <= Cardinality(S \ T)
  BY <1>5, FS_Intersection
<1>9. Cardinality((T \ S) \ B) = Cardinality(T \ S) - Cardinality((T \ S) \cap B)
  BY <1>5, FS_Difference
<1>10. /\ Cardinality((S \ T) \cap A) \in Nat /\ Cardinality(S \ T) \in Nat
       /\ Cardinality((T \ S) \cap B) \in Nat /\ Cardinality(T \ S) \in Nat
       /\ Cardinality(Moving) \in Nat
       /\ Cardinality((B \ A) \cap S) \in Nat /\ Cardinality((A \ B) \cap T) \in Nat
  <2>1. IsFiniteSet((B \ A) \cap S) /\ IsFiniteSet((A \ B) \cap T)
    BY <1>4, FS_Subset
  <2> QED
    BY <1>5, <2>1, FS_CardinalityType
<1>11. /\ (S \cap T) \ X = Moving /\ (T \cap S) \ X = Moving
       /\ Leaving = S \ T /\ Entering = T \ S
  BY <1>2
<1>12. Cardinality((B \ A) \cap S) <= Cardinality(Leaving) + Cardinality(Moving)
  BY <1>6, <1>8, <1>10, <1>11
<1>13. Cardinality((A \ B) \cap T) + Cardinality(Entering \ B)
         <= Cardinality(Entering) + Cardinality(Moving)
  <2>. HIDE DEF A, B
  <2>1. Cardinality(Entering \ B) = Cardinality(T \ S) - Cardinality((T \ S) \cap B)
    BY <1>9, <1>11
  <2>2. Cardinality((A \ B) \cap T) <= Cardinality((T \ S) \cap B) + Cardinality(Moving)
    BY <1>7, <1>11
  <2> QED
    BY <1>10, <1>11, <2>1, <2>2
<1> QED
  BY <1>4, <1>12, <1>13 DEF S, T, R, Q

\* The five columns of a list's state that a write changes.
LEMMA WrittenListing ==
  ASSUME ListInv, ListInv', PagingInv, ListChanges, listing.page # 0
  PROVE  /\ IsFiniteSet(Leaving) /\ IsFiniteSet(Entering) /\ IsFiniteSet(Moving)
         /\ Cardinality(Leaving) \in Nat /\ Cardinality(Entering) \in Nat
         /\ Cardinality(Moving) \in Nat /\ Cardinality(Leaving \cup Entering) \in Nat
         /\ listing' \in ListingType
         /\ listing'.pc = listing.pc /\ listing'.page = listing.page
         /\ listing'.total = listing.total /\ listing'.answer = listing.answer
         /\ listing'.returned = listing.returned /\ listing'.repeats = listing.repeats
         /\ listing'.lasting = listing.lasting \ Leaving
         /\ listing'.left = listing.left + Cardinality(Leaving)
         /\ listing'.entered = listing.entered + Cardinality(Entering)
         /\ listing'.moved = listing.moved + Cardinality(Moving)
         /\ listing'.drift = IF listing.pc = "count" THEN listing.drift
                             ELSE listing.drift + Cardinality(Leaving \cup Entering)
<1>1. /\ IsFiniteSet(Leaving) /\ IsFiniteSet(Entering) /\ IsFiniteSet(Moving)
      /\ IsFiniteSet(Leaving \cup Entering)
  <2>1. IsFiniteSet(Matching) /\ IsFiniteSet(Matching')
    BY DEF ListInv
  <2>2. Leaving \subseteq Matching /\ Entering \subseteq Matching' /\ Moving \subseteq Matching
    BY DEF Leaving, Entering, Moving
  <2>3. IsFiniteSet(Leaving) /\ IsFiniteSet(Entering) /\ IsFiniteSet(Moving)
    BY <2>1, <2>2, FS_Subset
  <2> QED
    BY <2>3, FS_Union
<1>2. /\ Cardinality(Leaving) \in Nat /\ Cardinality(Entering) \in Nat
      /\ Cardinality(Moving) \in Nat /\ Cardinality(Leaving \cup Entering) \in Nat
  BY <1>1, FS_CardinalityType
<1>. DEFINE out == Cardinality(Leaving)
            in == Cardinality(Entering)
            about == Cardinality(Moving)
            both == Cardinality(Leaving \cup Entering)
            drift == IF listing.pc = "count" THEN listing.drift ELSE listing.drift + both
            kept == [listing EXCEPT !.lasting = listing.lasting \ Leaving]
            fewer == [kept EXCEPT !.left = listing.left + out]
            more == [fewer EXCEPT !.entered = listing.entered + in]
            mixed == [more EXCEPT !.moved = listing.moved + about]
            new == [mixed EXCEPT !.drift = drift]
<1>3. listing' = new
  BY Zenon DEF ListChanges, Leaving, Entering, Moving
<1>4. listing \in ListingType
  BY DEF PagingInv
<1>5. /\ listing.lasting \ Leaving \in ListingRows
      /\ listing.left + out \in Nat /\ listing.entered + in \in Nat
      /\ listing.moved + about \in Nat /\ drift \in Nat
  <2>. HIDE DEF out, in, about, both
  <2> QED
    BY <1>2, <1>4 DEF ListingType, ListingRows, out, in, about, both
<1>. HIDE DEF out, in, about, drift
<1>6. /\ kept \in ListingType
      /\ kept.lasting = listing.lasting \ Leaving
      /\ kept = [listing EXCEPT !.lasting = kept.lasting]
  BY <1>4, <1>5 DEF ListingType
<1>7. /\ fewer \in ListingType
      /\ fewer.lasting = kept.lasting /\ fewer.left = listing.left + out
  <2>. HIDE DEF kept
  <2> QED
    BY <1>5, <1>6 DEF ListingType
<1>8. more \in ListingType
  <2>. HIDE DEF fewer
  <2> QED
    BY <1>5, <1>7 DEF ListingType
<1>9. mixed \in ListingType
  <2>. HIDE DEF more
  <2> QED
    BY <1>5, <1>8 DEF ListingType
<1>10. new \in ListingType
  <2>. HIDE DEF mixed
  <2> QED
    BY <1>5, <1>9 DEF ListingType
<1>11. /\ new.pc = listing.pc /\ new.page = listing.page
       /\ new.total = listing.total /\ new.answer = listing.answer
       /\ new.returned = listing.returned /\ new.repeats = listing.repeats
       /\ new.lasting = listing.lasting \ Leaving
       /\ new.left = listing.left + out /\ new.entered = listing.entered + in
       /\ new.moved = listing.moved + about /\ new.drift = drift
  BY <1>4 DEF ListingType
<1>. HIDE DEF new
<1> QED
  BY <1>1, <1>2, <1>3, <1>10, <1>11 DEF out, in, about, drift, both

\* A write brings no more rows into the part that was read than left or moved,
\* and pushes no more out of it than entered or moved.
LEMMA WriteKeepsPaging ==
  ASSUME ListInv, ListInv', PagingInv, ListChanges
  PROVE  PagingInv'
<1>1. CASE listing.page = 0
  <2>1. listing' = NoListing
    BY <1>1 DEF ListChanges, PagingInv
  <2>2. listing' \in ListingType
    BY <2>1 DEF NoListing, ListingType, ListingRows
  <2>3. Missed' = {} /\ Pushed' = {}
    BY <2>1 DEF Missed, Pushed, NoListing
  <2> QED
    BY <2>1, <2>2, <2>3, FS_EmptySet DEF PagingInv, NoListing
<1>2. CASE listing.page # 0
  <2>. DEFINE A == ReadPart
              B == ReadPart'
              C == Matching
              D == Matching'
              newcomers == (B \ A) \cap C
              pushed == (A \ B) \cap D
              late == Entering \ B
  <2>1. /\ listing \in ListingType /\ listing.lasting \subseteq C
        /\ Cardinality(Missed) <= listing.left + listing.moved
        /\ listing.repeats + Cardinality(Pushed) <= listing.entered + listing.moved
    BY DEF PagingInv
  <2>2. query' = query
    BY DEF ListChanges
  <2>3. /\ listing' \in ListingType
        /\ listing'.pc = listing.pc /\ listing'.page = listing.page
        /\ listing'.returned = listing.returned /\ listing'.repeats = listing.repeats
        /\ listing'.lasting = listing.lasting \ Leaving
        /\ listing'.left = listing.left + Cardinality(Leaving)
        /\ listing'.entered = listing.entered + Cardinality(Entering)
        /\ listing'.moved = listing.moved + Cardinality(Moving)
        /\ Cardinality(Leaving) \in Nat /\ Cardinality(Entering) \in Nat
        /\ Cardinality(Moving) \in Nat
    BY <1>2, WrittenListing
  <2>4. /\ IsFiniteSet(A) /\ IsFiniteSet(B)
        /\ Cardinality(newcomers) <= Cardinality(Leaving) + Cardinality(Moving)
        /\ Cardinality(pushed) + Cardinality(late)
             <= Cardinality(Entering) + Cardinality(Moving)
    <3>. DEFINE n == ReadPages * PageSize
    <3>1. n \in Nat
      BY <1>2, <2>1, ReadPagesAreNumbers
    <3>2. A = First(Order, Matching, n)
      BY DEF ReadPart
    <3>3. ReadPages' = ReadPages
      BY <2>3 DEF ReadPages
    <3>4. B = First(Order', Matching', n)
      BY <3>3 DEF ReadPart, First, Place, Below
    <3>. HIDE DEF n, A, B
    <3> QED
      BY <2>2, <3>1, <3>2, <3>4, ReadPartShifts
  <2>5. IsFiniteSet(C) /\ IsFiniteSet(D)
    BY DEF ListInv
  <2>6. Leaving = C \ D
    BY <2>2, LeavingRows
  <2>7. Missed' \subseteq Missed \cup newcomers
    BY <2>1, <2>3 DEF Missed
  <2>8. Pushed' \subseteq Pushed \cup pushed \cup late
    BY <2>3 DEF Pushed, Entering
  <2>9. listing'.lasting \subseteq D
    BY <2>1, <2>3, <2>6
  <2>10. /\ IsFiniteSet(Missed) /\ IsFiniteSet(Pushed)
         /\ IsFiniteSet(Missed') /\ IsFiniteSet(Pushed')
         /\ IsFiniteSet(newcomers) /\ IsFiniteSet(pushed) /\ IsFiniteSet(late)
    <3>1. /\ Missed \subseteq A /\ Missed' \subseteq B
          /\ Pushed \subseteq C /\ Pushed' \subseteq D
          /\ newcomers \subseteq B /\ pushed \subseteq A /\ late \subseteq D
      BY DEF Missed, Pushed, Entering
    <3>. HIDE DEF A, B, C, D, newcomers, pushed, late
    <3> QED
      BY <2>4, <2>5, <3>1, FS_Subset
  <2>. HIDE DEF A, B, C, D, newcomers, pushed, late
  <2>11. Cardinality(Missed') <= Cardinality(Missed) + Cardinality(newcomers)
    BY <2>7, <2>10, UnionBound
  <2>12. Cardinality(Pushed')
           <= Cardinality(Pushed) + Cardinality(pushed) + Cardinality(late)
    <3>1. /\ IsFiniteSet(pushed \cup late)
          /\ Cardinality(pushed \cup late) <= Cardinality(pushed) + Cardinality(late)
      BY <2>10, UnionBound
    <3>2. Cardinality(Pushed') <= Cardinality(Pushed) + Cardinality(pushed \cup late)
      BY <2>8, <2>10, <3>1, UnionBound
    <3>3. /\ Cardinality(Pushed') \in Nat /\ Cardinality(Pushed) \in Nat
          /\ Cardinality(pushed) \in Nat /\ Cardinality(late) \in Nat
          /\ Cardinality(pushed \cup late) \in Nat
      BY <2>10, <3>1, FS_CardinalityType
    <3> QED
      BY <3>1, <3>2, <3>3
  <2>13. /\ Cardinality(Missed) \in Nat /\ Cardinality(Missed') \in Nat
         /\ Cardinality(Pushed) \in Nat /\ Cardinality(Pushed') \in Nat
         /\ Cardinality(newcomers) \in Nat /\ Cardinality(pushed) \in Nat
         /\ Cardinality(late) \in Nat
    BY <2>10, FS_CardinalityType
  <2>14. /\ listing.left \in Nat /\ listing.entered \in Nat /\ listing.moved \in Nat
         /\ listing.repeats \in Nat
    BY <2>1 DEF ListingType
  <2>15. Cardinality(Missed') <= listing'.left + listing'.moved
    BY <2>1, <2>3, <2>4, <2>11, <2>13, <2>14
  <2>16. listing'.repeats + Cardinality(Pushed') <= listing'.entered + listing'.moved
    BY <2>1, <2>3, <2>4, <2>12, <2>13, <2>14
  <2>17. listing'.page # 0
    BY <1>2, <2>3
  <2> QED
    BY <2>3, <2>9, <2>15, <2>16, <2>17 DEF PagingInv, D
<1> QED
  BY <1>1, <1>2

-----------------------------------------------------------------------------
(* A page *)

\* A page is what stands in the list between its offset and the next one.
LEMMA PageIsPart ==
  ASSUME ListInv, NEW list \in Arrangements, NEW n \in Nat, NEW m \in Nat
  PROVE  {list[i] : i \in DOMAIN list \cap (n + 1)..(n + m)}
           = First(Order, Matching, n + m) \ First(Order, Matching, n)
<1>. DEFINE N == Cardinality(Matching)
            items == {list[i] : i \in DOMAIN list \cap (n + 1)..(n + m)}
            part == First(Order, Matching, n + m) \ First(Order, Matching, n)
<1>1. /\ list \in [1..N -> Matching] /\ DOMAIN list = 1..N
      /\ \A i, j \in 1..N : i # j => list[i] # list[j]
      /\ \A i, j \in 1..N : Precedes(list[i], list[j]) => i < j
  BY DEF Arrangements, SetToSeqs
<1>2. IsFiniteSet(Matching) /\ Orders(Order, Matching) /\ N \in Nat
  BY FS_CardinalityType DEF ListInv
<1>3. \A i, j \in 1..N : <<list[i], list[j]>> \in Order => i < j
  BY <1>1 DEF Order
<1>4. /\ \A i \in 1..N : Place(Order, Matching, list[i]) = i - 1
      /\ \A r \in Matching : \E i \in 1..N : r = list[i]
  BY <1>1, <1>2, <1>3, RanksInList
<1>5. ASSUME NEW r \in items
      PROVE  r \in part
  <2>1. PICK i \in 1..N : r = list[i] /\ i \in (n + 1)..(n + m)
    BY <1>1
  <2>2. r \in Matching /\ Place(Order, Matching, r) = i - 1
    BY <1>1, <1>4, <2>1
  <2>3. i - 1 < n + m /\ ~ (i - 1 < n)
    BY <2>1
  <2> QED
    BY <2>2, <2>3 DEF First
<1>6. ASSUME NEW r \in part
      PROVE  r \in items
  <2>1. /\ r \in Matching /\ Place(Order, Matching, r) < n + m
        /\ ~ (Place(Order, Matching, r) < n)
    BY DEF First
  <2>2. PICK i \in 1..N : r = list[i]
    BY <1>4, <2>1
  <2>3. Place(Order, Matching, r) = i - 1
    BY <1>4, <2>2
  <2>4. i \in (n + 1)..(n + m)
    BY <1>2, <2>1, <2>3
  <2> QED
    BY <1>1, <2>2, <2>4
<1> QED
  BY <1>5, <1>6

\* A page holds as many rows as there are between its offset and the next one.
LEMMA PageSizes ==
  ASSUME ListInv, NEW n \in Nat, NEW m \in Nat
  PROVE  LET part == First(Order, Matching, n + m) \ First(Order, Matching, n)
             N == Cardinality(Matching)
         IN  /\ IsFiniteSet(part) /\ Cardinality(part) \in Nat /\ N \in Nat
             /\ Cardinality(part) = IF N <= n THEN 0
                                    ELSE IF N <= n + m THEN N - n ELSE m
<1>. DEFINE A == First(Order, Matching, n)
            B == First(Order, Matching, n + m)
            N == Cardinality(Matching)
<1>1. IsFiniteSet(Matching) /\ Orders(Order, Matching) /\ N \in Nat /\ n + m \in Nat
  BY FS_CardinalityType DEF ListInv
<1>2. /\ IsFiniteSet(A) /\ Cardinality(A) = IF n <= N THEN n ELSE N
      /\ IsFiniteSet(B) /\ Cardinality(B) = IF n + m <= N THEN n + m ELSE N
  BY <1>1, FirstSize
<1>3. A \subseteq B
  <2>1. \A r \in Matching : Place(Order, Matching, r) \in Nat
    BY <1>1, Ranks
  <2> QED
    BY <2>1 DEF First
<1>. HIDE DEF A, B, N
<1>4. /\ IsFiniteSet(B \ A) /\ Cardinality(B \ A) = Cardinality(B) - Cardinality(B \cap A)
  BY <1>2, FS_Difference
<1>5. B \cap A = A
  BY <1>3
<1>6. Cardinality(B \ A) = IF N <= n THEN 0 ELSE IF N <= n + m THEN N - n ELSE m
  <2>1. Cardinality(B \ A) = Cardinality(B) - Cardinality(A)
    BY <1>4, <1>5
  <2>2. CASE N <= n
    BY <1>1, <1>2, <2>1, <2>2
  <2>3. CASE n < N /\ N <= n + m
    BY <1>1, <1>2, <2>1, <2>3
  <2>4. CASE n + m < N
    BY <1>1, <1>2, <2>1, <2>4
  <2> QED
    BY <1>1, <2>2, <2>3, <2>4
<1>7. Cardinality(B \ A) \in Nat
  BY <1>4, FS_CardinalityType
<1> QED
  BY <1>1, <1>4, <1>6, <1>7 DEF A, B, N

\* What the SELECT does, told with the rows of the page.
LEMMA SelectedPage ==
  ASSUME ListInv, PagingInv, SelectPage, UNCHANGED store
  PROVE  LET n == ReadPages * PageSize
             items == First(Order, Matching, n + PageSize) \ First(Order, Matching, n)
         IN  /\ n \in Nat /\ n = (listing.page - 1) * PageSize
             /\ IsFiniteSet(items) /\ Cardinality(items) \in Nat
             /\ listing' \in ListingType
             /\ listing.pc = "select" /\ listing'.pc = "count"
             /\ listing'.page = listing.page /\ listing'.lasting = listing.lasting
             /\ listing'.left = listing.left /\ listing'.entered = listing.entered
             /\ listing'.moved = listing.moved /\ listing'.drift = listing.drift
             /\ listing'.returned = listing.returned \cup items
             /\ listing'.repeats = listing.repeats + Cardinality(items \cap listing.returned)
             /\ listing'.answer.items = Cardinality(items)
             /\ listing'.answer.total = listing.total
             /\ listing'.answer.pages = TotalPages(listing.total)
             /\ Matching' = Matching /\ Order' = Order
             /\ ReadPart' = First(Order, Matching, n + PageSize)
<1>. DEFINE n == ReadPages * PageSize
            items == First(Order, Matching, n + PageSize) \ First(Order, Matching, n)
            again == Cardinality(items \cap listing.returned)
            answer == [items |-> Cardinality(items), total |-> listing.total,
                       pages |-> TotalPages(listing.total)]
            at == [listing EXCEPT !.pc = "count"]
            seen == [at EXCEPT !.returned = listing.returned \cup items]
            met == [seen EXCEPT !.repeats = listing.repeats + again]
            new == [met EXCEPT !.answer = answer]
<1>1. /\ listing \in ListingType /\ listing.page # 0 /\ listing.pc = "select"
      /\ query' = query
  BY DEF SelectPage, PagingInv, NoListing
<1>2. /\ ReadPages = listing.page - 1 /\ listing.page \in Nat
      /\ ReadPages \in Nat /\ n \in Nat /\ PageSize \in Nat
  BY <1>1, ReadPagesAreNumbers, ListingAssumption DEF ReadPages, ListingType
<1>3. IsFiniteSet(items) /\ Cardinality(items) \in Nat
  <2>. HIDE DEF n
  <2> QED
    BY <1>2, PageSizes
<1>4. listing' = new
  <2>1. PICK list \in Arrangements :
          LET first == Offset(listing.page)
              page == {list[i] : i \in DOMAIN list \cap (first + 1)..(first + PageSize)}
          IN  listing' = [listing EXCEPT
                !.pc = "count",
                !.returned = @ \cup page,
                !.repeats = @ + Cardinality(page \cap listing.returned),
                !.answer = [items |-> Cardinality(page), total |-> listing.total,
                            pages |-> TotalPages(listing.total)]]
    BY DEF SelectPage
  <2>2. Offset(listing.page) = n
    BY <1>2 DEF Offset
  <2>3. {list[i] : i \in DOMAIN list \cap (n + 1)..(n + PageSize)} = items
    <3>. HIDE DEF n
    <3> QED
      BY <1>2, PageIsPart
  <2>. HIDE DEF n, items
  <2> QED
    BY <2>1, <2>2, <2>3, Zenon
<1>5. /\ listing.returned \cup items \in ListingRows
      /\ listing.repeats + again \in Nat
      /\ answer \in [items : Nat, total : Nat, pages : Int]
  <2>1. items \subseteq Logs \cup Groups
    BY DEF First, Matching
  <2>2. again \in Nat
    BY <1>3, FS_Intersection, FS_CardinalityType
  <2>3. TotalPages(listing.total) \in Int
    <3>. DEFINE total == listing.total
    <3>1. total \in Nat
      BY <1>1 DEF ListingType
    <3>. HIDE DEF total
    <3>2. TotalPages(total) \in Int
      BY <3>1, ListingAssumption DEF TotalPages
    <3> QED
      BY <3>2 DEF total
  <2>4. /\ listing.returned \in ListingRows /\ listing.repeats \in Nat
        /\ listing.total \in Nat
    BY <1>1 DEF ListingType
  <2>. HIDE DEF items, again
  <2> QED
    BY <1>3, <2>1, <2>2, <2>3, <2>4 DEF ListingRows
<1>6. /\ answer.items = Cardinality(items) /\ answer.total = listing.total
      /\ answer.pages = TotalPages(listing.total)
  OBVIOUS
<1>. HIDE DEF n, items, again, answer
<1>7. at \in ListingType
  BY <1>1 DEF ListingType
<1>8. seen \in ListingType
  <2>. HIDE DEF at
  <2> QED
    BY <1>5, <1>7 DEF ListingType
<1>9. met \in ListingType
  <2>. HIDE DEF seen
  <2> QED
    BY <1>5, <1>8 DEF ListingType
<1>10. new \in ListingType
  <2>. HIDE DEF met
  <2> QED
    BY <1>5, <1>9 DEF ListingType
<1>11. /\ new.pc = "count" /\ new.page = listing.page /\ new.lasting = listing.lasting
       /\ new.left = listing.left /\ new.entered = listing.entered
       /\ new.moved = listing.moved /\ new.drift = listing.drift
       /\ new.returned = listing.returned \cup items
       /\ new.repeats = listing.repeats + again
       /\ new.answer = answer
  BY <1>1 DEF ListingType
<1>. HIDE DEF new
<1>12. Matching' = Matching /\ Order' = Order
  BY <1>1, SameList
<1>13. ReadPart' = First(Order, Matching, n + PageSize)
  <2>1. ReadPages' = listing.page
    BY <1>4, <1>11 DEF ReadPages
  <2>2. listing.page * PageSize = n + PageSize
    BY <1>2 DEF n
  <2> QED
    BY <1>12, <2>1, <2>2 DEF ReadPart, First, Place, Below
<1>14. n = (listing.page - 1) * PageSize
  BY <1>2 DEF n
<1> QED
  BY <1>1, <1>2, <1>3, <1>4, <1>6, <1>10, <1>11, <1>12, <1>13, <1>14 DEF n, items, again

-----------------------------------------------------------------------------
(* Paging *)

\* A page is the next part of the list: what it shows is not missed, and what it
\* shows again has been pushed out of the part before it.
LEMMA PageKeepsPaging ==
  ASSUME ListInv, PagingInv, SelectPage, UNCHANGED store
  PROVE  PagingInv'
<1>. DEFINE n == ReadPages * PageSize
            items == First(Order, Matching, n + PageSize) \ First(Order, Matching, n)
            again == items \cap listing.returned
<1>1. /\ n \in Nat /\ IsFiniteSet(items)
      /\ listing' \in ListingType
      /\ listing'.page = listing.page /\ listing'.lasting = listing.lasting
      /\ listing'.left = listing.left /\ listing'.entered = listing.entered
      /\ listing'.moved = listing.moved
      /\ listing'.returned = listing.returned \cup items
      /\ listing'.repeats = listing.repeats + Cardinality(again)
      /\ Matching' = Matching
      /\ ReadPart' = First(Order, Matching, n + PageSize)
  BY SelectedPage
<1>2. /\ listing \in ListingType /\ listing.page # 0
      /\ listing.lasting \subseteq Matching
      /\ Cardinality(Missed) <= listing.left + listing.moved
      /\ listing.repeats + Cardinality(Pushed) <= listing.entered + listing.moved
  BY DEF PagingInv, SelectPage, NoListing
<1>3. ReadPart' = ReadPart \cup items /\ ReadPart \cap items = {}
  <2>1. \A r \in Matching : Place(Order, Matching, r) \in Nat
    BY Ranks, FS_CardinalityType DEF ListInv
  <2>2. First(Order, Matching, n) \subseteq First(Order, Matching, n + PageSize)
    <3>. HIDE DEF n
    <3> QED
      BY <1>1, <2>1, ListingAssumption DEF First
  <2> QED
    BY <1>1, <2>2 DEF ReadPart
<1>4. items \subseteq Matching
  BY DEF First
<1>5. IsFiniteSet(Matching)
  BY DEF ListInv
<1>. HIDE DEF items, again
<1>6. Missed' \subseteq Missed
  BY <1>1, <1>3 DEF Missed
<1>7. Pushed = Pushed' \cup again /\ Pushed' \cap again = {}
  BY <1>1, <1>3, <1>4 DEF Pushed, again
<1>8. /\ IsFiniteSet(Missed) /\ IsFiniteSet(Pushed') /\ IsFiniteSet(again)
      /\ IsFiniteSet(Pushed)
  <2>1. /\ Missed \subseteq Matching /\ Pushed' \subseteq Matching
        /\ Pushed \subseteq Matching /\ again \subseteq Matching
    BY <1>1, <1>4 DEF Missed, Pushed, ReadPart, First, again
  <2> QED
    BY <1>5, <2>1, FS_Subset
<1>9. Cardinality(Missed') <= Cardinality(Missed)
  BY <1>6, <1>8, FS_Subset
<1>10. Cardinality(Pushed) = Cardinality(Pushed') + Cardinality(again)
  BY <1>7, <1>8, DisjointUnion
<1>11. /\ Cardinality(Missed) \in Nat /\ Cardinality(Missed') \in Nat
       /\ Cardinality(Pushed') \in Nat /\ Cardinality(again) \in Nat
  BY <1>6, <1>8, FS_Subset, FS_CardinalityType
<1>12. /\ listing.left \in Nat /\ listing.entered \in Nat /\ listing.moved \in Nat
       /\ listing.repeats \in Nat
  BY <1>2 DEF ListingType
<1>13. Cardinality(Missed') <= listing'.left + listing'.moved
  BY <1>1, <1>2, <1>9, <1>11, <1>12
<1>14. listing'.repeats + Cardinality(Pushed') <= listing'.entered + listing'.moved
  BY <1>1, <1>2, <1>10, <1>11, <1>12
<1>15. listing'.lasting \subseteq Matching' /\ listing'.page # 0
  BY <1>1, <1>2
<1> QED
  BY <1>1, <1>13, <1>14, <1>15 DEF PagingInv

\* What stands before a row in the list are the rows of a lower place.
LEMMA PassedOverIsMissed ==
  ASSUME ListInv, PagingInv
  PROVE  PassedOver \subseteq Missed
<1>. SUFFICES ASSUME NEW r \in PassedOver
              PROVE  r \in Missed
  OBVIOUS
<1>1. /\ r \in listing.lasting \ listing.returned /\ r \in Matching
      /\ Position(r) < ReadPages * PageSize
  BY DEF PassedOver, PagingInv, ReadPages
<1>2. Position(r) = Place(Order, Matching, r)
  <2>1. {s \in Matching : Precedes(s, r)} = Below(Order, Matching, r)
    BY <1>1 DEF Below, Order
  <2> QED
    BY <2>1 DEF Position, Place
<1> QED
  BY <1>1, <1>2 DEF Missed, ReadPart, First

\* What was missed and what was pushed out stay within what was written.
LEMMA PagingStaysTrue == ReadersSpec => []PagingInv
<1>1. ReadersInit => PagingInv
  BY PagingInit DEF ReadersInit
<1>2. ListInv /\ ListInv' /\ PagingInv /\ [ReadersNext]_<<store, readers>> => PagingInv'
  <2>. SUFFICES ASSUME ListInv, ListInv', PagingInv, [ReadersNext]_<<store, readers>>
                PROVE  PagingInv'
    OBVIOUS
  <2>1. CASE WriteMeanwhile
    BY <2>1, WriteKeepsPaging DEF WriteMeanwhile
  <2>2. CASE ClientStep
    BY <2>2, CountKeepsPaging, PageKeepsPaging DEF ClientStep, ListStep
  <2>3. CASE UNCHANGED <<store, query, listing>>
    <3>1. Matching' = Matching /\ Order' = Order
      BY <2>3, SameList
    <3>2. ReadPart' = ReadPart
      BY <2>3, <3>1 DEF ReadPart, ReadPages, First, Place, Below
    <3>3. Missed' = Missed /\ Pushed' = Pushed
      BY <2>3, <3>1, <3>2 DEF Missed, Pushed
    <3> QED
      BY <2>3, <3>1, <3>3 DEF PagingInv
  <2> QED
    BY <2>1, <2>2, <2>3 DEF ReadersNext, WorkerStep
<1> QED
  BY <1>1, <1>2, ListsAreOrdered, PTL DEF ReadersSpec

\* A client that goes through a list misses none of the rows that were in it all
\* along, and meets none again, but for as many as left it, entered it or moved in
\* it meanwhile: LIMIT and OFFSET over two statements, whatever is written between.
THEOREM PagesMissLittle == ReadersSpec => []PagingIsBounded
<1>1. ListInv /\ PagingInv => PagingIsBounded
  <2>. SUFFICES ASSUME ListInv, PagingInv
                PROVE  PagingIsBounded
    OBVIOUS
  <2>1. IsFiniteSet(Missed) /\ IsFiniteSet(Pushed)
    <3>1. /\ Missed \subseteq Matching /\ Pushed \subseteq Matching
          /\ IsFiniteSet(Matching)
      BY DEF Missed, Pushed, ReadPart, First, ListInv
    <3> QED
      BY <3>1, FS_Subset
  <2>2. IsFiniteSet(PassedOver) /\ Cardinality(PassedOver) <= Cardinality(Missed)
    BY <2>1, PassedOverIsMissed, FS_Subset
  <2>3. /\ Cardinality(PassedOver) \in Nat /\ Cardinality(Missed) \in Nat
        /\ Cardinality(Pushed) \in Nat
    BY <2>1, <2>2, FS_CardinalityType
  <2>4. /\ listing.left \in Nat /\ listing.entered \in Nat /\ listing.moved \in Nat
        /\ listing.repeats \in Nat
        /\ Cardinality(Missed) <= listing.left + listing.moved
        /\ listing.repeats + Cardinality(Pushed) <= listing.entered + listing.moved
    BY DEF PagingInv, ListingType
  <2> QED
    BY <2>2, <2>3, <2>4 DEF PagingIsBounded
<1> QED
  BY <1>1, PagingStaysTrue, ListsAreOrdered, PTL

-----------------------------------------------------------------------------
(* The total *)

\* Rounding up: there is a page p if some row comes after the offset of p.
LEMMA PagesReachTotal ==
  ASSUME NEW p \in Nat \ {0}, NEW total \in Nat
  PROVE  (p - 1) * PageSize < total <=> p <= TotalPages(total)
<1>. DEFINE k == total + PageSize - 1
            q == k \div PageSize
            e == k % PageSize
            n == (p - 1) * PageSize
<1>1. PageSize \in Nat /\ PageSize > 0 /\ k \in Nat
  BY ListingAssumption
<1>2. /\ q \in Nat /\ e \in Nat /\ e < PageSize
      /\ k = q * PageSize + e
  <2>. HIDE DEF k
  <2> QED
    BY <1>1
<1>3. p * PageSize = n + PageSize /\ n \in Nat
  BY <1>1
<1>. HIDE DEF q, e, n
<1>4. CASE p <= q
  <2>1. p * PageSize <= q * PageSize
    BY <1>1, <1>2, <1>4
  <2>2. p * PageSize \in Nat /\ q * PageSize \in Nat
    BY <1>1, <1>2
  <2>3. n + PageSize <= total + PageSize - 1
    BY <1>1, <1>2, <1>3, <2>1, <2>2
  <2> QED
    BY <1>1, <1>3, <1>4, <2>3 DEF TotalPages, q, n
<1>5. CASE ~ (p <= q)
  <2>1. q * PageSize <= n
    <3>1. q <= p - 1
      BY <1>2, <1>5
    <3> QED
      BY <1>1, <1>2, <3>1 DEF n
  <2>2. q * PageSize \in Nat
    BY <1>1, <1>2
  <2>3. total + PageSize - 1 < n + PageSize
    BY <1>1, <1>2, <1>3, <2>1, <2>2
  <2> QED
    BY <1>1, <1>3, <1>5, <2>3 DEF TotalPages, q, n
<1> QED
  BY <1>4, <1>5

\* Between the count and the SELECT the total is off by the rows that came or
\* went, and no more.
TotalIsNear ==
  listing.pc = "select" => Near(Cardinality(Matching), listing.total, listing.drift)

\* A write takes the total off by the rows that leave or enter.
LEMMA WriteKeepsTotal ==
  ASSUME ListInv, ListInv', PagingInv, ListChanges, TotalIsNear, PageFitsTotal
  PROVE  TotalIsNear' /\ PageFitsTotal'
<1>1. CASE listing.page = 0
  <2>1. listing' = NoListing
    BY <1>1 DEF ListChanges, PagingInv
  <2> QED
    BY <2>1 DEF TotalIsNear, PageFitsTotal, NoListing
<1>2. CASE listing.page # 0
  <2>1. /\ IsFiniteSet(Leaving) /\ IsFiniteSet(Entering)
        /\ Cardinality(Leaving) \in Nat /\ Cardinality(Entering) \in Nat
        /\ Cardinality(Leaving \cup Entering) \in Nat
        /\ listing'.pc = listing.pc /\ listing'.page = listing.page
        /\ listing'.total = listing.total /\ listing'.answer = listing.answer
        /\ listing'.drift = IF listing.pc = "count" THEN listing.drift
                            ELSE listing.drift + Cardinality(Leaving \cup Entering)
    BY <1>2, WrittenListing
  <2>2. listing.total \in Nat /\ listing.drift \in Nat
    BY DEF PagingInv, ListingType
  <2>3. PageFitsTotal'
    BY <2>1 DEF PageFitsTotal
  <2>4. ASSUME listing.pc = "select"
        PROVE  Near(Cardinality(Matching'), listing'.total, listing'.drift)
    <3>. DEFINE S == Matching
                T == Matching'
                both == Leaving \cup Entering
    <3>1. IsFiniteSet(S) /\ IsFiniteSet(T) /\ IsFiniteSet(both)
      BY <2>1, FS_Union DEF ListInv
    <3>2. S \subseteq T \cup both /\ T \subseteq S \cup both
      BY LeavingRows DEF Entering, ListChanges
    <3>. HIDE DEF S, T, both
    <3>3. /\ Cardinality(S) <= Cardinality(T) + Cardinality(both)
          /\ Cardinality(T) <= Cardinality(S) + Cardinality(both)
      BY <3>1, <3>2, UnionBound
    <3>4. /\ Cardinality(S) \in Nat /\ Cardinality(T) \in Nat
          /\ Cardinality(both) \in Nat
      BY <3>1, FS_CardinalityType
    <3>5. /\ Cardinality(S) <= listing.total + listing.drift
          /\ listing.total <= Cardinality(S) + listing.drift
      BY <2>4 DEF TotalIsNear, Near, S
    <3>6. listing'.drift = listing.drift + Cardinality(both) /\ listing'.total = listing.total
      BY <2>1, <2>4 DEF both
    <3>7. /\ Cardinality(T) <= listing'.total + listing'.drift
          /\ listing'.total <= Cardinality(T) + listing'.drift
      BY <2>2, <3>3, <3>4, <3>5, <3>6
    <3> QED
      BY <3>7 DEF Near, T
  <2>5. TotalIsNear'
    BY <2>1, <2>4 DEF TotalIsNear, Near
  <2> QED
    BY <2>3, <2>5
<1> QED
  BY <1>1, <1>2

\* The page is cut from as many rows as were counted, but for that drift.
LEMMA PageKeepsTotal ==
  ASSUME ListInv, PagingInv, SelectPage, UNCHANGED store, TotalIsNear
  PROVE  TotalIsNear' /\ PageFitsTotal'
<1>. DEFINE n == ReadPages * PageSize
            items == First(Order, Matching, n + PageSize) \ First(Order, Matching, n)
            N == Cardinality(Matching)
            total == listing.total
            drift == listing.drift
            count == Cardinality(items)
            expected == IF total - n <= 0 THEN 0
                        ELSE IF total - n < PageSize THEN total - n ELSE PageSize
<1>1. /\ n \in Nat /\ n = (listing.page - 1) * PageSize
      /\ listing.pc = "select" /\ listing'.pc = "count"
      /\ listing'.page = listing.page /\ listing'.drift = drift
      /\ listing'.answer.items = count
      /\ listing'.answer.total = total
      /\ listing'.answer.pages = TotalPages(total)
  BY SelectedPage
<1>2. /\ count \in Nat /\ N \in Nat
      /\ count = IF N <= n THEN 0 ELSE IF N <= n + PageSize THEN N - n ELSE PageSize
  <2>. HIDE DEF n
  <2> QED
    BY <1>1, PageSizes, ListingAssumption
<1>3. /\ total \in Nat /\ drift \in Nat /\ listing.page \in Nat \ {0}
      /\ PageSize \in Nat \ {0}
  BY ListingAssumption DEF PagingInv, ListingType, SelectPage, NoListing
<1>4. N <= total + drift /\ total <= N + drift
  BY <1>1 DEF TotalIsNear, Near
<1>5. n < total <=> listing.page <= TotalPages(total)
  BY <1>1, <1>3, PagesReachTotal
<1>. HIDE DEF n, N, total, drift, count
<1>6. count <= expected + drift /\ expected <= count + drift
  <2>1. CASE total <= n
    BY <1>1, <1>2, <1>3, <1>4, <2>1
  <2>2. CASE n < total /\ total < n + PageSize
    BY <1>1, <1>2, <1>3, <1>4, <2>2
  <2>3. CASE n + PageSize <= total
    BY <1>1, <1>2, <1>3, <1>4, <2>3
  <2> QED
    BY <1>1, <1>3, <2>1, <2>2, <2>3
<1>7. drift = 0 => (count > 0 <=> listing.page <= TotalPages(total))
  BY <1>1, <1>2, <1>3, <1>4, <1>5
<1>8. TotalIsNear'
  BY <1>1 DEF TotalIsNear
<1>9. PageFitsTotal'
  <2>1. (listing'.page - 1) * PageSize = n
    BY <1>1
  <2> QED
    BY <1>1, <1>6, <1>7, <2>1 DEF PageFitsTotal
<1> QED
  BY <1>8, <1>9

\* The page that a client gets fits the total that comes with it, but for the
\* rows that came or went between the two statements; when none did, a page is
\* empty just if it is past the last.
THEOREM PagesFitTotals == ReadersSpec => []PageFitsTotal
<1>. DEFINE Inv == PagingInv /\ TotalIsNear /\ PageFitsTotal
<1>1. ReadersInit => Inv
  <2>1. ReadersInit => TotalIsNear /\ PageFitsTotal
    BY DEF ReadersInit, ListingInit, NoListing, TotalIsNear, PageFitsTotal
  <2> QED
    BY <2>1, PagingInit DEF ReadersInit
<1>2. /\ ListInv /\ ListInv' /\ PagingInv /\ TotalIsNear /\ PageFitsTotal
      /\ [ReadersNext]_<<store, readers>>
      => TotalIsNear' /\ PageFitsTotal'
  <2>. SUFFICES ASSUME ListInv, ListInv', PagingInv, TotalIsNear, PageFitsTotal,
                       [ReadersNext]_<<store, readers>>
                PROVE  TotalIsNear' /\ PageFitsTotal'
    OBVIOUS
  <2>1. CASE WriteMeanwhile
    BY <2>1, WriteKeepsTotal DEF WriteMeanwhile
  <2>2. CASE ClientStep /\ SelectPage
    BY <2>2, PageKeepsTotal DEF ClientStep
  <2>3. CASE ClientStep /\ CountRows
    <3>1. UNCHANGED store /\ query' = query
      BY <2>3 DEF ClientStep, CountRows
    <3>2. Matching' = Matching
      BY <3>1, SameList
    <3>3. /\ listing'.pc = "select" /\ listing'.total = Cardinality(Matching)
          /\ listing'.drift = 0
      BY <2>3 DEF CountRows, PagingInv, ListingType
    <3>4. Cardinality(Matching) \in Nat
      BY FS_CardinalityType DEF ListInv
    <3> QED
      BY <3>2, <3>3, <3>4 DEF TotalIsNear, PageFitsTotal, Near
  <2>4. CASE UNCHANGED <<store, query, listing>>
    <3>1. Matching' = Matching
      BY <2>4, SameList
    <3> QED
      BY <2>4, <3>1 DEF TotalIsNear, PageFitsTotal, Near
  <2> QED
    BY <2>1, <2>2, <2>3, <2>4 DEF ReadersNext, ClientStep, ListStep, WorkerStep
<1> QED
  BY <1>1, <1>2, PagingStaysTrue, ListsAreOrdered, PTL DEF ReadersSpec

-----------------------------------------------------------------------------
(* Types *)

\* The record of an execution: it has read some list of figures.
TaskInv ==
  /\ task = [running |-> task.running, since |-> task.since, figures |-> task.figures,
             logs |-> task.logs, groups |-> task.groups]
  /\ task.since \in Times
  /\ \E S : task.figures \in Seq(S)
  /\ Len(task.figures) <= Len(Statements)
  /\ cache \in 0..Ttl /\ faults \in 0..MaxFaults

\* The client asks for no page beyond its last, and gets rows of its table only.
PagesInv ==
  /\ listing.page <= MaxPages
  /\ listing.returned \subseteq Listed

\* The task begins, reads, writes the key and is tried again within its ranges.
LEMMA TaskStaysTrue == ReadersSpec => []TaskInv
<1>. USE DEF TaskInv
<1>0. Len(Statements) = 8
  BY DEF Statements
<1>1. ReadersInit => TaskInv
  <2>. SUFFICES ASSUME ReadersInit
                PROVE  TaskInv
    OBVIOUS
  <2>1. task = IdleTask /\ cache = 0 /\ faults = 0
    BY DEF ReadersInit, SummaryInit
  <2>2. task.figures = <<>> /\ task.since = 0
    BY <2>1 DEF IdleTask
  <2>3. <<>> \in Seq({}) /\ Len(<<>>) = 0
    OBVIOUS
  <2>4. 0 \in Times /\ cache \in 0..Ttl /\ faults \in 0..MaxFaults
    BY <2>1, RowsAssumption, SummaryAssumption DEF Times
  <2>5. task = [running |-> task.running, since |-> task.since, figures |-> task.figures,
             logs |-> task.logs, groups |-> task.groups]
    BY <2>1 DEF IdleTask
  <2> QED
    BY <1>0, <2>2, <2>3, <2>4, <2>5
<1>2. TaskInv /\ [ReadersNext]_<<store, readers>> => TaskInv'
  <2>. SUFFICES ASSUME TaskInv, [ReadersNext]_<<store, readers>>
                PROVE  TaskInv'
    OBVIOUS
  <2>1. CASE WriteMeanwhile
    <3>1. CASE task.running
      <4>1. PICK m, n : task' = [task EXCEPT !.logs = m, !.groups = n]
        BY <2>1, <3>1 DEF WriteMeanwhile, SummaryChanges
      <4>2. /\ task' = [running |-> task.running, since |-> task.since,
                        figures |-> task.figures, logs |-> m, groups |-> n]
        BY <4>1
      <4>3. UNCHANGED <<cache, faults>>
        BY <2>1 DEF WriteMeanwhile, SummaryChanges
      <4> QED
        BY <4>2, <4>3
    <3>2. CASE ~ task.running
      BY <2>1, <3>2 DEF WriteMeanwhile, SummaryChanges
    <3> QED
      BY <3>1, <3>2
  <2>2. ASSUME NEW since \in Times, Begin(since)
        PROVE  TaskInv'
    <3>1. /\ task' = [running |-> TRUE, since |-> since, figures |-> <<>>,
                      logs |-> 0, groups |-> 0]
          /\ UNCHANGED <<cache, faults>>
      BY <2>2 DEF Begin, IdleTask
    <3>2. <<>> \in Seq({}) /\ Len(<<>>) = 0
      OBVIOUS
    <3>3. task'.figures = <<>> /\ task'.since = since
      BY <3>1
    <3>4. task' = [running |-> task'.running, since |-> task'.since,
                   figures |-> task'.figures, logs |-> task'.logs, groups |-> task'.groups]
      BY <3>1
    <3> QED
      BY <1>0, <3>1, <3>2, <3>3, <3>4
  <2>3. CASE Read
    <3>1. PICK x : /\ task' = [task EXCEPT !.figures = Append(task.figures, x)]
                   /\ ~ Complete /\ UNCHANGED <<cache, faults>>
      BY <2>3 DEF Read
    <3>2. PICK S : task.figures \in Seq(S)
      OBVIOUS
    <3>3. task' = [running |-> task.running, since |-> task.since,
                   figures |-> Append(task.figures, x),
                   logs |-> task.logs, groups |-> task.groups]
      BY <3>1
    <3>4. task.figures \in Seq(S \cup {x}) /\ x \in S \cup {x}
      BY <3>2
    <3>5. /\ Append(task.figures, x) \in Seq(S \cup {x})
          /\ Len(Append(task.figures, x)) = Len(task.figures) + 1
          /\ Len(task.figures) \in Nat
      BY <3>4
    <3>6. Len(Append(task.figures, x)) <= Len(Statements)
      <4>1. Len(task.figures) # 8 /\ Len(task.figures) <= 8
        BY <1>0, <3>1 DEF Complete
      <4>. DEFINE length == Len(task.figures)
                  longer == Append(task.figures, x)
      <4>2. length \in Nat /\ length # 8 /\ length <= 8 /\ Len(longer) = length + 1
        BY <3>5, <4>1
      <4>. HIDE DEF length, longer
      <4>3. Len(longer) <= Len(Statements)
        BY <1>0, <4>2
      <4> QED
        BY <4>3 DEF longer
    <3>7. /\ task'.figures = Append(task.figures, x) /\ task'.since = task.since
          /\ task' = [running |-> task'.running, since |-> task'.since,
                      figures |-> task'.figures, logs |-> task'.logs,
                      groups |-> task'.groups]
      BY <3>3
    <3>. HIDE DEF TaskInv
    <3>8. task.since \in Times /\ cache \in 0..Ttl /\ faults \in 0..MaxFaults
      BY DEF TaskInv
    <3> QED
      BY <3>1, <3>5, <3>6, <3>7, <3>8 DEF TaskInv
  <2>4. ASSUME task' = IdleTask, cache' \in 0..Ttl, faults' \in 0..MaxFaults
        PROVE  TaskInv'
    <3>1. /\ task' = [running |-> FALSE, since |-> 0, figures |-> <<>>,
                      logs |-> 0, groups |-> 0]
      BY <2>4 DEF IdleTask
    <3>2. <<>> \in Seq({}) /\ Len(<<>>) = 0
      OBVIOUS
    <3>3. task'.figures = <<>> /\ task'.since = 0
      BY <3>1
    <3>4. task' = [running |-> task'.running, since |-> task'.since,
                   figures |-> task'.figures, logs |-> task'.logs, groups |-> task'.groups]
      BY <3>1
    <3>5. 0 \in Times
      BY RowsAssumption DEF Times
    <3> QED
      BY <1>0, <2>4, <3>2, <3>3, <3>4, <3>5
  <2>5. CASE Refresh
    BY <2>4, <2>5, SummaryAssumption DEF Refresh
  <2>6. CASE Retry
    BY <2>4, <2>6, SummaryAssumption DEF Retry
  <2>7. CASE CacheAges
    BY <2>7, SummaryAssumption DEF CacheAges
  <2>8. CASE UNCHANGED summaryVars
    BY <2>8
  <2> QED
    BY <2>1, <2>2, <2>3, <2>5, <2>6, <2>7, <2>8
       DEF ReadersNext, ClientStep, WorkerStep, SummaryStep, TaskStep
<1> QED
  BY <1>1, <1>2, PTL DEF ReadersSpec

\* No page after the last, and no row of another table, gets to the client.
LEMMA PagesStayTrue == ReadersSpec => []PagesInv
<1>1. ReadersInit => PagesInv
  BY ListingAssumption DEF ReadersInit, ListingInit, NoListing, PagesInv
<1>2. ListInv /\ ListInv' /\ PagingInv /\ PagesInv /\ [ReadersNext]_<<store, readers>>
      => PagesInv'
  <2>. SUFFICES ASSUME ListInv, ListInv', PagingInv, PagesInv,
                       [ReadersNext]_<<store, readers>>
                PROVE  PagesInv'
    OBVIOUS
  <2>1. query' = query
    BY DEF ReadersNext, WriteMeanwhile, ListChanges, ClientStep, ListStep, CountRows,
           SelectPage, WorkerStep
  <2>2. Listed' = Listed
    BY <2>1 DEF Listed
  <2>3. CASE listing'.page = listing.page /\ listing'.returned = listing.returned
    BY <2>2, <2>3 DEF PagesInv
  <2>4. CASE ListChanges
    <3>1. listing'.page = listing.page /\ listing'.returned = listing.returned
      BY <2>4, WrittenListing DEF ListChanges
    <3> QED
      BY <2>3, <3>1
  <2>5. CASE CountRows
    <3>1. /\ listing'.page = listing.page + 1 /\ listing'.returned = listing.returned
          /\ listing.page \in Nat /\ listing.page < MaxPages
      BY <2>5 DEF CountRows, PagingInv, ListingType
    <3> QED
      BY <2>2, <3>1, ListingAssumption DEF PagesInv
  <2>6. CASE SelectPage /\ UNCHANGED store
    <3>. DEFINE n == ReadPages * PageSize
                items == First(Order, Matching, n + PageSize) \ First(Order, Matching, n)
    <3>1. /\ listing'.page = listing.page
          /\ listing'.returned = listing.returned \cup items
      BY <2>6, SelectedPage
    <3>2. items \subseteq Listed
      BY DEF First, Matching, Listed
    <3> QED
      BY <2>2, <3>1, <3>2 DEF PagesInv
  <2> QED
    BY <2>3, <2>4, <2>5, <2>6
       DEF ReadersNext, WriteMeanwhile, ClientStep, ListStep, WorkerStep
<1> QED
  BY <1>1, <1>2, PagingStaysTrue, ListsAreOrdered, PTL DEF ReadersSpec

\* The client and the task keep to their ranges, whatever is written meanwhile.
THEOREM ReadersTypeCorrect == ReadersSpec => []ReadersTypeOK
<1>1. ListInv /\ PagingInv /\ PagesInv /\ TaskInv => ReadersTypeOK
  <2>. SUFFICES ASSUME ListInv, PagingInv, PagesInv, TaskInv
                PROVE  ReadersTypeOK
    OBVIOUS
  <2>1. StoreTypeOK /\ query \in Queries
    BY DEF ListInv
  <2>2. listing.page \in 0..MaxPages
    BY ListingAssumption DEF PagingInv, PagesInv, ListingType
  <2>3. listing.lasting \cup listing.returned
          \subseteq IF query.table = "logs" THEN Logs ELSE Groups
    BY DEF PagingInv, PagesInv, Matching, Listed
  <2> QED
    BY <2>1, <2>2, <2>3 DEF ReadersTypeOK, TaskInv
<1> QED
  BY <1>1, TaskStaysTrue, PagesStayTrue, PagingStaysTrue, ListsAreOrdered, PTL

-----------------------------------------------------------------------------
(* Sums *)

\* Every set of numbers that is not empty has a least one.
LEMMA LeastNumber ==
  ASSUME NEW T \in SUBSET Nat, T # {}
  PROVE  \E n \in T : \A k \in T : n <= k
<1>1. PICK n \in T : \A k \in T : <<k, n>> \notin OpToRel(<, Nat)
  BY WFMin, NatLessThanWellFounded, Zenon
<1>2. \A k \in T : ~ (k < n)
  BY <1>1, Zenon DEF OpToRel
<1> QED
  BY <1>2

\* The element that a sum takes next, and what is left.
Chosen(s) == CHOOSE x \in s : TRUE

Rest(s) == s \ {Chosen(s)}

\* sum adds up the values of f on the subsets of S with no more than n elements.
AddsUp(sum, f, S, n) ==
  \A s \in SUBSET S :
    Cardinality(s) <= n =>
      sum[s] = IF s = {} THEN 0 ELSE f[Chosen(s)] + sum[Rest(s)]

\* The rest of a finite set has one element less.
LEMMA RestIsSmaller ==
  ASSUME NEW S, IsFiniteSet(S), NEW s \in SUBSET S
  PROVE  /\ IsFiniteSet(s) /\ Cardinality(s) \in Nat
         /\ s = {} <=> Cardinality(s) = 0
         /\ s # {} => /\ Chosen(s) \in s /\ Rest(s) \in SUBSET S
                      /\ Cardinality(Rest(s)) = Cardinality(s) - 1
<1>1. IsFiniteSet(s) /\ Cardinality(s) \in Nat
  BY FS_Subset, FS_CardinalityType
<1>2. s # {} => Chosen(s) \in s
  BY DEF Chosen
<1>3. s # {} => Cardinality(Rest(s)) = Cardinality(s) - 1
  BY <1>1, <1>2, FS_RemoveElement DEF Rest
<1> QED
  BY <1>1, <1>2, <1>3, FS_EmptySet DEF Rest

\* Step by step there is such a sum on all subsets of a finite set.
LEMMA SumsExist ==
  ASSUME NEW S, IsFiniteSet(S), NEW f \in [S -> Nat]
  PROVE  \E sum \in [SUBSET S -> Nat] : AddsUp(sum, f, S, Cardinality(S))
<1>. DEFINE Some(n) == \E sum \in [SUBSET S -> Nat] : AddsUp(sum, f, S, n)
            T == {n \in Nat : ~ Some(n)}
<1>1. ASSUME T # {}
      PROVE  FALSE
  <2>1. PICK n \in T : \A k \in T : n <= k
    <3>1. T \in SUBSET Nat
      OBVIOUS
    <3>. HIDE DEF T
    <3> QED
      BY <1>1, <3>1, LeastNumber
  <2>2. /\ n \in Nat
        /\ ~ Some(n)
        /\ \A k \in Nat : k < n => Some(k)
    <3>. HIDE DEF Some
    <3> QED
      BY <2>1
  <2>. HIDE DEF T
  <2>3. CASE n = 0
    <3>. DEFINE zero == [s \in SUBSET S |-> 0]
    <3>1. zero \in [SUBSET S -> Nat]
      OBVIOUS
    <3>2. ASSUME NEW s \in SUBSET S, Cardinality(s) <= 0
          PROVE  zero[s] = IF s = {} THEN 0 ELSE f[Chosen(s)] + zero[Rest(s)]
      <4>1. s = {}
        BY <3>2, RestIsSmaller
      <4> QED
        BY <4>1
    <3>. HIDE DEF zero
    <3>3. AddsUp(zero, f, S, 0)
      BY <3>2 DEF AddsUp
    <3> QED
      BY <2>2, <2>3, <3>1, <3>3
  <2>4. CASE n # 0
    <3>1. n - 1 \in Nat /\ n - 1 < n
      BY <2>2, <2>4
    <3>2. PICK g \in [SUBSET S -> Nat] : AddsUp(g, f, S, n - 1)
      BY <2>2, <3>1
    <3>. DEFINE h == [s \in SUBSET S |-> IF s = {} \/ Cardinality(s) <= n - 1 THEN g[s]
                                         ELSE f[Chosen(s)] + g[Rest(s)]]
    <3>3. h \in [SUBSET S -> Nat]
      <4>. SUFFICES ASSUME NEW s \in SUBSET S, s # {}
                    PROVE  f[Chosen(s)] + g[Rest(s)] \in Nat
        OBVIOUS
      <4>1. Chosen(s) \in S /\ Rest(s) \in SUBSET S
        BY RestIsSmaller
      <4> QED
        BY <4>1
    <3>4. ASSUME NEW s \in SUBSET S, Cardinality(s) <= n
          PROVE  h[s] = IF s = {} THEN 0 ELSE f[Chosen(s)] + h[Rest(s)]
      <4>1. CASE s = {}
        <5>1. h[s] = g[s]
          BY <4>1
        <5>2. Cardinality(s) = 0
          BY <4>1, RestIsSmaller
        <5>3. Cardinality(s) <= n - 1
          BY <3>1, <5>2
        <5> QED
          BY <3>2, <4>1, <5>1, <5>3 DEF AddsUp
      <4>2. CASE s # {}
        <5>. DEFINE r == Rest(s)
        <5>1. r \in SUBSET S /\ Cardinality(r) <= n - 1
          BY <2>2, <3>4, <4>2, RestIsSmaller
        <5>2. h[r] = g[r]
          BY <5>1
        <5>3. h[s] = f[Chosen(s)] + g[r]
          <6>1. CASE Cardinality(s) <= n - 1
            BY <3>2, <4>2, <6>1 DEF AddsUp
          <6>2. CASE ~ (Cardinality(s) <= n - 1)
            BY <4>2, <6>2
          <6> QED
            BY <6>1, <6>2
        <5> QED
          BY <4>2, <5>2, <5>3
      <4> QED
        BY <4>1, <4>2
    <3>. HIDE DEF h
    <3>5. AddsUp(h, f, S, n)
      BY <3>4 DEF AddsUp
    <3> QED
      BY <2>2, <3>3, <3>5
  <2> QED
    BY <2>3, <2>4
<1>2. Cardinality(S) \in Nat /\ T = {}
  BY <1>1, FS_CardinalityType
<1> QED
  BY <1>2

\* What the sums of the library are: such a sum of the whole set.
LEMMA SumFunctionAddsUp ==
  ASSUME NEW S, IsFiniteSet(S), NEW f \in [S -> Nat]
  PROVE  \E sum : /\ \A s \in SUBSET S :
                       sum[s] = IF s = {} THEN 0 ELSE f[Chosen(s)] + sum[Rest(s)]
                  /\ SumFunction(f) = sum[S]
<1>. DEFINE values(g) == [s \in SUBSET S |->
                            IF s = {} THEN 0 ELSE f[Chosen(s)] + g[Rest(s)]]
            iter == CHOOSE g : g = values(g)
<1>1. PICK sum \in [SUBSET S -> Nat] : AddsUp(sum, f, S, Cardinality(S))
  BY SumsExist
<1>2. \A s \in SUBSET S : sum[s] = IF s = {} THEN 0 ELSE f[Chosen(s)] + sum[Rest(s)]
  <2>1. \A s \in SUBSET S : Cardinality(s) <= Cardinality(S)
    BY FS_Subset
  <2> QED
    BY <1>1, <2>1 DEF AddsUp
<1>3. sum = values(sum)
  BY <1>2
<1>4. iter = values(iter)
  BY <1>3, Zenon
<1>5. SumFunction(f) = iter[S]
  BY Zenon DEF SumFunction, SumFunctionOnSet, FoldFunctionOnSet, MapThenFoldSet, Chosen, Rest
<1>. HIDE DEF iter
<1>6. \A s \in SUBSET S : iter[s] = IF s = {} THEN 0 ELSE f[Chosen(s)] + iter[Rest(s)]
  BY <1>4
<1> QED
  BY <1>5, <1>6

\* The sizes of the parts of a set add up to its size.
LEMMA PartsAddUp ==
  ASSUME NEW R, IsFiniteSet(R), NEW val,
         NEW f, f = [v \in {val[l] : l \in R} |-> Cardinality({l \in R : val[l] = v})]
  PROVE  SumFunction(f) = Cardinality(R)
<1>. DEFINE V == {val[l] : l \in R}
            Part(s) == {l \in R : val[l] \in s}
<1>1. IsFiniteSet(V)
  <2>. DEFINE image == [l \in R |-> val[l]]
  <2>1. image \in Surjection(R, V)
    BY DEF Surjection
  <2>. HIDE DEF image, V
  <2> QED
    BY <2>1, FS_Surjection
<1>2. \A s : IsFiniteSet(Part(s)) /\ Cardinality(Part(s)) \in Nat
  <2>1. \A s : Part(s) \in SUBSET R
    OBVIOUS
  <2>. HIDE DEF Part
  <2> QED
    BY <2>1, FS_Subset, FS_CardinalityType
<1>3. /\ f \in [V -> Nat]
      /\ \A v \in V : f[v] = Cardinality(Part({v}))
  <2>1. \A v : {l \in R : val[l] = v} = Part({v})
    OBVIOUS
  <2>2. f = [v \in V |-> Cardinality(Part({v}))]
    BY <2>1
  <2>. HIDE DEF Part, V
  <2> QED
    BY <1>2, <2>2
<1>4. PICK sum : /\ \A s \in SUBSET V :
                      sum[s] = IF s = {} THEN 0 ELSE f[Chosen(s)] + sum[Rest(s)]
                 /\ SumFunction(f) = sum[V]
  <2>. HIDE DEF V
  <2> QED
    BY <1>1, <1>3, SumFunctionAddsUp
<1>5. ASSUME NEW s \in SUBSET V, s # {}, sum[Rest(s)] = Cardinality(Part(Rest(s)))
      PROVE  sum[s] = Cardinality(Part(s))
  <2>1. Chosen(s) \in V /\ Chosen(s) \in s
    BY <1>5 DEF Chosen
  <2>2. /\ Part(s) = Part({Chosen(s)}) \cup Part(Rest(s))
        /\ Part({Chosen(s)}) \cap Part(Rest(s)) = {}
    BY <2>1 DEF Rest
  <2>3. sum[s] = f[Chosen(s)] + sum[Rest(s)]
    BY <1>4, <1>5
  <2>. HIDE DEF V
  <2>. DEFINE first == Part({Chosen(s)})
              others == Part(Rest(s))
  <2>4. /\ IsFiniteSet(first) /\ IsFiniteSet(others)
        /\ Part(s) = first \cup others /\ first \cap others = {}
        /\ f[Chosen(s)] = Cardinality(first) /\ sum[Rest(s)] = Cardinality(others)
    BY <1>2, <1>3, <1>5, <2>1, <2>2
  <2>. HIDE DEF first, others, Part
  <2> QED
    BY <2>3, <2>4, DisjointUnion
<1>6. sum[{}] = Cardinality(Part({}))
  <2>1. Part({}) = {}
    OBVIOUS
  <2> QED
    BY <1>4, <2>1, FS_EmptySet
<1>. DEFINE T == {n \in Nat : \E s \in SUBSET V : /\ Cardinality(s) = n
                                               /\ sum[s] # Cardinality(Part(s))}
<1>7. T = {}
  <2>. SUFFICES ASSUME T # {}
                PROVE  FALSE
    OBVIOUS
  <2>. HIDE DEF V, Part
  <2>1. PICK n \in T : \A k \in T : n <= k
    <3>1. T \in SUBSET Nat
      OBVIOUS
    <3>. HIDE DEF T
    <3> QED
      BY <3>1, LeastNumber
  <2>2. PICK s \in SUBSET V : Cardinality(s) = n /\ sum[s] # Cardinality(Part(s))
    BY <2>1
  <2>3. s # {}
    BY <1>6, <2>2
  <2>4. Rest(s) \in SUBSET V /\ Cardinality(Rest(s)) = n - 1 /\ n - 1 \in Nat
    BY <1>1, <2>2, <2>3, RestIsSmaller
  <2>5. n - 1 \notin T
    BY <2>1, <2>4
  <2>6. sum[Rest(s)] = Cardinality(Part(Rest(s)))
    BY <2>4, <2>5
  <2> QED
    BY <1>5, <2>2, <2>3, <2>6
<1>8. sum[V] = Cardinality(Part(V))
  <2>1. Cardinality(V) \in Nat
    BY <1>1, FS_CardinalityType
  <2>. HIDE DEF Part, V
  <2> QED
    BY <1>7, <2>1
<1>9. Part(V) = R
  OBVIOUS
<1> QED
  BY <1>4, <1>8, <1>9

\* A sum of numbers none of which is above m.
LEMMA SumBound ==
  ASSUME NEW S, IsFiniteSet(S), NEW f \in [S -> Nat], NEW m \in Nat,
         \A x \in S : f[x] <= m
  PROVE  SumFunction(f) \in Nat /\ SumFunction(f) <= m * Cardinality(S)
<1>1. PICK sum : /\ \A s \in SUBSET S :
                      sum[s] = IF s = {} THEN 0 ELSE f[Chosen(s)] + sum[Rest(s)]
                 /\ SumFunction(f) = sum[S]
  BY SumFunctionAddsUp
<1>2. ASSUME NEW s \in SUBSET S, s # {},
             sum[Rest(s)] \in Nat, sum[Rest(s)] <= m * Cardinality(Rest(s))
      PROVE  sum[s] \in Nat /\ sum[s] <= m * Cardinality(s)
  <2>. DEFINE a == f[Chosen(s)]
              b == sum[Rest(s)]
              n == Cardinality(s)
  <2>1. a \in Nat /\ a <= m /\ sum[s] = a + b
    <3>1. Chosen(s) \in S
      BY <1>2, RestIsSmaller
    <3> QED
      BY <1>1, <1>2, <3>1
  <2>2. n \in Nat /\ b \in Nat /\ b <= m * (n - 1)
    BY <1>2, RestIsSmaller
  <2>. HIDE DEF a, b, n
  <2>3. m * n = m * (n - 1) + m /\ m * (n - 1) \in Int
    BY <2>2
  <2>. DEFINE most == m * (n - 1)
  <2>4. a + b \in Nat /\ a + b <= most + m
    <3>1. most \in Int /\ b <= most
      BY <2>2, <2>3
    <3>. HIDE DEF most
    <3> QED
      BY <2>1, <2>2, <3>1
  <2>5. sum[s] \in Nat /\ sum[s] <= m * n
    BY <2>1, <2>3, <2>4
  <2> QED
    BY <2>5 DEF n
<1>. DEFINE Bounded(s) == sum[s] \in Nat /\ sum[s] <= m * Cardinality(s)
            T == {n \in Nat : \E s \in SUBSET S : Cardinality(s) = n /\ ~ Bounded(s)}
<1>3. T = {}
  <2>. SUFFICES ASSUME T # {}
                PROVE  FALSE
    OBVIOUS
  <2>. HIDE DEF Bounded
  <2>1. PICK n \in T : \A k \in T : n <= k
    <3>1. T \in SUBSET Nat
      OBVIOUS
    <3>. HIDE DEF T
    <3> QED
      BY <3>1, LeastNumber
  <2>2. PICK s \in SUBSET S : Cardinality(s) = n /\ ~ Bounded(s)
    BY <2>1
  <2>3. CASE s = {}
    <3>1. Cardinality(s) = 0 /\ sum[s] = 0
      BY <1>1, <2>3, FS_EmptySet
    <3> QED
      BY <2>2, <3>1 DEF Bounded
  <2>4. CASE s # {}
    <3>1. Rest(s) \in SUBSET S /\ Cardinality(Rest(s)) = n - 1 /\ n - 1 \in Nat
      BY <2>2, <2>4, RestIsSmaller
    <3>2. n - 1 \notin T
      BY <2>1, <3>1
    <3>3. Bounded(Rest(s))
      BY <3>1, <3>2
    <3> QED
      BY <1>2, <2>2, <2>4, <3>3 DEF Bounded
  <2> QED
    BY <2>3, <2>4
<1>4. Bounded(S)
  <2>1. Cardinality(S) \in Nat
    BY FS_CardinalityType
  <2>. HIDE DEF Bounded
  <2> QED
    BY <1>3, <2>1
<1> QED
  BY <1>1, <1>4

\* A finite set in order can be listed in that order.
LEMMA ListExists ==
  ASSUME NEW S, IsFiniteSet(S), NEW R, Orders(R, S)
  PROVE  \E list \in SetToSeqs(S) :
           \A i, j \in DOMAIN list : <<list[i], list[j]>> \in R => i < j
<1>. DEFINE N == Cardinality(S)
            list == [i \in 1..N |-> CHOOSE r \in S : Place(R, S, r) = i - 1]
<1>1. N \in Nat
  BY FS_CardinalityType
<1>2. \A i \in 1..N : \E r \in S : Place(R, S, r) = i - 1
  <2>. SUFFICES ASSUME NEW i \in 1..N
                PROVE  \E r \in S : Place(R, S, r) = i - 1
    OBVIOUS
  <2>1. i - 1 \in 0..(N - 1)
    BY <1>1
  <2> QED
    BY <2>1, EveryPlaceIsTaken
<1>3. /\ list \in [1..N -> S]
      /\ \A i \in 1..N : Place(R, S, list[i]) = i - 1
  BY <1>2
<1>. HIDE DEF list
<1>4. \A i, j \in 1..N : i # j => list[i] # list[j]
  BY <1>1, <1>3
<1>5. \A i, j \in 1..N : <<list[i], list[j]>> \in R => i < j
  <2>. SUFFICES ASSUME NEW i \in 1..N, NEW j \in 1..N, <<list[i], list[j]>> \in R
                PROVE  i < j
    OBVIOUS
  <2>1. Place(R, S, list[i]) < Place(R, S, list[j])
    BY <1>3, Ranks
  <2> QED
    BY <1>1, <1>3, <2>1
<1>6. list \in SetToSeqs(S) /\ DOMAIN list = 1..N
  BY <1>3, <1>4 DEF SetToSeqs
<1> QED
  BY <1>5, <1>6

\* The order of the groups by their counts, and by id where these agree.
ByCount == {p \in Present \X Present :
              \/ groups[p[1]].count > groups[p[2]].count
              \/ groups[p[1]].count = groups[p[2]].count /\ Rank[p[1]] < Rank[p[2]]}

\* A group that exists counts its occurrences.
LEMMA CountsAreNumbers ==
  ASSUME StoreTypeOK
  PROVE  \A g \in Present : g \in Groups /\ groups[g].count \in Nat
BY DEF Present, GroupRows

\* The first of the most frequent groups is at least as frequent as any other.
LEMMA FirstIsMostFrequent ==
  ASSUME StoreTypeOK, CountsAreExact, NEW g \in Present
  PROVE  /\ MostFrequent[1].count \in Nat
         /\ groups[g].count <= MostFrequent[1].count
<1>. DEFINE before(a, b) == \/ groups[a].count > groups[b].count
                            \/ groups[a].count = groups[b].count /\ Rank[a] < Rank[b]
            N == Cardinality(Present)
            ordered(seq) == \A i, j \in DOMAIN seq : before(seq[i], seq[j]) => i < j
            list == CHOOSE seq \in SetToSeqs(Present) : ordered(seq)
<1>1. IsFiniteSet(Present) /\ N \in Nat /\ N # 0
  BY PresentIsFinite, FS_CardinalityType, FS_EmptySet
<1>2. Orders(ByCount, Present)
  <2>1. \A a, b \in Present : <<a, b>> \in ByCount <=> before(a, b)
    BY DEF ByCount
  <2>2. \A a, b \in Present : /\ Rank[a] \in Nat
                              /\ Rank[a] = Rank[b] => a = b
    BY SummaryAssumption, CountsAreNumbers
  <2> QED
    BY <2>1, <2>2, CountsAreNumbers DEF Orders
<1>3. \E seq \in SetToSeqs(Present) : ordered(seq)
  <2>1. PICK seq \in SetToSeqs(Present) :
          \A i, j \in DOMAIN seq : <<seq[i], seq[j]>> \in ByCount => i < j
    BY <1>1, <1>2, ListExists
  <2>2. \A i \in DOMAIN seq : seq[i] \in Present
    BY DEF SetToSeqs
  <2>3. ordered(seq)
    BY <2>1, <2>2 DEF ByCount
  <2> QED
    BY <2>3
<1>4. list \in SetToSeqs(Present) /\ ordered(list)
  BY <1>3
<1>5. MostFrequent = [i \in DOMAIN list \cap 1..Top |->
                        [group |-> list[i], count |-> groups[list[i]].count]]
  BY Zenon DEF MostFrequent
<1>. HIDE DEF list
<1>6. /\ list \in [1..N -> Present] /\ DOMAIN list = 1..N
      /\ \A i, j \in 1..N : i # j => list[i] # list[j]
  BY <1>4 DEF SetToSeqs
<1>7. 1 \in 1..N /\ 1 \in 1..Top
  BY <1>1, SummaryAssumption
<1>8. MostFrequent[1].count = groups[list[1]].count
  BY <1>5, <1>6, <1>7
<1>9. PICK i \in 1..N : g = list[i]
  <2>1. list \in Injection(1..N, Present)
    BY <1>6 DEF Injection, IsInjective
  <2>2. IsFiniteSet(1..N) /\ Cardinality(1..N) = N
    BY <1>1, Numbers
  <2>3. list \in Surjection(1..N, Present)
    BY <1>1, <2>1, <2>2, FS_Injection
  <2> QED
    BY <2>3 DEF Surjection
<1>10. ~ before(g, list[1])
  BY <1>1, <1>4, <1>6, <1>7, <1>9
<1>11. list[1] \in Present
  BY <1>6, <1>7
<1> QED
  BY <1>8, <1>10, <1>11, CountsAreNumbers

\* What a statement of the summary returns, as far as it is compared.
LEMMA Figures ==
  ASSUME StoreTypeOK, CountsAreExact, NEW since \in Times
  PROVE  /\ Figure("total", since) = Cardinality(Stored)
         /\ Figure("last_24h", since) = Cardinality(Recent(since))
         /\ \A column \in Breakdowns :
              SumFunction(Figure(column, since)) = Cardinality(Recent(since))
         /\ Figure("unresolved", since) <= Cardinality(Present)
         /\ Figure("unresolved", since) \in Nat
         /\ Figure("frequent", since) = MostFrequent
         /\ Figure("average", since).of = Cardinality(Present)
         /\ Figure("average", since).sum = SumFunction([g \in Present |-> groups[g].count])
         /\ Cardinality(Stored) \in Nat /\ Cardinality(Recent(since)) \in Nat
         /\ Cardinality(Recent(since)) <= Cardinality(Stored)
         /\ Cardinality(Present) \in Nat
<1>1. IsFiniteSet(Stored) /\ IsFiniteSet(Recent(since)) /\ Recent(since) \subseteq Stored
  <2>1. Stored \subseteq Logs /\ Recent(since) \subseteq Stored
    BY DEF Stored, Recent
  <2> QED
    BY <2>1, RowsAssumption, FS_Subset
<1>2. /\ Cardinality(Stored) \in Nat /\ Cardinality(Recent(since)) \in Nat
      /\ Cardinality(Recent(since)) <= Cardinality(Stored)
      /\ Cardinality(Present) \in Nat
  BY <1>1, PresentIsFinite, FS_Subset, FS_CardinalityType
<1>3. ASSUME NEW column \in Breakdowns
      PROVE  SumFunction(Figure(column, since)) = Cardinality(Recent(since))
  <2>. DEFINE R == Recent(since)
              val == ValueOf[column]
              f == [v \in {val[l] : l \in R} |-> Cardinality({l \in R : val[l] = v})]
  <2>1. Figure(column, since) = f
    BY DEF Figure, Breakdowns
  <2>2. SumFunction(f) = Cardinality(R)
    BY <1>1, PartsAddUp
  <2> QED
    BY <2>1, <2>2
<1>4. /\ Figure("unresolved", since) <= Cardinality(Present)
      /\ Figure("unresolved", since) \in Nat
  <2>. DEFINE U == {g \in Groups : groups[g].status = "unresolved"}
  <2>1. U \subseteq Present
    BY DEF Present
  <2>2. Figure("unresolved", since) = Cardinality(U)
    BY DEF Figure, Breakdowns
  <2>. HIDE DEF U
  <2> QED
    BY <2>1, <2>2, PresentIsFinite, FS_Subset, FS_CardinalityType
<1>5. /\ Figure("total", since) = Cardinality(Stored)
      /\ Figure("last_24h", since) = Cardinality(Recent(since))
      /\ Figure("frequent", since) = MostFrequent
      /\ Figure("average", since).of = Cardinality(Present)
      /\ Figure("average", since).sum = SumFunction([g \in Present |-> groups[g].count])
  BY DEF Figure, Breakdowns
<1> QED
  BY <1>2, <1>3, <1>4, <1>5

\* The rows that a write changes.
Rewritten == {l \in Logs : rows'[l] # rows[l]}
Recounted == {g \in Groups : groups'[g] # groups[g]}

\* A write changes no figure by more than the rows it changes.
LEMMA WritesMoveFigures ==
  ASSUME StoreTypeOK, StoreTypeOK', CountsAreExact, CountsAreExact', Write,
         NEW since \in Times
  PROVE  LET m == Cardinality(Rewritten)
             n == Cardinality(Recounted)
         IN  /\ m \in Nat /\ n \in Nat
             /\ Cardinality(Stored') <= Cardinality(Stored) + m
             /\ Cardinality(Recent(since)') <= Cardinality(Recent(since)) + m
             /\ Cardinality(Recent(since)) <= Cardinality(Recent(since)') + m
             /\ Cardinality(Present) <= Cardinality(Present') + n
             /\ n = 0 => /\ Present' = Present
                         /\ \A g \in Present : groups'[g] = groups[g]
<1>1. /\ IsFiniteSet(Rewritten) /\ IsFiniteSet(Stored) /\ IsFiniteSet(Stored')
      /\ IsFiniteSet(Recent(since)) /\ IsFiniteSet(Recent(since)')
  <2>1. /\ Rewritten \subseteq Logs /\ Stored \subseteq Logs /\ Stored' \subseteq Logs
        /\ Recent(since) \subseteq Logs /\ Recent(since)' \subseteq Logs
    BY DEF Rewritten, Stored, Recent
  <2> QED
    BY <2>1, RowsAssumption, FS_Subset
<1>2. IsFiniteSet(Recounted)
  <2>1. \E g : Recounted \subseteq {g}
    <3>1. ASSUME NEW l \in Logs, NEW t \in Times, Ingest(l, t)
          PROVE  Recounted \subseteq {GroupOf[l]}
      BY <3>1 DEF Ingest, Recounted
    <3>2. ASSUME NEW gone \in SUBSET Logs, DeleteLogs(gone)
          PROVE  Recounted \subseteq {}
      BY <3>2 DEF DeleteLogs, Recounted
    <3>3. ASSUME NEW g \in Groups, NEW status, SetStatus(g, status)
          PROVE  Recounted \subseteq {g}
      BY <3>3 DEF SetStatus, Recounted
    <3>4. ASSUME NEW g \in Groups, NEW user, Assign(g, user)
          PROVE  Recounted \subseteq {g}
      BY <3>4 DEF Assign, Recounted
    <3> QED
      BY <3>1, <3>2, <3>3, <3>4 DEF Write
  <2>2. PICK g : Recounted \subseteq {g}
    BY <2>1
  <2> QED
    BY <2>2, FS_Singleton, FS_Subset
<1>3. IsFiniteSet(Present) /\ IsFiniteSet(Present')
  <2>1. Present' \subseteq Present \cup Recounted
    BY DEF Present, Recounted
  <2>2. IsFiniteSet(Present \cup Recounted)
    BY <1>2, PresentIsFinite, FS_Union
  <2> QED
    BY <2>1, <2>2, PresentIsFinite, FS_Subset
<1>4. /\ Stored' \subseteq Stored \cup Rewritten
      /\ Recent(since)' \subseteq Recent(since) \cup Rewritten
      /\ Recent(since) \subseteq Recent(since)' \cup Rewritten
      /\ Present \subseteq Present' \cup Recounted
  BY DEF Stored, Recent, Rewritten, Present, Recounted
<1>5. Recounted = {} => /\ Present' = Present
                        /\ \A g \in Present : groups'[g] = groups[g]
  BY DEF Present, Recounted
<1>6. /\ Cardinality(Rewritten) \in Nat /\ Cardinality(Recounted) \in Nat
      /\ Cardinality(Recounted) = 0 => Recounted = {}
  BY <1>1, <1>2, FS_CardinalityType, FS_EmptySet
<1> QED
  BY <1>1, <1>2, <1>3, <1>4, <1>5, <1>6, UnionBound

-----------------------------------------------------------------------------
(* The summary *)

\* The figures that were read so far.
Shown == Len(task.figures)

Fig(i) == task.figures[i]

\* While an execution reads, each figure is as near to what it was read from, and
\* to the figures read after it, as the rows written since allow.
TotalHolds ==
  Shown >= 1 => Fig(1) \in Nat /\ Cardinality(Stored) <= Fig(1) + task.logs

RecentHolds ==
  Shown >= 2 => /\ Fig(2) \in Nat /\ Fig(2) <= Fig(1) + task.logs
                /\ Near(Fig(2), Cardinality(Recent(task.since)), task.logs)

PartsHold ==
  \A i \in 3..5 :
    Shown >= i => /\ SumFunction(Fig(i)) \in Nat
                  /\ Near(Fig(2), SumFunction(Fig(i)), task.logs)

UnresolvedHolds ==
  Shown >= 6 => Fig(6) \in Nat /\ Fig(6) <= Cardinality(Present) + task.groups

FrequentHolds ==
  Shown >= 7 /\ task.groups = 0 =>
    \A g \in Present : /\ Fig(7)[1].count \in Nat
                       /\ groups[g].count <= Fig(7)[1].count

AverageHolds ==
  Shown >= 8 =>
    /\ Fig(8).of \in Nat /\ Fig(6) <= Fig(8).of + task.groups
    /\ task.groups = 0 /\ Fig(8).of > 0 => Fig(8).sum <= Fig(7)[1].count * Fig(8).of

FiguresInv ==
  /\ task.logs \in Nat /\ task.groups \in Nat
  /\ task.running \/ Shown = 0
  /\ TotalHolds /\ RecentHolds /\ PartsHold
  /\ UnresolvedHolds /\ FrequentHolds /\ AverageHolds

\* Nothing is claimed of an execution that has read nothing.
LEMMA NothingShown ==
  ASSUME task = IdleTask
  PROVE  FiguresInv
<1>1. Shown = 0 /\ task.logs = 0 /\ task.groups = 0
  BY DEF Shown, IdleTask
<1> QED
  BY <1>1 DEF FiguresInv, TotalHolds, RecentHolds, PartsHold, UnresolvedHolds,
              FrequentHolds, AverageHolds

\* A write that moves figures is counted.
LEMMA WriteKeepsFigures ==
  ASSUME ListInv, ListInv', TaskInv, FiguresInv, Write, SummaryChanges
  PROVE  FiguresInv'
<1>0. Shown \in Nat
  BY DEF Shown, TaskInv
<1>1. CASE ~ task.running
  <2>1. Shown = 0 /\ task' = task
    BY <1>1 DEF FiguresInv, SummaryChanges
  <2> QED
    BY <1>0, <2>1 DEF FiguresInv, TotalHolds, RecentHolds, PartsHold, UnresolvedHolds,
              FrequentHolds, AverageHolds, Shown
<1>2. CASE task.running
  <2>. DEFINE m == Cardinality(Rewritten)
              n == Cardinality(Recounted)
  <2>0. PICK since \in Times : since = task.since
    BY DEF TaskInv
  <2>1. task' = [task EXCEPT !.logs = task.logs + m, !.groups = task.groups + n]
    BY <1>2, Zenon DEF SummaryChanges, Rewritten, Recounted
  <2>2. /\ task'.running = task.running /\ task'.since = since
        /\ task'.figures = task.figures
        /\ task'.logs = task.logs + m /\ task'.groups = task.groups + n
    <3>1. task = [running |-> task.running, since |-> task.since,
                  figures |-> task.figures, logs |-> task.logs, groups |-> task.groups]
      BY DEF TaskInv
    <3>. HIDE DEF m, n
    <3> QED
      BY <2>0, <2>1, <3>1
  <2>3. Shown' = Shown /\ Shown \in Nat
    BY <1>0, <2>2 DEF Shown
  <2>5. /\ m \in Nat /\ n \in Nat
        /\ Cardinality(Stored') <= Cardinality(Stored) + m
        /\ Cardinality(Recent(since)') <= Cardinality(Recent(since)) + m
        /\ Cardinality(Recent(since)) <= Cardinality(Recent(since)') + m
        /\ Cardinality(Present) <= Cardinality(Present') + n
        /\ n = 0 => /\ Present' = Present
                    /\ \A g \in Present : groups'[g] = groups[g]
    BY WritesMoveFigures DEF ListInv
  <2>6. /\ task.logs \in Nat /\ task.groups \in Nat
        /\ TotalHolds /\ RecentHolds /\ PartsHold
        /\ UnresolvedHolds /\ FrequentHolds /\ AverageHolds
    BY DEF FiguresInv
  <2>7. /\ Cardinality(Stored) \in Nat /\ Cardinality(Stored') \in Nat
        /\ Cardinality(Recent(since)) \in Nat /\ Cardinality(Recent(since)') \in Nat
        /\ Cardinality(Present) \in Nat /\ Cardinality(Present') \in Nat
    <3>1. /\ Stored \subseteq Logs /\ Stored' \subseteq Logs
          /\ Recent(since) \subseteq Logs /\ Recent(since)' \subseteq Logs
      BY DEF Stored, Recent
    <3>2. IsFiniteSet(Present) /\ IsFiniteSet(Present')
      BY DEF ListInv
    <3> QED
      BY <3>1, <3>2, RowsAssumption, FS_Subset, FS_CardinalityType
  <2>. HIDE DEF m, n
  <2>8. TotalHolds'
    BY <2>2, <2>3, <2>5, <2>6, <2>7 DEF TotalHolds, Fig
  <2>9. RecentHolds'
    <3>1. Recent(task.since)' = Recent(since)' /\ Recent(task.since) = Recent(since)
      BY <2>0, <2>2 DEF Recent
    <3>2. CASE Shown >= 2
      <4>. DEFINE r == Cardinality(Recent(since))
                  q == Cardinality(Recent(since)')
      <4>1. /\ Fig(2) \in Nat /\ Fig(2) <= Fig(1) + task.logs /\ Fig(1) \in Nat
            /\ Fig(2) <= r + task.logs /\ r <= Fig(2) + task.logs
        BY <2>3, <2>6, <3>1, <3>2 DEF RecentHolds, TotalHolds, Near
      <4>2. /\ q <= r + m /\ r <= q + m /\ q \in Nat /\ r \in Nat
        BY <2>5, <2>7
      <4>3. Cardinality(Recent(task.since)') = q
        BY <3>1
      <4>. HIDE DEF r, q
      <4>4. /\ Fig(2) <= q + (task.logs + m) /\ q <= Fig(2) + (task.logs + m)
            /\ Fig(2) <= Fig(1) + (task.logs + m)
        BY <2>5, <2>6, <4>1, <4>2
      <4> QED
        BY <2>2, <4>1, <4>3, <4>4 DEF RecentHolds, Near, Fig
    <3> QED
      BY <2>3, <3>2 DEF RecentHolds
  <2>10. PartsHold'
    <3>. SUFFICES ASSUME NEW i \in 3..5, Shown >= i
                  PROVE  /\ SumFunction(Fig(i)') \in Nat
                         /\ Near(Fig(2)', SumFunction(Fig(i)'), task'.logs)
      BY <2>3 DEF PartsHold
    <3>1. Fig(i)' = Fig(i) /\ Fig(2)' = Fig(2)
      BY <2>2 DEF Fig
    <3>2. SumFunction(Fig(i)) \in Nat /\ Near(Fig(2), SumFunction(Fig(i)), task.logs)
      BY <2>6 DEF PartsHold
    <3>3. Shown >= 2 /\ Fig(2) \in Nat
      BY <2>3, <2>6 DEF RecentHolds
    <3>. DEFINE sum == SumFunction(Fig(i))
                two == Fig(2)
    <3>4. sum \in Nat /\ two \in Nat /\ two <= sum + task.logs /\ sum <= two + task.logs
      BY <3>2, <3>3 DEF Near
    <3>. HIDE DEF sum, two
    <3>5. two <= sum + task'.logs /\ sum <= two + task'.logs
      BY <2>2, <2>5, <2>6, <3>4
    <3> QED
      BY <3>1, <3>4, <3>5 DEF sum, two, Near
  <2>11. UnresolvedHolds'
    BY <2>2, <2>3, <2>5, <2>6, <2>7 DEF UnresolvedHolds, Fig
  <2>12. FrequentHolds'
    <3>. SUFFICES ASSUME Shown >= 7, task'.groups = 0, NEW g \in Present'
                  PROVE  /\ Fig(7)[1].count' \in Nat
                         /\ groups'[g].count <= Fig(7)[1].count'
      BY <2>3 DEF FrequentHolds
    <3>1. task.groups = 0 /\ n = 0
      BY <2>2, <2>5, <2>6
    <3>2. g \in Present /\ groups'[g] = groups[g]
      BY <2>5, <3>1
    <3>3. Fig(7)[1].count \in Nat /\ groups[g].count <= Fig(7)[1].count
      BY <2>6, <3>1, <3>2 DEF FrequentHolds
    <3>4. Fig(7)' = Fig(7)
      BY <2>2 DEF Fig
    <3> QED
      BY <3>2, <3>3, <3>4
  <2>13. AverageHolds'
    <3>. SUFFICES ASSUME Shown >= 8
                  PROVE  AverageHolds'
      BY <2>3 DEF AverageHolds
    <3>1. /\ Fig(8).of \in Nat /\ Fig(6) <= Fig(8).of + task.groups
          /\ task.groups = 0 /\ Fig(8).of > 0 => Fig(8).sum <= Fig(7)[1].count * Fig(8).of
      BY <2>6 DEF AverageHolds
    <3>2. Fig(6) \in Nat
      BY <2>3, <2>6 DEF UnresolvedHolds
    <3>3. Fig(6) <= Fig(8).of + task'.groups
      BY <2>2, <2>5, <2>6, <3>1, <3>2
    <3>4. task'.groups = 0 => task.groups = 0
      BY <2>2, <2>5, <2>6
    <3>5. Fig(6)' = Fig(6) /\ Fig(7)' = Fig(7) /\ Fig(8)' = Fig(8)
      BY <2>2 DEF Fig
    <3> QED
      BY <3>1, <3>3, <3>4, <3>5 DEF AverageHolds
  <2>14. task'.logs \in Nat /\ task'.groups \in Nat /\ task'.running
    BY <1>2, <2>2, <2>5, <2>6
  <2> QED
    BY <2>8, <2>9, <2>10, <2>11, <2>12, <2>13, <2>14 DEF FiguresInv
<1> QED
  BY <1>1, <1>2

\* A statement adds its figure, and leaves those before it.
LEMMA ReadAppends ==
  ASSUME TaskInv, Read
  PROVE  /\ Shown \in 0..7 /\ Shown' = Shown + 1
         /\ \A i \in 1..Shown : Fig(i)' = Fig(i)
         /\ task'.figures[Shown + 1] = Figure(Statements[Shown + 1], task.since)
         /\ task'.since = task.since /\ task'.running = task.running
         /\ task'.logs = task.logs /\ task'.groups = task.groups
<1>. DEFINE x == Figure(Statements[Shown + 1], task.since)
            longer == Append(task.figures, x)
<1>1. task' = [task EXCEPT !.figures = longer]
  BY Zenon DEF Read, Shown
<1>2. task' = [running |-> task.running, since |-> task.since, figures |-> longer,
               logs |-> task.logs, groups |-> task.groups]
  <2>1. task = [running |-> task.running, since |-> task.since, figures |-> task.figures,
             logs |-> task.logs, groups |-> task.groups]
    BY DEF TaskInv
  <2>. HIDE DEF longer
  <2> QED
    BY <1>1, <2>1
<1>3. task'.figures = longer /\ task'.since = task.since /\ task'.running = task.running
      /\ task'.logs = task.logs /\ task'.groups = task.groups
  <2>. HIDE DEF longer
  <2> QED
    BY <1>2
<1>4. PICK S : task.figures \in Seq(S)
  BY DEF TaskInv
<1>5. Shown \in 0..7
  <2>. DEFINE length == Len(task.figures)
  <2>1. Len(Statements) = 8
    BY DEF Statements
  <2>2. length \in Nat
    BY <1>4
  <2>. HIDE DEF length
  <2>3. length <= 8 /\ length # 8
    <3>1. length <= Len(Statements)
      BY Zenon DEF TaskInv, length
    <3>2. length # Len(Statements)
      BY Zenon DEF Read, Complete, length
    <3> QED
      BY <2>1, <3>1, <3>2
  <2>4. length \in 0..7
    BY <2>2, <2>3
  <2> QED
    BY Zenon, <2>4 DEF Shown, length
<1>. HIDE DEF x
<1>6. task.figures \in Seq(S \cup {x}) /\ x \in S \cup {x}
  BY <1>4
<1>7. /\ Len(longer) = Shown + 1
      /\ \A i \in 1..Shown : longer[i] = task.figures[i]
      /\ longer[Shown + 1] = x
  BY <1>6 DEF Shown
<1>. HIDE DEF longer
<1>8. Shown' = Shown + 1 /\ \A i \in 1..Shown : Fig(i)' = Fig(i)
  BY <1>3, <1>7 DEF Shown, Fig
<1> QED
  BY <1>3, <1>5, <1>7, <1>8 DEF x

\* A statement keeps the figures as near to each other as they were.
LEMMA ReadKeepsFigures ==
  ASSUME ListInv, TaskInv, FiguresInv, Read, UNCHANGED store
  PROVE  FiguresInv'
<1>1. /\ Shown \in 0..7 /\ Shown' = Shown + 1
      /\ \A i \in 1..Shown : Fig(i)' = Fig(i)
      /\ task'.since = task.since /\ task'.running = task.running
      /\ task'.logs = task.logs /\ task'.groups = task.groups
  BY ReadAppends
<1>. DEFINE s == Statements[Shown + 1]
            x == Figure(s, task.since)
            stored == Cardinality(Stored)
            recent == Cardinality(Recent(task.since))
            present == Cardinality(Present)
<1>2. task'.figures[Shown + 1] = x
  BY ReadAppends
<1>3. /\ Figure("total", task.since) = stored
      /\ Figure("last_24h", task.since) = recent
      /\ \A column \in Breakdowns : SumFunction(Figure(column, task.since)) = recent
      /\ Figure("unresolved", task.since) <= present
      /\ Figure("unresolved", task.since) \in Nat
      /\ Figure("frequent", task.since) = MostFrequent
      /\ Figure("average", task.since).of = present
      /\ Figure("average", task.since).sum = SumFunction([g \in Present |-> groups[g].count])
      /\ stored \in Nat /\ recent \in Nat /\ recent <= stored /\ present \in Nat
  BY Figures DEF ListInv, TaskInv
<1>4. /\ task.logs \in Nat /\ task.groups \in Nat /\ task.running
      /\ TotalHolds /\ RecentHolds /\ PartsHold
      /\ UnresolvedHolds /\ FrequentHolds /\ AverageHolds
  BY DEF FiguresInv, Read
<1>5. /\ Stored' = Stored /\ Present' = Present
      /\ Recent(task.since)' = Recent(task.since)
      /\ \A g \in Present : groups'[g] = groups[g]
  BY <1>1 DEF Stored, Present, Recent
<1>6. /\ Statements[1] = "total" /\ Statements[2] = "last_24h"
      /\ Statements[3] \in Breakdowns /\ Statements[4] \in Breakdowns
      /\ Statements[5] \in Breakdowns
      /\ Statements[6] = "unresolved" /\ Statements[7] = "frequent"
      /\ Statements[8] = "average"
  BY DEF Statements, Breakdowns
<1>7. \A i \in 1..8 : Shown + 1 = i => Fig(i)' = Figure(Statements[i], task.since)
  BY <1>2 DEF Fig
<1>8. \A i \in 1..8 : Shown' >= i /\ Shown + 1 # i => Shown >= i /\ Fig(i)' = Fig(i)
  BY <1>1
<1>. HIDE DEF s, x, stored, recent, present
<1>9. TotalHolds'
  <2>1. CASE Shown = 0
    <3>1. Fig(1)' = stored
      BY <1>3, <1>6, <1>7, <2>1
    <3> QED
      BY <1>1, <1>3, <1>4, <1>5, <3>1 DEF TotalHolds, stored
  <2>2. CASE Shown # 0
    BY <1>1, <1>4, <1>5, <2>2 DEF TotalHolds
  <2> QED
    BY <2>1, <2>2
<1>10. RecentHolds'
  <2>1. CASE Shown = 1
    <3>1. Fig(2)' = recent /\ Fig(1)' = Fig(1)
      BY <1>1, <1>3, <1>6, <1>7, <2>1
    <3>2. Fig(1) \in Nat /\ stored <= Fig(1) + task.logs
      BY <1>4, <2>1 DEF TotalHolds, stored
    <3>3. recent \in Nat /\ recent <= Fig(1) + task.logs
          /\ recent <= recent + task.logs
      BY <1>3, <1>4, <3>2
    <3> QED
      BY <1>1, <1>5, <3>1, <3>3 DEF RecentHolds, Near, recent
  <2>2. CASE Shown # 1
    BY <1>1, <1>4, <1>5, <2>2 DEF RecentHolds, Near
  <2> QED
    BY <2>1, <2>2
<1>11. PartsHold'
  <2>. SUFFICES ASSUME NEW i \in 3..5, Shown' >= i
                PROVE  /\ SumFunction(Fig(i)') \in Nat
                       /\ Near(Fig(2)', SumFunction(Fig(i)'), task'.logs)
    BY DEF PartsHold
  <2>1. /\ Fig(2)' = Fig(2) /\ Fig(2) \in Nat
        /\ Fig(2) <= recent + task.logs /\ recent <= Fig(2) + task.logs
    BY <1>1, <1>4 DEF RecentHolds, Near, recent
  <2>2. CASE Shown + 1 = i
    <3>1. Statements[i] \in Breakdowns
      BY <1>6
    <3>2. Fig(i)' = Figure(Statements[i], task.since)
      BY <1>7, <2>2
    <3>3. SumFunction(Fig(i)') = recent
      BY <1>3, <3>1, <3>2
    <3> QED
      BY <1>1, <1>3, <2>1, <3>3 DEF Near
  <2>3. CASE Shown + 1 # i
    <3>1. Shown >= i /\ Fig(i)' = Fig(i)
      BY <1>8, <2>3
    <3> QED
      BY <1>1, <1>4, <2>1, <3>1 DEF PartsHold
  <2> QED
    BY <2>2, <2>3
<1>12. UnresolvedHolds'
  <2>1. CASE Shown = 5
    <3>1. Fig(6)' = Figure("unresolved", task.since)
      BY <1>6, <1>7, <2>1
    <3> QED
      BY <1>1, <1>3, <1>4, <1>5, <3>1 DEF UnresolvedHolds, present
  <2>2. CASE Shown # 5
    BY <1>1, <1>4, <1>5, <2>2 DEF UnresolvedHolds
  <2> QED
    BY <2>1, <2>2
<1>13. FrequentHolds'
  <2>. SUFFICES ASSUME Shown' >= 7, task'.groups = 0, NEW g \in Present
                PROVE  /\ Fig(7)[1].count' \in Nat
                       /\ groups[g].count <= Fig(7)[1].count'
    BY <1>5 DEF FrequentHolds
  <2>1. CASE Shown = 6
    <3>1. Fig(7)' = MostFrequent
      BY <1>3, <1>6, <1>7, <2>1
    <3> QED
      BY <3>1, FirstIsMostFrequent DEF ListInv
  <2>2. CASE Shown # 6
    BY <1>1, <1>4, <2>2 DEF FrequentHolds
  <2> QED
    BY <2>1, <2>2
<1>14. AverageHolds'
  <2>. SUFFICES ASSUME Shown' >= 8
                PROVE  AverageHolds'
    BY DEF AverageHolds
  <2>1. /\ Shown = 7 /\ Fig(6)' = Fig(6) /\ Fig(7)' = Fig(7)
        /\ Fig(8)' = Figure("average", task.since)
    BY <1>1, <1>6, <1>7
  <2>2. Fig(6) \in Nat /\ Fig(6) <= present + task.groups
    BY <1>4, <2>1 DEF UnresolvedHolds, present
  <2>3. ASSUME task.groups = 0, present > 0
        PROVE  SumFunction([g \in Present |-> groups[g].count]) <= Fig(7)[1].count * present
    <3>. DEFINE most == Fig(7)[1].count
                counts == [g \in Present |-> groups[g].count]
    <3>1. IsFiniteSet(Present) /\ Present # {}
      BY <2>3, FS_EmptySet DEF ListInv, present
    <3>2. \A g \in Present : most \in Nat /\ groups[g].count <= most
      BY <1>4, <2>1, <2>3 DEF FrequentHolds
    <3>3. counts \in [Present -> Nat] /\ \A g \in Present : counts[g] <= most
      BY <3>2, CountsAreNumbers DEF ListInv
    <3>4. most \in Nat
      BY <3>1, <3>2
    <3>. HIDE DEF most, counts
    <3>5. SumFunction(counts) <= most * Cardinality(Present)
      BY <3>1, <3>3, <3>4, SumBound
    <3> QED
      BY <3>5 DEF most, counts, present
  <2>4. /\ Fig(8).of' = present
        /\ Fig(8).sum' = SumFunction([g \in Present |-> groups[g].count])
    BY <1>3, <2>1
  <2> QED
    BY <1>1, <1>3, <2>1, <2>2, <2>3, <2>4 DEF AverageHolds
<1> QED
  BY <1>1, <1>4, <1>9, <1>10, <1>11, <1>12, <1>13, <1>14 DEF FiguresInv

\* The figures of a summary contradict each other by no more than the rows that
\* were written while the task read them: eight statements, each of a snapshot.
THEOREM FiguresAgreeNearly == ReadersSpec => []FiguresAgree
<1>1. ReadersInit => FiguresInv
  BY NothingShown DEF ReadersInit, SummaryInit
<1>2. /\ ListInv /\ ListInv' /\ TaskInv /\ FiguresInv
      /\ [ReadersNext]_<<store, readers>>
      => FiguresInv'
  <2>. SUFFICES ASSUME ListInv, ListInv', TaskInv, FiguresInv,
                       [ReadersNext]_<<store, readers>>
                PROVE  FiguresInv'
    OBVIOUS
  <2>1. CASE WriteMeanwhile
    <3>1. Write /\ SummaryChanges
      BY <2>1, StoreReadersAssumption DEF WriteMeanwhile, Write
    <3> QED
      BY <3>1, WriteKeepsFigures
  <2>2. CASE WorkerStep /\ Read
    BY <2>2, ReadKeepsFigures DEF WorkerStep
  <2>3. CASE /\ task'.figures = <<>> /\ task'.logs = 0 /\ task'.groups = 0
    <3>1. Shown' = 0
      BY <2>3 DEF Shown
    <3> QED
      BY <2>3, <3>1 DEF FiguresInv, TotalHolds, RecentHolds, PartsHold, UnresolvedHolds,
                        FrequentHolds, AverageHolds
  <2>4. CASE UNCHANGED <<store, task>>
    <3>1. /\ Stored' = Stored /\ Present' = Present
          /\ Recent(task.since)' = Recent(task.since)
      BY <2>4 DEF Stored, Present, Recent
    <3> QED
      BY <2>4, <3>1 DEF FiguresInv, TotalHolds, RecentHolds, PartsHold, UnresolvedHolds,
                        FrequentHolds, AverageHolds, Shown, Fig, Near
  <2>5. ASSUME NEW since \in Times, Begin(since)
        PROVE  /\ task'.figures = <<>> /\ task'.logs = 0 /\ task'.groups = 0
    BY <2>5 DEF Begin, IdleTask
  <2>6. CASE Refresh \/ Retry
    BY <2>3, <2>6 DEF Refresh, Retry, IdleTask
  <2> QED
    BY <2>1, <2>2, <2>3, <2>4, <2>5, <2>6
       DEF ReadersNext, ClientStep, WorkerStep, SummaryStep, TaskStep, CacheAges
<1>3. FiguresInv => FiguresAgree
  <2>. SUFFICES ASSUME FiguresInv, Complete
                PROVE  FiguresAgree
    BY DEF FiguresAgree
  <2>1. Shown = 8
    BY DEF Complete, Shown, Statements
  <2>2. /\ TotalHolds /\ RecentHolds /\ PartsHold /\ AverageHolds
    BY DEF FiguresInv
  <2>3. Fig(2) <= Fig(1) + task.logs
    BY <2>1, <2>2 DEF RecentHolds
  <2>4. \A i \in 3..5 : Near(Fig(2), SumFunction(Fig(i)), task.logs)
    BY <2>1, <2>2 DEF PartsHold
  <2>5. /\ Fig(6) <= Fig(8).of + task.groups
        /\ task.groups = 0 /\ Fig(8).of > 0 => Fig(8).sum <= Fig(7)[1].count * Fig(8).of
    BY <2>1, <2>2 DEF AverageHolds
  <2> QED
    BY <2>3, <2>4, <2>5 DEF FiguresAgree, Fig
<1> QED
  BY <1>1, <1>2, <1>3, TaskStaysTrue, ListsAreOrdered, PTL DEF ReadersSpec

=============================================================================
