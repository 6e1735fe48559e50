---------------------------- MODULE FingerprintProofs ----------------------------
(***************************************************************************)
(* Theorems about Fingerprint and Grouping, for texts of any length and of *)
(* any kinds of token.                                                     *)
(***************************************************************************)
EXTENDS Grouping, TLAPS, WellFoundedInduction, SequenceTheorems,
        FiniteSetTheorems

-----------------------------------------------------------------------------
(* Numbers *)

\* Every set of numbers that is not empty has a least one.
LEMMA LeastNumber ==
  ASSUME NEW T \in SUBSET Nat, T # {}
  PROVE  \E n \in T : \A k \in T : n <= k
<1>1. PICK n \in T : \A k \in T : <<k, n>> \notin OpToRel(<, Nat)
  BY WFMin, NatLessThanWellFounded, Zenon
<1>2. \A k \in T : ~ (k < n)
  BY <1>1, Zenon DEF OpToRel
<1> QED
  BY <1>2

\* Min gives it.
LEMMA MinIsLeast ==
  ASSUME NEW T \in SUBSET Nat, T # {}
  PROVE  Min(T) \in T /\ \A k \in T : Min(T) <= k
BY LeastNumber DEF Min

\* Max gives the greatest, if there is a bound.
LEMMA MaxIsGreatest ==
  ASSUME NEW T \in SUBSET Nat, T # {}, NEW n \in Nat, \A k \in T : k <= n
  PROVE  Max(T) \in T /\ \A k \in T : k <= Max(T)
<1>. DEFINE U == {n - k : k \in T}
<1>1. U \in SUBSET Nat /\ U # {}
  <2>1. \A k \in T : n - k \in Nat
    OBVIOUS
  <2> QED
    BY <2>1
<1>2. PICK m \in U : \A l \in U : m <= l
  <2>. HIDE DEF U
  <2> QED
    BY <1>1, LeastNumber
<1>3. PICK k \in T : m = n - k
  BY <1>2
<1>4. \A l \in T : l <= k
  BY <1>2, <1>3
<1> QED
  BY <1>3, <1>4 DEF Max

\* What holds at n, and at i whenever it holds from i + 1 to n, holds from 1 to n.
LEMMA FromTheEnd ==
  ASSUME NEW n \in Nat, NEW T, n \in T,
         \A i \in 1..n - 1 : (\A j \in i + 1..n : j \in T) => i \in T
  PROVE  \A i \in 1..n : i \in T
<1>. DEFINE B == {i \in 1..n : i \notin T}
<1>. SUFFICES ASSUME B # {}
              PROVE  FALSE
  OBVIOUS
<1>1. PICK i \in B : \A k \in B : k <= i
  <2>1. B \in SUBSET Nat /\ \A k \in B : k <= n
    OBVIOUS
  <2>. HIDE DEF B
  <2> QED
    BY <2>1, MaxIsGreatest
<1> QED
  BY <1>1

\* What holds at 1, and at i + 1 whenever it holds at i, holds from 1 to n.
LEMMA FromTheBeginning ==
  ASSUME NEW n \in Nat, NEW T, 1 \in T,
         \A i \in 1..n - 1 : i \in T => i + 1 \in T
  PROVE  \A i \in 1..n : i \in T
<1>. DEFINE B == {i \in 1..n : i \notin T}
<1>. SUFFICES ASSUME B # {}
              PROVE  FALSE
  OBVIOUS
<1>1. PICK i \in B : \A k \in B : i <= k
  <2>1. B \in SUBSET Nat
    OBVIOUS
  <2>. HIDE DEF B
  <2> QED
    BY <2>1, LeastNumber
<1>2. i \in 2..n
  BY <1>1
<1>3. i - 1 \in 1..n - 1 /\ i - 1 \notin B
  BY <1>1, <1>2
<1> QED
  BY <1>1, <1>2, <1>3

\* RunEnd gives the end of a run.
LEMMA RunEnds ==
  ASSUME NEW S, NEW t \in Seq(S), NEW i \in 1..Len(t) + 1,
         NEW kinds, "end" \notin kinds
  PROVE  /\ RunEnd(t, i, kinds) \in i..Len(t) + 1
         /\ Kind(t, RunEnd(t, i, kinds)) \notin kinds
         /\ \A j \in i..RunEnd(t, i, kinds) - 1 : Kind(t, j) \in kinds
<1>. DEFINE T == {j \in i..Len(t) + 1 : Kind(t, j) \notin kinds}
<1>1. Len(t) \in Nat /\ Len(t) + 1 \notin DOMAIN t
  OBVIOUS
<1>2. T \in SUBSET Nat
  BY <1>1
<1>3. Len(t) + 1 \in T
  <2>1. Kind(t, Len(t) + 1) = "end"
    BY <1>1 DEF Kind
  <2> QED
    BY <1>1, <2>1
<1>4. RunEnd(t, i, kinds) = Min(T)
  BY Zenon DEF RunEnd
<1>5. Min(T) \in T /\ \A k \in T : Min(T) <= k
  <2>. HIDE DEF T
  <2> QED
    BY <1>2, <1>3, MinIsLeast
<1>. DEFINE m == Min(T)
<1>. HIDE DEF m
<1>6. m \in T /\ \A k \in T : m <= k
  BY <1>5 DEF m
<1>7. \A j \in i..m - 1 : Kind(t, j) \in kinds
  BY <1>1, <1>6
<1> QED
  BY <1>4, <1>6, <1>7 DEF m

\* And it is the only one.
LEMMA RunEndIs ==
  ASSUME NEW S, NEW t \in Seq(S), NEW i \in 1..Len(t) + 1,
         NEW kinds, "end" \notin kinds,
         NEW e \in i..Len(t) + 1, Kind(t, e) \notin kinds,
         \A j \in i..e - 1 : Kind(t, j) \in kinds
  PROVE  RunEnd(t, i, kinds) = e
<1>. DEFINE r == RunEnd(t, i, kinds)
<1>1. r \in i..Len(t) + 1 /\ Kind(t, r) \notin kinds /\ \A j \in i..r - 1 : Kind(t, j) \in kinds
  BY RunEnds
<1>. HIDE DEF r
<1>2. ~ (r < e)
  BY <1>1
<1>3. ~ (e < r)
  BY <1>1
<1> QED
  BY <1>1, <1>2, <1>3 DEF r

-----------------------------------------------------------------------------
(* Substitutions *)

\* The matches end behind where they begin and within the text, and what comes
\* in their place are texts that are not empty.
Fits(n, ends, by, S) ==
  \A i \in 1..n :
    /\ ends[i] \in 1..n + 1
    /\ ends[i] > i => by[i] \in Seq(S) /\ by[i] # <<>>

\* What is left of the result from position i on, given what is left behind it.
Rest(t, ends, by, rest, i) ==
  IF i > Len(t) THEN <<>>
  ELSE IF ends[i] > i THEN by[i] \o rest[ends[i]]
  ELSE <<t[i]>> \o rest[i + 1]

\* The recursion of Substitute has a solution, and Substitute is its first value.
LEMMA SubstituteUnfolds ==
  ASSUME NEW S, NEW t \in Seq(S), NEW ends, NEW by, Fits(Len(t), ends, by, S)
  PROVE  \E rest \in [1..Len(t) + 1 -> Seq(S)] :
            /\ \A i \in 1..Len(t) + 1 : rest[i] = Rest(t, ends, by, rest, i)
            /\ Substitute(t, ends, by) = rest[1]
<1>. DEFINE n == Len(t)
<1>1. n \in Nat
  OBVIOUS
<1>. DEFINE T == {k \in 1..n + 1 : \E g \in [1..n + 1 -> Seq(S)] :
                     \A i \in k..n + 1 : g[i] = Rest(t, ends, by, g, i)}
            all(g) == [i \in 1..n + 1 |-> Rest(t, ends, by, g, i)]
<1>2. n + 1 \in T
  <2>. DEFINE g == [i \in 1..n + 1 |-> <<>>]
  <2>1. g \in [1..n + 1 -> Seq(S)]
    OBVIOUS
  <2>2. \A i \in n + 1..n + 1 : g[i] = Rest(t, ends, by, g, i)
    BY <1>1 DEF Rest
  <2>. HIDE DEF g
  <2> QED
    BY <1>1, <2>1, <2>2
<1>3. ASSUME NEW k \in 1..n, k + 1 \in T
      PROVE  k \in T
  <2>1. PICK g \in [1..n + 1 -> Seq(S)] :
               \A i \in k + 1..n + 1 : g[i] = Rest(t, ends, by, g, i)
    BY <1>3
  <2>2. Rest(t, ends, by, g, k) \in Seq(S)
    <3>1. ends[k] \in 1..n + 1 /\ (ends[k] > k => by[k] \in Seq(S))
      BY <1>1, <1>3 DEF Fits
    <3>2. t[k] \in S /\ k \in 1..n + 1 /\ k + 1 \in 1..n + 1 /\ ~ (k > n)
      BY <1>1, <1>3
    <3>3. g[k + 1] \in Seq(S) /\ g[ends[k]] \in Seq(S)
      BY <3>1, <3>2
    <3>4. CASE ends[k] > k
      <4>1. by[k] \o g[ends[k]] \in Seq(S)
        BY <3>1, <3>3, <3>4
      <4> QED
        BY <3>2, <3>4, <4>1, Zenon DEF Rest
    <3>5. CASE ~ (ends[k] > k)
      <4>1. <<t[k]>> \o g[k + 1] \in Seq(S)
        BY <3>2, <3>3
      <4> QED
        BY <3>2, <3>5, <4>1, Zenon DEF Rest
    <3> QED
      BY <3>4, <3>5
  <2>. DEFINE h == [g EXCEPT ![k] = Rest(t, ends, by, g, k)]
  <2>3. h \in [1..n + 1 -> Seq(S)]
    BY <2>1, <2>2
  <2>4. \A i \in 1..n + 1 : i > k => h[i] = g[i]
    OBVIOUS
  <2>5. h[k] = Rest(t, ends, by, g, k)
    BY <1>1
  <2>. HIDE DEF h
  <2>6. ASSUME NEW i \in k..n + 1
        PROVE  Rest(t, ends, by, h, i) = Rest(t, ends, by, g, i)
    <3>1. CASE i > n
      BY <3>1 DEF Rest
    <3>2. CASE ~ (i > n)
      <4>1. i \in 1..n /\ i + 1 \in 1..n + 1 /\ i + 1 > k
        BY <1>1, <3>2
      <4>2. ends[i] \in 1..n + 1
        BY <4>1 DEF Fits
      <4>3. h[i + 1] = g[i + 1]
        BY <2>4, <4>1
      <4>4. ends[i] > i => h[ends[i]] = g[ends[i]]
        BY <1>1, <2>4, <2>6, <4>2
      <4> QED
        BY <4>3, <4>4 DEF Rest
    <3> QED
      BY <3>1, <3>2
  <2>7. \A i \in k..n + 1 : h[i] = Rest(t, ends, by, h, i)
    <3>. TAKE i \in k..n + 1
    <3>1. CASE i = k
      BY <2>5, <2>6, <3>1
    <3>2. CASE i # k
      <4>1. i \in k + 1..n + 1 /\ i \in 1..n + 1 /\ i > k
        BY <1>1, <1>3, <3>2
      <4> QED
        BY <2>1, <2>4, <2>6, <4>1
    <3> QED
      BY <3>1, <3>2
  <2> QED
    BY <1>1, <2>3, <2>7
<1>4. 1 \in T
  <2>. HIDE DEF T
  <2>1. ASSUME NEW i \in 1..(n + 1) - 1, \A j \in i + 1..n + 1 : j \in T
        PROVE  i \in T
    <3>1. i \in 1..n /\ i + 1 \in i + 1..n + 1
      BY <1>1
    <3> QED
      BY <1>3, <2>1, <3>1
  <2>2. \A i \in 1..n + 1 : i \in T
    BY <1>1, <1>2, <2>1, FromTheEnd
  <2> QED
    BY <1>1, <2>2
<1>5. PICK g \in [1..n + 1 -> Seq(S)] : \A i \in 1..n + 1 : g[i] = Rest(t, ends, by, g, i)
  BY <1>4
<1>6. g = all(g)
  BY <1>5
<1>. DEFINE rest == CHOOSE f : f = all(f)
<1>7. rest = all(rest)
  BY <1>6, Zenon
<1>8. Substitute(t, ends, by) = rest[1]
  BY Zenon DEF Substitute, Rest
<1>. HIDE DEF rest
<1>9. \A i \in 1..n + 1 : rest[i] = Rest(t, ends, by, rest, i)
  BY <1>7
<1>10. rest \in [1..n + 1 -> Seq(S)]
  <2>. DEFINE U == {i \in 1..n + 1 : rest[i] = g[i]}
  <2>1. n + 1 \in U
    <3>1. n + 1 \in 1..n + 1 /\ n + 1 > n
      BY <1>1
    <3>2. \A f : Rest(t, ends, by, f, n + 1) = <<>>
      BY <3>1 DEF Rest
    <3>3. rest[n + 1] = <<>> /\ g[n + 1] = <<>>
      BY <1>5, <1>9, <3>1, <3>2
    <3> QED
      BY <3>1, <3>3
  <2>2. ASSUME NEW i \in 1..n, \A j \in i + 1..n + 1 : j \in U
        PROVE  i \in U
    <3>1. ends[i] \in 1..n + 1
      BY DEF Fits
    <3>2. rest[i + 1] = g[i + 1] /\ (ends[i] > i => rest[ends[i]] = g[ends[i]])
      BY <1>1, <2>2, <3>1
    <3>3. Rest(t, ends, by, rest, i) = Rest(t, ends, by, g, i)
      BY <3>2 DEF Rest
    <3> QED
      BY <1>1, <1>5, <1>9, <3>3
  <2>3. \A i \in 1..n + 1 : i \in U
    <3>1. \A i \in 1..(n + 1) - 1 : (\A j \in i + 1..n + 1 : j \in U) => i \in U
      BY <1>1, <2>2
    <3>. HIDE DEF U
    <3> QED
      BY <1>1, <2>1, <3>1, FromTheEnd
  <2>4. \A i \in 1..n + 1 : rest[i] = g[i]
    BY <2>3
  <2>5. rest = g
    <3>1. DOMAIN g = 1..n + 1 /\ g = [i \in 1..n + 1 |-> g[i]]
      BY <1>5
    <3>2. rest = [i \in 1..n + 1 |-> rest[i]]
      BY <1>7
    <3> QED
      BY <2>4, <3>1, <3>2
  <2> QED
    BY <1>5, <2>5
<1> QED
  BY <1>8, <1>9, <1>10

-----------------------------------------------------------------------------
(* The walk of a substitution *)

\* Where a token of the result comes from: the place in the text, and which part
\* of what replaces it, or 0 for the token itself.
Place(at, part) == [at |-> at, part |-> part]

Places == [at : Nat, part : Nat]

\* The walk of a substitution: the places its result comes from, one by one.
Walk(n, ends, size) ==
  Substitute([i \in 1..n |-> Place(i, 0)], ends,
             [i \in 1..n |-> [q \in 1..size[i] |-> Place(i, q)]])

Matched(ends, i) == ends[i] > i

\* Where the walk comes to a place, and where it goes on from there.
First(ends, i) == Place(i, IF Matched(ends, i) THEN 1 ELSE 0)

Beyond(ends, i) == IF Matched(ends, i) THEN ends[i] ELSE i + 1

IsLast(size, c) == c.part = 0 \/ c.part = size[c.at]

IsPlace(c, i, n, ends, size) ==
  /\ c \in Places
  /\ c.at \in i..n
  /\ IF Matched(ends, c.at) THEN c.part \in 1..size[c.at] ELSE c.part = 0

StepsRight(w, n, ends, size) ==
  \A k \in 1..Len(w) :
    IF ~ IsLast(size, w[k])
    THEN k < Len(w) /\ w[k + 1] = Place(w[k].at, w[k].part + 1)
    ELSE IF Beyond(ends, w[k].at) > n
    THEN k = Len(w)
    ELSE k < Len(w) /\ w[k + 1] = First(ends, Beyond(ends, w[k].at))

InOrder(w, ends) ==
  \A k, l \in 1..Len(w) :
    k < l => \/ w[l].at = w[k].at /\ w[l].part > w[k].part
             \/ w[l].at >= Beyond(ends, w[k].at)

Covered(w, i, n, ends) ==
  \A p \in i..n :
    \E k \in 1..Len(w) :
      /\ w[k] = First(ends, w[k].at)
      /\ w[k].at <= p /\ p < Beyond(ends, w[k].at)

\* The walk from position i on.
IsWalk(w, i, n, ends, size) ==
  /\ w \in Seq(Places)
  /\ \A k \in 1..Len(w) : IsPlace(w[k], i, n, ends, size)
  /\ IF i > n THEN w = <<>> ELSE Len(w) > 0 /\ w[1] = First(ends, i)
  /\ StepsRight(w, n, ends, size)
  /\ InOrder(w, ends)
  /\ Covered(w, i, n, ends)

Sized(n, ends, size) ==
  \A i \in 1..n : /\ ends[i] \in 1..n + 1
                  /\ Matched(ends, i) => size[i] \in Nat \ {0}

\* The places that one place of the text makes.
Piece(ends, size, i) ==
  [q \in 1..(IF Matched(ends, i) THEN size[i] ELSE 1) |->
     Place(i, IF Matched(ends, i) THEN q ELSE 0)]

\* What is at a position of two sequences put together.
LEMMA Joined ==
  ASSUME NEW S, NEW p \in Seq(S), NEW r \in Seq(S)
  PROVE  /\ p \o r \in Seq(S)
         /\ Len(p) \in Nat /\ Len(r) \in Nat /\ Len(p \o r) = Len(p) + Len(r)
         /\ \A k \in 1..Len(p) : (p \o r)[k] = p[k]
         /\ \A k \in Len(p) + 1..Len(p) + Len(r) :
              k - Len(p) \in 1..Len(r) /\ (p \o r)[k] = r[k - Len(p)]
<1>1. /\ p \o r \in Seq(S)
      /\ Len(p) \in Nat /\ Len(r) \in Nat /\ Len(p \o r) = Len(p) + Len(r)
  OBVIOUS
<1>2. \A k \in 1..Len(p) + Len(r) :
         (p \o r)[k] = IF k <= Len(p) THEN p[k] ELSE r[k - Len(p)]
  BY ConcatProperties
<1>. DEFINE a == Len(p)
            b == Len(r)
            v == p \o r
<1>3. a \in Nat /\ b \in Nat
  BY <1>1
<1>4. \A k \in 1..a + b : v[k] = IF k <= a THEN p[k] ELSE r[k - a]
  BY <1>2
<1>. HIDE DEF a, b, v
<1>5. \A k \in 1..a : v[k] = p[k]
  BY <1>3, <1>4
<1>6. \A k \in a + 1..a + b : k - a \in 1..b /\ v[k] = r[k - a]
  BY <1>3, <1>4
<1> QED
  BY <1>1, <1>5, <1>6 DEF a, b, v

\* A place put before the walk that goes on from it.
LEMMA WalkGrows ==
  ASSUME NEW n \in Nat, NEW ends, NEW size, Sized(n, ends, size),
         NEW i \in 1..n, NEW r, IsWalk(r, Beyond(ends, i), n, ends, size)
  PROVE  IsWalk(Piece(ends, size, i) \o r, i, n, ends, size)
<1>. DEFINE b == Beyond(ends, i)
            m == Matched(ends, i)
            L == IF m THEN size[i] ELSE 1
            p == Piece(ends, size, i)
            v == p \o r
<1>1. /\ L \in Nat \ {0} /\ b \in i + 1..n + 1 /\ m \in BOOLEAN
      /\ m => size[i] = L
      /\ ~ m => L = 1
  BY DEF Sized, Beyond, Matched
<1>2. p \in Seq(Places) /\ Len(p) = L /\ \A q \in 1..L : p[q] = Place(i, IF m THEN q ELSE 0)
  <2>1. p = [q \in 1..L |-> Place(i, IF m THEN q ELSE 0)]
    BY DEF Piece
  <2>2. \A q \in 1..L : Place(i, IF m THEN q ELSE 0) \in Places
    BY DEF Place, Places
  <2>. HIDE DEF p, L, m
  <2> QED
    BY <1>1, <2>1, <2>2
<1>3. r \in Seq(Places) /\ Len(r) \in Nat
  BY DEF IsWalk
<1>4. /\ v \in Seq(Places) /\ Len(v) = L + Len(r) /\ Len(v) \in Nat
      /\ \A k \in 1..L : v[k] = Place(i, IF m THEN k ELSE 0)
      /\ \A k \in L + 1..Len(v) : k - L \in 1..Len(r) /\ v[k] = r[k - L]
  <2>. HIDE DEF p, L, m
  <2>1. Len(p) = L /\ p \in Seq(Places)
    BY <1>2
  <2>2. r \in Seq(Places)
    BY <1>3
  <2>3. /\ v \in Seq(Places)
        /\ Len(p) \in Nat /\ Len(r) \in Nat /\ Len(v) = Len(p) + Len(r)
        /\ \A k \in 1..Len(p) : v[k] = p[k]
        /\ \A k \in Len(p) + 1..Len(p) + Len(r) :
             k - Len(p) \in 1..Len(r) /\ v[k] = r[k - Len(p)]
    BY <2>1, <2>2, Joined
  <2>. HIDE DEF v
  <2> QED
    BY <1>1, <1>2, <1>3, <2>1, <2>3
<1>. HIDE DEF p, L, m, b, v
<1>5. /\ \A k \in 1..Len(r) : IsPlace(r[k], b, n, ends, size)
      /\ IF b > n THEN r = <<>> ELSE Len(r) > 0 /\ r[1] = First(ends, b)
      /\ StepsRight(r, n, ends, size)
      /\ InOrder(r, ends)
      /\ Covered(r, b, n, ends)
  BY DEF IsWalk, b
<1>6. /\ b = Beyond(ends, i) /\ m = Matched(ends, i)
      /\ m => size[i] = L
  BY <1>1 DEF b, m
<1>7. \A k \in 1..L : /\ v[k].at = i
                      /\ v[k].part = IF m THEN k ELSE 0
  <2>1. \A a, b0 : Place(a, b0).at = a /\ Place(a, b0).part = b0
    BY DEF Place
  <2> QED
    BY <1>4, <2>1
<1>8. \A k \in 1..Len(v) : IsPlace(v[k], i, n, ends, size)
  <2>. TAKE k \in 1..Len(v)
  <2>1. v[k] \in Places
    BY <1>4
  <2>2. CASE k <= L
    BY <1>1, <1>4, <1>6, <1>7, <2>1, <2>2 DEF IsPlace
  <2>3. CASE ~ (k <= L)
    <3>1. k \in L + 1..Len(v)
      BY <1>1, <1>4, <2>3
    <3>2. IsPlace(r[k - L], b, n, ends, size) /\ v[k] = r[k - L]
      BY <1>4, <1>5, <3>1
    <3> QED
      BY <1>1, <3>2 DEF IsPlace
  <2> QED
    BY <2>2, <2>3
<1>9. Len(v) > 0 /\ v[1] = First(ends, i)
  BY <1>1, <1>3, <1>4, <1>6 DEF First
<1>10. StepsRight(v, n, ends, size)
  <2>. SUFFICES ASSUME NEW k \in 1..Len(v)
                PROVE  IF ~ IsLast(size, v[k])
                       THEN k < Len(v) /\ v[k + 1] = Place(v[k].at, v[k].part + 1)
                       ELSE IF Beyond(ends, v[k].at) > n
                       THEN k = Len(v)
                       ELSE k < Len(v) /\ v[k + 1] = First(ends, Beyond(ends, v[k].at))
    BY DEF StepsRight
  <2>1. CASE k < L
    <3>1. m
      BY <1>1, <2>1
    <3>2. v[k].at = i /\ v[k].part = k /\ v[k + 1] = Place(i, k + 1) /\ k < Len(v)
      BY <1>1, <1>3, <1>4, <1>7, <2>1, <3>1
    <3>3. ~ IsLast(size, v[k])
      BY <1>1, <1>6, <2>1, <3>1, <3>2 DEF IsLast
    <3> QED
      BY <3>2, <3>3
  <2>2. CASE k = L
    <3>1. IsLast(size, v[k]) /\ v[k].at = i
      BY <1>1, <1>6, <1>7, <2>2 DEF IsLast
    <3>2. CASE b > n
      <4>1. Len(r) = 0
        BY <1>5, <3>2
      <4> QED
        BY <1>1, <1>4, <1>6, <2>2, <3>1, <3>2, <4>1
    <3>3. CASE ~ (b > n)
      <4>1. Len(r) > 0 /\ r[1] = First(ends, b)
        BY <1>5, <3>3
      <4>2. k < Len(v) /\ v[k + 1] = r[1]
        <5>1. k + 1 \in L + 1..Len(v) /\ k + 1 - L = 1
          BY <1>1, <1>3, <1>4, <2>2, <4>1
        <5> QED
          BY <1>1, <1>3, <1>4, <2>2, <4>1, <5>1
      <4> QED
        BY <1>6, <3>1, <3>3, <4>1, <4>2
    <3> QED
      BY <3>2, <3>3
  <2>3. CASE k > L
    <3>. DEFINE j == k - L
    <3>1. j \in 1..Len(r) /\ v[k] = r[j]
      BY <1>1, <1>4, <2>3
    <3>2. (j < Len(r)) <=> (k < Len(v))
      BY <1>1, <1>3, <1>4
    <3>3. (j = Len(r)) <=> (k = Len(v))
      BY <1>1, <1>3, <1>4
    <3>4. j < Len(r) => v[k + 1] = r[j + 1]
      <4>. SUFFICES ASSUME j < Len(r)
                    PROVE  v[k + 1] = r[j + 1]
        OBVIOUS
      <4>1. k + 1 \in L + 1..Len(v) /\ (k + 1) - L = j + 1
        BY <1>1, <1>3, <1>4, <2>3
      <4> QED
        BY <1>4, <4>1
    <3>. HIDE DEF j
    <3>5. IF ~ IsLast(size, r[j])
          THEN j < Len(r) /\ r[j + 1] = Place(r[j].at, r[j].part + 1)
          ELSE IF Beyond(ends, r[j].at) > n
          THEN j = Len(r)
          ELSE j < Len(r) /\ r[j + 1] = First(ends, Beyond(ends, r[j].at))
      BY <1>5, <3>1 DEF StepsRight
    <3> QED
      BY <3>1, <3>2, <3>3, <3>4, <3>5
  <2> QED
    BY <1>1, <1>4, <2>1, <2>2, <2>3
<1>11. InOrder(v, ends)
  <2>. SUFFICES ASSUME NEW k \in 1..Len(v), NEW l \in 1..Len(v), k < l
                PROVE  \/ v[l].at = v[k].at /\ v[l].part > v[k].part
                       \/ v[l].at >= Beyond(ends, v[k].at)
    BY DEF InOrder
  <2>1. CASE l <= L
    <3>1. m /\ k \in 1..L /\ l \in 1..L
      BY <1>1, <2>1
    <3> QED
      BY <1>7, <3>1
  <2>2. CASE k <= L /\ ~ (l <= L)
    <3>1. l \in L + 1..Len(v) /\ k \in 1..L
      BY <1>1, <1>4, <2>2
    <3>2. v[l] = r[l - L] /\ IsPlace(r[l - L], b, n, ends, size)
      BY <1>4, <1>5, <3>1
    <3>3. v[l].at >= b
      BY <1>1, <3>2 DEF IsPlace
    <3> QED
      BY <1>6, <1>7, <3>1, <3>3
  <2>3. CASE ~ (k <= L)
    <3>1. k \in L + 1..Len(v) /\ l \in L + 1..Len(v) /\ k - L < l - L
      BY <1>1, <1>4, <2>3
    <3>2. k - L \in 1..Len(r) /\ l - L \in 1..Len(r) /\ v[k] = r[k - L] /\ v[l] = r[l - L]
      BY <1>4, <3>1
    <3> QED
      BY <1>5, <3>1, <3>2 DEF InOrder
  <2> QED
    BY <2>1, <2>2, <2>3
<1>12. Covered(v, i, n, ends)
  <2>. SUFFICES ASSUME NEW p0 \in i..n
                PROVE  \E k \in 1..Len(v) :
                          /\ v[k] = First(ends, v[k].at)
                          /\ v[k].at <= p0 /\ p0 < Beyond(ends, v[k].at)
    BY DEF Covered
  <2>1. CASE p0 < b
    <3>1. 1 \in 1..Len(v) /\ v[1].at = i
      BY <1>1, <1>3, <1>4, <1>7
    <3> QED
      BY <1>6, <1>9, <2>1, <3>1
  <2>2. CASE ~ (p0 < b)
    <3>1. p0 \in b..n
      BY <1>1, <2>2
    <3>2. PICK k \in 1..Len(r) : /\ r[k] = First(ends, r[k].at)
                                 /\ r[k].at <= p0 /\ p0 < Beyond(ends, r[k].at)
      BY <1>5, <3>1 DEF Covered
    <3>3. k + L \in L + 1..Len(v) /\ k + L \in 1..Len(v) /\ (k + L) - L = k
      BY <1>1, <1>3, <1>4
    <3>4. v[k + L] = r[k]
      BY <1>4, <3>3
    <3> QED
      BY <3>2, <3>3, <3>4
  <2> QED
    BY <2>1, <2>2
<1> QED
  BY <1>4, <1>8, <1>9, <1>10, <1>11, <1>12 DEF IsWalk, v, p

\* The walk of a substitution is a walk from the first position.
LEMMA WalkIsWalk ==
  ASSUME NEW n \in Nat, NEW ends, NEW size, Sized(n, ends, size)
  PROVE  IsWalk(Walk(n, ends, size), 1, n, ends, size)
<1>. DEFINE s == [i \in 1..n |-> Place(i, 0)]
            parts == [i \in 1..n |-> [q \in 1..size[i] |-> Place(i, q)]]
<1>1. s \in Seq(Places) /\ Len(s) = n /\ \A i \in 1..n : s[i] = Place(i, 0)
  <2>1. \A i \in 1..n : Place(i, 0) \in Places
    BY DEF Place, Places
  <2> QED
    BY <2>1
<1>2. ASSUME NEW i \in 1..n, Matched(ends, i)
      PROVE  parts[i] \in Seq(Places) /\ parts[i] # <<>> /\ parts[i] = Piece(ends, size, i)
  <2>1. size[i] \in Nat \ {0}
    BY <1>2 DEF Sized
  <2>2. parts[i] = [q \in 1..size[i] |-> Place(i, q)]
    OBVIOUS
  <2>3. \A q \in 1..size[i] : Place(i, q) \in Places
    BY <2>1 DEF Place, Places
  <2>4. parts[i] \in Seq(Places) /\ Len(parts[i]) = size[i]
    <3>. HIDE DEF parts
    <3> QED
      BY <2>1, <2>2, <2>3
  <2>5. Piece(ends, size, i) = [q \in 1..size[i] |-> Place(i, q)]
    BY <1>2 DEF Piece
  <2>. HIDE DEF parts
  <2>6. parts[i] # <<>>
    BY <2>1, <2>4
  <2> QED
    BY <2>2, <2>4, <2>5, <2>6
<1>3. Walk(n, ends, size) = Substitute(s, ends, parts)
  BY DEF Walk
<1>. HIDE DEF s, parts
<1>4. Fits(Len(s), ends, parts, Places)
  BY <1>1, <1>2 DEF Fits, Sized, Matched
<1>5. PICK rest \in [1..n + 1 -> Seq(Places)] :
             /\ \A i \in 1..n + 1 : rest[i] = Rest(s, ends, parts, rest, i)
             /\ Substitute(s, ends, parts) = rest[1]
  <2>1. \E rest \in [1..Len(s) + 1 -> Seq(Places)] :
            /\ \A i \in 1..Len(s) + 1 : rest[i] = Rest(s, ends, parts, rest, i)
            /\ Substitute(s, ends, parts) = rest[1]
    <3>1. s \in Seq(Places)
      BY <1>1
    <3> QED
      BY <1>4, <3>1, SubstituteUnfolds
  <2> QED
    BY <1>1, <2>1, Zenon
<1>. DEFINE T == {i \in 1..n + 1 : IsWalk(rest[i], i, n, ends, size)}
<1>6. n + 1 \in T
  <2>1. rest[n + 1] = <<>>
    <3>1. n + 1 \in 1..n + 1 /\ n + 1 > Len(s)
      BY <1>1
    <3>2. Rest(s, ends, parts, rest, n + 1) = <<>>
      BY <3>1 DEF Rest
    <3> QED
      BY <1>5, <3>1, <3>2
  <2>2. IsWalk(<<>>, n + 1, n, ends, size)
    BY DEF IsWalk, StepsRight, InOrder, Covered
  <2> QED
    BY <2>1, <2>2
<1>7. ASSUME NEW i \in 1..n, \A j \in i + 1..n + 1 : j \in T
      PROVE  i \in T
  <2>1. Beyond(ends, i) \in i + 1..n + 1
    BY DEF Beyond, Matched, Sized
  <2>2. IsWalk(rest[Beyond(ends, i)], Beyond(ends, i), n, ends, size)
    BY <1>7, <2>1
  <2>3. rest[i] = Piece(ends, size, i) \o rest[Beyond(ends, i)]
    <3>1. i \in 1..n + 1 /\ ~ (i > Len(s))
      BY <1>1
    <3>2. CASE Matched(ends, i)
      BY <1>2, <1>5, <3>1, <3>2 DEF Rest, Matched, Beyond
    <3>3. CASE ~ Matched(ends, i)
      <4>1. Piece(ends, size, i) = <<s[i]>>
        BY <1>1, <3>3 DEF Piece
      <4> QED
        BY <1>5, <3>1, <3>3, <4>1 DEF Rest, Matched, Beyond
    <3> QED
      BY <3>2, <3>3
  <2>4. IsWalk(rest[i], i, n, ends, size)
    BY <2>2, <2>3, WalkGrows
  <2> QED
    BY <2>4
<1>8. 1 \in T
  <2>. HIDE DEF T
  <2>1. ASSUME NEW i \in 1..(n + 1) - 1, \A j \in i + 1..n + 1 : j \in T
        PROVE  i \in T
    <3>1. i \in 1..n
      OBVIOUS
    <3> QED
      BY <1>7, <2>1, <3>1
  <2>2. \A i \in 1..n + 1 : i \in T
    BY <1>6, <2>1, FromTheEnd
  <2> QED
    BY <2>2
<1> QED
  BY <1>3, <1>5, <1>8

\* The token that a place stands for.
Picked(t, by, c) == IF c.part = 0 THEN t[c.at] ELSE by[c.at][c.part]

Picks(u, t, by, w) == u = [k \in 1..Len(w) |-> Picked(t, by, w[k])]

\* How many tokens each match makes.
Sizes(t, by) == [i \in 1..Len(t) |-> Len(by[i])]

\* The result of a substitution is what its walk picks.
LEMMA SubstitutePicks ==
  ASSUME NEW S, NEW t \in Seq(S), NEW ends, NEW by, NEW size,
         Fits(Len(t), ends, by, S), size = Sizes(t, by)
  PROVE  /\ Sized(Len(t), ends, size)
         /\ Picks(Substitute(t, ends, by), t, by, Walk(Len(t), ends, size))
<1>1. \A i \in 1..Len(t) : Matched(ends, i) => size[i] = Len(by[i])
  BY DEF Sizes
<1>. USE <1>1
<1>. DEFINE n == Len(t)
            s == [i \in 1..n |-> Place(i, 0)]
            parts == [i \in 1..n |-> [j \in 1..size[i] |-> Place(i, j)]]
            Map(w) == [k \in 1..Len(w) |-> Picked(t, by, w[k])]
<1>2. n \in Nat
  OBVIOUS
<1>3. Sized(n, ends, size)
  <2>. SUFFICES ASSUME NEW i \in 1..n
                PROVE  /\ ends[i] \in 1..n + 1
                       /\ Matched(ends, i) => size[i] \in Nat \ {0}
    BY DEF Sized
  <2>1. ends[i] \in 1..n + 1 /\ (ends[i] > i => by[i] \in Seq(S) /\ by[i] # <<>>)
    BY DEF Fits
  <2>2. ASSUME Matched(ends, i)
        PROVE  size[i] \in Nat \ {0}
    <3>1. by[i] \in Seq(S) /\ by[i] # <<>> /\ size[i] = Len(by[i])
      BY <2>1, <2>2 DEF Matched
    <3> QED
      BY <3>1, EmptySeq
  <2> QED
    BY <2>1, <2>2
<1>4. s \in Seq(Places) /\ Len(s) = n /\ \A i \in 1..n : s[i] = Place(i, 0)
  <2>1. \A i \in 1..n : Place(i, 0) \in Places
    BY DEF Place, Places
  <2> QED
    BY <1>2, <2>1
<1>5. ASSUME NEW i \in 1..n, Matched(ends, i)
      PROVE  /\ parts[i] \in Seq(Places) /\ parts[i] # <<>>
             /\ Len(parts[i]) = Len(by[i])
             /\ \A j \in 1..Len(by[i]) : parts[i][j] = Place(i, j)
  <2>1. size[i] \in Nat \ {0} /\ size[i] = Len(by[i])
    BY <1>3, <1>5 DEF Sized
  <2>2. parts[i] = [j \in 1..size[i] |-> Place(i, j)]
    OBVIOUS
  <2>3. \A j \in 1..size[i] : Place(i, j) \in Places
    BY <2>1 DEF Place, Places
  <2>. HIDE DEF parts
  <2>4. parts[i] \in Seq(Places) /\ Len(parts[i]) = size[i]
    BY <2>1, <2>2, <2>3
  <2>5. parts[i] # <<>>
    BY <2>1, <2>4
  <2> QED
    BY <2>1, <2>2, <2>4, <2>5
<1>6. Walk(n, ends, size) = Substitute(s, ends, parts)
  BY DEF Walk
<1>. HIDE DEF s, parts
<1>7. Fits(Len(s), ends, parts, Places)
  BY <1>3, <1>4, <1>5 DEF Fits, Sized, Matched
<1>8. PICK walks \in [1..n + 1 -> Seq(Places)] :
             /\ \A i \in 1..n + 1 : walks[i] = Rest(s, ends, parts, walks, i)
             /\ Substitute(s, ends, parts) = walks[1]
  BY <1>4, <1>7, SubstituteUnfolds
<1>9. PICK rest \in [1..n + 1 -> Seq(S)] :
             /\ \A i \in 1..n + 1 : rest[i] = Rest(t, ends, by, rest, i)
             /\ Substitute(t, ends, by) = rest[1]
  BY SubstituteUnfolds
<1>. DEFINE T == {i \in 1..n + 1 : rest[i] = Map(walks[i])}
<1>10. n + 1 \in T
  <2>1. rest[n + 1] = <<>> /\ walks[n + 1] = <<>>
    <3>1. n + 1 \in 1..n + 1 /\ n + 1 > Len(t) /\ n + 1 > Len(s)
      BY <1>2, <1>4
    <3>2. \A f : /\ Rest(t, ends, by, f, n + 1) = <<>>
                 /\ Rest(s, ends, parts, f, n + 1) = <<>>
      BY <3>1 DEF Rest
    <3> QED
      BY <1>8, <1>9, <3>1, <3>2
  <2>2. Map(<<>>) = <<>>
    OBVIOUS
  <2> QED
    BY <1>2, <2>1, <2>2
<1>11. ASSUME NEW i \in 1..n, \A j \in i + 1..n + 1 : j \in T
       PROVE  i \in T
  <2>. DEFINE b == Beyond(ends, i)
              new == IF Matched(ends, i) THEN by[i] ELSE <<t[i]>>
              old == IF Matched(ends, i) THEN parts[i] ELSE <<s[i]>>
  <2>1. b \in i + 1..n + 1 /\ b \in 1..n + 1
    BY <1>3 DEF Beyond, Matched, Sized
  <2>2. rest[b] = Map(walks[b])
    BY <1>11, <2>1
  <2>3. rest[i] = new \o rest[b] /\ walks[i] = old \o walks[b]
    <3>1. i \in 1..n + 1 /\ ~ (i > Len(t)) /\ ~ (i > Len(s))
      BY <1>2, <1>4
    <3> QED
      BY <1>8, <1>9, <3>1 DEF Rest, Matched, Beyond
  <2>4. /\ new \in Seq(S) /\ old \in Seq(Places) /\ Len(new) = Len(old)
        /\ \A k \in 1..Len(old) : new[k] = Picked(t, by, old[k])
    <3>1. CASE Matched(ends, i)
      <4>1. new = by[i] /\ old = parts[i] /\ by[i] \in Seq(S)
        BY <3>1 DEF Fits, Matched
      <4>2. ASSUME NEW k \in 1..Len(by[i])
            PROVE  Picked(t, by, parts[i][k]) = by[i][k]
        <5>1. parts[i][k] = Place(i, k) /\ k # 0
          BY <1>5, <3>1, <4>1
        <5> QED
          BY <5>1 DEF Picked, Place
      <4>. HIDE DEF new, old
      <4> QED
        BY <1>5, <3>1, <4>1, <4>2
    <3>2. CASE ~ Matched(ends, i)
      <4>1. new = <<t[i]>> /\ old = <<Place(i, 0)>>
        BY <1>4, <3>2
      <4>2. Picked(t, by, Place(i, 0)) = t[i] /\ Place(i, 0) \in Places /\ t[i] \in S
        BY DEF Picked, Place, Places
      <4>. HIDE DEF new, old
      <4> QED
        BY <4>1, <4>2
    <3> QED
      BY <3>1, <3>2
  <2>. HIDE DEF new, old, b, T
  <2>5. walks[b] \in Seq(Places) /\ rest[b] \in Seq(S) /\ walks[i] \in Seq(Places)
    <3>1. i \in 1..n + 1
      OBVIOUS
    <3> QED
      BY <1>8, <1>9, <2>1, <3>1
  <2>6. Len(walks[i]) = Len(old) + Len(walks[b]) /\ Len(rest[b]) = Len(walks[b])
    <3>1. Len(Map(walks[b])) = Len(walks[b])
      BY <2>5
    <3> QED
      BY <2>2, <2>3, <2>4, <2>5, <3>1
  <2>7. new \o rest[b] = [k \in 1..Len(walks[i]) |-> Picked(t, by, walks[i][k])]
    <3>. DEFINE u == new \o rest[b]
                v == old \o walks[b]
    <3>1. /\ u \in Seq(S) /\ v \in Seq(Places) /\ Len(u) = Len(walks[i])
          /\ Len(old) \in Nat /\ Len(walks[b]) \in Nat
          /\ \A k \in 1..Len(old) : u[k] = new[k] /\ v[k] = old[k]
          /\ \A k \in Len(old) + 1..Len(old) + Len(walks[b]) :
               u[k] = rest[b][k - Len(old)] /\ v[k] = walks[b][k - Len(old)]
      <4>1. Len(new) = Len(old) /\ new \in Seq(S) /\ old \in Seq(Places)
        BY <2>4
      <4>2. /\ u \in Seq(S) /\ Len(u) = Len(new) + Len(rest[b])
            /\ \A k \in 1..Len(new) : u[k] = new[k]
            /\ \A k \in Len(new) + 1..Len(new) + Len(rest[b]) : u[k] = rest[b][k - Len(new)]
        <5>. DEFINE behind == rest[b]
        <5>1. behind \in Seq(S)
          BY <2>5
        <5>. HIDE DEF behind
        <5>2. u = new \o behind
          BY DEF behind
        <5>. HIDE DEF u
        <5>3. new \in Seq(S)
          BY <4>1
        <5>4. /\ u \in Seq(S) /\ Len(u) = Len(new) + Len(behind)
              /\ \A k \in 1..Len(new) : u[k] = new[k]
              /\ \A k \in Len(new) + 1..Len(new) + Len(behind) : u[k] = behind[k - Len(new)]
          BY <5>1, <5>2, <5>3, Joined
        <5> QED
          BY <5>4 DEF behind
      <4>3. /\ v \in Seq(Places) /\ Len(old) \in Nat /\ Len(walks[b]) \in Nat
            /\ \A k \in 1..Len(old) : v[k] = old[k]
            /\ \A k \in Len(old) + 1..Len(old) + Len(walks[b]) : v[k] = walks[b][k - Len(old)]
        BY <2>5, <4>1, Joined
      <4>. HIDE DEF u, v
      <4> QED
        BY <2>6, <4>1, <4>2, <4>3
    <3>. HIDE DEF u, v
    <3>2. \A j \in 1..Len(walks[b]) : rest[b][j] = Picked(t, by, walks[b][j])
      BY <2>2
    <3>3. \A k \in 1..Len(walks[i]) : u[k] = Picked(t, by, v[k])
      <4>. TAKE k \in 1..Len(walks[i])
      <4>1. CASE k <= Len(old)
        BY <2>4, <3>1, <4>1
      <4>2. CASE ~ (k <= Len(old))
        <5>1. k \in Len(old) + 1..Len(old) + Len(walks[b]) /\ k - Len(old) \in 1..Len(walks[b])
          BY <2>6, <3>1, <4>2
        <5> QED
          BY <3>1, <3>2, <5>1
      <4> QED
        BY <4>1, <4>2
    <3>4. u = [k \in 1..Len(walks[i]) |-> u[k]]
      BY <3>1
    <3>5. v = walks[i]
      BY <2>3 DEF v
    <3>6. u = [k \in 1..Len(walks[i]) |-> Picked(t, by, walks[i][k])]
      BY <3>3, <3>4, <3>5
    <3> QED
      BY <3>6 DEF u
  <2>8. i \in 1..n + 1 /\ rest[i] = Map(walks[i])
    BY <1>2, <2>3, <2>7
  <2> QED
    BY <2>8 DEF T
<1>12. 1 \in T
  <2>. HIDE DEF T
  <2>1. ASSUME NEW i \in 1..(n + 1) - 1, \A j \in i + 1..n + 1 : j \in T
        PROVE  i \in T
    <3>1. i \in 1..n
      BY <1>2
    <3> QED
      BY <1>11, <2>1, <3>1
  <2>2. \A i \in 1..n + 1 : i \in T
    <3>. HIDE DEF n
    <3>1. n + 1 \in Nat
      BY <1>2
    <3> QED
      BY <1>10, <2>1, <3>1, FromTheEnd
  <2> QED
    BY <1>2, <2>2
<1> QED
  BY <1>3, <1>6, <1>8, <1>9, <1>12 DEF Picks

-----------------------------------------------------------------------------
(* Types *)

SourceKinds == Worded \cup Separators \cup {"|", "frame", "location"}

WorkKinds == SourceKinds \cup {"placeholder", "remainder"}

Values == Replaced \cup {"", "a", "b", "line", "request_id", "id"}

SourceTokens == [kind : SourceKinds, value : Values]

WorkTokens == [kind : WorkKinds, value : Values]

\* The sets of kinds are what they are; none has the end of a text in it.
LEMMA KindsAre ==
  /\ Separators \subseteq SourceKinds /\ Worded \subseteq SourceKinds
  /\ Valued \subseteq SourceKinds /\ Numbers \subseteq SourceKinds
  /\ SourceKinds \subseteq WorkKinds
  /\ "end" \notin WorkKinds
<1>1. /\ Separators \subseteq SourceKinds /\ Worded \subseteq SourceKinds
      /\ Valued \subseteq SourceKinds /\ SourceKinds \subseteq WorkKinds
  BY DEF SourceKinds, WorkKinds, Separators, Valued
<1>2. Numbers \subseteq Worded
  BY DEF Numbers, Worded, Replaced
<1>3. "end" \notin WorkKinds
  BY DEF SourceKinds, WorkKinds, Worded, Replaced, Separators
<1> QED
  BY <1>1, <1>2, <1>3

\* The kind at a position in the text and beyond it.
LEMMA KindIs ==
  ASSUME NEW t \in Seq(WorkTokens), NEW i \in Nat
  PROVE  /\ i \in 1..Len(t) => /\ Kind(t, i) = t[i].kind /\ t[i] \in WorkTokens
                               /\ Kind(t, i) \in WorkKinds
         /\ i \notin 1..Len(t) => Kind(t, i) = "end"
         /\ Kind(t, i) # "end" => i \in 1..Len(t)
<1>1. DOMAIN t = 1..Len(t) /\ "end" \notin WorkKinds
  BY KindsAre
<1>2. ASSUME i \in 1..Len(t)
      PROVE  /\ Kind(t, i) = t[i].kind /\ t[i] \in WorkTokens
             /\ Kind(t, i) \in WorkKinds
  <2>1. t[i] \in WorkTokens
    BY <1>2
  <2>2. t[i].kind \in WorkKinds
    BY <2>1 DEF WorkTokens
  <2> QED
    BY <1>1, <1>2, <2>1, <2>2 DEF Kind
<1>3. i \notin 1..Len(t) => Kind(t, i) = "end"
  BY <1>1 DEF Kind
<1> QED
  BY <1>1, <1>2, <1>3

\* Strip leaves what is from the first token to the last that is not a space.
LEMMA StripIs ==
  ASSUME NEW S, NEW t \in Seq(S)
  PROVE  \/ Strip(t) = <<>> /\ \A i \in 1..Len(t) : Kind(t, i) = " "
         \/ \E a, b \in 1..Len(t) :
              /\ a <= b /\ Strip(t) = SubSeq(t, a, b)
              /\ Kind(t, a) # " " /\ Kind(t, b) # " "
              /\ \A i \in 1..Len(t) : i < a \/ i > b => Kind(t, i) = " "
<1>. DEFINE solid == {i \in DOMAIN t : Kind(t, i) # " "}
            n == Len(t)
<1>1. n \in Nat /\ DOMAIN t = 1..n
  OBVIOUS
<1>2. Strip(t) = IF solid = {} THEN <<>> ELSE SubSeq(t, Min(solid), Max(solid))
  BY Zenon DEF Strip
<1>3. CASE solid = {}
  <2>1. \A i \in 1..n : i \notin solid
    BY <1>3
  <2>2. \A i \in 1..n : Kind(t, i) = " "
    BY <1>1, <2>1
  <2>3. Strip(t) = <<>>
    <3>. HIDE DEF solid
    <3> QED
      BY <1>2, <1>3
  <2> QED
    BY <2>2, <2>3
<1>4. CASE solid # {}
  <2>1. solid \in SUBSET Nat /\ \A k \in solid : k <= n
    <3>1. solid \subseteq 1..n
      BY <1>1
    <3>. HIDE DEF solid
    <3> QED
      BY <1>1, <3>1
  <2>. DEFINE a == Min(solid)
              b == Max(solid)
  <2>2. /\ a \in solid /\ \A k \in solid : a <= k
        /\ b \in solid /\ \A k \in solid : k <= b
    <3>. HIDE DEF solid
    <3> QED
      BY <1>1, <1>4, <2>1, MinIsLeast, MaxIsGreatest
  <2>3. Strip(t) = SubSeq(t, a, b)
    <3>. HIDE DEF solid
    <3> QED
      BY <1>2, <1>4
  <2>. HIDE DEF a, b
  <2>4. /\ a \in 1..n /\ b \in 1..n /\ a <= b
        /\ Kind(t, a) # " " /\ Kind(t, b) # " "
    BY <1>1, <2>2
  <2>5. ASSUME NEW i \in 1..n, i < a \/ b < i
        PROVE  Kind(t, i) = " "
    <3>1. i \notin solid
      <4>. HIDE DEF solid
      <4>. SUFFICES ASSUME i \in solid
                    PROVE  FALSE
        OBVIOUS
      <4>1. a <= i /\ i <= b
        BY <2>2
      <4>2. a \in 1..n /\ b \in 1..n
        BY <2>4
      <4>. HIDE DEF n
      <4> QED
        BY <2>5, <4>1, <4>2
    <3> QED
      BY <1>1, <3>1
  <2> QED
    BY <2>3, <2>4, <2>5
<1> QED
  BY <1>3, <1>4

\* What it leaves is of the same tokens.
LEMMA StripType ==
  ASSUME NEW S, NEW t \in Seq(S)
  PROVE  Strip(t) \in Seq(S)
<1>1. CASE Strip(t) = <<>>
  BY <1>1
<1>2. CASE \E a, b \in 1..Len(t) : a <= b /\ Strip(t) = SubSeq(t, a, b)
  <2>1. PICK a \in 1..Len(t), b \in 1..Len(t) : a <= b /\ Strip(t) = SubSeq(t, a, b)
    BY <1>2
  <2> QED
    BY <2>1, SubSeqProperties
<1> QED
  BY <1>1, <1>2, StripIs

\* A match of the beginning of a frame.
LEMMA FrameEnds ==
  ASSUME NEW t \in Seq(WorkTokens), NEW i \in 1..Len(t)
  PROVE  LET e == FrameEnd(t, i)
         IN  /\ e \in i..Len(t) + 1
             /\ e # i <=> /\ Kind(t, i) = "frame" /\ Kind(t, i + 1) \in Numbers
                          /\ Kind(t, i + 2) = "location"
             /\ e # i => e = i + 3
<1>1. Len(t) \in Nat
  OBVIOUS
<1>2. Kind(t, i + 2) = "location" => i + 2 \in 1..Len(t)
  BY KindIs
<1> QED
  BY <1>1, <1>2 DEF FrameEnd

\* A match of a colon before a number.
LEMMA ColonEnds ==
  ASSUME NEW t \in Seq(WorkTokens), NEW i \in 1..Len(t)
  PROVE  LET e == ColonEnd(t, i)
         IN  /\ e \in i..Len(t) + 1
             /\ e # i <=> Kind(t, i) = ":" /\ Kind(t, i + 1) \in Numbers
             /\ e # i => e = i + 2
<1>1. Len(t) \in Nat /\ "end" \notin Numbers
  BY DEF Numbers
<1>2. Kind(t, i + 1) \in Numbers => i + 1 \in 1..Len(t)
  BY <1>1, KindIs
<1> QED
  BY <1>1, <1>2 DEF ColonEnd

\* A match of a label, with what is between it and its number.
LEMMA LabelEnds ==
  ASSUME NEW t \in Seq(WorkTokens), NEW i \in 1..Len(t)
  PROVE  LET e == LabelEnd(t, i)
             after == RunEnd(t, i + 1, Separators)
         IN  /\ e \in i..Len(t) + 1
             /\ after \in i + 1..Len(t) + 1 /\ Kind(t, after) \notin Separators
             /\ \A k \in i + 1..after - 1 : Kind(t, k) \in Separators
             /\ e # i <=> /\ \/ Kind(t, i) \in {"label", "request"} /\ after > i + 1
                             \/ Kind(t, i) = "frame"
                          /\ Kind(t, after) \in Numbers
             /\ e # i => e = after + 1
<1>. DEFINE after == RunEnd(t, i + 1, Separators)
<1>1. Len(t) \in Nat /\ "end" \notin Numbers /\ "end" \notin Separators
  BY DEF Numbers, Separators
<1>2. /\ after \in i + 1..Len(t) + 1 /\ Kind(t, after) \notin Separators
      /\ \A k \in i + 1..after - 1 : Kind(t, k) \in Separators
  BY <1>1, RunEnds
<1>3. LabelEnd(t, i) = IF /\ \/ Kind(t, i) \in {"label", "request"} /\ after > i + 1
                             \/ Kind(t, i) = "frame"
                          /\ Kind(t, after) \in Numbers
                       THEN after + 1 ELSE i
  BY Zenon DEF LabelEnd
<1>. HIDE DEF after
<1>4. Kind(t, after) \in Numbers => after \in 1..Len(t)
  <2>1. after \in Nat
    BY <1>1, <1>2
  <2> QED
    BY <1>1, <2>1, KindIs
<1>5. /\ LabelEnd(t, i) \in i..Len(t) + 1
      /\ LabelEnd(t, i) # i <=> /\ \/ Kind(t, i) \in {"label", "request"} /\ after > i + 1
                                   \/ Kind(t, i) = "frame"
                                /\ Kind(t, after) \in Numbers
      /\ LabelEnd(t, i) # i => LabelEnd(t, i) = after + 1
  BY <1>1, <1>2, <1>3, <1>4
<1> QED
  BY <1>2, <1>5 DEF after

\* Where the value of a request id begins.
RequestBegin(t, i) ==
  LET after  == RunEnd(t, i + 1, Separators)
      colons == {j \in i + 1..after - 1 : Kind(t, j) = ":"}
  IN  IF Kind(t, after) \in Valued \/ colons = {} THEN after ELSE Max(colons)

\* A match of a request id: separators, then its value.
LEMMA RequestEnds ==
  ASSUME NEW t \in Seq(WorkTokens), NEW i \in 1..Len(t)
  PROVE  LET e == RequestEnd(t, i)
             b == RequestBegin(t, i)
         IN  /\ e \in i..Len(t) + 1
             /\ b \in i + 1..Len(t) + 1
             /\ \A k \in i + 1..b - 1 : Kind(t, k) \in Separators
             /\ e # i <=> Kind(t, i) = "request" /\ Kind(t, b) \in Valued
             /\ e # i => /\ b < e /\ Kind(t, e) \notin Valued
                         /\ \A k \in b..e - 1 : Kind(t, k) \in Valued
<1>. DEFINE after == RunEnd(t, i + 1, Separators)
            colons == {j \in i + 1..after - 1 : Kind(t, j) = ":"}
            b == RequestBegin(t, i)
            e == RequestEnd(t, i)
<1>1. Len(t) \in Nat /\ "end" \notin Valued /\ "end" \notin Separators
  BY KindsAre
<1>2. /\ after \in i + 1..Len(t) + 1
      /\ \A k \in i + 1..after - 1 : Kind(t, k) \in Separators
  BY <1>1, RunEnds
<1>3. b = IF Kind(t, after) \in Valued \/ colons = {} THEN after ELSE Max(colons)
  BY Zenon DEF RequestBegin
<1>4. e = IF Kind(t, i) = "request" /\ Kind(t, b) \in Valued
          THEN RunEnd(t, b, Valued) ELSE i
  BY Zenon DEF RequestEnd, RequestBegin
<1>. HIDE DEF after, b, e
<1>5. b \in i + 1..after
  <2>1. CASE Kind(t, after) \in Valued \/ colons = {}
    BY <1>1, <1>2, <1>3, <2>1
  <2>2. CASE ~ (Kind(t, after) \in Valued \/ colons = {})
    <3>1. colons \in SUBSET Nat /\ \A k \in colons : k <= after
      BY <1>1, <1>2
    <3>2. after \in Nat /\ colons # {}
      BY <1>1, <1>2, <2>2
    <3>3. Max(colons) \in colons
      <4>. HIDE DEF colons
      <4> QED
        BY <3>1, <3>2, MaxIsGreatest
    <3>4. b \in colons
      <4>. HIDE DEF colons
      <4> QED
        BY <1>3, <2>2, <3>3
    <3> QED
      BY <1>1, <1>2, <3>4
  <2> QED
    BY <2>1, <2>2
<1>6. b \in i + 1..Len(t) + 1 /\ \A k \in i + 1..b - 1 : Kind(t, k) \in Separators
  BY <1>1, <1>2, <1>5
<1>7. b \in 1..Len(t) + 1
  BY <1>1, <1>6
<1>8. /\ RunEnd(t, b, Valued) \in b..Len(t) + 1
      /\ Kind(t, RunEnd(t, b, Valued)) \notin Valued
      /\ \A k \in b..RunEnd(t, b, Valued) - 1 : Kind(t, k) \in Valued
  BY <1>1, <1>7, RunEnds
<1>9. /\ e \in i..Len(t) + 1
      /\ e # i <=> Kind(t, i) = "request" /\ Kind(t, b) \in Valued
      /\ e # i => /\ b < e /\ Kind(t, e) \notin Valued
                  /\ \A k \in b..e - 1 : Kind(t, k) \in Valued
  <2>. DEFINE r == RunEnd(t, b, Valued)
  <2>1. /\ r \in b..Len(t) + 1 /\ Kind(t, r) \notin Valued
        /\ \A k \in b..r - 1 : Kind(t, k) \in Valued
    BY <1>8
  <2>. HIDE DEF r
  <2>2. CASE Kind(t, i) = "request" /\ Kind(t, b) \in Valued
    <3>1. e = r
      BY <1>4, <2>2 DEF r
    <3>2. b # r
      BY <2>1, <2>2
    <3> QED
      BY <1>1, <1>6, <2>1, <2>2, <3>1, <3>2
  <2>3. CASE ~ (Kind(t, i) = "request" /\ Kind(t, b) \in Valued)
    BY <1>1, <1>4, <2>3
  <2> QED
    BY <2>2, <2>3
<1> QED
  BY <1>6, <1>9 DEF b, e

\* A run of spaces.
LEMMA SpaceEnds ==
  ASSUME NEW t \in Seq(WorkTokens), NEW i \in 1..Len(t)
  PROVE  LET e == RunEnd(t, i, {" "})
         IN  /\ e \in i..Len(t) + 1
             /\ e # i <=> Kind(t, i) = " "
             /\ Kind(t, e) # " "
             /\ \A k \in i..e - 1 : Kind(t, k) = " "
<1>. DEFINE space == {" "}
            e == RunEnd(t, i, space)
<1>1. Len(t) \in Nat /\ "end" \notin space /\ i \in 1..Len(t) + 1
  OBVIOUS
<1>2. \A x : x \in space <=> x = " "
  OBVIOUS
<1>3. e \in i..Len(t) + 1 /\ Kind(t, e) \notin space /\ \A k \in i..e - 1 : Kind(t, k) \in space
  <2>. HIDE DEF space
  <2> QED
    BY <1>1, RunEnds
<1>. HIDE DEF e, space
<1>4. e # i <=> Kind(t, i) = " "
  <2>1. e = i => Kind(t, i) # " "
    BY <1>2, <1>3
  <2>2. e # i => i \in i..e - 1
    BY <1>1, <1>3
  <2> QED
    BY <1>2, <1>3, <2>1, <2>2
<1>5. Kind(t, e) # " " /\ \A k \in i..e - 1 : Kind(t, k) = " "
  BY <1>2, <1>3
<1> QED
  BY <1>3, <1>4, <1>5 DEF e, space

\* Short sequences.
LEMMA ShortSequences ==
  ASSUME NEW S, NEW x \in S, NEW y \in S, NEW z \in S
  PROVE  /\ <<x>> \in Seq(S) /\ Len(<<x>>) = 1 /\ <<x>> # <<>>
         /\ <<x, y>> \in Seq(S) /\ Len(<<x, y>>) = 2 /\ <<x, y>> # <<>>
         /\ <<x, y, z>> \in Seq(S) /\ Len(<<x, y, z>>) = 3 /\ <<x, y, z>> # <<>>
OBVIOUS

\* The tokens of a text on its way, and those of a source.
LEMMA TokenTypes ==
  /\ \A kind \in WorkKinds, value \in Values : Token(kind, value) \in WorkTokens
  /\ \A kind \in SourceKinds, value \in Values : Token(kind, value) \in SourceTokens
  /\ \A kind \in WorkKinds : Mark(kind) \in WorkTokens
  /\ \A kind \in SourceKinds : Mark(kind) \in SourceTokens
  /\ \A value \in Values : Placeholder(value) \in WorkTokens
<1>1. "" \in Values /\ "placeholder" \in WorkKinds
  BY DEF Values, WorkKinds
<1> QED
  BY <1>1 DEF Token, Mark, Placeholder, WorkTokens, SourceTokens

\* What each substitution puts in the place of a match.
FrameBy(t) == [i \in DOMAIN t |-> <<t[i], Placeholder("line"), t[i + 2]>>]
RequestBy(t) == [i \in DOMAIN t |-> <<t[i], Mark(":"), Placeholder("request_id")>>]
LabelBy(t) == [i \in DOMAIN t |-> <<t[i], Mark("="), Placeholder("id")>>]
SpaceBy(t) == [i \in DOMAIN t |-> <<Mark(" ")>>]
ColonBy(t) == [i \in DOMAIN t |-> <<t[i], Placeholder("line")>>]

\* And where its matches end.
FrameEndsOf(t) == [i \in DOMAIN t |-> FrameEnd(t, i)]
RequestEndsOf(t) == [i \in DOMAIN t |-> RequestEnd(t, i)]
LabelEndsOf(t) == [i \in DOMAIN t |-> LabelEnd(t, i)]
SpaceEndsOf(t) == [i \in DOMAIN t |-> RunEnd(t, i, {" "})]
ColonEndsOf(t) == [i \in DOMAIN t |-> ColonEnd(t, i)]

\* What Apply does for each name.
LEMMA ApplyIs ==
  ASSUME NEW t
  PROVE  /\ Apply("strip", t) = Strip(t)
         /\ \A s \in Replaced : Apply(s, t) = Replace(t, s)
         /\ Apply("frame", t) = Substitute(t, FrameEndsOf(t), FrameBy(t))
         /\ Apply("request_id", t) = Substitute(t, RequestEndsOf(t), RequestBy(t))
         /\ Apply("label", t) = Substitute(t, LabelEndsOf(t), LabelBy(t))
         /\ Apply("space", t) = Strip(Substitute(t, SpaceEndsOf(t), SpaceBy(t)))
         /\ Apply("colon", t) = Substitute(t, ColonEndsOf(t), ColonBy(t))
<1>1. "strip" \notin Replaced /\ "frame" \notin Replaced /\ "request_id" \notin Replaced
      /\ "label" \notin Replaced /\ "space" \notin Replaced /\ "colon" \notin Replaced
  BY DEF Replaced
<1>2. Apply("strip", t) = Strip(t)
  BY <1>1 DEF Apply
<1>3. \A s \in Replaced : Apply(s, t) = Replace(t, s)
  BY <1>1 DEF Apply
<1>4. Apply("frame", t) = Substitute(t, FrameEndsOf(t), FrameBy(t))
  BY <1>1 DEF Apply, FrameEndsOf, FrameBy
<1>5. Apply("request_id", t) = Substitute(t, RequestEndsOf(t), RequestBy(t))
  BY <1>1 DEF Apply, RequestEndsOf, RequestBy
<1>6. Apply("label", t) = Substitute(t, LabelEndsOf(t), LabelBy(t))
  BY <1>1 DEF Apply, LabelEndsOf, LabelBy
<1>7. Apply("space", t) = Strip(Substitute(t, SpaceEndsOf(t), SpaceBy(t)))
  BY <1>1 DEF Apply, Collapse, SpaceEndsOf, SpaceBy
<1>8. Apply("colon", t) = Substitute(t, ColonEndsOf(t), ColonBy(t))
  BY <1>1 DEF Apply, ColonEndsOf, ColonBy
<1> QED
  BY <1>2, <1>3, <1>4, <1>5, <1>6, <1>7, <1>8

\* The tokens of a text on its way, with or without the bar.
AreWork(S) == S \subseteq WorkTokens /\ WorkTokens \ {Bar} \subseteq S

\* What substitutions put into a text is no bar.
LEMMA PutTokens ==
  ASSUME NEW S, AreWork(S)
  PROVE  /\ Mark(":") \in S /\ Mark("=") \in S /\ Mark(" ") \in S
         /\ \A value \in Values : Placeholder(value) \in S /\ Token("remainder", value) \in S
<1>1. /\ Mark(":") \in WorkTokens /\ Mark("=") \in WorkTokens /\ Mark(" ") \in WorkTokens
      /\ \A value \in Values : /\ Placeholder(value) \in WorkTokens
                               /\ Token("remainder", value) \in WorkTokens
  <2>1. /\ ":" \in WorkKinds /\ "=" \in WorkKinds /\ " " \in WorkKinds
        /\ "remainder" \in WorkKinds
    BY DEF WorkKinds, SourceKinds, Separators
  <2> QED
    BY <2>1, TokenTypes
<1>2. /\ Mark(":") # Bar /\ Mark("=") # Bar /\ Mark(" ") # Bar
      /\ \A value : Placeholder(value) # Bar /\ Token("remainder", value) # Bar
  BY DEF Bar, Mark, Placeholder, Token
<1> QED
  BY <1>1, <1>2 DEF AreWork

\* Every substitution fits the text.
LEMMA SubstitutionsFitIn ==
  ASSUME NEW S, AreWork(S), NEW t \in Seq(S)
  PROVE  /\ Fits(Len(t), FrameEndsOf(t), FrameBy(t), S)
         /\ Fits(Len(t), RequestEndsOf(t), RequestBy(t), S)
         /\ Fits(Len(t), LabelEndsOf(t), LabelBy(t), S)
         /\ Fits(Len(t), SpaceEndsOf(t), SpaceBy(t), S)
         /\ Fits(Len(t), ColonEndsOf(t), ColonBy(t), S)
<1>. t \in Seq(WorkTokens)
  BY SeqMonotonic DEF AreWork
<1>1. /\ Mark(":") \in S /\ Mark("=") \in S /\ Mark(" ") \in S
      /\ Placeholder("line") \in S /\ Placeholder("request_id") \in S
      /\ Placeholder("id") \in S
  <2>1. "line" \in Values /\ "request_id" \in Values /\ "id" \in Values
    BY DEF Values
  <2> QED
    BY <2>1, PutTokens
<1>2. DOMAIN t = 1..Len(t) /\ Len(t) \in Nat /\ \A i \in 1..Len(t) : t[i] \in S
  OBVIOUS
<1>3. ASSUME NEW i \in 1..Len(t), NEW e \in i..Len(t) + 1
      PROVE  e \in 1..Len(t) + 1
  BY <1>2
<1>4. Fits(Len(t), FrameEndsOf(t), FrameBy(t), S)
  <2>. SUFFICES ASSUME NEW i \in 1..Len(t)
                PROVE  /\ FrameEndsOf(t)[i] \in 1..Len(t) + 1
                       /\ FrameEndsOf(t)[i] > i => /\ FrameBy(t)[i] \in Seq(S)
                                                   /\ FrameBy(t)[i] # <<>>
    BY DEF Fits
  <2>1. FrameEndsOf(t)[i] = FrameEnd(t, i)
    BY <1>2 DEF FrameEndsOf
  <2>2. FrameBy(t)[i] = <<t[i], Placeholder("line"), t[i + 2]>>
    BY <1>2 DEF FrameBy
  <2>3. FrameEnd(t, i) \in i..Len(t) + 1
    BY FrameEnds
  <2>4. FrameEnd(t, i) > i => i + 2 \in 1..Len(t)
    BY <1>2, FrameEnds
  <2>. HIDE DEF FrameBy
  <2>5. FrameEnd(t, i) > i => <<t[i], Placeholder("line"), t[i + 2]>> \in Seq(S)
    BY <1>1, <1>2, <2>4, ShortSequences
  <2>6. <<t[i], Placeholder("line"), t[i + 2]>> # <<>>
    OBVIOUS
  <2> QED
    BY <1>3, <2>1, <2>2, <2>3, <2>5, <2>6
<1>5. Fits(Len(t), RequestEndsOf(t), RequestBy(t), S)
  <2>. SUFFICES ASSUME NEW i \in 1..Len(t)
                PROVE  /\ RequestEndsOf(t)[i] \in 1..Len(t) + 1
                       /\ RequestBy(t)[i] \in Seq(S)
                       /\ RequestBy(t)[i] # <<>>
    BY DEF Fits
  <2>1. RequestEndsOf(t)[i] = RequestEnd(t, i)
    BY <1>2 DEF RequestEndsOf
  <2>2. RequestBy(t)[i] = <<t[i], Mark(":"), Placeholder("request_id")>>
    BY <1>2 DEF RequestBy
  <2>3. RequestEnd(t, i) \in i..Len(t) + 1
    BY RequestEnds
  <2>4. /\ <<t[i], Mark(":"), Placeholder("request_id")>> \in Seq(S)
        /\ <<t[i], Mark(":"), Placeholder("request_id")>> # <<>>
    BY <1>1, <1>2, ShortSequences
  <2> QED
    BY <1>3, <2>1, <2>2, <2>3, <2>4
<1>6. Fits(Len(t), LabelEndsOf(t), LabelBy(t), S)
  <2>. SUFFICES ASSUME NEW i \in 1..Len(t)
                PROVE  /\ LabelEndsOf(t)[i] \in 1..Len(t) + 1
                       /\ LabelBy(t)[i] \in Seq(S)
                       /\ LabelBy(t)[i] # <<>>
    BY DEF Fits
  <2>1. LabelEndsOf(t)[i] = LabelEnd(t, i)
    BY <1>2 DEF LabelEndsOf
  <2>2. LabelBy(t)[i] = <<t[i], Mark("="), Placeholder("id")>>
    BY <1>2 DEF LabelBy
  <2>3. LabelEnd(t, i) \in i..Len(t) + 1
    BY LabelEnds
  <2>4. /\ <<t[i], Mark("="), Placeholder("id")>> \in Seq(S)
        /\ <<t[i], Mark("="), Placeholder("id")>> # <<>>
    BY <1>1, <1>2, ShortSequences
  <2> QED
    BY <1>3, <2>1, <2>2, <2>3, <2>4
<1>7. Fits(Len(t), SpaceEndsOf(t), SpaceBy(t), S)
  <2>. SUFFICES ASSUME NEW i \in 1..Len(t)
                PROVE  /\ SpaceEndsOf(t)[i] \in 1..Len(t) + 1
                       /\ SpaceBy(t)[i] \in Seq(S)
                       /\ SpaceBy(t)[i] # <<>>
    BY DEF Fits
  <2>1. SpaceEndsOf(t)[i] = RunEnd(t, i, {" "})
    BY <1>2 DEF SpaceEndsOf
  <2>2. SpaceBy(t)[i] = <<Mark(" ")>>
    BY <1>2 DEF SpaceBy
  <2>3. RunEnd(t, i, {" "}) \in i..Len(t) + 1
    BY SpaceEnds
  <2>4. <<Mark(" ")>> \in Seq(S) /\ <<Mark(" ")>> # <<>>
    BY <1>1, ShortSequences
  <2> QED
    BY <1>3, <2>1, <2>2, <2>3, <2>4
<1>8. Fits(Len(t), ColonEndsOf(t), ColonBy(t), S)
  <2>. SUFFICES ASSUME NEW i \in 1..Len(t)
                PROVE  /\ ColonEndsOf(t)[i] \in 1..Len(t) + 1
                       /\ ColonBy(t)[i] \in Seq(S)
                       /\ ColonBy(t)[i] # <<>>
    BY DEF Fits
  <2>1. ColonEndsOf(t)[i] = ColonEnd(t, i)
    BY <1>2 DEF ColonEndsOf
  <2>2. ColonBy(t)[i] = <<t[i], Placeholder("line")>>
    BY <1>2 DEF ColonBy
  <2>3. ColonEnd(t, i) \in i..Len(t) + 1
    BY ColonEnds
  <2>4. <<t[i], Placeholder("line")>> \in Seq(S) /\ <<t[i], Placeholder("line")>> # <<>>
    BY <1>1, <1>2, ShortSequences
  <2> QED
    BY <1>3, <2>1, <2>2, <2>3, <2>4
<1> QED
  BY <1>4, <1>5, <1>6, <1>7, <1>8

LEMMA SubstitutionsFit ==
  ASSUME NEW t \in Seq(WorkTokens)
  PROVE  /\ Fits(Len(t), FrameEndsOf(t), FrameBy(t), WorkTokens)
         /\ Fits(Len(t), RequestEndsOf(t), RequestBy(t), WorkTokens)
         /\ Fits(Len(t), LabelEndsOf(t), LabelBy(t), WorkTokens)
         /\ Fits(Len(t), SpaceEndsOf(t), SpaceBy(t), WorkTokens)
         /\ Fits(Len(t), ColonEndsOf(t), ColonBy(t), WorkTokens)
<1>1. AreWork(WorkTokens)
  BY DEF AreWork
<1> QED
  BY <1>1, SubstitutionsFitIn, Zenon

\* What a substitution makes is of the same tokens.
LEMMA SubstituteType ==
  ASSUME NEW S, NEW t \in Seq(S), NEW ends, NEW by, Fits(Len(t), ends, by, S)
  PROVE  Substitute(t, ends, by) \in Seq(S)
<1>1. PICK rest \in [1..Len(t) + 1 -> Seq(S)] : Substitute(t, ends, by) = rest[1]
  BY SubstituteUnfolds
<1>2. 1 \in 1..Len(t) + 1
  OBVIOUS
<1> QED
  BY <1>1, <1>2

\* What becomes of a token when a kind is replaced.
Replacement(x, kind) ==
  IF x.kind \in IF kind = "hex" THEN {"hex", "huge"} ELSE {kind} THEN Placeholder(kind)
  ELSE IF x.kind \in Within(kind) THEN Token("remainder", x.value) ELSE x

\* Replace keeps the tokens it does not replace.
LEMMA ReplaceIs ==
  ASSUME NEW t \in Seq(WorkTokens), NEW kind \in Replaced
  PROVE  /\ Replace(t, kind) \in Seq(WorkTokens)
         /\ Len(Replace(t, kind)) = Len(t)
         /\ \A i \in 1..Len(t) : Replace(t, kind)[i] = Replacement(t[i], kind)
<1>. DEFINE kinds == IF kind = "hex" THEN {"hex", "huge"} ELSE {kind}
            new(i) == IF t[i].kind \in kinds THEN Placeholder(kind)
                      ELSE IF t[i].kind \in Within(kind)
                      THEN Token("remainder", t[i].value) ELSE t[i]
<1>1. DOMAIN t = 1..Len(t) /\ Len(t) \in Nat /\ \A i \in 1..Len(t) : t[i] \in WorkTokens
  OBVIOUS
<1>2. Replace(t, kind) = [i \in 1..Len(t) |-> new(i)]
  BY <1>1, Zenon DEF Replace
<1>3. Placeholder(kind) \in WorkTokens
  BY DEF Placeholder, Token, WorkTokens, WorkKinds, Values
<1>4. \A i \in 1..Len(t) : Token("remainder", t[i].value) \in WorkTokens
  BY <1>1 DEF Token, WorkTokens, WorkKinds
<1>5. \A i \in 1..Len(t) : new(i) \in WorkTokens
  BY <1>1, <1>3, <1>4
<1>. HIDE DEF new
<1>6. Replace(t, kind) \in Seq(WorkTokens) /\ Len(Replace(t, kind)) = Len(t)
  BY <1>1, <1>2, <1>5
<1>7. \A i \in 1..Len(t) : Replace(t, kind)[i] = new(i)
  BY <1>2
<1> QED
  BY <1>6, <1>7, Zenon DEF new, Replacement

\* And brings no bar.
LEMMA ReplaceType ==
  ASSUME NEW S, AreWork(S), NEW t \in Seq(S), NEW kind \in Replaced
  PROVE  Replace(t, kind) \in Seq(S)
<1>1. t \in Seq(WorkTokens)
  BY SeqMonotonic DEF AreWork
<1>2. kind \in Values /\ Placeholder(kind) \in S
  BY PutTokens DEF Values
<1>3. ASSUME NEW x \in S
      PROVE  Replacement(x, kind) \in S
  <2>1. x.value \in Values
    BY DEF AreWork, WorkTokens
  <2>2. Token("remainder", x.value) \in S
    BY <2>1, PutTokens
  <2> QED
    BY <1>2, <2>2 DEF Replacement
<1>4. /\ Replace(t, kind) \in Seq(WorkTokens) /\ Len(Replace(t, kind)) = Len(t)
      /\ \A i \in 1..Len(t) : Replace(t, kind)[i] = Replacement(t[i], kind)
  BY <1>1, ReplaceIs
<1>5. \A i \in 1..Len(t) : Replace(t, kind)[i] \in S
  BY <1>3, <1>4
<1> QED
  BY <1>4, <1>5

Names == Replaced \cup {"strip", "frame", "request_id", "label", "space", "colon"}

\* The names of the substitutions, one by one.
LEMMA SubstitutionsAre ==
  /\ Len(Substitutions(FALSE)) = 12 /\ Substitutions(FALSE) = Common
  /\ Len(Substitutions(TRUE)) = 15
  /\ Substitutions(TRUE)[1] = "strip" /\ Substitutions(TRUE)[2] = "frame"
  /\ Substitutions(TRUE)[15] = "colon"
  /\ \A k \in 1..12 : Substitutions(TRUE)[k + 2] = Common[k]
  /\ Len(Common) = 12 /\ \A k \in 1..12 : Common[k] \in Names
<1>1. Len(Common) = 12 /\ \A k \in 1..12 : Common[k] \in Names
  BY DEF Common, Names, Replaced
<1>2. Common \in Seq(Names)
  <2>1. /\ "strip" \in Names /\ "uuid" \in Names /\ "timestamp" \in Names /\ "date" \in Names
        /\ "email" \in Names /\ "ip" \in Names /\ "address" \in Names
        /\ "request_id" \in Names /\ "label" \in Names /\ "hex" \in Names
        /\ "long" \in Names /\ "space" \in Names
    BY DEF Names, Replaced
  <2> QED
    BY <2>1 DEF Common
<1>. DEFINE front == <<"strip", "frame">>
            head == front \o Common
            back == <<"colon">>
            all == head \o back
<1>3. /\ front \in Seq(Names) /\ Len(front) = 2 /\ front[1] = "strip" /\ front[2] = "frame"
      /\ back \in Seq(Names) /\ Len(back) = 1 /\ back[1] = "colon"
  <2>1. "strip" \in Names /\ "frame" \in Names /\ "colon" \in Names
    BY DEF Names
  <2> QED
    BY <2>1, ShortSequences
<1>4. Substitutions(FALSE) = Common /\ Substitutions(TRUE) = all
  BY DEF Substitutions
<1>. HIDE DEF front, back
<1>5. /\ head \in Seq(Names) /\ Len(head) = Len(front) + Len(Common)
      /\ \A k \in 1..Len(front) : head[k] = front[k]
      /\ \A k \in Len(front) + 1..Len(front) + Len(Common) : head[k] = Common[k - Len(front)]
  BY <1>2, <1>3, Joined
<1>. HIDE DEF head
<1>6. /\ Len(all) = Len(head) + Len(back)
      /\ \A k \in 1..Len(head) : all[k] = head[k]
      /\ \A k \in Len(head) + 1..Len(head) + Len(back) : all[k] = back[k - Len(head)]
  <2>1. head \in Seq(Names) /\ back \in Seq(Names)
    BY <1>3, <1>5
  <2> QED
    BY <2>1, Joined
<1>. HIDE DEF all
<1>7. /\ Len(head) = 14 /\ head[1] = "strip" /\ head[2] = "frame"
      /\ \A k \in 1..12 : head[k + 2] = Common[k]
  BY <1>1, <1>3, <1>5
<1>8. /\ Len(all) = 15 /\ all[1] = "strip" /\ all[2] = "frame" /\ all[15] = "colon"
      /\ \A k \in 1..12 : all[k + 2] = Common[k]
  BY <1>3, <1>6, <1>7
<1> QED
  BY <1>1, <1>4, <1>8

\* They are all names that Apply knows.
LEMMA SubstitutionsType ==
  ASSUME NEW line \in BOOLEAN, NEW k \in 1..Len(Substitutions(line))
  PROVE  Substitutions(line)[k] \in Names
<1>1. \A j \in 1..12 : Common[j] \in Names
  BY SubstitutionsAre
<1>2. CASE line = FALSE
  BY <1>1, <1>2, SubstitutionsAre
<1>3. CASE line = TRUE
  <2>1. k \in 1..15
    BY <1>3, SubstitutionsAre
  <2>2. CASE k \in {1, 2, 15}
    BY <1>3, <2>2, SubstitutionsAre DEF Names
  <2>3. CASE k \notin {1, 2, 15}
    <3>1. k - 2 \in 1..12 /\ k = (k - 2) + 2
      BY <2>1, <2>3
    <3> QED
      BY <1>1, <1>3, <3>1, SubstitutionsAre
  <2> QED
    BY <2>2, <2>3
<1> QED
  BY <1>2, <1>3

\* A step of the normalization makes tokens again, and no bar.
LEMMA ApplyTypeIn ==
  ASSUME NEW S, AreWork(S), NEW t \in Seq(S), NEW s \in Names
  PROVE  Apply(s, t) \in Seq(S)
<1>1. CASE s = "strip"
  <2>1. Apply(s, t) = Strip(t)
    BY <1>1, ApplyIs
  <2> QED
    BY <2>1, StripType
<1>2. CASE s \in Replaced
  <2>1. Apply(s, t) = Replace(t, s)
    BY <1>2, ApplyIs
  <2>2. Replace(t, s) \in Seq(S)
    BY <1>2, ReplaceType
  <2> QED
    BY <2>1, <2>2
<1>3. CASE s = "frame"
  BY <1>3, ApplyIs, SubstitutionsFitIn, SubstituteType
<1>4. CASE s = "request_id"
  BY <1>4, ApplyIs, SubstitutionsFitIn, SubstituteType
<1>5. CASE s = "label"
  BY <1>5, ApplyIs, SubstitutionsFitIn, SubstituteType
<1>6. CASE s = "space"
  BY <1>6, ApplyIs, SubstitutionsFitIn, SubstituteType, StripType
<1>7. CASE s = "colon"
  BY <1>7, ApplyIs, SubstitutionsFitIn, SubstituteType
<1> QED
  BY <1>1, <1>2, <1>3, <1>4, <1>5, <1>6, <1>7 DEF Names

LEMMA ApplyType ==
  ASSUME NEW t \in Seq(WorkTokens), NEW s \in Names
  PROVE  Apply(s, t) \in Seq(WorkTokens)
<1>1. AreWork(WorkTokens)
  BY DEF AreWork
<1> QED
  BY <1>1, ApplyTypeIn, Zenon

\* The texts that come in are of the tokens of a source.
LEMMA InputsType ==
  /\ Texts(MaxMessage) \subseteq Seq(SourceTokens)
  /\ Lines \subseteq Seq(SourceTokens)
<1>1. Tokens \subseteq SourceTokens
  <2>1. \A kind \in Kinds \ {"request", "label"}, value \in {"a", "b"} : Token(kind, value) \in SourceTokens
    BY FingerprintAssumption DEF Token, SourceTokens, SourceKinds, Values
  <2>2. \A kind \in Separators \cup (Kinds \cap {"request", "label"}) : Mark(kind) \in SourceTokens
    BY FingerprintAssumption DEF Mark, Token, SourceTokens, SourceKinds, Values
  <2>3. Bar \in SourceTokens
    BY DEF Bar, Mark, Token, SourceTokens, SourceKinds, Values
  <2> QED
    BY <2>1, <2>2, <2>3 DEF Tokens
<1>2. ASSUME NEW n \in Nat
      PROVE  Texts(n) \subseteq Seq(SourceTokens)
  <2>. SUFFICES ASSUME NEW t \in Texts(n)
                PROVE  t \in Seq(SourceTokens)
    OBVIOUS
  <2>1. PICK m \in 0..n : t \in [1..m -> Tokens]
    BY Zenon DEF Texts
  <2>2. t \in [1..m -> SourceTokens] /\ m \in Nat
    BY <1>1, <2>1
  <2> QED
    BY <2>2
<1>3. ASSUME NEW number \in SourceTokens
      PROVE  /\ <<Mark("frame"), number>> \in Seq(SourceTokens)
             /\ <<Mark("frame"), number, Mark("location")>> \in Seq(SourceTokens)
  <2>1. "frame" \in SourceKinds /\ "location" \in SourceKinds
    BY DEF SourceKinds
  <2>2. Mark("frame") \in SourceTokens /\ Mark("location") \in SourceTokens
    BY <2>1, TokenTypes
  <2> QED
    BY <2>2, ShortSequences
<1>4. Texts(MaxMessage) \subseteq Seq(SourceTokens) /\ Texts(MaxLine) \subseteq Seq(SourceTokens)
  BY <1>2, FingerprintAssumption
<1>5. Lines \subseteq Seq(SourceTokens)
  <2>. SUFFICES ASSUME NEW t \in Lines
                PROVE  t \in Seq(SourceTokens)
    OBVIOUS
  <2>. DEFINE numbers == {Token(k, v) : k \in Numbers \cap Kinds, v \in {"a", "b"}}
  <2>1. numbers \subseteq SourceTokens
    <3>1. "a" \in Values /\ "b" \in Values
      BY DEF Values
    <3>2. \A k \in Numbers \cap Kinds, v \in {"a", "b"} : Token(k, v) \in SourceTokens
      BY <3>1, KindsAre, TokenTypes
    <3> QED
      BY <3>2
  <2>2. Lines = Texts(MaxLine)
                  \cup {<<Mark("frame"), number>> : number \in numbers}
                  \cup {<<Mark("frame"), number, Mark("location")>> : number \in numbers}
    BY DEF Lines
  <2>. HIDE DEF numbers
  <2>3. \/ t \in Texts(MaxLine)
        \/ \E number \in numbers : t = <<Mark("frame"), number>>
        \/ \E number \in numbers : t = <<Mark("frame"), number, Mark("location")>>
    BY <2>2
  <2> QED
    BY <1>3, <1>4, <2>1, <2>3
<1> QED
  BY <1>4, <1>5

TypeInv ==
  /\ isLine \in BOOLEAN
  /\ source \in Seq(SourceTokens)
  /\ text \in Seq(WorkTokens)
  /\ twin \in Seq(WorkTokens)
  /\ pass \in 0..Len(Substitutions(isLine))

\* A source is a text.
LEMMA SourcesAreTexts == SourceTokens \subseteq WorkTokens /\ Seq(SourceTokens) \subseteq Seq(WorkTokens)
<1>1. SourceTokens \subseteq WorkTokens
  BY KindsAre DEF SourceTokens, WorkTokens
<1> QED
  BY <1>1, SeqMonotonic

\* What Typical makes is a text.
LEMMA TypicalType ==
  ASSUME NEW t \in Seq(SourceTokens), NEW line
  PROVE  Typical(t, line) \in Seq(WorkTokens)
<1>. DEFINE u == [i \in DOMAIN t |->
                    IF Incidental(t, line, i) THEN [t[i] EXCEPT !.value = "a"] ELSE t[i]]
<1>1. DOMAIN t = 1..Len(t) /\ Len(t) \in Nat /\ \A i \in 1..Len(t) : t[i] \in WorkTokens
  BY SourcesAreTexts
<1>2. \A x \in WorkTokens : [x EXCEPT !.value = "a"] \in WorkTokens
  BY DEF WorkTokens, Values
<1>3. u = [i \in 1..Len(t) |->
             IF Incidental(t, line, i) THEN [t[i] EXCEPT !.value = "a"] ELSE t[i]]
  BY <1>1
<1>4. u \in Seq(WorkTokens)
  <2>. HIDE DEF u
  <2> QED
    BY <1>1, <1>2, <1>3
<1>5. Typical(t, line) = Apply("space", u)
  BY ApplyIs, Zenon DEF Typical, Collapse, SpaceEndsOf, SpaceBy
<1>. HIDE DEF u
<1> QED
  BY <1>4, <1>5, ApplyType DEF Names

\* The types of a text on its way.
LEMMA TypesStay == Spec => []TypeInv
<1>1. Init => TypeInv
  <2>. SUFFICES ASSUME Init
                PROVE  TypeInv
    OBVIOUS
  <2>1. isLine \in BOOLEAN /\ source \in Seq(SourceTokens)
    BY InputsType DEF Init
  <2>2. text \in Seq(WorkTokens) /\ twin \in Seq(WorkTokens)
    BY <2>1, SourcesAreTexts, TypicalType DEF Init
  <2>3. pass \in 0..Len(Substitutions(isLine))
    BY <2>1, SubstitutionsAre DEF Init
  <2> QED
    BY <2>1, <2>2, <2>3 DEF TypeInv
<1>2. TypeInv /\ [Next]_vars => TypeInv'
  <2>. SUFFICES ASSUME TypeInv, [Next]_vars
                PROVE  TypeInv'
    OBVIOUS
  <2>1. CASE Step
    <3>. DEFINE n == Len(Substitutions(isLine))
    <3>1. n \in Nat /\ pass \in 0..n
      BY SubstitutionsAre DEF TypeInv
    <3>2. pass + 1 \in 1..n /\ pass' \in 0..n /\ isLine' = isLine
      <4>. HIDE DEF n
      <4>1. pass < n /\ pass' = pass + 1 /\ isLine' = isLine
        BY <2>1 DEF Step, n
      <4> QED
        BY <3>1, <4>1
    <3>3. Substitutions(isLine)[pass + 1] \in Names
      BY <3>2, SubstitutionsType DEF TypeInv
    <3>4. text' \in Seq(WorkTokens) /\ twin' \in Seq(WorkTokens)
      BY <2>1, <3>3, ApplyType DEF Step, TypeInv
    <3> QED
      BY <2>1, <3>2, <3>4 DEF Step, TypeInv
  <2>2. CASE UNCHANGED vars
    BY <2>2 DEF vars, TypeInv
  <2> QED
    BY <2>1, <2>2 DEF Next
<1> QED
  BY <1>1, <1>2, PTL DEF Spec

-----------------------------------------------------------------------------
(* What is hashed, and which logs it brings together *)

\* Where the tokens of four joined texts are, if the bars are there.
Parts(is, a, b, c, d, b1, b2, b3) ==
  /\ Len(is) = b3 + Len(d)
  /\ \A i \in 1..Len(a) : is[i] = a[i]
  /\ is[b1] = Bar
  /\ \A i \in 1..Len(b) : is[b1 + i] = b[i]
  /\ is[b2] = Bar
  /\ \A i \in 1..Len(c) : is[b2 + i] = c[i]
  /\ is[b3] = Bar
  /\ \A i \in 1..Len(d) : is[b3 + i] = d[i]

\* And there they are.
LEMMA JoinIs ==
  ASSUME NEW S, Bar \in S, NEW a \in Seq(S), NEW b \in Seq(S), NEW c \in Seq(S),
         NEW d \in Seq(S)
  PROVE  /\ Join(<<a, b, c, d>>) \in Seq(S)
         /\ Parts(Join(<<a, b, c, d>>), a, b, c, d, Len(a) + 1,
                  Len(a) + 1 + Len(b) + 1, Len(a) + 1 + Len(b) + 1 + Len(c) + 1)
<1>. DEFINE bar == <<Bar>>
            s1 == a \o bar
            s2 == s1 \o b
            s3 == s2 \o bar
            s4 == s3 \o c
            s5 == s4 \o bar
            s6 == s5 \o d
            b1 == Len(a) + 1
            b2 == b1 + Len(b) + 1
            b3 == b2 + Len(c) + 1
<1>1. Join(<<a, b, c, d>>) = s6
  BY DEF Join
<1>2. bar \in Seq(S) /\ Len(bar) = 1 /\ bar[1] = Bar
  OBVIOUS
<1>3. Len(a) \in Nat /\ Len(b) \in Nat /\ Len(c) \in Nat /\ Len(d) \in Nat
  OBVIOUS
<1>. DEFINE la == Len(a)
            lb == Len(b)
            lc == Len(c)
            ld == Len(d)
<1>. HIDE DEF bar
<1>4. /\ s1 \in Seq(S) /\ Len(s1) = b1 /\ s1[b1] = Bar
      /\ \A i \in 1..Len(a) : s1[i] = a[i]
  <2>1. /\ s1 \in Seq(S) /\ Len(s1) = Len(a) + Len(bar)
        /\ \A i \in 1..Len(a) : s1[i] = a[i]
        /\ \A i \in Len(a) + 1..Len(a) + Len(bar) : s1[i] = bar[i - Len(a)]
    BY <1>2, Joined
  <2>2. Len(a) + 1 \in Len(a) + 1..Len(a) + Len(bar) /\ (Len(a) + 1) - Len(a) = 1
    BY <1>2, <1>3
  <2> QED
    BY <1>2, <2>1, <2>2
<1>. HIDE DEF s1
<1>5. /\ s2 \in Seq(S) /\ Len(s2) = b1 + Len(b)
      /\ \A i \in 1..b1 : s2[i] = s1[i]
      /\ \A i \in 1..Len(b) : s2[b1 + i] = b[i]
  <2>1. /\ s2 \in Seq(S) /\ Len(s2) = Len(s1) + Len(b)
        /\ \A i \in 1..Len(s1) : s2[i] = s1[i]
        /\ \A i \in Len(s1) + 1..Len(s1) + Len(b) : s2[i] = b[i - Len(s1)]
    BY <1>4, Joined
  <2>2. \A i \in 1..Len(b) : /\ b1 + i \in b1 + 1..b1 + Len(b)
                             /\ (b1 + i) - b1 = i
    BY <1>3
  <2>. HIDE DEF b1, s2
  <2> QED
    BY <1>4, <2>1, <2>2
<1>. HIDE DEF s2
<1>6. /\ s3 \in Seq(S) /\ Len(s3) = b2 /\ s3[b2] = Bar
      /\ \A i \in 1..b1 + Len(b) : s3[i] = s2[i]
  <2>1. /\ s3 \in Seq(S) /\ Len(s3) = Len(s2) + Len(bar)
        /\ \A i \in 1..Len(s2) : s3[i] = s2[i]
        /\ \A i \in Len(s2) + 1..Len(s2) + Len(bar) : s3[i] = bar[i - Len(s2)]
    <3>1. bar \in Seq(S) /\ s2 \in Seq(S)
      BY <1>2, <1>5
    <3> QED
      BY <3>1, Joined
  <2>2. b2 = Len(s2) + 1 /\ b2 \in Len(s2) + 1..Len(s2) + Len(bar) /\ b2 - Len(s2) = 1
    BY <1>2, <1>3, <1>5
  <2>. HIDE DEF b2
  <2> QED
    BY <1>2, <1>5, <2>1, <2>2
<1>. HIDE DEF s3
<1>7. /\ s4 \in Seq(S) /\ Len(s4) = b2 + Len(c)
      /\ \A i \in 1..b2 : s4[i] = s3[i]
      /\ \A i \in 1..Len(c) : s4[b2 + i] = c[i]
  <2>1. /\ s4 \in Seq(S) /\ Len(s4) = Len(s3) + Len(c)
        /\ \A i \in 1..Len(s3) : s4[i] = s3[i]
        /\ \A i \in Len(s3) + 1..Len(s3) + Len(c) : s4[i] = c[i - Len(s3)]
    BY <1>6, Joined
  <2>2. \A i \in 1..Len(c) : /\ b2 + i \in b2 + 1..b2 + Len(c)
                             /\ (b2 + i) - b2 = i
    BY <1>3
  <2>. HIDE DEF b2, s4
  <2> QED
    BY <1>6, <2>1, <2>2
<1>. HIDE DEF s4
<1>8. /\ s5 \in Seq(S) /\ Len(s5) = b3 /\ s5[b3] = Bar
      /\ \A i \in 1..b2 + Len(c) : s5[i] = s4[i]
  <2>1. /\ s5 \in Seq(S) /\ Len(s5) = Len(s4) + Len(bar)
        /\ \A i \in 1..Len(s4) : s5[i] = s4[i]
        /\ \A i \in Len(s4) + 1..Len(s4) + Len(bar) : s5[i] = bar[i - Len(s4)]
    <3>1. bar \in Seq(S) /\ s4 \in Seq(S)
      BY <1>2, <1>7
    <3> QED
      BY <3>1, Joined
  <2>2. b3 = Len(s4) + 1 /\ b3 \in Len(s4) + 1..Len(s4) + Len(bar) /\ b3 - Len(s4) = 1
    BY <1>2, <1>3, <1>7
  <2>. HIDE DEF b3
  <2> QED
    BY <1>2, <1>7, <2>1, <2>2
<1>. HIDE DEF s5
<1>9. /\ s6 \in Seq(S) /\ Len(s6) = b3 + Len(d)
      /\ \A i \in 1..b3 : s6[i] = s5[i]
      /\ \A i \in 1..Len(d) : s6[b3 + i] = d[i]
  <2>1. /\ s6 \in Seq(S) /\ Len(s6) = Len(s5) + Len(d)
        /\ \A i \in 1..Len(s5) : s6[i] = s5[i]
        /\ \A i \in Len(s5) + 1..Len(s5) + Len(d) : s6[i] = d[i - Len(s5)]
    BY <1>8, Joined
  <2>2. \A i \in 1..Len(d) : /\ b3 + i \in b3 + 1..b3 + Len(d)
                             /\ (b3 + i) - b3 = i
    BY <1>3
  <2>. HIDE DEF b3, s6
  <2> QED
    BY <1>8, <2>1, <2>2
<1>. HIDE DEF s6
<1>10. \A i \in 1..b2 + Len(c) : s6[i] = s4[i]
  BY <1>3, <1>8, <1>9
<1>11. \A i \in 1..b2 : s6[i] = s3[i]
  BY <1>3, <1>7, <1>10
<1>12. \A i \in 1..b1 + Len(b) : s6[i] = s2[i]
  BY <1>3, <1>6, <1>11
<1>13. \A i \in 1..b1 : s6[i] = s1[i]
  BY <1>3, <1>5, <1>12
<1>14. /\ \A i \in 1..Len(a) : s6[i] = a[i]
       /\ s6[b1] = Bar
  <2>1. b1 \in 1..b1 /\ \A i \in 1..Len(a) : i \in 1..b1
    BY <1>3
  <2> QED
    BY <1>4, <1>13, <2>1
<1>15. \A i \in 1..Len(b) : s6[b1 + i] = b[i]
  <2>1. \A i \in 1..Len(b) : b1 + i \in 1..b1 + Len(b)
    BY <1>3
  <2> QED
    BY <1>5, <1>12, <2>1
<1>16. s6[b2] = Bar
  <2>1. b2 \in 1..b2
    BY <1>3
  <2> QED
    BY <1>6, <1>11, <2>1
<1>17. \A i \in 1..Len(c) : s6[b2 + i] = c[i]
  <2>1. \A i \in 1..Len(c) : b2 + i \in 1..b2 + Len(c)
    BY <1>3
  <2> QED
    BY <1>7, <1>10, <2>1
<1>18. s6[b3] = Bar
  BY <1>3, <1>8, <1>9
<1> QED
  BY <1>1, <1>9, <1>14, <1>15, <1>16, <1>17, <1>18 DEF Parts

\* A text without a bar that lies before a bar.
Before(is, k, b) ==
  /\ \A i \in 1..Len(b) : is[k + i] = b[i]
  /\ is[k + Len(b) + 1] = Bar

\* There is only one such text at a place.
LEMMA BeforeBar ==
  ASSUME NEW S, NEW is, NEW k \in Nat, NEW b \in Seq(S \ {Bar}), NEW c \in Seq(S \ {Bar}),
         Before(is, k, b), Before(is, k, c)
  PROVE  b = c
<1>1. /\ Len(b) \in Nat /\ \A i \in 1..Len(b) : b[i] # Bar
      /\ Len(c) \in Nat /\ \A i \in 1..Len(c) : c[i] # Bar
  OBVIOUS
<1>. DEFINE m == Len(b)
            n == Len(c)
<1>2. ~ m < n
  <2>. SUFFICES ASSUME m < n
                PROVE  FALSE
    OBVIOUS
  <2>1. m + 1 \in 1..n /\ k + m + 1 = k + (m + 1)
    BY <1>1
  <2> QED
    BY <1>1, <2>1 DEF Before
<1>3. ~ n < m
  <2>. SUFFICES ASSUME n < m
                PROVE  FALSE
    OBVIOUS
  <2>1. n + 1 \in 1..m /\ k + n + 1 = k + (n + 1)
    BY <1>1
  <2> QED
    BY <1>1, <2>1 DEF Before
<1>4. m = n
  BY <1>1, <1>2, <1>3
<1>5. \A i \in 1..m : b[i] = c[i]
  BY <1>4 DEF Before
<1> QED
  BY <1>4, <1>5, SeqEqual

\* Two joins that are the same and begin with one text; their second and their
\* third texts have no bar.
SameJoins(S, a, b1, c1, d1, b2, c2, d2) ==
  /\ Bar \in S /\ a \in Seq(S)
  /\ b1 \in Seq(S \ {Bar}) /\ c1 \in Seq(S \ {Bar}) /\ d1 \in Seq(S)
  /\ b2 \in Seq(S \ {Bar}) /\ c2 \in Seq(S \ {Bar}) /\ d2 \in Seq(S)
  /\ Join(<<a, b1, c1, d1>>) = Join(<<a, b2, c2, d2>>)

\* They are of the same texts.
LEMMA JoinTells ==
  ASSUME NEW S, NEW a, NEW b1, NEW c1, NEW d1, NEW b2, NEW c2, NEW d2,
         SameJoins(S, a, b1, c1, d1, b2, c2, d2)
  PROVE  b1 = b2 /\ c1 = c2 /\ d1 = d2
<1>. /\ Bar \in S /\ a \in Seq(S)
     /\ b1 \in Seq(S \ {Bar}) /\ c1 \in Seq(S \ {Bar}) /\ d1 \in Seq(S)
     /\ b2 \in Seq(S \ {Bar}) /\ c2 \in Seq(S \ {Bar}) /\ d2 \in Seq(S)
     /\ Join(<<a, b1, c1, d1>>) = Join(<<a, b2, c2, d2>>)
  BY DEF SameJoins
<1>. DEFINE is == Join(<<a, b1, c1, d1>>)
            at(b) == Len(a) + 1 + Len(b) + 1
            end(b, c) == Len(a) + 1 + Len(b) + 1 + Len(c) + 1
<1>1. b1 \in Seq(S) /\ c1 \in Seq(S) /\ b2 \in Seq(S) /\ c2 \in Seq(S)
  <2>1. S \ {Bar} \subseteq S
    OBVIOUS
  <2> QED
    BY <2>1, SeqMonotonic
<1>2. /\ Parts(is, a, b1, c1, d1, Len(a) + 1, at(b1), end(b1, c1))
      /\ Parts(is, a, b2, c2, d2, Len(a) + 1, at(b2), end(b2, c2))
  BY <1>1, JoinIs
<1>. HIDE DEF is
<1>3. Len(a) \in Nat /\ Len(b1) \in Nat /\ Len(c1) \in Nat /\ Len(b2) \in Nat /\ Len(c2) \in Nat
      /\ Len(d1) \in Nat /\ Len(d2) \in Nat
  OBVIOUS
<1>4. b1 = b2
  <2>1. Before(is, Len(a) + 1, b1) /\ Before(is, Len(a) + 1, b2)
    BY <1>2 DEF Parts, Before
  <2>2. Len(a) + 1 \in Nat
    BY <1>3
  <2> QED
    BY <2>1, <2>2, BeforeBar
<1>5. c1 = c2
  <2>1. Before(is, at(b1), c1) /\ Before(is, at(b1), c2)
    BY <1>2, <1>4 DEF Parts, Before
  <2>2. at(b1) \in Nat
    BY <1>3
  <2>. HIDE DEF at
  <2> QED
    BY <2>1, <2>2, BeforeBar
<1>6. d1 = d2
  <2>1. end(b1, c1) \in Nat
    BY <1>3
  <2>2. /\ Len(is) = end(b1, c1) + Len(d1) /\ Len(is) = end(b1, c1) + Len(d2)
        /\ \A i \in 1..Len(d1) : is[end(b1, c1) + i] = d1[i]
        /\ \A i \in 1..Len(d2) : is[end(b1, c1) + i] = d2[i]
    BY <1>2, <1>4, <1>5 DEF Parts
  <2>. HIDE DEF end
  <2>3. Len(d1) = Len(d2)
    BY <1>3, <2>1, <2>2
  <2>4. \A i \in 1..Len(d1) : d1[i] = d2[i]
    BY <2>2, <2>3
  <2> QED
    BY <2>3, <2>4, SeqEqual
<1> QED
  BY <1>4, <1>5, <1>6

\* What is known of a stored log.
IsLog(l) ==
  /\ l.service \in Services
  /\ l.normalized \in Seq(WorkTokens)
  /\ ~ HasBar(l.message) => l.normalized \in Seq(WorkTokens \ {Bar})
  /\ l.exception \in Seq(AllTokens) /\ l.trace \in Seq(AllTokens)
  /\ l.fingerprint = Join(<<ServiceText[l.service], l.normalized, l.exception, l.trace>>)

\* What is known of the message on its way.
MessageInv ==
  /\ isLine = FALSE
  /\ pass \in 0..Len(Common)
  /\ text \in Seq(WorkTokens)
  /\ ~ HasBar(source) => text \in Seq(WorkTokens \ {Bar})

GroupingInv ==
  /\ isLine \in BOOLEAN /\ (~ isLine => MessageInv)
  /\ \A l \in logs : IsLog(l)

\* A text without a bar is one of other tokens.
LEMMA Barless ==
  ASSUME NEW S, NEW t \in Seq(S), ~ HasBar(t)
  PROVE  t \in Seq(S \ {Bar})
<1>1. DOMAIN t = 1..Len(t) /\ \A i \in 1..Len(t) : t[i] \in S
  OBVIOUS
<1>2. \A i \in 1..Len(t) : t[i] \in S \ {Bar}
  BY <1>1 DEF HasBar
<1> QED
  BY <1>2

\* Two logs in a group, without a bar in their messages and exceptions.
LEMMA LogsTell ==
  ASSUME NEW l, NEW m, IsLog(l), IsLog(m), InOneGroup(l, m),
         \A n \in {l, m} : ~ HasBar(n.message) /\ ~ HasBar(n.exception)
  PROVE  SameError(l, m)
<1>. DEFINE S == AllTokens \cup WorkTokens
<1>1. /\ WorkTokens \ {Bar} \subseteq S \ {Bar} /\ AllTokens \ {Bar} \subseteq S \ {Bar}
      /\ AllTokens \subseteq S
  OBVIOUS
<1>2. Bar \in S
  BY DEF Bar, Mark, Token, WorkTokens, WorkKinds, SourceKinds, Values
<1>3. /\ Seq(WorkTokens \ {Bar}) \subseteq Seq(S \ {Bar})
      /\ Seq(AllTokens \ {Bar}) \subseteq Seq(S \ {Bar})
      /\ Seq(AllTokens) \subseteq Seq(S)
  <2>. HIDE DEF S
  <2> QED
    BY <1>1, SeqMonotonic
<1>. HIDE DEF S
<1>4. ServiceText[l.service] \in Seq(S)
  BY <1>3, GroupingAssumption DEF IsLog
<1>5. /\ l.normalized \in Seq(S \ {Bar}) /\ m.normalized \in Seq(S \ {Bar})
      /\ l.trace \in Seq(S) /\ m.trace \in Seq(S)
  BY <1>3 DEF IsLog
<1>6. l.exception \in Seq(S \ {Bar}) /\ m.exception \in Seq(S \ {Bar})
  <2>1. l.exception \in Seq(AllTokens \ {Bar}) /\ m.exception \in Seq(AllTokens \ {Bar})
    BY Barless DEF IsLog
  <2> QED
    BY <1>3, <2>1
<1>7. Join(<<ServiceText[l.service], l.normalized, l.exception, l.trace>>)
      = Join(<<ServiceText[l.service], m.normalized, m.exception, m.trace>>)
  BY DEF IsLog, InOneGroup
<1>8. l.normalized = m.normalized /\ l.exception = m.exception /\ l.trace = m.trace
  <2>1. SameJoins(S, ServiceText[l.service], l.normalized, l.exception, l.trace,
                  m.normalized, m.exception, m.trace)
    BY <1>2, <1>4, <1>5, <1>6, <1>7, Zenon DEF SameJoins
  <2> QED
    BY <2>1, JoinTells, Zenon
<1> QED
  BY <1>8 DEF SameError

\* A message that comes in.
LEMMA IncomingMessage ==
  ASSUME NEW t \in Texts(MaxMessage)
  PROVE  t \in Seq(WorkTokens) /\ (~ HasBar(t) => t \in Seq(WorkTokens \ {Bar}))
<1>1. t \in Seq(WorkTokens)
  BY InputsType, SourcesAreTexts
<1> QED
  BY <1>1, Barless

\* Only a bar in a message or in an exception type puts different errors into one
\* group, for messages, exceptions and traces of any length and any number of
\* logs: no substitution brings a bar into a message, and neither the name of a
\* service nor a trace does harm by its bars.
THEOREM OnlyBarsMergeErrors == GroupingSpec => []OnlyBarsMerge
<1>1. GroupingInit => GroupingInv
  <2>. SUFFICES ASSUME GroupingInit
                PROVE  GroupingInv
    OBVIOUS
  <2>1. /\ isLine \in BOOLEAN /\ text = source /\ pass = 0
        /\ ~ isLine => source \in Texts(MaxMessage)
    BY DEF GroupingInit, Init
  <2>2. logs = {}
    BY DEF GroupingInit
  <2>3. 0 \in 0..Len(Common)
    BY SubstitutionsAre
  <2> QED
    BY <2>1, <2>2, <2>3, IncomingMessage DEF GroupingInv, MessageInv
<1>2. GroupingInv /\ [GroupingNext]_groupingVars => GroupingInv'
  <2>. SUFFICES ASSUME GroupingInv, [GroupingNext]_groupingVars
                PROVE  GroupingInv'
    OBVIOUS
  <2>1. CASE Step /\ UNCHANGED logs /\ ~ isLine
    <3>1. pass \in 0..12 /\ Substitutions(isLine) = Common /\ Len(Common) = 12
      BY <2>1, SubstitutionsAre DEF GroupingInv, MessageInv
    <3>2. /\ pass < 12 /\ pass' = pass + 1 /\ isLine' = isLine /\ source' = source
          /\ text' = Apply(Common[pass + 1], text)
      BY <2>1, <3>1 DEF Step
    <3>3. pass + 1 \in 1..12 /\ pass' \in 0..12
      BY <3>1, <3>2
    <3>4. Common[pass + 1] \in Names
      BY <3>3, SubstitutionsAre
    <3>5. AreWork(WorkTokens) /\ AreWork(WorkTokens \ {Bar})
      BY DEF AreWork
    <3>6. text' \in Seq(WorkTokens)
      BY <2>1, <3>2, <3>4, ApplyType DEF GroupingInv, MessageInv
    <3>7. ASSUME ~ HasBar(source)
          PROVE  text' \in Seq(WorkTokens \ {Bar})
      BY <2>1, <3>2, <3>4, <3>5, <3>7, ApplyTypeIn DEF GroupingInv, MessageInv
    <3>8. MessageInv'
      BY <2>1, <3>1, <3>2, <3>3, <3>6, <3>7 DEF GroupingInv, MessageInv, HasBar
    <3> QED
      BY <2>1, <3>8 DEF GroupingInv, MessageInv, IsLog, HasBar
  <2>2. CASE Step /\ UNCHANGED logs /\ isLine
    BY <2>2 DEF Step, GroupingInv, IsLog, HasBar
  <2>3. CASE Persist
    <3>1. PICK service \in Services, exception \in Exceptions, trace \in Traces :
            logs' = logs \cup
              {[service |-> service, message |-> source, normalized |-> text,
                exception |-> exception, trace |-> trace,
                fingerprint |-> Join(<<ServiceText[service], text, exception, trace>>)]}
      BY <2>3, Zenon DEF Persist
    <3>. DEFINE new == [service |-> service, message |-> source, normalized |-> text,
                exception |-> exception, trace |-> trace,
                fingerprint |-> Join(<<ServiceText[service], text, exception, trace>>)]
    <3>2. IsLog(new)
      BY <2>3, GroupingAssumption DEF Persist, GroupingInv, MessageInv, IsLog
    <3>. HIDE DEF new
    <3>3. \A l \in logs' : IsLog(l)
      BY <3>1, <3>2 DEF GroupingInv, new
    <3>4. MessageInv'
      <4>1. CASE Arrives
        <5>1. /\ isLine' = FALSE /\ source' \in Texts(MaxMessage) /\ text' = source'
              /\ pass' \in 0..Len(Common)
          BY <4>1, SubstitutionsAre, GroupingAssumption DEF Arrives
        <5> QED
          BY <5>1, IncomingMessage DEF MessageInv, HasBar
      <4>2. CASE UNCHANGED vars
        BY <2>3, <4>2 DEF Persist, vars, GroupingInv, MessageInv, HasBar
      <4> QED
        BY <2>3, <4>1, <4>2, Zenon DEF Persist
    <3> QED
      BY <3>3, <3>4 DEF GroupingInv, MessageInv, IsLog, HasBar
  <2>4. CASE UNCHANGED groupingVars
    BY <2>4 DEF groupingVars, GroupingInv, MessageInv, IsLog, HasBar
  <2> QED
    BY <2>1, <2>2, <2>3, <2>4 DEF GroupingNext
<1>3. GroupingInv => OnlyBarsMerge
  <2>. SUFFICES ASSUME GroupingInv, NEW l \in logs, NEW m \in logs, InOneGroup(l, m),
                       ~ \E n \in {l, m} : HasBar(n.message) \/ HasBar(n.exception)
                PROVE  SameError(l, m)
    BY DEF OnlyBarsMerge
  <2>1. IsLog(l) /\ IsLog(m)
    BY DEF GroupingInv
  <2> QED
    BY <2>1, LogsTell
<1> QED
  BY <1>1, <1>2, <1>3, PTL DEF GroupingSpec

-----------------------------------------------------------------------------
(* Where a text comes from *)

\* What a substitution may put into a text, and what hides what was there.
Put == {" ", ":", "=", "placeholder", "remainder", "location"}

Opaque == {"placeholder", "remainder", "location"}

\* A word that has to stay.
Owed(s, line, i) ==
  /\ Kind(s, i) \in {"word", "small"}
  /\ ~ MayBeRequestId(s, i) /\ ~ Labelled(s, line, i)

\* g says for every token of t which token of s it is, or 0 if it was put there.
Tracks(s, line, t, g) ==
  /\ g \in [1..Len(t) -> 0..Len(s)]
  /\ \A k \in 1..Len(t) : IF g[k] = 0 THEN t[k].kind \in Put ELSE t[k] = s[g[k]]
  /\ \A k, l \in 1..Len(t) : k < l /\ g[k] > 0 /\ g[l] > 0 => g[k] < g[l]
  /\ \A i \in 1..Len(s) : Owed(s, line, i) => \E k \in 1..Len(t) : g[k] = i

\* Neighbours come from neighbours, except behind what hides.
Tight(t, g) ==
  \A k \in 1..Len(t) - 1 :
    g[k + 1] > 0 /\ t[k].kind \notin Opaque => g[k] > 0 /\ g[k + 1] = g[k] + 1

\* And what is left of it when spaces have collapsed.
Loose(t, g) ==
  \A k \in 1..Len(t) - 1 :
    t[k].kind = ":" /\ t[k + 1].kind = "small" => g[k] > 0 /\ g[k + 1] = g[k] + 1

\* The source of each token after a substitution that keeps the first token of
\* its matches (keep = 1) or none (keep = 0).
Carry(g, w, keep) ==
  [k \in 1..Len(w) |-> IF w[k].part <= keep THEN g[w[k].at] ELSE 0]

\* A substitution that takes no owed word.
Harmless(s, line, t, g, ends, by, size, keep) ==
  \A i \in 1..Len(t) :
    Matched(ends, i) =>
      /\ \A q \in 1..size[i] : IF q <= keep THEN by[i][q] = t[i] ELSE by[i][q].kind \in Put
      /\ \A p \in i + keep..ends[i] - 1 : g[p] > 0 => ~ Owed(s, line, g[p])

\* What is left of a walk on which sources are carried.
LEMMA WalkSteps ==
  ASSUME NEW n \in Nat, NEW ends, NEW size, NEW w,
         Sized(n, ends, size), IsWalk(w, 1, n, ends, size)
  PROVE  /\ w \in Seq(Places) /\ Len(w) \in Nat
         /\ \A k \in 1..Len(w) :
              /\ w[k].at \in 1..n /\ w[k].part \in Nat
              /\ Matched(ends, w[k].at) => w[k].part \in 1..size[w[k].at]
              /\ ~ Matched(ends, w[k].at) => w[k].part = 0
         /\ \A k, l \in 1..Len(w) :
              k < l => \/ w[l].at = w[k].at /\ w[l].part > w[k].part
                       \/ w[l].at > w[k].at
<1>1. w \in Seq(Places) /\ \A k \in 1..Len(w) : IsPlace(w[k], 1, n, ends, size)
  BY DEF IsWalk
<1>2. \A k \in 1..Len(w) :
         /\ w[k].at \in 1..n /\ w[k].part \in Nat
         /\ Matched(ends, w[k].at) => w[k].part \in 1..size[w[k].at]
         /\ ~ Matched(ends, w[k].at) => w[k].part = 0
  BY <1>1 DEF IsPlace, Places
<1>3. \A i \in 1..n : Beyond(ends, i) \in i + 1..n + 1
  BY DEF Sized, Beyond, Matched
<1>4. ASSUME NEW k \in 1..Len(w), NEW l \in 1..Len(w), k < l
      PROVE  \/ w[l].at = w[k].at /\ w[l].part > w[k].part
             \/ w[l].at > w[k].at
  <2>1. \/ w[l].at = w[k].at /\ w[l].part > w[k].part
        \/ w[l].at >= Beyond(ends, w[k].at)
    BY <1>4 DEF IsWalk, InOrder
  <2>2. w[k].at \in 1..n /\ w[l].at \in 1..n
    BY <1>2
  <2>3. Beyond(ends, w[k].at) \in w[k].at + 1..n + 1
    BY <1>3, <2>2
  <2> QED
    BY <2>1, <2>2, <2>3
<1> QED
  BY <1>1, <1>2, <1>4

\* Such a substitution carries the sources on.
LEMMA CarryTracks ==
  ASSUME NEW s \in Seq(WorkTokens), NEW line, NEW t \in Seq(WorkTokens),
         NEW g, Tracks(s, line, t, g),
         NEW ends, NEW size, NEW by, NEW keep \in {0, 1}, NEW w,
         Sized(Len(t), ends, size), IsWalk(w, 1, Len(t), ends, size),
         Harmless(s, line, t, g, ends, by, size, keep),
         NEW u \in Seq(WorkTokens), Len(u) = Len(w),
         \A k \in 1..Len(w) : u[k] = Picked(t, by, w[k])
  PROVE  Tracks(s, line, u, Carry(g, w, keep))
<1>. DEFINE n == Len(t)
            m == Len(w)
            N == Len(s)
            h == Carry(g, w, keep)
<1>1. /\ w \in Seq(Places) /\ m \in Nat /\ n \in Nat /\ N \in Nat
      /\ \A k \in 1..m : /\ w[k].at \in 1..n /\ w[k].part \in Nat
                         /\ Matched(ends, w[k].at) => w[k].part \in 1..size[w[k].at]
                         /\ ~ Matched(ends, w[k].at) => w[k].part = 0
  BY WalkSteps
<1>2. \A k, l \in 1..m : k < l => \/ w[l].at = w[k].at /\ w[l].part > w[k].part
                                  \/ w[l].at > w[k].at
  <2>1. n \in Nat
    OBVIOUS
  <2> QED
    BY <2>1, WalkSteps
<1>3. /\ g \in [1..n -> 0..N]
      /\ \A k \in 1..n : IF g[k] = 0 THEN t[k].kind \in Put ELSE t[k] = s[g[k]]
      /\ \A k, l \in 1..n : k < l /\ g[k] > 0 /\ g[l] > 0 => g[k] < g[l]
      /\ \A i \in 1..N : Owed(s, line, i) => \E k \in 1..n : g[k] = i
  BY DEF Tracks
<1>4. \A i \in 1..n :
         Matched(ends, i) =>
           /\ \A q \in 1..size[i] : IF q <= keep THEN by[i][q] = t[i] ELSE by[i][q].kind \in Put
           /\ \A p \in i + keep..ends[i] - 1 : g[p] > 0 => ~ Owed(s, line, g[p])
  BY DEF Harmless
<1>5. \A k \in 1..m : h[k] = IF w[k].part <= keep THEN g[w[k].at] ELSE 0
  BY DEF Carry
<1>6. h = [k \in 1..m |-> IF w[k].part <= keep THEN g[w[k].at] ELSE 0]
  BY DEF Carry
<1>7. Len(u) = m /\ \A k \in 1..m : u[k] = Picked(t, by, w[k])
  OBVIOUS
<1>8. \A p \in 1..n : \E k \in 1..m : /\ w[k] = First(ends, w[k].at)
                                      /\ w[k].at <= p /\ p < Beyond(ends, w[k].at)
  BY DEF IsWalk, Covered
<1>. HIDE DEF n, m, N, h
<1>9. h \in [1..m -> 0..N]
  <2>1. \A k \in 1..m : g[w[k].at] \in 0..N
    BY <1>1, <1>3
  <2>2. 0 \in 0..N
    BY <1>1
  <2> QED
    BY <1>6, <2>1, <2>2
<1>10. ASSUME NEW k \in 1..m
       PROVE  IF h[k] = 0 THEN u[k].kind \in Put ELSE u[k] = s[h[k]]
  <2>. DEFINE a == w[k].at
              q == w[k].part
  <2>1. a \in 1..n /\ q \in Nat
    BY <1>1
  <2>2. u[k] = IF q = 0 THEN t[a] ELSE by[a][q]
    BY <1>7 DEF Picked
  <2>3. h[k] = IF q <= keep THEN g[a] ELSE 0
    BY <1>5
  <2>4. q # 0 => Matched(ends, a) /\ q \in 1..size[a]
    BY <1>1
  <2>5. q # 0 => IF q <= keep THEN by[a][q] = t[a] ELSE by[a][q].kind \in Put
    BY <1>4, <2>1, <2>4
  <2>6. IF g[a] = 0 THEN t[a].kind \in Put ELSE t[a] = s[g[a]]
    BY <1>3, <2>1
  <2>. HIDE DEF a, q
  <2>7. CASE q = 0
    BY <2>2, <2>3, <2>6, <2>7
  <2>8. CASE q # 0 /\ q <= keep
    BY <2>2, <2>3, <2>5, <2>6, <2>8
  <2>9. CASE q # 0 /\ ~ (q <= keep)
    BY <2>2, <2>3, <2>5, <2>9
  <2> QED
    BY <2>7, <2>8, <2>9
<1>11. ASSUME NEW k \in 1..m, NEW l \in 1..m, k < l, h[k] > 0, h[l] > 0
       PROVE  h[k] < h[l]
  <2>1. /\ w[k].at \in 1..n /\ w[k].part \in Nat /\ w[l].at \in 1..n /\ w[l].part \in Nat
    BY <1>1
  <2>2. /\ w[k].part <= keep /\ h[k] = g[w[k].at]
        /\ w[l].part <= keep /\ h[l] = g[w[l].at]
    BY <1>5, <1>11
  <2>3. \/ w[l].at = w[k].at /\ w[l].part > w[k].part
        \/ w[l].at > w[k].at
    BY <1>2, <1>11
  <2>4. CASE w[l].at = w[k].at /\ w[l].part > w[k].part
    <3>1. w[k].part = 0
      BY <2>1, <2>2, <2>4
    <3>2. ~ Matched(ends, w[k].at)
      BY <1>1, <3>1
    <3>3. w[l].part = 0
      BY <1>1, <2>4, <3>2
    <3> QED
      BY <2>1, <2>4, <3>1, <3>3
  <2>5. CASE w[l].at > w[k].at
    BY <1>3, <1>11, <2>1, <2>2, <2>5
  <2> QED
    BY <2>3, <2>4, <2>5
<1>12. ASSUME NEW i \in 1..N, Owed(s, line, i)
       PROVE  \E k \in 1..m : h[k] = i
  <2>1. PICK p \in 1..n : g[p] = i
    BY <1>3, <1>12
  <2>2. PICK k \in 1..m : /\ w[k] = First(ends, w[k].at)
                          /\ w[k].at <= p /\ p < Beyond(ends, w[k].at)
    BY <1>8
  <2>. DEFINE a == w[k].at
  <2>3. a \in 1..n /\ p \in 1..n /\ n \in Nat
    BY <1>1, <2>1
  <2>4. i > 0 /\ g[p] > 0 /\ Owed(s, line, g[p])
    BY <1>12, <2>1
  <2>5. CASE Matched(ends, a)
    <3>1. w[k].part = 1 /\ Beyond(ends, a) = ends[a]
      BY <2>2, <2>5 DEF First, Beyond, Place
    <3>2. \A x \in a + keep..ends[a] - 1 : g[x] > 0 => ~ Owed(s, line, g[x])
      BY <1>4, <2>3, <2>5
    <3>3. p \notin a + keep..ends[a] - 1
      BY <2>4, <3>2
    <3>4. ends[a] \in 1..n + 1
      BY <2>3 DEF Sized, n
    <3>5. keep = 1 /\ p = a
      <4>1. a <= p /\ p < ends[a]
        BY <2>2, <3>1
      <4>. HIDE DEF a
      <4> QED
        BY <2>3, <3>3, <3>4, <4>1
    <3> QED
      BY <1>5, <2>1, <3>1, <3>5
  <2>6. CASE ~ Matched(ends, a)
    <3>1. w[k].part = 0 /\ Beyond(ends, a) = a + 1
      BY <2>2, <2>6 DEF First, Beyond, Place
    <3>2. p = a
      BY <2>2, <2>3, <3>1
    <3>3. h[k] = g[a]
      BY <1>5, <2>2, <3>1
    <3> QED
      BY <2>1, <2>2, <3>2, <3>3
  <2> QED
    BY <2>5, <2>6
<1>13. Tracks(s, line, u, h)
  BY <1>7, <1>9, <1>10, <1>11, <1>12 DEF Tracks, N
<1> QED
  BY <1>13 DEF h

\* And keeps the neighbours, if what it puts in ends with what hides.
LEMMA CarryTight ==
  ASSUME NEW t \in Seq(WorkTokens), NEW N \in Nat, NEW g \in [1..Len(t) -> 0..N],
         Tight(t, g), NEW ends, NEW size, NEW by, NEW w,
         Sized(Len(t), ends, size), IsWalk(w, 1, Len(t), ends, size),
         \A i \in 1..Len(t) :
           Matched(ends, i) => size[i] > 1 /\ by[i][size[i]].kind \in Opaque,
         NEW u \in Seq(WorkTokens), Len(u) = Len(w),
         \A k \in 1..Len(w) : u[k] = Picked(t, by, w[k])
  PROVE  Tight(u, Carry(g, w, 1))
<1>. DEFINE n == Len(t)
            m == Len(w)
            h == Carry(g, w, 1)
<1>1. n \in Nat
  OBVIOUS
<1>2. /\ m \in Nat
      /\ \A k \in 1..m : /\ w[k].at \in 1..n /\ w[k].part \in Nat
                         /\ Matched(ends, w[k].at) => w[k].part \in 1..size[w[k].at]
                         /\ ~ Matched(ends, w[k].at) => w[k].part = 0
  BY <1>1, WalkSteps
<1>3. \A k \in 1..m : h[k] = IF w[k].part <= 1 THEN g[w[k].at] ELSE 0
  BY DEF Carry
<1>4. \A k \in 1..n - 1 :
        g[k + 1] > 0 /\ t[k].kind \notin Opaque => g[k] > 0 /\ g[k + 1] = g[k] + 1
  BY DEF Tight
<1>5. \A i \in 1..n : Matched(ends, i) => size[i] > 1 /\ by[i][size[i]].kind \in Opaque
  OBVIOUS
<1>6. StepsRight(w, n, ends, size)
  BY DEF IsWalk
<1>7. Len(u) = m /\ \A k \in 1..m : u[k] = Picked(t, by, w[k])
  OBVIOUS
<1>. HIDE DEF n, m, h
<1>8. ASSUME NEW k \in 1..m - 1, h[k + 1] > 0, u[k].kind \notin Opaque
      PROVE  h[k] > 0 /\ h[k + 1] = h[k] + 1
  <2>1. k \in 1..m /\ k + 1 \in 1..m /\ k # m
    BY <1>2
  <2>. DEFINE a == w[k].at
              q == w[k].part
  <2>2. a \in 1..n /\ q \in Nat
    BY <1>2, <2>1
  <2>3. w[k + 1].part <= 1 /\ h[k + 1] = g[w[k + 1].at]
    <3>1. h[k + 1] = IF w[k + 1].part <= 1 THEN g[w[k + 1].at] ELSE 0
      BY <1>3, <2>1
    <3>2. h[k + 1] # 0
      BY <1>8
    <3> QED
      BY <3>1, <3>2
  <2>4. CASE ~ IsLast(size, w[k])
    <3>1. w[k + 1] = Place(a, q + 1)
      BY <1>6, <2>1, <2>4 DEF StepsRight, m
    <3>2. q # 0
      BY <2>4 DEF IsLast
    <3>3. w[k + 1].part = q + 1
      BY <3>1 DEF Place
    <3>. HIDE DEF q
    <3> QED
      BY <2>2, <2>3, <3>2, <3>3
  <2>5. CASE IsLast(size, w[k]) /\ Matched(ends, a)
    <3>1. q \in 1..size[a]
      BY <1>2, <2>1, <2>5
    <3>2. q = size[a] /\ q # 0
      BY <2>2, <2>5, <3>1 DEF IsLast
    <3>3. u[k] = by[a][size[a]]
      BY <1>7, <2>1, <3>2 DEF Picked
    <3> QED
      BY <1>5, <1>8, <2>2, <2>5, <3>3
  <2>6. CASE IsLast(size, w[k]) /\ ~ Matched(ends, a)
    <3>1. q = 0 /\ Beyond(ends, a) = a + 1
      BY <1>2, <2>1, <2>6 DEF Beyond
    <3>2. u[k] = t[a] /\ h[k] = g[a]
      BY <1>3, <1>7, <2>1, <3>1 DEF Picked
    <3>3. w[k + 1] = First(ends, a + 1) \/ k = m
      <4>1. IF Beyond(ends, a) > n THEN k = m ELSE w[k + 1] = First(ends, Beyond(ends, a))
        BY <1>6, <2>1, <2>6 DEF StepsRight, m
      <4> QED
        BY <3>1, <4>1
    <3>4. w[k + 1].at = a + 1
      BY <2>1, <3>3 DEF First, Place
    <3>5. a + 1 \in 1..n
      BY <1>2, <2>1, <3>4
    <3>6. g[a + 1] > 0 /\ t[a].kind \notin Opaque
      BY <1>8, <2>3, <3>2, <3>4
    <3>7. a \in 1..n - 1
      <4>. HIDE DEF a
      <4> QED
        BY <1>1, <2>2, <3>5 DEF n
    <3> QED
      BY <1>4, <2>3, <3>2, <3>4, <3>6, <3>7
  <2> QED
    BY <2>4, <2>5, <2>6
<1>9. Tight(u, h)
  BY <1>7, <1>8 DEF Tight
<1> QED
  BY <1>9 DEF h

\* A run of tokens that do not hide comes from a run.
LEMMA TightRun ==
  ASSUME NEW t \in Seq(WorkTokens), NEW N \in Nat, NEW g \in [1..Len(t) -> 0..N],
         Tight(t, g), NEW p \in 1..Len(t), g[p] > 0, NEW i \in 1..p,
         \A q \in i..p - 1 : Kind(t, q) \notin Opaque
  PROVE  \A q \in i..p : g[q] > 0 /\ g[p] = g[q] + (p - q)
<1>. DEFINE T == {q \in Nat : q >= i => g[q] > 0 /\ g[p] = g[q] + (p - q)}
<1>1. /\ p \in Nat /\ p <= Len(t) /\ i \in Nat /\ Len(t) \in Nat /\ i >= 1 /\ p >= 1
      /\ DOMAIN t = 1..Len(t)
      /\ \A q \in 1..Len(t) : g[q] \in Nat
  OBVIOUS
<1>2. p \in T
  BY <1>1
<1>3. ASSUME NEW q \in 1..p - 1, \A j \in q + 1..p : j \in T
      PROVE  q \in T
  <2>. SUFFICES ASSUME q >= i
                PROVE  g[q] > 0 /\ g[p] = g[q] + (p - q)
    BY <1>1
  <2>1. q + 1 \in T
    BY <1>1, <1>3
  <2>2. g[q + 1] > 0 /\ g[p] = g[q + 1] + (p - (q + 1))
    BY <1>1, <2>1
  <2>3. q \in 1..Len(t) - 1 /\ q \in i..p - 1 /\ q \in DOMAIN t
    BY <1>1
  <2>4. t[q].kind \notin Opaque
    BY <2>3 DEF Kind
  <2>5. g[q] > 0 /\ g[q + 1] = g[q] + 1
    BY <2>2, <2>3, <2>4 DEF Tight
  <2>6. g[q] \in Nat /\ g[p] \in Nat
    BY <1>1, <2>3
  <2>. HIDE DEF T
  <2> QED
    BY <1>1, <2>2, <2>3, <2>5, <2>6
<1>. HIDE DEF T
<1>4. \A q \in 1..p : q \in T
  BY <1>1, <1>2, <1>3, FromTheEnd
<1>5. ASSUME NEW q \in i..p
      PROVE  g[q] > 0 /\ g[p] = g[q] + (p - q)
  <2>1. q \in 1..p /\ q >= i
    BY <1>1
  <2> QED
    BY <1>4, <2>1 DEF T
<1> QED
  BY <1>5

\* The walk of a substitution in a text.
WalkOf(t, ends, by) == Walk(Len(t), ends, Sizes(t, by))

\* A substitution picks what its walk says.
LEMMA WalkOfText ==
  ASSUME NEW t \in Seq(WorkTokens), NEW ends, NEW by,
         Fits(Len(t), ends, by, WorkTokens)
  PROVE  /\ Sized(Len(t), ends, Sizes(t, by))
         /\ IsWalk(WalkOf(t, ends, by), 1, Len(t), ends, Sizes(t, by))
         /\ Substitute(t, ends, by) \in Seq(WorkTokens)
         /\ Len(Substitute(t, ends, by)) = Len(WalkOf(t, ends, by))
         /\ \A k \in 1..Len(WalkOf(t, ends, by)) :
              Substitute(t, ends, by)[k] = Picked(t, by, WalkOf(t, ends, by)[k])
<1>. DEFINE n == Len(t)
            sizes == Sizes(t, by)
            v == WalkOf(t, ends, by)
            u == Substitute(t, ends, by)
<1>1. n \in Nat
  OBVIOUS
<1>2. /\ Sized(n, ends, sizes)
      /\ u = [k \in 1..Len(v) |-> Picked(t, by, v[k])]
  <2>1. Sized(n, ends, sizes) /\ Picks(u, t, by, Walk(n, ends, sizes))
    BY SubstitutePicks
  <2> QED
    BY <2>1 DEF WalkOf, Picks
<1>3. IsWalk(v, 1, n, ends, sizes)
  <2>. HIDE DEF sizes, n
  <2> QED
    BY <1>1, <1>2, WalkIsWalk DEF WalkOf, sizes, n
<1>4. u \in Seq(WorkTokens)
  BY SubstituteType
<1>5. v \in Seq(Places)
  BY <1>3 DEF IsWalk
<1>. HIDE DEF u, v
<1>6. Len(u) = Len(v) /\ \A k \in 1..Len(v) : u[k] = Picked(t, by, v[k])
  BY <1>2, <1>4, <1>5
<1> QED
  BY <1>2, <1>3, <1>4, <1>6 DEF u, v

\* A harmless substitution carries the sources on, and neighbours too.
LEMMA SubstituteTracks ==
  ASSUME NEW s \in Seq(WorkTokens), NEW line, NEW t \in Seq(WorkTokens),
         NEW g, Tracks(s, line, t, g), NEW ends, NEW by, NEW keep \in {0, 1},
         Fits(Len(t), ends, by, WorkTokens),
         Harmless(s, line, t, g, ends, by, Sizes(t, by), keep)
  PROVE  Tracks(s, line, Substitute(t, ends, by), Carry(g, WalkOf(t, ends, by), keep))
<1>. DEFINE sizes == Sizes(t, by)
            v == WalkOf(t, ends, by)
            new == Substitute(t, ends, by)
<1>1. /\ Sized(Len(t), ends, sizes)
      /\ IsWalk(v, 1, Len(t), ends, sizes)
      /\ new \in Seq(WorkTokens) /\ Len(new) = Len(v)
      /\ \A k \in 1..Len(v) : new[k] = Picked(t, by, v[k])
  BY WalkOfText
<1>2. Harmless(s, line, t, g, ends, by, sizes, keep)
  OBVIOUS
<1>. HIDE DEF sizes, v, new
<1>3. Tracks(s, line, new, Carry(g, v, keep))
  BY <1>1, <1>2, CarryTracks
<1> QED
  BY <1>3 DEF v, new

\* And keeps neighbours together.
LEMMA SubstituteTight ==
  ASSUME NEW t \in Seq(WorkTokens), NEW N \in Nat, NEW g \in [1..Len(t) -> 0..N],
         Tight(t, g), NEW ends, NEW by,
         Fits(Len(t), ends, by, WorkTokens),
         \A i \in 1..Len(t) :
           Matched(ends, i) => Len(by[i]) > 1 /\ by[i][Len(by[i])].kind \in Opaque
  PROVE  Tight(Substitute(t, ends, by), Carry(g, WalkOf(t, ends, by), 1))
<1>. DEFINE sizes == Sizes(t, by)
            v == WalkOf(t, ends, by)
            new == Substitute(t, ends, by)
<1>1. /\ Sized(Len(t), ends, sizes)
      /\ IsWalk(v, 1, Len(t), ends, sizes)
      /\ new \in Seq(WorkTokens) /\ Len(new) = Len(v)
      /\ \A k \in 1..Len(v) : new[k] = Picked(t, by, v[k])
  BY WalkOfText
<1>2. \A i \in 1..Len(t) : Matched(ends, i) => sizes[i] > 1 /\ by[i][sizes[i]].kind \in Opaque
  BY DEF Sizes
<1>. HIDE DEF sizes, v, new
<1>3. Tight(new, Carry(g, v, 1))
  BY <1>1, <1>2, CarryTight
<1> QED
  BY <1>3 DEF v, new

-----------------------------------------------------------------------------
(* What each substitution does to the words *)

\* The kinds of words are neither replaced nor put.
LEMMA WordKinds ==
  /\ {"word", "small"} \cap (Replaced \cup Put \cup Opaque \cup Separators) = {}
  /\ {"word", "small"} \subseteq Valued
  /\ Opaque \subseteq Put
  /\ Opaque \cap (Separators \cup Valued \cup Numbers \cup {"frame", "label", "request"}) = {}
  /\ Separators \cap Numbers = {}
BY DEF Put, Opaque, Replaced, Separators, Valued, Worded, Numbers

\* Where the sources are: the kinds of a token that is not put, and of its source.
LEMMA SourceKind ==
  ASSUME NEW s \in Seq(WorkTokens), NEW line, NEW t \in Seq(WorkTokens),
         NEW g, Tracks(s, line, t, g), NEW k \in 1..Len(t)
  PROVE  /\ g[k] \in Nat
         /\ Kind(t, k) = t[k].kind
         /\ g[k] > 0 => g[k] \in 1..Len(s) /\ Kind(s, g[k]) = Kind(t, k) /\ s[g[k]] = t[k]
         /\ Kind(t, k) \in {"word", "small"} => g[k] > 0
<1>1. /\ g[k] \in 0..Len(s)
      /\ IF g[k] = 0 THEN t[k].kind \in Put ELSE t[k] = s[g[k]]
  BY DEF Tracks
<1>2. DOMAIN t = 1..Len(t) /\ DOMAIN s = 1..Len(s) /\ Len(s) \in Nat
  OBVIOUS
<1>3. Kind(t, k) = t[k].kind
  BY <1>2 DEF Kind
<1>4. g[k] > 0 => g[k] \in 1..Len(s) /\ Kind(s, g[k]) = Kind(t, k) /\ s[g[k]] = t[k]
  <2>. SUFFICES ASSUME g[k] > 0
                PROVE  g[k] \in 1..Len(s) /\ Kind(s, g[k]) = Kind(t, k) /\ s[g[k]] = t[k]
    OBVIOUS
  <2>1. g[k] \in 1..Len(s) /\ s[g[k]] = t[k]
    BY <1>1, <1>2
  <2>2. Kind(s, g[k]) = s[g[k]].kind
    BY <1>2, <2>1 DEF Kind
  <2> QED
    BY <1>3, <2>1, <2>2
<1>5. Kind(t, k) \in {"word", "small"} => g[k] > 0
  <2>1. t[k].kind \in {"word", "small"} => t[k].kind \notin Put
    BY WordKinds
  <2> QED
    BY <1>1, <1>3, <2>1
<1> QED
  BY <1>1, <1>3, <1>4, <1>5

\* While neighbours are tight, they are loose.
LEMMA TightIsLoose ==
  ASSUME NEW s \in Seq(WorkTokens), NEW line, NEW t \in Seq(WorkTokens),
         NEW g, Tracks(s, line, t, g), Tight(t, g)
  PROVE  Loose(t, g)
<1>. SUFFICES ASSUME NEW k \in 1..Len(t) - 1, t[k].kind = ":", t[k + 1].kind = "small"
              PROVE  g[k] > 0 /\ g[k + 1] = g[k] + 1
  BY DEF Loose
<1>1. k + 1 \in 1..Len(t)
  OBVIOUS
<1>2. Kind(t, k + 1) = t[k + 1].kind /\ (Kind(t, k + 1) \in {"word", "small"} => g[k + 1] > 0)
  BY <1>1, SourceKind
<1>3. t[k].kind \notin Opaque
  BY DEF Opaque
<1> QED
  BY <1>2, <1>3 DEF Tight

\* Strip takes no word and no neighbour.
LEMMA StripTracks ==
  ASSUME NEW s \in Seq(WorkTokens), NEW line, NEW t \in Seq(WorkTokens),
         NEW g, Tracks(s, line, t, g)
  PROVE  \E h : /\ Tracks(s, line, Strip(t), h)
                /\ Tight(t, g) => Tight(Strip(t), h)
                /\ Loose(t, g) => Loose(Strip(t), h)
<1>. DEFINE n == Len(t)
            N == Len(s)
            u == Strip(t)
<1>1. n \in Nat /\ N \in Nat /\ u \in Seq(WorkTokens) /\ DOMAIN t = 1..n
  BY StripType
<1>2. /\ g \in [1..n -> 0..N]
      /\ \A k \in 1..n : IF g[k] = 0 THEN t[k].kind \in Put ELSE t[k] = s[g[k]]
      /\ \A k, l \in 1..n : k < l /\ g[k] > 0 /\ g[l] > 0 => g[k] < g[l]
      /\ \A i \in 1..N : Owed(s, line, i) => \E k \in 1..n : g[k] = i
  BY DEF Tracks
<1>3. ASSUME NEW i \in 1..N, Owed(s, line, i)
      PROVE  \E k \in 1..n : g[k] = i /\ Kind(t, k) # " "
  <2>1. PICK k \in 1..n : g[k] = i
    BY <1>2, <1>3
  <2>2. Kind(s, g[k]) = Kind(t, k)
    <3>1. g[k] > 0
      BY <1>1, <2>1
    <3> QED
      BY <3>1, SourceKind
  <2>3. Kind(t, k) # " "
    BY <1>3, <2>1, <2>2 DEF Owed
  <2> QED
    BY <2>1, <2>3
<1>4. CASE u = <<>> /\ \A i \in 1..n : Kind(t, i) = " "
  <2>. DEFINE h == [k \in 1..0 |-> 0]
  <2>. HIDE DEF u
  <2>1. Len(u) = 0
    BY <1>4
  <2>2. h \in [1..0 -> 0..N] /\ \A k : k \notin 1..0
    OBVIOUS
  <2>3. \A i \in 1..N : ~ Owed(s, line, i)
    BY <1>3, <1>4
  <2>. HIDE DEF h
  <2>4. Tracks(s, line, u, h)
    BY <2>1, <2>2, <2>3 DEF Tracks, N
  <2>5. Tight(u, h) /\ Loose(u, h)
    BY <2>1 DEF Tight, Loose
  <2> QED
    BY <2>4, <2>5 DEF u
<1>5. CASE \E a, b \in 1..n :
             /\ a <= b /\ u = SubSeq(t, a, b)
             /\ Kind(t, a) # " " /\ Kind(t, b) # " "
             /\ \A i \in 1..n : i < a \/ i > b => Kind(t, i) = " "
  <2>1. PICK a \in 1..n, b \in 1..n :
               /\ a <= b /\ u = SubSeq(t, a, b)
               /\ \A i \in 1..n : i < a \/ i > b => Kind(t, i) = " "
    BY <1>5
  <2>2. a \in 1..n /\ b \in 1..n /\ a <= b /\ n \in Nat
    BY <1>1, <2>1
  <2>. DEFINE d == a - 1
              m == b - d
              h == [k \in 1..m |-> g[k + d]]
  <2>3. /\ d \in Nat /\ m \in Nat /\ m >= 1 /\ d + m <= n
        /\ \A k \in 1..m : k + d \in 1..n
        /\ \A k \in 1..m - 1 : /\ k + d \in 1..n - 1 /\ (k + 1) + d = (k + d) + 1
                               /\ k \in 1..m /\ k + 1 \in 1..m
    <3>. HIDE DEF n
    <3> QED
      BY <2>2
  <2>4. Len(u) = m /\ \A k \in 1..m : u[k] = t[k + d]
    <3>1. /\ Len(SubSeq(t, a, b)) = IF a <= b THEN b - a + 1 ELSE 0
          /\ \A i \in 1..b - a + 1 : SubSeq(t, a, b)[i] = t[a + i - 1]
      <4>1. a \in 1..n + 1 /\ b \in a - 1..n
        <5>. HIDE DEF n
        <5> QED
          BY <2>2
      <4> QED
        BY <4>1, SubSeqProperties
    <3>2. b - a + 1 = m /\ \A i \in 1..m : a + i - 1 = i + d
      <4>. HIDE DEF n
      <4> QED
        BY <2>2
    <3>. HIDE DEF u, m, d
    <3> QED
      BY <2>1, <3>1, <3>2
  <2>5. \A k \in 1..m : h[k] = g[k + d]
    OBVIOUS
  <2>6. h \in [1..m -> 0..N]
    BY <1>2, <2>3
  <2>7. \A i \in 1..N : Owed(s, line, i) => \E k \in 1..m : h[k] = i
    <3>. SUFFICES ASSUME NEW i \in 1..N, Owed(s, line, i)
                  PROVE  \E k \in 1..m : h[k] = i
      OBVIOUS
    <3>1. PICK k \in 1..n : g[k] = i /\ Kind(t, k) # " "
      BY <1>3
    <3>2. ~ (k < a) /\ ~ (k > b) /\ k \in 1..n
      BY <2>1, <3>1, Zenon
    <3>3. k - d \in 1..m /\ (k - d) + d = k
      <4>. HIDE DEF n
      <4> QED
        BY <2>2, <3>2
    <3> QED
      BY <2>5, <3>1, <3>3
  <2>. HIDE DEF h, u, m, d, n, N
  <2>8. \A k \in 1..m : IF h[k] = 0 THEN u[k].kind \in Put ELSE u[k] = s[h[k]]
    BY <1>2, <2>3, <2>4, <2>5
  <2>9. \A k, l \in 1..m : k < l /\ h[k] > 0 /\ h[l] > 0 => h[k] < h[l]
    <3>. SUFFICES ASSUME NEW k \in 1..m, NEW l \in 1..m, k < l, h[k] > 0, h[l] > 0
                  PROVE  h[k] < h[l]
      OBVIOUS
    <3>1. k + d \in 1..n /\ l + d \in 1..n /\ h[k] = g[k + d] /\ h[l] = g[l + d]
      BY <2>3, <2>5
    <3>2. k + d < l + d
      BY <2>3
    <3> QED
      BY <1>2, <3>1, <3>2
  <2>10. Tracks(s, line, u, h)
    BY <2>4, <2>6, <2>7, <2>8, <2>9 DEF Tracks, N
  <2>11. \A k \in 1..m - 1 : /\ k + d \in 1..n - 1
                             /\ u[k] = t[k + d] /\ u[k + 1] = t[(k + d) + 1]
                             /\ h[k] = g[k + d] /\ h[k + 1] = g[(k + d) + 1]
    BY <2>3, <2>4, <2>5
  <2>12. Tight(t, g) => Tight(u, h)
    BY <2>4, <2>11 DEF Tight, n
  <2>13. Loose(t, g) => Loose(u, h)
    BY <2>4, <2>11 DEF Loose, n
  <2> QED
    BY <2>10, <2>12, <2>13 DEF u
<1> QED
  <2>1. \/ u = <<>> /\ \A i \in 1..n : Kind(t, i) = " "
        \/ \E a, b \in 1..n :
             /\ a <= b /\ u = SubSeq(t, a, b)
             /\ Kind(t, a) # " " /\ Kind(t, b) # " "
             /\ \A i \in 1..n : i < a \/ i > b => Kind(t, i) = " "
    BY StripIs
  <2> QED
    BY <1>4, <1>5, <2>1

\* Replace takes no word and no neighbour.
LEMMA ReplaceTracks ==
  ASSUME NEW s \in Seq(WorkTokens), NEW line, NEW t \in Seq(WorkTokens),
         NEW g, Tracks(s, line, t, g), Tight(t, g), NEW kind \in Replaced
  PROVE  \E h : Tracks(s, line, Replace(t, kind), h) /\ Tight(Replace(t, kind), h)
<1>. DEFINE n == Len(t)
            N == Len(s)
            u == Replace(t, kind)
            h == [k \in 1..n |-> IF u[k] = t[k] THEN g[k] ELSE 0]
<1>1. n \in Nat /\ N \in Nat /\ u \in Seq(WorkTokens) /\ DOMAIN t = 1..n /\ Len(u) = n
  <2>1. Replace(t, kind) \in Seq(WorkTokens) /\ Len(Replace(t, kind)) = Len(t)
    BY ReplaceIs, Zenon
  <2> QED
    BY <2>1
<1>2. /\ g \in [1..n -> 0..N]
      /\ \A k \in 1..n : IF g[k] = 0 THEN t[k].kind \in Put ELSE t[k] = s[g[k]]
      /\ \A k, l \in 1..n : k < l /\ g[k] > 0 /\ g[l] > 0 => g[k] < g[l]
      /\ \A i \in 1..N : Owed(s, line, i) => \E k \in 1..n : g[k] = i
      /\ \A k \in 1..n - 1 :
           g[k + 1] > 0 /\ t[k].kind \notin Opaque => g[k] > 0 /\ g[k + 1] = g[k] + 1
  BY DEF Tracks, Tight
<1>3. \A k \in 1..n : \/ u[k] = t[k]
                      \/ u[k].kind \in {"placeholder", "remainder"} /\ t[k].kind \in Replaced
  <2>. SUFFICES ASSUME NEW k \in 1..n, u[k] # t[k]
                PROVE  u[k].kind \in {"placeholder", "remainder"} /\ t[k].kind \in Replaced
    OBVIOUS
  <2>. DEFINE kinds == IF kind = "hex" THEN {"hex", "huge"} ELSE {kind}
  <2>1. u[k] = Replacement(t[k], kind)
    BY ReplaceIs
  <2>2. u[k] = IF t[k].kind \in kinds THEN Placeholder(kind)
               ELSE IF t[k].kind \in Within(kind)
               THEN Token("remainder", t[k].value) ELSE t[k]
    BY <2>1, Zenon DEF Replacement
  <2>3. kinds \subseteq Replaced /\ Within(kind) \subseteq Replaced
    BY DEF Replaced, Within
  <2>. HIDE DEF u, kinds
  <2>4. \/ t[k].kind \in kinds /\ u[k] = Placeholder(kind)
        \/ t[k].kind \in Within(kind) /\ u[k] = Token("remainder", t[k].value)
    BY <2>2
  <2>5. Placeholder(kind).kind = "placeholder" /\ Token("remainder", t[k].value).kind = "remainder"
    BY DEF Placeholder, Token
  <2> QED
    BY <2>3, <2>4, <2>5
<1>4. \A k \in 1..n : h[k] = IF u[k] = t[k] THEN g[k] ELSE 0
  OBVIOUS
<1>5. h \in [1..n -> 0..N]
  BY <1>1, <1>2
<1>6. \A i \in 1..N : Owed(s, line, i) => \E k \in 1..n : h[k] = i
  <2>. SUFFICES ASSUME NEW i \in 1..N, Owed(s, line, i)
                PROVE  \E k \in 1..n : h[k] = i
    OBVIOUS
  <2>1. PICK k \in 1..n : g[k] = i
    BY <1>2
  <2>2. Kind(s, g[k]) = Kind(t, k) /\ Kind(t, k) = t[k].kind
    <3>1. g[k] > 0
      BY <1>1, <2>1
    <3> QED
      BY <3>1, SourceKind
  <2>3. t[k].kind \notin Replaced
    BY <2>1, <2>2, WordKinds DEF Owed
  <2> QED
    BY <1>3, <1>4, <2>1, <2>3
<1>. HIDE DEF h, u, n, N
<1>7. \A k \in 1..n : IF h[k] = 0 THEN u[k].kind \in Put ELSE u[k] = s[h[k]]
  BY <1>2, <1>3, <1>4 DEF Put
<1>8. \A k, l \in 1..n : k < l /\ h[k] > 0 /\ h[l] > 0 => h[k] < h[l]
  BY <1>2, <1>4
<1>9. Tracks(s, line, u, h)
  BY <1>1, <1>5, <1>6, <1>7, <1>8 DEF Tracks, N
<1>10. ASSUME NEW k \in 1..n - 1, h[k + 1] > 0, u[k].kind \notin Opaque
       PROVE  h[k] > 0 /\ h[k + 1] = h[k] + 1
  <2>1. k \in 1..n /\ k + 1 \in 1..n
    BY <1>1
  <2>2. h[k + 1] = g[k + 1]
    BY <1>4, <1>10, <2>1
  <2>3. u[k] = t[k] /\ h[k] = g[k]
    BY <1>3, <1>4, <1>10, <2>1 DEF Opaque
  <2> QED
    BY <1>2, <1>10, <2>2, <2>3
<1>11. Tight(u, h)
  BY <1>1, <1>10 DEF Tight
<1> QED
  BY <1>9, <1>11 DEF u

\* What is no word is not owed.
LEMMA NotOwed ==
  ASSUME NEW s \in Seq(WorkTokens), NEW line, NEW t \in Seq(WorkTokens),
         NEW g, Tracks(s, line, t, g), NEW p \in 1..Len(t), g[p] > 0,
         Kind(t, p) \notin {"word", "small"}
  PROVE  ~ Owed(s, line, g[p])
<1>1. Kind(s, g[p]) = Kind(t, p)
  <2>1. g[p] \in 1..Len(s) /\ t[p] = s[g[p]]
    BY DEF Tracks
  <2>2. DOMAIN s = 1..Len(s) /\ DOMAIN t = 1..Len(t)
    OBVIOUS
  <2> QED
    BY <2>1, <2>2 DEF Kind
<1> QED
  BY <1>1 DEF Owed

\* What stands behind a token that does not hide comes from what stands behind it.
LEMMA FromBehind ==
  ASSUME NEW s \in Seq(WorkTokens), NEW line, NEW t \in Seq(WorkTokens),
         NEW g, Tracks(s, line, t, g), Tight(t, g), NEW i \in 1..Len(t),
         NEW p \in i..Len(t), g[p] > 0,
         \A q \in i..p - 1 : Kind(t, q) \notin Opaque
  PROVE  /\ g[i] \in 1..Len(s) /\ g[p] = g[i] + (p - i)
         /\ \A q \in i..p : /\ g[i] + (q - i) \in 1..Len(s)
                            /\ Kind(s, g[i] + (q - i)) = Kind(t, q)
<1>1. g \in [1..Len(t) -> 0..Len(s)] /\ Len(s) \in Nat /\ Len(t) \in Nat
  BY DEF Tracks
<1>2. p \in 1..Len(t) /\ i \in 1..p
  BY <1>1
<1>3. \A q \in i..p : g[q] > 0 /\ g[p] = g[q] + (p - q)
  <2>. DEFINE N == Len(s)
  <2>1. N \in Nat /\ g \in [1..Len(t) -> 0..N]
    BY <1>1
  <2>. HIDE DEF N
  <2> QED
    BY <1>2, <2>1, TightRun
<1>4. i \in i..p /\ \A q \in i..p : q \in 1..Len(t)
  BY <1>1, <1>2
<1>5. \A q \in 1..Len(t) : g[q] \in Nat
  BY <1>1
<1>6. \A q \in i..p : g[q] = g[i] + (q - i)
  <2>. SUFFICES ASSUME NEW q \in i..p
                PROVE  g[q] = g[i] + (q - i)
    OBVIOUS
  <2>1. g[p] = g[q] + (p - q) /\ g[p] = g[i] + (p - i)
    BY <1>3, <1>4
  <2>2. g[q] \in Nat /\ g[i] \in Nat /\ g[p] \in Nat
    BY <1>2, <1>4, <1>5
  <2>3. q \in Nat /\ i \in Nat /\ p \in Nat
    BY <1>1, <1>2
  <2> QED
    BY <2>1, <2>2, <2>3
<1>7. \A q \in i..p : g[q] \in 1..Len(s) /\ Kind(s, g[q]) = Kind(t, q)
  <2>. SUFFICES ASSUME NEW q \in i..p
                PROVE  g[q] \in 1..Len(s) /\ Kind(s, g[q]) = Kind(t, q)
    OBVIOUS
  <2>1. q \in 1..Len(t) /\ g[q] > 0
    BY <1>3, <1>4
  <2> QED
    BY <2>1, SourceKind
<1> QED
  BY <1>3, <1>4, <1>6, <1>7

\* A substitution keeps the first token of a match and puts one or two behind it.
PutsBehind(t, ends, by) ==
  \A i \in 1..Len(t) :
    Matched(ends, i) => /\ Len(by[i]) \in {2, 3} /\ by[i][1] = t[i]
                        /\ by[i][2].kind \in Put
                        /\ Len(by[i]) = 3 => by[i][3].kind \in Put
                        /\ by[i][Len(by[i])].kind \in Opaque

\* And what else it matches is not owed.
Spares(s, line, t, g, ends) ==
  \A i \in 1..Len(t) :
    Matched(ends, i) =>
      \A p \in i + 1..ends[i] - 1 : g[p] > 0 => ~ Owed(s, line, g[p])

\* Such a substitution carries the sources on.
LEMMA PuttingTracks ==
  ASSUME NEW s \in Seq(WorkTokens), NEW line, NEW t \in Seq(WorkTokens),
         NEW g, Tracks(s, line, t, g), NEW ends, NEW by,
         Fits(Len(t), ends, by, WorkTokens),
         PutsBehind(t, ends, by), Spares(s, line, t, g, ends)
  PROVE  \E h : /\ Tracks(s, line, Substitute(t, ends, by), h)
                /\ Tight(t, g) => Tight(Substitute(t, ends, by), h)
<1>1. Harmless(s, line, t, g, ends, by, Sizes(t, by), 1)
  <2>. SUFFICES ASSUME NEW i \in 1..Len(t), Matched(ends, i)
                PROVE  /\ \A q \in 1..Sizes(t, by)[i] :
                            IF q <= 1 THEN by[i][q] = t[i] ELSE by[i][q].kind \in Put
                       /\ \A p \in i + 1..ends[i] - 1 : g[p] > 0 => ~ Owed(s, line, g[p])
    BY DEF Harmless
  <2>1. \A p \in i + 1..ends[i] - 1 : g[p] > 0 => ~ Owed(s, line, g[p])
    BY DEF Spares
  <2>2. Sizes(t, by)[i] = Len(by[i])
    BY DEF Sizes
  <2>3. /\ Len(by[i]) \in {2, 3} /\ by[i][1] = t[i]
        /\ by[i][2].kind \in Put
        /\ Len(by[i]) = 3 => by[i][3].kind \in Put
    BY DEF PutsBehind
  <2>4. ASSUME NEW q \in 1..Len(by[i])
        PROVE  IF q <= 1 THEN by[i][q] = t[i] ELSE by[i][q].kind \in Put
    <3>1. q = 1 \/ q = 2 \/ (q = 3 /\ Len(by[i]) = 3)
      <4>. DEFINE l == Len(by[i])
      <4>1. q \in 1..l /\ l \in {2, 3}
        BY <2>3, <2>4
      <4>. HIDE DEF l
      <4>2. q = 1 \/ q = 2 \/ (q = 3 /\ l = 3)
        BY <4>1
      <4> QED
        BY <4>2 DEF l
    <3>2. CASE q = 1
      BY <2>3, <3>2
    <3>3. CASE q = 2
      BY <2>3, <3>3
    <3>4. CASE q = 3 /\ Len(by[i]) = 3
      BY <2>3, <3>4
    <3> QED
      BY <3>1, <3>2, <3>3, <3>4
  <2> QED
    BY <2>1, <2>2, <2>4
<1>2. \A i \in 1..Len(t) :
        Matched(ends, i) => Len(by[i]) > 1 /\ by[i][Len(by[i])].kind \in Opaque
  BY DEF PutsBehind
<1>. DEFINE new == Substitute(t, ends, by)
            h == Carry(g, WalkOf(t, ends, by), 1)
<1>3. Tracks(s, line, new, h)
  BY <1>1, SubstituteTracks
<1>4. Tight(t, g) => Tight(new, h)
  <2>. DEFINE N == Len(s)
  <2>1. N \in Nat /\ g \in [1..Len(t) -> 0..N]
    BY DEF Tracks
  <2>. HIDE DEF N
  <2> QED
    BY <1>2, <2>1, SubstituteTight
<1>. HIDE DEF h
<1> QED
  BY <1>3, <1>4

\* The frame takes a number that follows its beginning.
LEMMA FrameTracks ==
  ASSUME NEW s \in Seq(WorkTokens), NEW line, NEW t \in Seq(WorkTokens),
         NEW g, Tracks(s, line, t, g), Tight(t, g)
  PROVE  \E h : Tracks(s, line, Apply("frame", t), h) /\ Tight(Apply("frame", t), h)
<1>. DEFINE ends == FrameEndsOf(t)
            by == FrameBy(t)
<1>1. DOMAIN t = 1..Len(t) /\ Len(t) \in Nat
  OBVIOUS
<1>2. ASSUME NEW i \in 1..Len(t), Matched(ends, i)
      PROVE  /\ Kind(t, i) = "frame" /\ Kind(t, i + 1) \in Numbers
             /\ i + 1 \in 1..Len(t) /\ i + 2 \in 1..Len(t) /\ t[i + 2].kind = "location"
             /\ ends[i] = i + 3
             /\ Len(by[i]) = 3 /\ by[i][1] = t[i]
             /\ by[i][2].kind = "placeholder" /\ by[i][3].kind = "location"
  <2>1. ends[i] = FrameEnd(t, i) /\ by[i] = <<t[i], Placeholder("line"), t[i + 2]>>
    BY <1>1 DEF FrameEndsOf, FrameBy
  <2>2. FrameEnd(t, i) # i
    BY <1>2, <2>1 DEF Matched
  <2>3. /\ Kind(t, i) = "frame" /\ Kind(t, i + 1) \in Numbers
        /\ Kind(t, i + 2) = "location" /\ FrameEnd(t, i) = i + 3
    BY <2>2, FrameEnds
  <2>4. i + 1 \in 1..Len(t) /\ i + 2 \in 1..Len(t) /\ t[i + 2].kind = "location"
    <3>1. Kind(t, i + 1) # "end"
      BY <2>3 DEF Numbers
    <3>2. i + 1 \in Nat /\ i + 2 \in Nat
      OBVIOUS
    <3> QED
      BY <2>3, <3>1, <3>2, KindIs
  <2>5. Placeholder("line").kind = "placeholder"
    BY DEF Placeholder, Token
  <2>. HIDE DEF ends, by
  <2> QED
    BY <2>1, <2>3, <2>4, <2>5
<1>. HIDE DEF ends, by
<1>3. ASSUME NEW i \in 1..Len(t), Matched(ends, i), NEW p \in i + 1..ends[i] - 1, g[p] > 0
      PROVE  ~ Owed(s, line, g[p])
  <2>1. p \in {i + 1, i + 2}
    BY <1>2, <1>3
  <2>2. CASE p = i + 2
    <3>1. p \in 1..Len(t) /\ Kind(t, p) = "location"
      BY <1>1, <1>2, <1>3, <2>2 DEF Kind
    <3> QED
      BY <1>3, <3>1, NotOwed
  <2>3. CASE p = i + 1 /\ Kind(t, p) # "small"
    <3>1. p \in 1..Len(t) /\ Kind(t, p) \notin {"word", "small"}
      BY <1>2, <1>3, <2>3 DEF Numbers
    <3> QED
      BY <1>3, <3>1, NotOwed
  <2>4. CASE p = i + 1 /\ Kind(t, p) = "small"
    <3>1. p \in i..Len(t)
      BY <1>2, <1>3, <2>4
    <3>2. \A q \in i..p - 1 : Kind(t, q) \notin Opaque
      BY <1>2, <1>3, <2>4 DEF Opaque
    <3>3. /\ g[i] \in 1..Len(s) /\ g[p] = g[i] + (p - i)
          /\ \A q \in i..p : /\ g[i] + (q - i) \in 1..Len(s)
                             /\ Kind(s, g[i] + (q - i)) = Kind(t, q)
      BY <1>3, <3>1, <3>2, FromBehind
    <3>4. g[p] = g[i] + 1 /\ g[p] - 1 = g[i] /\ i \in i..p /\ p \in i..p
      BY <2>4, <3>3
    <3>5. Kind(s, g[p]) = "small" /\ Kind(s, g[p] - 1) = "frame"
      <4>1. Kind(s, g[i] + (i - i)) = Kind(t, i) /\ Kind(s, g[i] + (p - i)) = Kind(t, p)
        BY <3>3, <3>4
      <4>2. g[i] + (i - i) = g[p] - 1 /\ g[i] + (p - i) = g[p]
        BY <2>4, <3>3, <3>4
      <4> QED
        BY <1>2, <1>3, <2>4, <4>1, <4>2
    <3> QED
      BY <3>5 DEF Owed, Labelled
  <2> QED
    BY <2>1, <2>2, <2>3, <2>4
<1>4. Spares(s, line, t, g, ends)
  BY <1>3 DEF Spares
<1>5. PutsBehind(t, ends, by)
  BY <1>2 DEF PutsBehind, Put, Opaque
<1>6. Fits(Len(t), ends, by, WorkTokens)
  BY SubstitutionsFit DEF ends, by
<1>7. Apply("frame", t) = Substitute(t, ends, by)
  BY ApplyIs DEF ends, by
<1> QED
  BY <1>4, <1>5, <1>6, <1>7, PuttingTracks

\* A stretch of the source, from c on, has the kinds of a stretch of the text.
Mirrors(s, c, t, i, p) ==
  \A q \in i..p : Kind(s, c + (q - i)) = Kind(t, q)

\* The value of a request id in the text is one in the source.
LEMMA RequestIdMirrored ==
  ASSUME NEW s, NEW t, NEW i \in Nat, NEW p \in Nat, NEW b \in i + 1..p,
         NEW c \in Nat \ {0}, Mirrors(s, c, t, i, p), Kind(t, i) = "request",
         \A q \in i + 1..b - 1 : Kind(t, q) \in Separators,
         \A q \in b..p : Kind(t, q) \in Valued
  PROVE  MayBeRequestId(s, c + (p - i))
<1>. DEFINE e == c + (p - i)
            k == c + (b - i)
<1>1. /\ b \in Nat /\ i < b /\ b <= p /\ e \in Nat /\ k \in Nat
      /\ c \in 1..e - 1 /\ k \in 1..e /\ c < k
  OBVIOUS
<1>2. Kind(s, c) = "request"
  <2>1. i \in i..p /\ c + (i - i) = c
    OBVIOUS
  <2>2. Kind(s, c + (i - i)) = Kind(t, i)
    BY <2>1 DEF Mirrors
  <2> QED
    BY <2>1, <2>2
<1>3. ASSUME NEW m \in c + 1..e
      PROVE  /\ i + (m - c) \in i + 1..p
             /\ Kind(s, m) = Kind(t, i + (m - c))
  <2>1. i + (m - c) \in i + 1..p /\ c + ((i + (m - c)) - i) = m
    BY <1>1
  <2>2. i + (m - c) \in i..p
    BY <2>1
  <2>3. Kind(s, c + ((i + (m - c)) - i)) = Kind(t, i + (m - c))
    BY <2>2 DEF Mirrors
  <2> QED
    BY <2>1, <2>3
<1>4. ASSUME NEW m \in c + 1..k - 1
      PROVE  Kind(s, m) \in Separators
  <2>1. m \in c + 1..e /\ i + (m - c) \in i + 1..b - 1
    BY <1>1
  <2> QED
    BY <1>3, <2>1
<1>5. ASSUME NEW m \in k..e
      PROVE  Kind(s, m) \in Valued
  <2>1. m \in c + 1..e /\ i + (m - c) \in b..p
    BY <1>1
  <2> QED
    BY <1>3, <2>1
<1>. HIDE DEF e, k
<1>6. MayBeRequestId(s, e)
  BY <1>1, <1>2, <1>4, <1>5 DEF MayBeRequestId
<1> QED
  BY <1>6 DEF e

\* And so is a labelled number.
LEMMA LabelMirrored ==
  ASSUME NEW s, NEW line, NEW t, NEW i \in Nat, NEW p \in Nat, i + 1 < p,
         NEW c \in Nat \ {0}, Mirrors(s, c, t, i, p),
         Kind(t, i) = "label", Kind(t, p) = "small",
         \A q \in i + 1..p - 1 : Kind(t, q) \in Separators
  PROVE  Labelled(s, line, c + (p - i))
<1>. DEFINE e == c + (p - i)
<1>1. e \in Nat /\ c \in 1..e - 2
  OBVIOUS
<1>2. Kind(s, c) = "label" /\ Kind(s, e) = "small"
  <2>1. i \in i..p /\ c + (i - i) = c /\ p \in i..p
    OBVIOUS
  <2>2. Kind(s, c + (i - i)) = Kind(t, i) /\ Kind(s, c + (p - i)) = Kind(t, p)
    BY <2>1 DEF Mirrors
  <2> QED
    BY <2>1, <2>2
<1>3. ASSUME NEW m \in c + 1..e - 1
      PROVE  Kind(s, m) \in Separators
  <2>1. /\ i + (m - c) \in i + 1..p - 1 /\ i + (m - c) \in i..p
        /\ c + ((i + (m - c)) - i) = m
    BY <1>1
  <2>2. Kind(s, c + ((i + (m - c)) - i)) = Kind(t, i + (m - c))
    BY <2>1 DEF Mirrors
  <2> QED
    BY <2>1, <2>2
<1>. HIDE DEF e
<1>4. Labelled(s, line, e)
  BY <1>1, <1>2, <1>3 DEF Labelled
<1> QED
  BY <1>4 DEF e

\* What stands between two tokens that do not hide mirrors the source.
LEMMA MirroredBehind ==
  ASSUME NEW s \in Seq(WorkTokens), NEW line, NEW t \in Seq(WorkTokens),
         NEW g, Tracks(s, line, t, g), Tight(t, g), NEW i \in 1..Len(t),
         NEW p \in i..Len(t), g[p] > 0,
         \A q \in i..p - 1 : Kind(t, q) \notin Opaque
  PROVE  g[i] \in Nat \ {0} /\ g[p] = g[i] + (p - i) /\ Mirrors(s, g[i], t, i, p)
<1>1. /\ g[i] \in 1..Len(s) /\ g[p] = g[i] + (p - i)
      /\ \A q \in i..p : Kind(s, g[i] + (q - i)) = Kind(t, q)
  BY FromBehind
<1>2. Len(s) \in Nat
  OBVIOUS
<1> QED
  BY <1>1, <1>2 DEF Mirrors

\* The substitution of request ids takes what may be in the value of one.
LEMMA RequestTracks ==
  ASSUME NEW s \in Seq(WorkTokens), NEW line, NEW t \in Seq(WorkTokens),
         NEW g, Tracks(s, line, t, g), Tight(t, g)
  PROVE  \E h : /\ Tracks(s, line, Apply("request_id", t), h)
                /\ Tight(Apply("request_id", t), h)
<1>. DEFINE ends == RequestEndsOf(t)
            by == RequestBy(t)
<1>1. DOMAIN t = 1..Len(t) /\ Len(t) \in Nat
  OBVIOUS
<1>2. ASSUME NEW i \in 1..Len(t), Matched(ends, i)
      PROVE  /\ Kind(t, i) = "request" /\ ends[i] \in i..Len(t) + 1
             /\ \E b \in i + 1..ends[i] - 1 :
                  /\ \A k \in i + 1..b - 1 : Kind(t, k) \in Separators
                  /\ \A k \in b..ends[i] - 1 : Kind(t, k) \in Valued
             /\ Len(by[i]) = 3 /\ by[i][1] = t[i]
             /\ by[i][2].kind = ":" /\ by[i][3].kind = "placeholder"
  <2>. DEFINE b == RequestBegin(t, i)
              e == RequestEnd(t, i)
  <2>1. ends[i] = e /\ by[i] = <<t[i], Mark(":"), Placeholder("request_id")>>
    BY <1>1 DEF RequestEndsOf, RequestBy
  <2>2. e # i
    BY <1>2, <2>1 DEF Matched
  <2>3. /\ Kind(t, i) = "request" /\ e \in i..Len(t) + 1
        /\ b \in i + 1..Len(t) + 1 /\ b < e
        /\ \A k \in i + 1..b - 1 : Kind(t, k) \in Separators
        /\ \A k \in b..e - 1 : Kind(t, k) \in Valued
    BY <2>2, RequestEnds
  <2>4. Mark(":").kind = ":" /\ Placeholder("request_id").kind = "placeholder"
    BY DEF Mark, Placeholder, Token
  <2>. HIDE DEF ends, by, b, e
  <2>5. b \in i + 1..e - 1
    BY <1>1, <2>3
  <2> QED
    BY <2>1, <2>3, <2>4, <2>5
<1>. HIDE DEF ends, by
<1>3. ASSUME NEW i \in 1..Len(t), Matched(ends, i), NEW p \in i + 1..ends[i] - 1, g[p] > 0
      PROVE  ~ Owed(s, line, g[p])
  <2>1. PICK b \in i + 1..ends[i] - 1 :
               /\ \A k \in i + 1..b - 1 : Kind(t, k) \in Separators
               /\ \A k \in b..ends[i] - 1 : Kind(t, k) \in Valued
    BY <1>2, <1>3
  <2>2. /\ Kind(t, i) = "request" /\ ends[i] \in i..Len(t) + 1
    BY <1>2, <1>3
  <2>3. p \in i..Len(t) /\ p \in 1..Len(t) /\ b \in Nat /\ p \in Nat /\ i \in Nat
    BY <1>1, <1>3, <2>1, <2>2
  <2>4. CASE p < b
    <3>1. Kind(t, p) \in Separators
      BY <1>3, <2>1, <2>3, <2>4
    <3>2. Kind(t, p) \notin {"word", "small"}
      BY <3>1, WordKinds
    <3> QED
      BY <1>3, <2>3, <3>2, NotOwed
  <2>5. CASE b <= p
    <3>1. \A q \in i + 1..p : Kind(t, q) \in Separators \cup Valued
      <4>. SUFFICES ASSUME NEW q \in i + 1..p
                    PROVE  Kind(t, q) \in Separators \cup Valued
        OBVIOUS
      <4>1. q \in i + 1..b - 1 \/ q \in b..ends[i] - 1
        BY <1>3, <2>2, <2>3
      <4> QED
        BY <2>1, <4>1
    <3>2. \A q \in i..p - 1 : Kind(t, q) \notin Opaque
      <4>. SUFFICES ASSUME NEW q \in i..p - 1
                    PROVE  Kind(t, q) \notin Opaque
        OBVIOUS
      <4>1. q = i \/ q \in i + 1..p
        BY <2>3
      <4>2. "request" \notin Opaque /\ \A x \in Separators \cup Valued : x \notin Opaque
        BY WordKinds
      <4> QED
        BY <2>2, <3>1, <4>1, <4>2
    <3>3. g[i] \in Nat \ {0} /\ g[p] = g[i] + (p - i) /\ Mirrors(s, g[i], t, i, p)
      BY <1>3, <2>3, <3>2, MirroredBehind
    <3>4. b \in i + 1..p
      BY <2>1, <2>3, <2>5
    <3>5. \A q \in b..p : Kind(t, q) \in Valued
      <4>1. \A q \in b..p : q \in b..ends[i] - 1
        BY <1>3, <2>2, <2>3
      <4> QED
        BY <2>1, <4>1
    <3>6. \A q \in i + 1..b - 1 : Kind(t, q) \in Separators
      BY <2>1
    <3>7. MayBeRequestId(s, g[i] + (p - i))
      BY <2>2, <2>3, <3>3, <3>4, <3>5, <3>6, RequestIdMirrored
    <3> QED
      BY <3>3, <3>7 DEF Owed
  <2> QED
    BY <2>3, <2>4, <2>5
<1>4. Spares(s, line, t, g, ends)
  BY <1>3 DEF Spares
<1>5. PutsBehind(t, ends, by)
  BY <1>2 DEF PutsBehind, Put, Opaque
<1>6. Fits(Len(t), ends, by, WorkTokens)
  BY SubstitutionsFit DEF ends, by
<1>7. Apply("request_id", t) = Substitute(t, ends, by)
  BY ApplyIs DEF ends, by
<1> QED
  BY <1>4, <1>5, <1>6, <1>7, PuttingTracks

\* In a source the beginning of a frame is followed by its number.
FramesHaveNumbers(s) ==
  \A i \in 1..Len(s) : Kind(s, i) = "frame" => Kind(s, i + 1) \in Numbers

\* The substitution of labels takes labelled numbers and values of request ids.
LEMMA LabelTracks ==
  ASSUME NEW s \in Seq(WorkTokens), FramesHaveNumbers(s), NEW line,
         NEW t \in Seq(WorkTokens), NEW g, Tracks(s, line, t, g), Tight(t, g)
  PROVE  \E h : Tracks(s, line, Apply("label", t), h) /\ Tight(Apply("label", t), h)
<1>. DEFINE ends == LabelEndsOf(t)
            by == LabelBy(t)
<1>1. DOMAIN t = 1..Len(t) /\ Len(t) \in Nat
  OBVIOUS
<1>2. ASSUME NEW i \in 1..Len(t), Matched(ends, i)
      PROVE  /\ \E after \in i + 1..Len(t) :
                  /\ ends[i] = after + 1
                  /\ \A k \in i + 1..after - 1 : Kind(t, k) \in Separators
                  /\ \/ Kind(t, i) \in {"label", "request"} /\ after > i + 1
                     \/ Kind(t, i) = "frame"
                  /\ Kind(t, after) \in Numbers
             /\ Len(by[i]) = 3 /\ by[i][1] = t[i]
             /\ by[i][2].kind = "=" /\ by[i][3].kind = "placeholder"
  <2>. DEFINE a == RunEnd(t, i + 1, Separators)
              e == LabelEnd(t, i)
  <2>1. ends[i] = e /\ by[i] = <<t[i], Mark("="), Placeholder("id")>>
    BY <1>1 DEF LabelEndsOf, LabelBy
  <2>2. e # i
    BY <1>2, <2>1 DEF Matched
  <2>3. /\ a \in i + 1..Len(t) + 1
        /\ \A k \in i + 1..a - 1 : Kind(t, k) \in Separators
        /\ \/ Kind(t, i) \in {"label", "request"} /\ a > i + 1
           \/ Kind(t, i) = "frame"
        /\ Kind(t, a) \in Numbers
        /\ e = a + 1
    BY <2>2, LabelEnds
  <2>4. Mark("=").kind = "=" /\ Placeholder("id").kind = "placeholder"
    BY DEF Mark, Placeholder, Token
  <2>. HIDE DEF ends, by, a, e
  <2>5. a \in i + 1..Len(t)
    <3>1. Kind(t, a) # "end" /\ a \in Nat
      BY <1>1, <2>3 DEF Numbers
    <3> QED
      BY <1>1, <2>3, <3>1, KindIs
  <2> QED
    BY <2>1, <2>3, <2>4, <2>5
<1>. HIDE DEF ends, by
<1>3. ASSUME NEW i \in 1..Len(t), Matched(ends, i), NEW p \in i + 1..ends[i] - 1, g[p] > 0
      PROVE  ~ Owed(s, line, g[p])
  <2>1. PICK after \in i + 1..Len(t) :
               /\ ends[i] = after + 1
               /\ \A k \in i + 1..after - 1 : Kind(t, k) \in Separators
               /\ \/ Kind(t, i) \in {"label", "request"} /\ after > i + 1
                  \/ Kind(t, i) = "frame"
               /\ Kind(t, after) \in Numbers
    BY <1>2, <1>3
  <2>2. /\ p \in i..Len(t) /\ p \in 1..Len(t) /\ p \in Nat /\ i \in Nat /\ i < p
        /\ p \in i + 1..after - 1 \/ p = after
    BY <1>1, <1>3, <2>1
  <2>3. CASE Kind(t, p) # "small"
    <3>1. Kind(t, p) \in Separators \/ Kind(t, p) \in Numbers
      BY <2>1, <2>2
    <3>2. Kind(t, p) \notin {"word", "small"}
      BY <2>3, <3>1, WordKinds DEF Numbers
    <3> QED
      BY <1>3, <2>2, <3>2, NotOwed
  <2>4. CASE Kind(t, p) = "small"
    <3>1. p = after
      <4>1. Kind(t, p) \notin Separators
        BY <2>4, WordKinds
      <4> QED
        BY <2>1, <2>2, <4>1
    <3>2. \A q \in i + 1..p - 1 : Kind(t, q) \in Separators
      BY <2>1, <3>1
    <3>3. \A q \in i..p - 1 : Kind(t, q) \notin Opaque
      <4>. SUFFICES ASSUME NEW q \in i..p - 1
                    PROVE  Kind(t, q) \notin Opaque
        OBVIOUS
      <4>1. q = i \/ q \in i + 1..p - 1
        BY <2>2
      <4>2. /\ \A x \in Separators : x \notin Opaque
            /\ \A x \in {"label", "request", "frame"} : x \notin Opaque
        BY WordKinds
      <4>3. Kind(t, i) \in {"label", "request", "frame"}
        BY <2>1
      <4> QED
        BY <3>2, <4>1, <4>2, <4>3
    <3>4. g[i] \in Nat \ {0} /\ g[p] = g[i] + (p - i) /\ Mirrors(s, g[i], t, i, p)
      BY <1>3, <2>2, <3>3, MirroredBehind
    <3>5. CASE Kind(t, i) = "label"
      <4>1. i + 1 < p
        BY <2>1, <2>2, <3>1, <3>5
      <4>2. Labelled(s, line, g[i] + (p - i))
        BY <2>2, <2>4, <3>2, <3>4, <3>5, <4>1, LabelMirrored
      <4> QED
        BY <3>4, <4>2 DEF Owed
    <3>6. CASE Kind(t, i) = "request"
      <4>1. \A q \in p..p : Kind(t, q) \in Valued
        BY <2>4, WordKinds
      <4>2. p \in i + 1..p
        BY <2>2
      <4>3. MayBeRequestId(s, g[i] + (p - i))
        BY <2>2, <3>2, <3>4, <3>6, <4>1, <4>2, RequestIdMirrored
      <4> QED
        BY <3>4, <4>3 DEF Owed
    <3>7. CASE Kind(t, i) = "frame"
      <4>1. i \in i..p /\ i + 1 \in i..p /\ p \in i..p
        BY <2>2
      <4>2. Kind(s, g[i] + (i - i)) = "frame" /\ Kind(s, g[i] + (i + 1 - i)) = Kind(t, i + 1)
        BY <3>4, <3>7, <4>1 DEF Mirrors
      <4>3. g[i] + (i - i) = g[i] /\ g[i] + (i + 1 - i) = g[i] + 1
        BY <2>2, <3>4
      <4>4. Kind(s, g[i]) = "frame" /\ Kind(s, g[i] + 1) = Kind(t, i + 1)
        BY <4>1, <4>2, <4>3
      <4>5. g[i] \in 1..Len(s)
        <5>1. i \in 1..Len(t) /\ g[i] > 0
          BY <3>4
        <5> QED
          BY <5>1, SourceKind
      <4>6. Kind(t, i + 1) \in Numbers
        BY <4>4, <4>5 DEF FramesHaveNumbers
      <4>7. p = i + 1
        <5>1. Kind(t, i + 1) \notin Separators
          BY <4>6, WordKinds
        <5> QED
          BY <2>2, <3>2, <5>1
      <4>8. g[p] = g[i] + 1 /\ g[p] - 1 = g[i]
        BY <2>2, <3>4, <4>7
      <4>9. Kind(s, g[p]) = "small" /\ Kind(s, g[p] - 1) = "frame"
        BY <2>4, <4>4, <4>7, <4>8
      <4> QED
        BY <4>9 DEF Owed, Labelled
    <3> QED
      BY <2>1, <3>5, <3>6, <3>7
  <2> QED
    BY <2>3, <2>4
<1>4. Spares(s, line, t, g, ends)
  BY <1>3 DEF Spares
<1>5. PutsBehind(t, ends, by)
  BY <1>2 DEF PutsBehind, Put, Opaque
<1>6. Fits(Len(t), ends, by, WorkTokens)
  BY SubstitutionsFit DEF ends, by
<1>7. Apply("label", t) = Substitute(t, ends, by)
  BY ApplyIs DEF ends, by
<1> QED
  BY <1>4, <1>5, <1>6, <1>7, PuttingTracks

OnLine(line) == line = TRUE

\* On a line a colon takes the number behind it.
LEMMA ColonTracks ==
  ASSUME NEW s \in Seq(WorkTokens), NEW line, OnLine(line),
         NEW t \in Seq(WorkTokens), NEW g, Tracks(s, line, t, g), Loose(t, g)
  PROVE  \E h : Tracks(s, line, Apply("colon", t), h)
<1>. DEFINE ends == ColonEndsOf(t)
            by == ColonBy(t)
<1>1. DOMAIN t = 1..Len(t) /\ Len(t) \in Nat
  OBVIOUS
<1>2. ASSUME NEW i \in 1..Len(t), Matched(ends, i)
      PROVE  /\ Kind(t, i) = ":" /\ Kind(t, i + 1) \in Numbers
             /\ i + 1 \in 1..Len(t) /\ ends[i] = i + 2
             /\ Len(by[i]) = 2 /\ by[i][1] = t[i] /\ by[i][2].kind = "placeholder"
  <2>1. ends[i] = ColonEnd(t, i) /\ by[i] = <<t[i], Placeholder("line")>>
    BY <1>1 DEF ColonEndsOf, ColonBy
  <2>2. ColonEnd(t, i) # i
    BY <1>2, <2>1 DEF Matched
  <2>3. Kind(t, i) = ":" /\ Kind(t, i + 1) \in Numbers /\ ColonEnd(t, i) = i + 2
    BY <2>2, ColonEnds
  <2>4. i + 1 \in 1..Len(t)
    <3>1. Kind(t, i + 1) # "end" /\ i + 1 \in Nat
      BY <2>3 DEF Numbers
    <3> QED
      BY <3>1, KindIs
  <2>5. Placeholder("line").kind = "placeholder"
    BY DEF Placeholder, Token
  <2>. HIDE DEF ends, by
  <2> QED
    BY <2>1, <2>3, <2>4, <2>5
<1>. HIDE DEF ends, by
<1>3. ASSUME NEW i \in 1..Len(t), Matched(ends, i), NEW p \in i + 1..ends[i] - 1, g[p] > 0
      PROVE  ~ Owed(s, line, g[p])
  <2>1. p = i + 1 /\ p \in 1..Len(t) /\ i \in 1..Len(t) - 1
    BY <1>1, <1>2, <1>3
  <2>2. CASE Kind(t, p) # "small"
    <3>1. Kind(t, p) \notin {"word", "small"}
      BY <1>2, <1>3, <2>1, <2>2 DEF Numbers
    <3> QED
      BY <1>3, <2>1, <3>1, NotOwed
  <2>3. CASE Kind(t, p) = "small"
    <3>1. t[i].kind = ":" /\ t[i + 1].kind = "small"
      BY <1>1, <1>2, <1>3, <2>1, <2>3 DEF Kind
    <3>2. g[i] > 0 /\ g[i + 1] = g[i] + 1
      BY <2>1, <3>1 DEF Loose
    <3>3. Kind(s, g[i]) = ":" /\ g[i] \in Nat
      <4>1. i \in 1..Len(t) /\ g[i] > 0
        BY <1>3, <3>2
      <4>2. g[i] \in Nat /\ Kind(s, g[i]) = Kind(t, i)
        <5>1. g[i] \in 1..Len(s) /\ t[i] = s[g[i]]
          BY <4>1 DEF Tracks
        <5>2. DOMAIN s = 1..Len(s) /\ DOMAIN t = 1..Len(t)
          OBVIOUS
        <5> QED
          BY <4>1, <5>1, <5>2 DEF Kind
      <4>3. Kind(t, i) = ":"
        BY <1>2, <1>3
      <4> QED
        BY <4>1, <4>2, <4>3
    <3>4. Kind(s, g[p]) = "small"
      <4>1. p \in 1..Len(t) /\ g[p] > 0
        BY <1>3, <2>1
      <4>2. Kind(s, g[p]) = Kind(t, p)
        BY <4>1, SourceKind
      <4> QED
        BY <2>3, <4>2
    <3>5. g[p] - 1 = g[i]
      BY <2>1, <3>2, <3>3
    <3> QED
      BY <3>3, <3>4, <3>5 DEF Owed, Labelled, OnLine
  <2> QED
    BY <2>2, <2>3
<1>4. Spares(s, line, t, g, ends)
  BY <1>3 DEF Spares
<1>5. PutsBehind(t, ends, by)
  BY <1>2 DEF PutsBehind, Put, Opaque
<1>6. Fits(Len(t), ends, by, WorkTokens)
  BY SubstitutionsFit DEF ends, by
<1>7. Apply("colon", t) = Substitute(t, ends, by)
  BY ApplyIs DEF ends, by
<1> QED
  BY <1>4, <1>5, <1>6, <1>7, PuttingTracks

\* When spaces collapse, a colon and a number behind it stay neighbours.
LEMMA SpaceTracks ==
  ASSUME NEW s \in Seq(WorkTokens), NEW line, NEW t \in Seq(WorkTokens),
         NEW g, Tracks(s, line, t, g), Tight(t, g)
  PROVE  \E h : Tracks(s, line, Apply("space", t), h) /\ Loose(Apply("space", t), h)
<1>. DEFINE ends == SpaceEndsOf(t)
            by == SpaceBy(t)
            sizes == Sizes(t, by)
            n == Len(t)
            v == WalkOf(t, ends, by)
            u == Substitute(t, ends, by)
            h == Carry(g, v, 0)
<1>1. DOMAIN t = 1..n /\ n \in Nat
  OBVIOUS
<1>2. ASSUME NEW i \in 1..n
      PROVE  /\ ends[i] \in i..n + 1
             /\ \A k \in i..ends[i] - 1 : Kind(t, k) = " "
             /\ Len(by[i]) = 1 /\ by[i][1].kind = " " /\ sizes[i] = 1
  <2>. DEFINE e == RunEnd(t, i, {" "})
              space == Mark(" ")
  <2>1. ends[i] = e /\ by[i] = <<space>> /\ sizes[i] = Len(by[i])
    BY <1>1 DEF SpaceEndsOf, SpaceBy, Sizes
  <2>2. e \in i..n + 1 /\ \A k \in i..e - 1 : Kind(t, k) = " "
    BY SpaceEnds
  <2>3. space.kind = " "
    BY DEF Mark, Token
  <2>4. Len(<<space>>) = 1 /\ <<space>>[1] = space
    OBVIOUS
  <2>. HIDE DEF ends, by, sizes, n, e, space
  <2> QED
    BY <2>1, <2>2, <2>3, <2>4
<1>3. Harmless(s, line, t, g, ends, by, sizes, 0)
  <2>. HIDE DEF ends, by, sizes
  <2>. SUFFICES ASSUME NEW i \in 1..Len(t)
                PROVE  /\ \A q \in 1..sizes[i] :
                            IF q <= 0 THEN by[i][q] = t[i] ELSE by[i][q].kind \in Put
                       /\ \A p \in i + 0..ends[i] - 1 : g[p] > 0 => ~ Owed(s, line, g[p])
    BY DEF Harmless
  <2>. DEFINE e == ends[i]
              z == sizes[i]
              x == by[i][1]
  <2>1. /\ e \in i..n + 1 /\ x.kind = " " /\ z = 1
        /\ \A k \in i..e - 1 : Kind(t, k) = " "
    BY <1>2
  <2>2. ASSUME NEW q \in 1..z
        PROVE  IF q <= 0 THEN by[i][q] = t[i] ELSE by[i][q].kind \in Put
    <3>1. q = 1
      <4>. HIDE DEF z, e, x, n
      <4>1. z = 1
        BY <2>1
      <4> QED
        BY <4>1
    <3>2. ~ (q <= 0) /\ by[i][q].kind \in Put
      <4>1. x.kind \in Put
        BY <2>1 DEF Put
      <4> QED
        BY <3>1, <4>1
    <3> QED
      BY <3>2
  <2>3. ASSUME NEW p \in i + 0..e - 1, g[p] > 0
        PROVE  ~ Owed(s, line, g[p])
    <3>1. p \in i..e - 1 /\ p \in 1..n
      <4>1. i \in 1..n /\ n \in Nat /\ p \in i + 0..e - 1 /\ e \in i..n + 1
        BY <1>1, <2>1, <2>3
      <4>. HIDE DEF z, e, x, n
      <4> QED
        BY <4>1
    <3>2. Kind(t, p) \notin {"word", "small"}
      BY <2>1, <3>1
    <3> QED
      BY <2>3, <3>1, <3>2, NotOwed
  <2> QED
    BY <2>2, <2>3
<1>4. Fits(Len(t), ends, by, WorkTokens)
  BY SubstitutionsFit
<1>5. /\ Sized(n, ends, sizes) /\ IsWalk(v, 1, n, ends, sizes)
      /\ u \in Seq(WorkTokens) /\ Len(u) = Len(v)
      /\ \A k \in 1..Len(v) : u[k] = Picked(t, by, v[k])
  <2>. HIDE DEF ends, by
  <2> QED
    BY <1>4, WalkOfText
<1>6. Tracks(s, line, u, h)
  <2>. HIDE DEF ends, by
  <2> QED
    BY <1>3, <1>4, SubstituteTracks
<1>. HIDE DEF ends, by, sizes, n, v, u
<1>7. /\ Len(v) \in Nat
      /\ \A k \in 1..Len(v) : /\ v[k].at \in 1..n /\ v[k].part \in Nat
                              /\ Matched(ends, v[k].at) => v[k].part \in 1..sizes[v[k].at]
                              /\ ~ Matched(ends, v[k].at) => v[k].part = 0
  BY <1>1, <1>5, WalkSteps
<1>8. \A k \in 1..Len(v) : h[k] = IF v[k].part <= 0 THEN g[v[k].at] ELSE 0
  BY DEF Carry
<1>9. ASSUME NEW k \in 1..Len(v), u[k].kind # " "
      PROVE  /\ v[k].part = 0 /\ ~ Matched(ends, v[k].at)
             /\ u[k] = t[v[k].at] /\ h[k] = g[v[k].at]
  <2>1. u[k] = Picked(t, by, v[k])
    BY <1>5
  <2>2. ~ Matched(ends, v[k].at)
    <3>. SUFFICES ASSUME Matched(ends, v[k].at)
                  PROVE  FALSE
      OBVIOUS
    <3>1. v[k].at \in 1..n /\ v[k].part \in 1..sizes[v[k].at]
      BY <1>7
    <3>2. v[k].part = 1
      <4>1. sizes[v[k].at] = 1
        BY <1>2, <3>1
      <4> QED
        BY <3>1, <4>1
    <3>3. u[k] = by[v[k].at][1]
      BY <2>1, <3>2 DEF Picked
    <3> QED
      BY <1>2, <1>9, <3>1, <3>3
  <2>3. v[k].part = 0
    BY <1>7, <2>2
  <2> QED
    BY <1>8, <2>1, <2>2, <2>3 DEF Picked
<1>10. ASSUME NEW k \in 1..Len(v) - 1, u[k].kind = ":", u[k + 1].kind = "small"
       PROVE  h[k] > 0 /\ h[k + 1] = h[k] + 1
  <2>1. k \in 1..Len(v) /\ k + 1 \in 1..Len(v) /\ k # Len(v)
    BY <1>7
  <2>. DEFINE a == v[k].at
  <2>2. /\ a \in 1..n /\ v[k].part = 0 /\ ~ Matched(ends, a)
        /\ u[k] = t[a] /\ h[k] = g[a]
    BY <1>7, <1>9, <1>10, <2>1
  <2>3. u[k + 1] = t[v[k + 1].at] /\ h[k + 1] = g[v[k + 1].at] /\ v[k + 1].at \in 1..n
    BY <1>7, <1>9, <1>10, <2>1
  <2>4. v[k + 1] = First(ends, Beyond(ends, a))
    <3>1. StepsRight(v, n, ends, sizes)
      BY <1>5 DEF IsWalk
    <3>2. IsLast(sizes, v[k])
      BY <2>2 DEF IsLast
    <3> QED
      BY <2>1, <3>1, <3>2 DEF StepsRight
  <2>5. v[k + 1].at = a + 1
    BY <2>2, <2>4 DEF First, Beyond, Place
  <2>. HIDE DEF a
  <2>6. a \in 1..n - 1 /\ t[a].kind = ":" /\ t[a + 1].kind = "small"
    BY <1>1, <1>10, <2>2, <2>3, <2>5
  <2>7. Loose(t, g)
    BY TightIsLoose
  <2>8. g[a] > 0 /\ g[a + 1] = g[a] + 1
    BY <2>6, <2>7 DEF Loose, n
  <2> QED
    BY <2>2, <2>3, <2>5, <2>8
<1>11. Loose(u, h)
  BY <1>5, <1>10 DEF Loose
<1>12. Apply("space", t) = Strip(u)
  BY ApplyIs DEF u, ends, by
<1>. HIDE DEF h
<1> QED
  BY <1>5, <1>6, <1>11, <1>12, StripTracks

\* Which of the substitutions of a text collapses its spaces.
SpaceAt(line) == IF line THEN 14 ELSE 12

Early == Replaced \cup {"strip", "frame", "request_id", "label"}

\* Only the substitution of colons comes later.
LEMMA SubstitutionOrder ==
  ASSUME NEW line \in BOOLEAN, NEW k \in 1..Len(Substitutions(line))
  PROVE  /\ k < SpaceAt(line) => Substitutions(line)[k] \in Early
         /\ k = SpaceAt(line) => Substitutions(line)[k] = "space"
         /\ k > SpaceAt(line) => OnLine(line) /\ Substitutions(line)[k] = "colon"
<1>1. /\ \A j \in 1..11 : Common[j] \in Early
      /\ Common[12] = "space"
  BY DEF Common, Early, Replaced
<1>2. CASE line = FALSE
  <2>1. SpaceAt(line) = 12 /\ Substitutions(line) = Common /\ Len(Substitutions(line)) = 12
    BY <1>2, SubstitutionsAre DEF SpaceAt
  <2> QED
    BY <1>1, <2>1
<1>3. CASE line = TRUE
  <2>1. /\ SpaceAt(line) = 14 /\ Len(Substitutions(line)) = 15
        /\ Substitutions(line)[1] = "strip" /\ Substitutions(line)[2] = "frame"
        /\ Substitutions(line)[15] = "colon"
        /\ \A j \in 1..12 : Substitutions(line)[j + 2] = Common[j]
    BY <1>3, SubstitutionsAre DEF SpaceAt
  <2>2. OnLine(line)
    BY <1>3 DEF OnLine
  <2>. DEFINE all == Substitutions(line)
              at == SpaceAt(line)
  <2>3. at = 14 /\ all[1] = "strip" /\ all[2] = "frame" /\ all[15] = "colon"
    BY <2>1
  <2>4. \A j \in 1..12 : all[j + 2] = Common[j]
    BY <2>1
  <2>5. k \in 1..Len(all) /\ Len(all) = 15
    BY <2>1
  <2>. HIDE DEF all, at
  <2>6. /\ at = 14 /\ k \in 1..15
        /\ all[1] = "strip" /\ all[2] = "frame" /\ all[15] = "colon"
        /\ \A j \in 1..12 : all[j + 2] = Common[j]
    BY <2>3, <2>4, <2>5
  <2>7. CASE k \in {1, 2}
    <3>1. "strip" \in Early /\ "frame" \in Early
      BY DEF Early
    <3>2. all[k] \in Early /\ k < at
      BY <2>6, <2>7, <3>1
    <3> QED
      BY <2>6, <2>7, <3>2 DEF all, at
  <2>8. CASE k \in 3..14
    <3>1. k - 2 \in 1..12 /\ (k - 2) + 2 = k
      BY <2>8
    <3>2. all[k] = Common[k - 2]
      BY <2>6, <3>1
    <3>3. k < 14 => k - 2 \in 1..11
      BY <2>8
    <3>4. k = 14 => k - 2 = 12
      OBVIOUS
    <3>5. (k < 14 => all[k] \in Early) /\ (k = 14 => all[k] = "space") /\ k <= 14
      BY <1>1, <2>8, <3>2, <3>3, <3>4
    <3> QED
      BY <2>6, <2>8, <3>5 DEF all, at
  <2>9. CASE k = 15
    BY <2>2, <2>6, <2>9 DEF all, at
  <2> QED
    BY <2>6, <2>7, <2>8, <2>9 DEF all, at
<1> QED
  BY <1>2, <1>3

\* A text after so many substitutions: where it comes from.
Traced(s, line, t, done) ==
  \E g : /\ Tracks(s, line, t, g)
         /\ done < SpaceAt(line) => Tight(t, g)
         /\ done <= SpaceAt(line) => Loose(t, g)

\* One more substitution.
LEMMA ApplyTraced ==
  ASSUME NEW s \in Seq(WorkTokens), FramesHaveNumbers(s), NEW line \in BOOLEAN,
         NEW t \in Seq(WorkTokens), NEW done \in 0..Len(Substitutions(line)) - 1,
         Traced(s, line, t, done)
  PROVE  Traced(s, line, Apply(Substitutions(line)[done + 1], t), done + 1)
<1>. DEFINE all == Substitutions(line)
            name == all[done + 1]
            u == Apply(name, t)
            at == SpaceAt(line)
<1>1. Len(all) \in Nat /\ at \in Nat
  <2>1. line = TRUE \/ line = FALSE
    OBVIOUS
  <2> QED
    BY <2>1, SubstitutionsAre DEF SpaceAt
<1>2. done \in Nat /\ done + 1 \in 1..Len(all)
  <2>. HIDE DEF all
  <2> QED
    BY <1>1 DEF all
<1>3. /\ done + 1 < at => name \in Early
      /\ done + 1 = at => name = "space"
      /\ done + 1 > at => OnLine(line) /\ name = "colon"
  BY <1>2, SubstitutionOrder
<1>4. PICK g : /\ Tracks(s, line, t, g)
               /\ done < at => Tight(t, g)
               /\ done <= at => Loose(t, g)
  BY DEF Traced
<1>5. name \in Names
  BY <1>2, SubstitutionsType
<1>. HIDE DEF all, name, at
<1>6. u \in Seq(WorkTokens)
  BY <1>5, ApplyType
<1>7. CASE done + 1 < at
  <2>1. Tight(t, g)
    BY <1>1, <1>2, <1>4, <1>7
  <2>2. \E h : Tracks(s, line, u, h) /\ Tight(u, h)
    <3>1. CASE name \in Replaced
      <4>1. u = Replace(t, name)
        BY <3>1, ApplyIs
      <4>. HIDE DEF u
      <4> QED
        BY <1>4, <2>1, <3>1, <4>1, ReplaceTracks
    <3>2. CASE name = "strip"
      <4>1. u = Strip(t)
        BY <3>2, ApplyIs
      <4>. HIDE DEF u
      <4> QED
        BY <1>4, <2>1, <4>1, StripTracks
    <3>3. CASE name = "frame"
      BY <1>4, <2>1, <3>3, FrameTracks
    <3>4. CASE name = "request_id"
      BY <1>4, <2>1, <3>4, RequestTracks
    <3>5. CASE name = "label"
      BY <1>4, <2>1, <3>5, LabelTracks
    <3> QED
      BY <1>3, <1>7, <3>1, <3>2, <3>3, <3>4, <3>5 DEF Early
  <2>3. PICK h : Tracks(s, line, u, h) /\ Tight(u, h)
    BY <2>2
  <2>4. Loose(u, h)
    <3>. HIDE DEF u
    <3> QED
      BY <1>6, <2>3, TightIsLoose
  <2> QED
    BY <2>3, <2>4 DEF Traced, u, name, all
<1>8. CASE done + 1 = at
  <2>1. Tight(t, g)
    BY <1>1, <1>2, <1>4, <1>8
  <2>2. PICK h : Tracks(s, line, u, h) /\ Loose(u, h)
    BY <1>3, <1>4, <1>8, <2>1, SpaceTracks
  <2>3. ~ (done + 1 < at)
    BY <1>1, <1>2, <1>8
  <2> QED
    BY <2>2, <2>3 DEF Traced, u, name, all, at
<1>9. CASE done + 1 > at
  <2>1. done <= at
    <3>1. done + 1 = at + 1
      <4>1. done + 1 <= Len(all) /\ Len(all) <= at + 1
        <5>1. Len(all) <= at + 1
          <6>1. CASE line = TRUE
            <7>1. Len(all) = 15 /\ at = 14
              BY <6>1, SubstitutionsAre DEF SpaceAt, all, at
            <7> QED
              BY <7>1
          <6>2. CASE line = FALSE
            <7>1. Len(all) = 12 /\ at = 12
              BY <6>2, SubstitutionsAre DEF SpaceAt, all, at
            <7> QED
              BY <7>1
          <6> QED
            BY <6>1, <6>2
        <5> QED
          BY <1>1, <1>2, <5>1
      <4> QED
        BY <1>1, <1>2, <1>9, <4>1
    <3> QED
      BY <1>1, <1>2, <3>1
  <2>2. PICK h : Tracks(s, line, u, h)
    BY <1>3, <1>4, <1>9, <2>1, ColonTracks
  <2>3. ~ (done + 1 < at) /\ ~ (done + 1 <= at)
    BY <1>1, <1>2, <1>9
  <2> QED
    BY <2>2, <2>3 DEF Traced, u, name, all, at
<1> QED
  BY <1>1, <1>2, <1>7, <1>8, <1>9

\* The frames of what comes in have their numbers.
LEMMA InputsHaveNumbers ==
  /\ \A s \in Texts(MaxMessage) : FramesHaveNumbers(s)
  /\ \A s \in Lines : FramesHaveNumbers(s)
<1>1. \A x \in Tokens : x.kind # "frame"
  <2>1. \A kind \in Kinds \ {"request", "label"}, value \in {"a", "b"} :
           Token(kind, value).kind # "frame"
    BY FingerprintAssumption DEF Token, Worded, Replaced
  <2>2. \A kind \in Separators \cup (Kinds \cap {"request", "label"}) : Mark(kind).kind # "frame"
    BY DEF Mark, Token, Separators
  <2>3. Bar.kind # "frame"
    BY DEF Bar, Mark, Token
  <2> QED
    BY <2>1, <2>2, <2>3 DEF Tokens
<1>2. ASSUME NEW n \in Nat, NEW s \in Texts(n)
      PROVE  FramesHaveNumbers(s)
  <2>1. PICK m \in 0..n : s \in [1..m -> Tokens]
    BY Zenon DEF Texts
  <2>2. DOMAIN s = 1..m /\ m \in Nat /\ Len(s) = m
    BY <2>1
  <2>3. \A i \in 1..m : s[i].kind # "frame"
    BY <1>1, <2>1
  <2> QED
    BY <2>2, <2>3 DEF FramesHaveNumbers, Kind
<1>3. ASSUME NEW number, number.kind \in Numbers
      PROVE  /\ FramesHaveNumbers(<<Mark("frame"), number>>)
             /\ FramesHaveNumbers(<<Mark("frame"), number, Mark("location")>>)
  <2>1. number.kind # "frame" /\ Mark("location").kind # "frame"
    BY <1>3 DEF Numbers, Mark, Token
  <2>2. FramesHaveNumbers(<<Mark("frame"), number>>)
    <3>. DEFINE x == Mark("frame")
                s == <<x, number>>
    <3>1. Len(s) = 2 /\ DOMAIN s = 1..2 /\ s[1] = x /\ s[2] = number
      OBVIOUS
    <3>. HIDE DEF s
    <3>2. ASSUME NEW i \in 1..2, Kind(s, i) = "frame"
          PROVE  Kind(s, i + 1) \in Numbers
      <4>1. Kind(s, 1 + 1) = number.kind /\ Kind(s, 2) = number.kind
        BY <3>1 DEF Kind
      <4>2. i = 1
        BY <2>1, <3>2, <4>1
      <4> QED
        BY <1>3, <4>1, <4>2
    <3>3. FramesHaveNumbers(s)
      BY <3>1, <3>2 DEF FramesHaveNumbers
    <3> QED
      BY <3>3 DEF s
  <2>3. FramesHaveNumbers(<<Mark("frame"), number, Mark("location")>>)
    <3>. DEFINE x == Mark("frame")
                y == Mark("location")
                s == <<x, number, y>>
    <3>1. Len(s) = 3 /\ DOMAIN s = 1..3 /\ s[1] = x /\ s[2] = number /\ s[3] = y
      OBVIOUS
    <3>. HIDE DEF s
    <3>2. ASSUME NEW i \in 1..3, Kind(s, i) = "frame"
          PROVE  Kind(s, i + 1) \in Numbers
      <4>1. Kind(s, 1 + 1) = number.kind /\ Kind(s, 2) = number.kind /\ Kind(s, 3) = y.kind
        BY <3>1 DEF Kind
      <4>2. i = 1
        BY <2>1, <3>2, <4>1
      <4> QED
        BY <1>3, <4>1, <4>2
    <3>3. FramesHaveNumbers(s)
      BY <3>1, <3>2 DEF FramesHaveNumbers
    <3> QED
      BY <3>3 DEF s
  <2> QED
    BY <2>2, <2>3
<1>4. ASSUME NEW s \in Lines
      PROVE  FramesHaveNumbers(s)
  <2>. DEFINE numbers == {Token(k, v) : k \in Numbers \cap Kinds, v \in {"a", "b"}}
  <2>1. \A number \in numbers : number.kind \in Numbers
    BY DEF Token
  <2>2. Lines = Texts(MaxLine)
                  \cup {<<Mark("frame"), number>> : number \in numbers}
                  \cup {<<Mark("frame"), number, Mark("location")>> : number \in numbers}
    BY DEF Lines
  <2>. HIDE DEF numbers
  <2>3. \/ s \in Texts(MaxLine)
        \/ \E number \in numbers : s = <<Mark("frame"), number>>
        \/ \E number \in numbers : s = <<Mark("frame"), number, Mark("location")>>
    BY <2>2
  <2> QED
    BY <1>2, <1>3, <2>1, <2>3, FingerprintAssumption
<1> QED
  BY <1>2, <1>4, FingerprintAssumption

TraceInv ==
  /\ FramesHaveNumbers(source)
  /\ Traced(source, isLine, text, pass)

\* A source comes from itself.
LEMMA SourceTraced ==
  ASSUME NEW s \in Seq(WorkTokens), NEW line
  PROVE  Traced(s, line, s, 0)
<1>. DEFINE n == Len(s)
            g == [k \in 1..n |-> k]
<1>1. n \in Nat
  OBVIOUS
<1>2. g \in [1..n -> 0..n] /\ \A k \in 1..n : g[k] = k
  BY <1>1
<1>. HIDE DEF g, n
<1>3. Tracks(s, line, s, g)
  <2>1. \A k \in 1..n : g[k] # 0 /\ s[k] = s[g[k]]
    BY <1>1, <1>2
  <2>2. \A k, l \in 1..n : k < l => g[k] < g[l]
    BY <1>2
  <2>3. \A i \in 1..n : \E k \in 1..n : g[k] = i
    BY <1>2
  <2> QED
    BY <1>2, <2>1, <2>2, <2>3 DEF Tracks, n
<1>4. Tight(s, g)
  <2>1. \A k \in 1..n - 1 : k \in 1..n /\ k + 1 \in 1..n /\ k > 0
    BY <1>1
  <2>2. \A k \in 1..n - 1 : g[k] > 0 /\ g[k + 1] = g[k] + 1
    BY <1>2, <2>1
  <2> QED
    BY <2>2 DEF Tight, n
<1>5. Loose(s, g)
  BY <1>3, <1>4, TightIsLoose
<1> QED
  BY <1>3, <1>4, <1>5 DEF Traced

\* What is traced has kept its words.
LEMMA TracedSurvive ==
  ASSUME TypeInv, Traced(source, isLine, text, pass)
  PROVE  WordsSurvive
<1>1. source \in Seq(WorkTokens) /\ text \in Seq(WorkTokens)
  BY SourcesAreTexts DEF TypeInv
<1>2. PICK g : Tracks(source, isLine, text, g)
  BY DEF Traced
<1>. DEFINE f == [i \in WordsOf(text) |-> g[i]]
            n == Len(text)
            N == Len(source)
<1>3. DOMAIN text = 1..n /\ DOMAIN source = 1..N /\ n \in Nat /\ N \in Nat
  BY <1>1
<1>4. /\ \A i \in WordsOf(text) : i \in 1..n /\ Kind(text, i) \in {"word", "small"}
      /\ \A i \in 1..N : Kind(source, i) \in {"word", "small"} => i \in WordsOf(source)
      /\ \A i \in WordsOf(source) : i \in 1..N /\ Kind(source, i) \in {"word", "small"}
      /\ \A i \in 1..n : Kind(text, i) \in {"word", "small"} => i \in WordsOf(text)
  <2>. HIDE DEF n, N
  <2>1. WordsOf(text) = {i \in 1..n : Kind(text, i) \in {"word", "small"}}
    BY <1>3 DEF WordsOf
  <2>2. WordsOf(source) = {i \in 1..N : Kind(source, i) \in {"word", "small"}}
    BY <1>3 DEF WordsOf
  <2> QED
    BY <2>1, <2>2
<1>5. ASSUME NEW i \in 1..n, Kind(text, i) \in {"word", "small"}
      PROVE  /\ g[i] > 0 /\ g[i] \in 1..N /\ Kind(source, g[i]) = Kind(text, i)
             /\ source[g[i]] = text[i]
  <2>1. i \in 1..Len(text)
    OBVIOUS
  <2>. HIDE DEF f, n, N
  <2>2. /\ g[i] > 0 => g[i] \in 1..Len(source) /\ Kind(source, g[i]) = Kind(text, i)
                        /\ source[g[i]] = text[i]
        /\ Kind(text, i) \in {"word", "small"} => g[i] > 0
    BY <1>1, <1>2, <2>1, SourceKind
  <2>3. Kind(text, i) \in {"word", "small"}
    BY <1>5
  <2> QED
    BY <2>2, <2>3 DEF N
<1>6. \A i \in WordsOf(text) : f[i] = g[i]
  OBVIOUS
<1>7. f \in [WordsOf(text) -> WordsOf(source)]
  <2>1. \A i \in WordsOf(text) : g[i] \in WordsOf(source)
    BY <1>4, <1>5
  <2> QED
    BY <2>1
<1>. HIDE DEF f, n, N
<1>8. \A i, j \in WordsOf(text) : i < j => f[i] < f[j]
  <2>. SUFFICES ASSUME NEW i \in WordsOf(text), NEW j \in WordsOf(text), i < j
                PROVE  f[i] < f[j]
    OBVIOUS
  <2>1. i \in 1..n /\ j \in 1..n /\ g[i] > 0 /\ g[j] > 0
    BY <1>4, <1>5
  <2>2. g[i] < g[j]
    BY <1>2, <2>1 DEF Tracks, n
  <2> QED
    BY <1>6, <2>2
<1>9. \A i \in WordsOf(text) : text[i] = source[f[i]]
  BY <1>4, <1>5, <1>6
<1>10. ASSUME NEW i \in WordsOf(source),
              ~ MayBeRequestId(source, i), ~ Labelled(source, isLine, i)
       PROVE  \E j \in WordsOf(text) : f[j] = i
  <2>1. i \in 1..N /\ Kind(source, i) \in {"word", "small"}
    BY <1>4
  <2>2. Owed(source, isLine, i)
    BY <1>10, <2>1 DEF Owed
  <2>3. PICK k \in 1..n : g[k] = i
    BY <1>2, <2>1, <2>2 DEF Tracks, n, N
  <2>4. Kind(source, g[k]) = Kind(text, k)
    <3>1. k \in 1..Len(text) /\ g[k] > 0
      BY <1>3, <2>1, <2>3 DEF n
    <3> QED
      BY <1>1, <1>2, <3>1, SourceKind
  <2>5. k \in WordsOf(text)
    BY <1>4, <2>1, <2>3, <2>4
  <2> QED
    BY <1>6, <2>3, <2>5
<1> QED
  BY <1>7, <1>8, <1>9, <1>10 DEF WordsSurvive

\* Errors that differ in a word are not merged, whatever their messages are.
THEOREM WordsAreKept == Spec => []WordsSurvive
<1>1. Init => TraceInv
  <2>. SUFFICES ASSUME Init
                PROVE  TraceInv
    OBVIOUS
  <2>1. source \in Seq(WorkTokens)
    BY InputsType, SourcesAreTexts DEF Init
  <2>2. FramesHaveNumbers(source)
    BY InputsHaveNumbers DEF Init
  <2>3. text = source /\ pass = 0
    BY DEF Init
  <2>4. Traced(source, isLine, source, 0)
    BY <2>1, SourceTraced
  <2> QED
    BY <2>2, <2>3, <2>4 DEF TraceInv
<1>2. TypeInv /\ TraceInv /\ [Next]_vars => TraceInv'
  <2>. SUFFICES ASSUME TypeInv, TraceInv, [Next]_vars
                PROVE  TraceInv'
    OBVIOUS
  <2>1. CASE Step
    <3>. DEFINE n == Len(Substitutions(isLine))
    <3>1. source \in Seq(WorkTokens) /\ text \in Seq(WorkTokens) /\ isLine \in BOOLEAN
      BY SourcesAreTexts DEF TypeInv
    <3>2. pass \in 0..n - 1
      <4>1. n \in Nat /\ pass \in 0..n /\ pass < n
        BY <2>1, SubstitutionsAre DEF Step, TypeInv
      <4>. HIDE DEF n
      <4> QED
        BY <4>1
    <3>3. Traced(source, isLine, Apply(Substitutions(isLine)[pass + 1], text), pass + 1)
      BY <3>1, <3>2, ApplyTraced DEF TraceInv
    <3>4. /\ source' = source /\ isLine' = isLine /\ pass' = pass + 1
          /\ text' = Apply(Substitutions(isLine)[pass + 1], text)
      BY <2>1 DEF Step
    <3>5. Traced(source, isLine, text, pass)'
      BY <3>3, <3>4
    <3> QED
      BY <3>4, <3>5 DEF TraceInv
  <2>2. CASE UNCHANGED vars
    BY <2>2 DEF vars, TraceInv
  <2> QED
    BY <2>1, <2>2 DEF Next
<1>3. TypeInv /\ TraceInv => WordsSurvive
  BY TracedSurvive DEF TraceInv
<1> QED
  BY <1>1, <1>2, <1>3, TypesStay, PTL DEF Spec

-----------------------------------------------------------------------------
(* Texts that differ in the length of their gaps *)

TwoSpaces(t, i) == Kind(t, i) = " " /\ Kind(t, i + 1) = " "

\* c gives the position in u of each token of t: u is t with one space for each
\* gap, up to values.
Aligned(t, u, c) ==
  /\ c \in [1..Len(t) + 1 -> 1..Len(u) + 1]
  /\ c[1] = 1 /\ c[Len(t) + 1] = Len(u) + 1
  /\ \A i \in 1..Len(t) :
       /\ Kind(u, c[i]) = Kind(t, i)
       /\ c[i + 1] = IF TwoSpaces(t, i) THEN c[i] ELSE c[i] + 1

\* The positions are in order, none is left out, and those that are given to
\* several tokens are spaces.
Ordered(t, u, c) ==
  /\ \A i \in 1..Len(t) + 1 : c[i] \in 1..Len(u) + 1 /\ Kind(u, c[i]) = Kind(t, i)
  /\ \A i \in 1..Len(t) : c[i] \in 1..Len(u)
  /\ \A i, j \in 1..Len(t) + 1 : i <= j => c[i] <= c[j]
  /\ \A l \in 1..Len(u) + 1 : \E i \in 1..Len(t) + 1 : c[i] = l
  /\ \A i, j \in 1..Len(t) + 1 : i < j /\ Kind(t, i) # " " => c[i] < c[j]

\* An alignment keeps the order.
LEMMA AlignedOrder ==
  ASSUME NEW t \in Seq(WorkTokens), NEW u \in Seq(WorkTokens), NEW c, Aligned(t, u, c)
  PROVE  Ordered(t, u, c)
<1>. DEFINE n == Len(t)
            m == Len(u)
<1>1. n \in Nat /\ m \in Nat
  OBVIOUS
<1>2. Kind(t, n + 1) = "end" /\ Kind(u, m + 1) = "end"
  BY <1>1, KindIs
<1>3. /\ c \in [1..n + 1 -> 1..m + 1] /\ c[1] = 1 /\ c[n + 1] = m + 1
      /\ \A i \in 1..n : Kind(u, c[i]) = Kind(t, i)
      /\ \A i \in 1..n : c[i + 1] = IF TwoSpaces(t, i) THEN c[i] ELSE c[i] + 1
  BY DEF Aligned
<1>4. \A i \in 1..n : Kind(t, i) # "end"
  BY KindIs, KindsAre
<1>. HIDE DEF n, m
<1>5. \A i \in 1..n + 1 : c[i] \in 1..m + 1 /\ Kind(u, c[i]) = Kind(t, i)
  <2>. TAKE i \in 1..n + 1
  <2>1. c[i] \in 1..m + 1
    BY <1>3
  <2>2. i = n + 1 \/ i \in 1..n
    BY <1>1
  <2> QED
    BY <1>2, <1>3, <2>1, <2>2
<1>6. \A i \in 1..n : c[i] \in 1..m
  <2>. TAKE i \in 1..n
  <2>1. c[i] \in 1..m + 1 /\ c[i] # m + 1
    BY <1>4, <1>1, <1>2, <1>3, <1>5
  <2> QED
    BY <1>1, <2>1
<1>7. ASSUME NEW i \in 1..n + 1, NEW j \in 1..n + 1, i <= j
      PROVE  c[i] <= c[j]
  <2>. DEFINE T == {k \in 1..n + 1 : i <= k => c[i] <= c[k]}
  <2>1. 1 \in T
    BY <1>1, <1>5
  <2>2. ASSUME NEW k \in 1..(n + 1) - 1, k \in T
        PROVE  k + 1 \in T
    <3>1. k \in 1..n /\ k + 1 \in 1..n + 1 /\ k \in 1..n + 1
      BY <1>1
    <3>2. c[i] \in Nat /\ c[k] \in Nat /\ c[k + 1] \in {c[k], c[k] + 1}
      BY <1>3, <1>5, <3>1
    <3>3. i <= k => c[i] <= c[k]
      BY <2>2
    <3>4. i <= k + 1 => i <= k \/ i = k + 1
      BY <3>1
    <3>5. i <= k + 1 => c[i] <= c[k + 1]
      BY <3>2, <3>3, <3>4
    <3> QED
      BY <3>1, <3>5
  <2>3. \A k \in 1..n + 1 : k \in T
    <3>. HIDE DEF T
    <3>1. n + 1 \in Nat
      BY <1>1
    <3> QED
      BY <2>1, <2>2, <3>1, FromTheBeginning
  <2> QED
    BY <1>7, <2>3
<1>8. \A l \in 1..m + 1 : \E i \in 1..n + 1 : c[i] = l
  <2>. DEFINE T == {l \in 1..m + 1 : \E i \in 1..n + 1 : c[i] = l}
  <2>1. 1 \in T
    <3>1. 1 \in 1..n + 1 /\ 1 \in 1..m + 1
      BY <1>1
    <3> QED
      BY <1>3, <3>1
  <2>2. ASSUME NEW l \in 1..(m + 1) - 1, l \in T
        PROVE  l + 1 \in T
    <3>. DEFINE I == {i \in 1..n + 1 : c[i] = l}
    <3>1. PICK i \in I : \A j \in I : j <= i
      <4>1. I \in SUBSET Nat /\ I # {} /\ n + 1 \in Nat /\ \A j \in I : j <= n + 1
        BY <1>1, <2>2
      <4>. HIDE DEF I
      <4> QED
        BY <4>1, MaxIsGreatest
    <3>2. i \in 1..n + 1 /\ c[i] = l /\ l + 1 \in 1..m + 1 /\ l # m + 1 /\ l \in Nat
      BY <1>1
    <3>3. i \in 1..n /\ i + 1 \in 1..n + 1
      <4>1. i # n + 1
        BY <1>3, <3>2
      <4>2. i \in 1..n + 1
        BY <3>2
      <4>. HIDE DEF I
      <4> QED
        BY <1>1, <4>1, <4>2
    <3>4. c[i + 1] # l
      BY <3>1, <3>3
    <3>5. c[i + 1] = l + 1
      BY <1>3, <3>2, <3>3, <3>4
    <3> QED
      BY <3>2, <3>3, <3>5
  <2>3. \A l \in 1..m + 1 : l \in T
    <3>. HIDE DEF T
    <3>1. m + 1 \in Nat
      BY <1>1
    <3> QED
      BY <2>1, <2>2, <3>1, FromTheBeginning
  <2> QED
    BY <2>3
<1>9. ASSUME NEW i \in 1..n + 1, NEW j \in 1..n + 1, i < j, Kind(t, i) # " "
      PROVE  c[i] < c[j]
  <2>1. i < j
    BY <1>9
  <2>2. i \in 1..n /\ i + 1 \in 1..n + 1 /\ i + 1 <= j
    BY <1>1, <2>1
  <2>3. c[i + 1] = c[i] + 1
    BY <1>3, <1>9, <2>2 DEF TwoSpaces
  <2>4. c[i + 1] <= c[j]
    BY <1>7, <2>2
  <2>5. c[i] \in Nat /\ c[j] \in Nat
    BY <1>5
  <2> QED
    BY <2>3, <2>4, <2>5
<1> QED
  BY <1>5, <1>6, <1>7, <1>8, <1>9 DEF Ordered, n, m

\* A run ends at the same token.
LEMMA AlignedRunEnd ==
  ASSUME NEW t \in Seq(WorkTokens), NEW u \in Seq(WorkTokens), NEW c, Aligned(t, u, c),
         NEW i \in 1..Len(t) + 1, NEW kinds, "end" \notin kinds
  PROVE  RunEnd(u, c[i], kinds) = c[RunEnd(t, i, kinds)]
<1>. DEFINE n == Len(t)
            m == Len(u)
            e == RunEnd(t, i, kinds)
            b == c[i]
            f == c[e]
<1>1. n \in Nat /\ m \in Nat
  OBVIOUS
<1>2. e \in i..n + 1 /\ Kind(t, e) \notin kinds /\ \A j \in i..e - 1 : Kind(t, j) \in kinds
  BY RunEnds
<1>3. /\ \A k \in 1..n + 1 : c[k] \in 1..m + 1 /\ Kind(u, c[k]) = Kind(t, k)
      /\ \A k, j \in 1..n + 1 : k <= j => c[k] <= c[j]
      /\ \A l \in 1..m + 1 : \E k \in 1..n + 1 : c[k] = l
  <2>1. Ordered(t, u, c)
    BY AlignedOrder
  <2>. HIDE DEF e, b, f
  <2> QED
    BY <2>1 DEF Ordered
<1>. HIDE DEF n, m, e
<1>4. i \in 1..n + 1 /\ e \in 1..n + 1 /\ i <= e
  BY <1>1, <1>2 DEF n
<1>5. b \in 1..m + 1 /\ f \in 1..m + 1 /\ b <= f /\ Kind(u, f) \notin kinds
  BY <1>2, <1>3, <1>4
<1>6. ASSUME NEW l \in b..f - 1
      PROVE  Kind(u, l) \in kinds
  <2>1. l \in 1..m + 1 /\ l < f /\ b <= l
    BY <1>1, <1>5
  <2>2. PICK q \in 1..n + 1 : c[q] = l
    BY <1>3, <2>1
  <2>3. q < e
    <3>1. ~ (e <= q)
      BY <1>3, <1>4, <1>5, <2>1, <2>2
    <3> QED
      BY <1>4, <3>1
  <2>4. CASE i <= q
    <3>1. q \in i..e - 1
      BY <1>4, <2>3, <2>4
    <3> QED
      BY <1>2, <1>3, <2>2, <3>1
  <2>5. CASE ~ (i <= q)
    <3>1. q <= i
      BY <1>4, <2>5
    <3>2. l <= b
      BY <1>3, <1>4, <2>2, <3>1
    <3>3. l = b
      BY <1>5, <2>1, <3>2
    <3>4. i \in i..e - 1
      <4>1. i # e
        BY <1>5, <2>1, <3>3
      <4> QED
        BY <1>4, <4>1
    <3> QED
      BY <1>2, <1>3, <1>4, <3>3, <3>4
  <2> QED
    BY <2>4, <2>5
<1>7. b \in 1..Len(u) + 1 /\ f \in b..Len(u) + 1
  BY <1>1, <1>5 DEF m
<1>. HIDE DEF b, f
<1>8. RunEnd(u, b, kinds) = f
  BY <1>5, <1>6, <1>7, RunEndIs
<1> QED
  BY <1>8 DEF b, f, e

\* The matches of two aligned texts correspond.
Follows(t, c, ends, size, ends2, size2) ==
  \A i \in 1..Len(t) :
    /\ Matched(ends, i) <=> Matched(ends2, c[i])
    /\ Matched(ends, i) => /\ Kind(t, i) # " " /\ ends2[c[i]] = c[ends[i]]
                           /\ size2[c[i]] = size[i]

\* A place of the one text in the other.
Moved(c, x) == Place(c[x.at], x.part)

OneStep(t, c, w, w2, k, l) ==
  IF w[k].part = 0 /\ TwoSpaces(t, w[k].at)
  THEN k < Len(w) /\ w2[l] = Moved(c, w[k + 1])
  ELSE IF k = Len(w) THEN l = Len(w2)
  ELSE l < Len(w2) /\ w2[l + 1] = Moved(c, w[k + 1])

\* From places that correspond the two walks go on to places that do.
LEMMA WalksStep ==
  ASSUME NEW t \in Seq(WorkTokens), NEW u \in Seq(WorkTokens), NEW c, Aligned(t, u, c),
         NEW ends, NEW size, Sized(Len(t), ends, size),
         NEW w, IsWalk(w, 1, Len(t), ends, size),
         NEW ends2, NEW size2, Sized(Len(u), ends2, size2),
         NEW w2, IsWalk(w2, 1, Len(u), ends2, size2),
         Follows(t, c, ends, size, ends2, size2),
         NEW k \in 1..Len(w), NEW l \in 1..Len(w2), w2[l] = Moved(c, w[k])
  PROVE  OneStep(t, c, w, w2, k, l)
<1>. DEFINE n == Len(t)
            m == Len(u)
            a == w[k].at
            p == w[k].part
            b == Beyond(ends, a)
<1>1. n \in Nat /\ m \in Nat
  OBVIOUS
<1>2. /\ a \in 1..n /\ p \in Nat
      /\ Matched(ends, a) => p \in 1..size[a]
      /\ ~ Matched(ends, a) => p = 0
  BY <1>1, WalkSteps
<1>3. w2[l].at = c[a] /\ w2[l].part = p
  BY DEF Moved, Place
<1>4. /\ IF ~ IsLast(size, w[k])
         THEN k < Len(w) /\ w[k + 1] = Place(a, p + 1)
         ELSE IF b > n THEN k = Len(w)
         ELSE k < Len(w) /\ w[k + 1] = First(ends, b)
      /\ IF ~ IsLast(size2, w2[l])
         THEN l < Len(w2) /\ w2[l + 1] = Place(w2[l].at, w2[l].part + 1)
         ELSE IF Beyond(ends2, w2[l].at) > m THEN l = Len(w2)
         ELSE l < Len(w2) /\ w2[l + 1] = First(ends2, Beyond(ends2, w2[l].at))
  BY DEF IsWalk, StepsRight
<1>5. IsLast(size, w[k]) <=> p = 0 \/ p = size[a]
  BY DEF IsLast
<1>6. IsLast(size2, w2[l]) <=> p = 0 \/ p = size2[c[a]]
  BY <1>3 DEF IsLast
<1>7. Ordered(t, u, c)
  BY AlignedOrder
<1>8. /\ \A i \in 1..n + 1 : c[i] \in 1..m + 1
      /\ \A i \in 1..n : c[i] \in 1..m
      /\ c[n + 1] = m + 1
      /\ \A i \in 1..n : c[i + 1] = IF TwoSpaces(t, i) THEN c[i] ELSE c[i] + 1
  BY <1>7, Zenon DEF Ordered, Aligned
<1>9. \A i \in 1..n : /\ Matched(ends, i) <=> Matched(ends2, c[i])
                      /\ Matched(ends, i) => /\ Kind(t, i) # " " /\ ends2[c[i]] = c[ends[i]]
                                             /\ size2[c[i]] = size[i]
  BY DEF Follows
<1>10. \A i \in 1..n : ends[i] \in 1..n + 1 /\ (Matched(ends, i) => size[i] \in Nat \ {0})
  BY DEF Sized
<1>11. \A x, y : Place(x, y).at = x /\ Place(x, y).part = y
  BY DEF Place
<1>. HIDE DEF n, m, a, p, b
<1>12. ASSUME NEW i \in 1..n
       PROVE  Moved(c, First(ends, i)) = First(ends2, c[i])
  <2>1. Matched(ends, i) <=> Matched(ends2, c[i])
    BY <1>9
  <2> QED
    BY <1>11, <2>1, Zenon DEF Moved, First
<1>13. CASE ~ (p = 0 \/ p = size[a])
  <2>1. Matched(ends, a)
    BY <1>2, <1>13
  <2>2. size2[c[a]] = size[a]
    BY <1>2, <1>9, <2>1
  <2>3. ~ IsLast(size, w[k]) /\ ~ IsLast(size2, w2[l])
    BY <1>5, <1>6, <1>13, <2>2
  <2>4. k < Len(w) /\ w[k + 1] = Place(a, p + 1) /\ l < Len(w2) /\ w2[l + 1] = Place(c[a], p + 1)
    BY <1>3, <1>4, <2>3
  <2>5. w2[l + 1] = Moved(c, w[k + 1])
    BY <1>11, <2>4 DEF Moved
  <2>6. p # 0 /\ k # Len(w)
    BY <1>13, <2>4
  <2> QED
    BY <2>4, <2>5, <2>6 DEF OneStep, p
<1>14. CASE p # 0 /\ p = size[a]
  <2>1. Matched(ends, a)
    BY <1>2, <1>14
  <2>2. size2[c[a]] = size[a] /\ Matched(ends2, c[a]) /\ ends2[c[a]] = c[ends[a]]
    BY <1>2, <1>9, <2>1
  <2>3. IsLast(size, w[k]) /\ IsLast(size2, w2[l])
    BY <1>5, <1>6, <1>14, <2>2
  <2>4. b = ends[a] /\ Beyond(ends2, c[a]) = c[b] /\ b \in 1..n + 1
    BY <1>2, <1>10, <2>1, <2>2 DEF b, Beyond
  <2>5. CASE b > n
    <3>1. b = n + 1 /\ c[b] > m
      BY <1>1, <1>8, <2>4, <2>5
    <3> QED
      BY <1>3, <1>4, <1>14, <2>3, <2>4, <2>5, <3>1 DEF OneStep, p
  <2>6. CASE ~ (b > n)
    <3>1. b \in 1..n /\ ~ (c[b] > m)
      <4>1. b \in 1..n
        BY <1>1, <2>4, <2>6
      <4>2. c[b] \in 1..m
        BY <1>8, <4>1
      <4> QED
        BY <1>1, <4>1, <4>2
    <3>2. k < Len(w) /\ w[k + 1] = First(ends, b) /\ l < Len(w2) /\ w2[l + 1] = First(ends2, c[b])
      BY <1>3, <1>4, <2>3, <2>4, <2>6, <3>1
    <3>3. w2[l + 1] = Moved(c, w[k + 1])
      BY <1>12, <3>1, <3>2
    <3>4. k # Len(w)
      BY <3>2
    <3> QED
      BY <1>14, <3>2, <3>3, <3>4 DEF OneStep, p
  <2> QED
    BY <2>5, <2>6
<1>15. CASE p = 0
  <2>1. ~ Matched(ends, a) /\ ~ Matched(ends2, c[a])
    <3>1. Matched(ends, a) => p \in 1..size[a] /\ size[a] \in Nat
      BY <1>2, <1>10
    <3>2. ~ Matched(ends, a)
      BY <1>15, <3>1
    <3> QED
      BY <1>2, <1>9, <3>2
  <2>2. IsLast(size, w[k]) /\ IsLast(size2, w2[l])
    BY <1>5, <1>6, <1>15
  <2>3. b = a + 1 /\ Beyond(ends2, c[a]) = c[a] + 1
    BY <2>1 DEF b, Beyond
  <2>4. CASE TwoSpaces(t, a)
    <3>1. a + 1 \in 1..n /\ Kind(t, a + 1) = " "
      <4>1. Kind(t, a + 1) = " "
        BY <2>4 DEF TwoSpaces
      <4>2. a + 1 \in Nat
        BY <1>2
      <4>3. Kind(t, a + 1) # "end"
        BY <4>1
      <4> QED
        BY <4>1, <4>2, <4>3, KindIs DEF n
    <3>2. ~ Matched(ends, a + 1) /\ c[a + 1] = c[a]
      <4>1. ~ Matched(ends, a + 1)
        BY <1>9, <3>1
      <4>2. c[a + 1] = c[a]
        BY <1>2, <1>8, <2>4
      <4> QED
        BY <4>1, <4>2
    <3>3. ~ (b > n)
      <4>1. b = a + 1 /\ a + 1 \in 1..n
        BY <2>3, <3>1
      <4> QED
        BY <1>1, <1>2, <4>1
    <3>4. k < Len(w) /\ w[k + 1] = First(ends, a + 1)
      BY <1>4, <2>2, <2>3, <3>3
    <3>5. w[k + 1] = Place(a + 1, 0)
      BY <3>2, <3>4 DEF First
    <3>6. w2[l] = Moved(c, w[k + 1])
      <4>1. w2[l] = Place(c[a], 0)
        BY <1>15 DEF Moved, a, p
      <4>2. Moved(c, w[k + 1]) = Place(c[a + 1], 0)
        BY <1>11, <3>5 DEF Moved
      <4> QED
        BY <3>2, <4>1, <4>2
    <3> QED
      BY <1>15, <2>4, <3>4, <3>6 DEF OneStep, p, a
  <2>5. CASE ~ TwoSpaces(t, a)
    <3>1. c[a + 1] = c[a] + 1
      BY <1>2, <1>8, <2>5
    <3>2. CASE b > n
      <4>1. a = n /\ c[a] + 1 > m
        BY <1>1, <1>2, <1>8, <2>3, <3>1, <3>2
      <4>2. k = Len(w) /\ l = Len(w2)
        BY <1>3, <1>4, <2>2, <2>3, <3>2, <4>1
      <4> QED
        BY <2>5, <4>2 DEF OneStep, a
    <3>3. CASE ~ (b > n)
      <4>1. b \in 1..n /\ c[b] = c[a] + 1 /\ ~ (c[b] > m)
        BY <1>1, <1>2, <1>8, <2>3, <3>1, <3>3
      <4>2. /\ k < Len(w) /\ w[k + 1] = First(ends, b)
            /\ l < Len(w2) /\ w2[l + 1] = First(ends2, c[b])
        BY <1>3, <1>4, <2>2, <2>3, <3>3, <4>1
      <4>3. w2[l + 1] = Moved(c, w[k + 1])
        BY <1>12, <4>1, <4>2
      <4>4. k # Len(w)
        BY <4>2
      <4> QED
        BY <2>5, <4>2, <4>3, <4>4 DEF OneStep, a
    <3> QED
      BY <3>2, <3>3
  <2> QED
    BY <2>4, <2>5
<1> QED
  BY <1>13, <1>14, <1>15

\* d gives the place in the walk w2 of each place in w.
Along(t, c, w, w2, d) ==
  /\ d \in [1..Len(w) + 1 -> 1..Len(w2) + 1]
  /\ d[1] = 1 /\ d[Len(w) + 1] = Len(w2) + 1
  /\ \A k \in 1..Len(w) :
       /\ d[k] \in 1..Len(w2) /\ w2[d[k]] = Moved(c, w[k])
       /\ d[k + 1] = IF w[k].part = 0 /\ TwoSpaces(t, w[k].at) THEN d[k] ELSE d[k] + 1

\* The two walks go along.
LEMMA WalksGoAlong ==
  ASSUME NEW t \in Seq(WorkTokens), NEW u \in Seq(WorkTokens), NEW c, Aligned(t, u, c),
         NEW ends, NEW size, Sized(Len(t), ends, size),
         NEW w, IsWalk(w, 1, Len(t), ends, size),
         NEW ends2, NEW size2, Sized(Len(u), ends2, size2),
         NEW w2, IsWalk(w2, 1, Len(u), ends2, size2),
         Follows(t, c, ends, size, ends2, size2)
  PROVE  \E d : Along(t, c, w, w2, d)
<1>. DEFINE n == Len(t)
            m == Len(u)
            N == Len(w)
            M == Len(w2)
            T == {k \in 1..N : \E l \in 1..M : w2[l] = Moved(c, w[k])}
            near(k) == CHOOSE l \in 1..M : w2[l] = Moved(c, w[k])
            d == [k \in 1..N + 1 |-> IF k = N + 1 THEN M + 1 ELSE near(k)]
<1>1. n \in Nat /\ m \in Nat
  OBVIOUS
<1>2. N \in Nat /\ M \in Nat
  BY DEF IsWalk
<1>3. /\ IF 1 > n THEN w = <<>> ELSE N > 0 /\ w[1] = First(ends, 1)
      /\ IF 1 > m THEN w2 = <<>> ELSE M > 0 /\ w2[1] = First(ends2, 1)
  BY DEF IsWalk
<1>4. /\ c[1] = 1 /\ c[n + 1] = m + 1
      /\ \A i \in 1..n : c[i] \in 1..m
  <2>1. Ordered(t, u, c)
    BY AlignedOrder
  <2> QED
    BY <2>1 DEF Ordered, Aligned
<1>5. ASSUME NEW k \in 1..N, NEW l \in 1..M, w2[l] = Moved(c, w[k])
      PROVE  OneStep(t, c, w, w2, k, l)
  BY <1>5, WalksStep
<1>6. ASSUME NEW j \in 1..M, NEW l \in 1..M, w2[j] = w2[l]
      PROVE  j = l
  <2>1. \A x, y \in 1..M : x < y => \/ w2[y].at = w2[x].at /\ w2[y].part > w2[x].part
                                   \/ w2[y].at > w2[x].at
    BY <1>1, WalkSteps
  <2>2. \A x \in 1..M : w2[x].at \in Nat /\ w2[x].part \in Nat
    <3>1. \A x \in 1..M : w2[x] \in Places
      BY DEF IsWalk
    <3> QED
      BY <3>1 DEF Places
  <2>3. ~ (j < l) /\ ~ (l < j)
    BY <1>6, <2>1, <2>2
  <2> QED
    BY <1>2, <2>3
<1>7. N > 0 => M > 0 /\ w2[1] = Moved(c, w[1])
  <2>. SUFFICES ASSUME N > 0
                PROVE  M > 0 /\ w2[1] = Moved(c, w[1])
    OBVIOUS
  <2>1. n >= 1
    BY <1>1, <1>3
  <2>2. 1 \in 1..n /\ 1 \in 1..m
    BY <1>1, <1>4, <2>1
  <2>3. w[1] = First(ends, 1) /\ M > 0 /\ w2[1] = First(ends2, 1)
    BY <1>1, <1>3, <2>2
  <2>4. Matched(ends, 1) <=> Matched(ends2, 1)
    BY <1>4, <2>2 DEF Follows
  <2>5. \A x, y : Place(x, y).at = x /\ Place(x, y).part = y
    BY DEF Place
  <2>6. Moved(c, First(ends, 1)) = First(ends2, 1)
    <3>1. c[1] = 1
      BY <1>4
    <3> QED
      BY <2>4, <2>5, <3>1, Zenon DEF First, Moved
  <2> QED
    BY <2>3, <2>6
<1>8. N = 0 => M = 0
  <2>. SUFFICES ASSUME N = 0
                PROVE  M = 0
    OBVIOUS
  <2>1. n = 0
    BY <1>1, <1>3
  <2>2. m = 0
    BY <1>1, <1>4, <2>1
  <2> QED
    BY <1>3, <2>2
<1>. HIDE DEF n, m, N, M
<1>9. \A k \in 1..N : k \in T
  <2>1. CASE N = 0
    BY <2>1
  <2>2. CASE N # 0
    <3>1. 1 \in T
      BY <1>2, <1>7, <2>2
    <3>2. ASSUME NEW k \in 1..N - 1, k \in T
          PROVE  k + 1 \in T
      <4>1. k \in 1..N /\ k + 1 \in 1..N /\ k # N
        BY <1>2
      <4>2. PICK l \in 1..M : w2[l] = Moved(c, w[k])
        BY <3>2
      <4>3. OneStep(t, c, w, w2, k, l)
        BY <1>5, <4>1, <4>2
      <4>4. \/ w2[l] = Moved(c, w[k + 1])
            \/ l < M /\ w2[l + 1] = Moved(c, w[k + 1])
        BY <4>1, <4>3 DEF OneStep, N, M
      <4>5. l < M => l + 1 \in 1..M
        BY <1>2
      <4> QED
        BY <4>1, <4>4, <4>5
    <3> QED
      <4>. HIDE DEF T
      <4> QED
        BY <1>2, <3>1, <3>2, FromTheBeginning
  <2> QED
    BY <2>1, <2>2
<1>10. ASSUME NEW k \in 1..N
       PROVE  near(k) \in 1..M /\ w2[near(k)] = Moved(c, w[k])
  BY <1>9
<1>11. ASSUME NEW k \in 1..N, NEW l \in 1..M, w2[l] = Moved(c, w[k])
       PROVE  near(k) = l
  BY <1>6, <1>10, <1>11
<1>. HIDE DEF near, T
<1>12. /\ \A k \in 1..N : d[k] = near(k)
       /\ d[N + 1] = M + 1
  BY <1>2
<1>13. d \in [1..N + 1 -> 1..M + 1]
  <2>1. \A k \in 1..N + 1 : k = N + 1 \/ k \in 1..N
    BY <1>2
  <2>2. M + 1 \in 1..M + 1 /\ \A l \in 1..M : l \in 1..M + 1
    BY <1>2
  <2> QED
    BY <1>10, <2>1, <2>2
<1>. HIDE DEF d
<1>14. d[1] = 1
  <2>1. CASE N = 0
    BY <1>8, <1>12, <2>1
  <2>2. CASE N # 0
    <3>1. 1 \in 1..N /\ 1 \in 1..M /\ w2[1] = Moved(c, w[1])
      BY <1>2, <1>7, <2>2
    <3> QED
      BY <1>11, <1>12, <3>1
  <2> QED
    BY <2>1, <2>2
<1>15. ASSUME NEW k \in 1..N
       PROVE  /\ d[k] \in 1..M /\ w2[d[k]] = Moved(c, w[k])
              /\ d[k + 1] = IF w[k].part = 0 /\ TwoSpaces(t, w[k].at) THEN d[k] ELSE d[k] + 1
  <2>1. d[k] \in 1..M /\ w2[d[k]] = Moved(c, w[k])
    BY <1>10, <1>12
  <2>2. OneStep(t, c, w, w2, k, d[k])
    BY <1>5, <2>1
  <2>3. CASE w[k].part = 0 /\ TwoSpaces(t, w[k].at)
    <3>1. k < N /\ w2[d[k]] = Moved(c, w[k + 1])
      BY <2>2, <2>3 DEF OneStep, N
    <3>2. k + 1 \in 1..N
      BY <1>2, <3>1
    <3>3. d[k + 1] = d[k]
      BY <1>11, <1>12, <2>1, <3>1, <3>2
    <3> QED
      BY <2>1, <2>3, <3>3
  <2>4. CASE ~ (w[k].part = 0 /\ TwoSpaces(t, w[k].at))
    <3>1. CASE k = N
      <4>1. d[k] = M
        BY <2>2, <2>4, <3>1 DEF OneStep, N, M
      <4> QED
        BY <1>12, <2>1, <2>4, <3>1, <4>1
    <3>2. CASE k # N
      <4>1. d[k] < M /\ w2[d[k] + 1] = Moved(c, w[k + 1])
        BY <2>2, <2>4, <3>2 DEF OneStep, N, M
      <4>2. k + 1 \in 1..N /\ d[k] + 1 \in 1..M
        BY <1>2, <2>1, <3>2, <4>1
      <4>3. d[k + 1] = d[k] + 1
        BY <1>11, <1>12, <4>1, <4>2
      <4> QED
        BY <2>1, <2>4, <4>3
    <3> QED
      BY <3>1, <3>2
  <2> QED
    BY <2>3, <2>4
<1>16. Along(t, c, w, w2, d)
  BY <1>12, <1>13, <1>14, <1>15 DEF Along, N, M
<1> QED
  BY <1>16

\* The matches of two aligned texts correspond, and are replaced by the same.
Mates(t, c, ends, by, ends2, by2) ==
  \A i \in 1..Len(t) :
    /\ Matched(ends, i) <=> Matched(ends2, c[i])
    /\ Matched(ends, i) =>
         /\ Kind(t, i) # " " /\ ends2[c[i]] = c[ends[i]]
         /\ Len(by2[c[i]]) = Len(by[i])
         /\ \A q \in 1..Len(by[i]) : by2[c[i]][q] = by[i][q] /\ by[i][q].kind # " "

\* Then the results are aligned.
LEMMA SubstituteAligned ==
  ASSUME NEW t \in Seq(WorkTokens), NEW u \in Seq(WorkTokens), NEW c, Aligned(t, u, c),
         NEW ends, NEW by, Fits(Len(t), ends, by, WorkTokens),
         NEW ends2, NEW by2, Fits(Len(u), ends2, by2, WorkTokens),
         Mates(t, c, ends, by, ends2, by2)
  PROVE  \E d : /\ Aligned(Substitute(t, ends, by), Substitute(u, ends2, by2), d)
                /\ Along(t, c, WalkOf(t, ends, by), WalkOf(u, ends2, by2), d)
<1>. DEFINE n == Len(t)
            m == Len(u)
            size == Sizes(t, by)
            size2 == Sizes(u, by2)
            w == WalkOf(t, ends, by)
            w2 == WalkOf(u, ends2, by2)
            new == Substitute(t, ends, by)
            new2 == Substitute(u, ends2, by2)
<1>1. n \in Nat /\ m \in Nat
  OBVIOUS
<1>2. /\ Sized(n, ends, size) /\ IsWalk(w, 1, n, ends, size)
      /\ new \in Seq(WorkTokens) /\ Len(new) = Len(w)
      /\ \A k \in 1..Len(w) : new[k] = Picked(t, by, w[k])
  BY WalkOfText
<1>3. /\ Sized(m, ends2, size2) /\ IsWalk(w2, 1, m, ends2, size2)
      /\ new2 \in Seq(WorkTokens) /\ Len(new2) = Len(w2)
      /\ \A k \in 1..Len(w2) : new2[k] = Picked(u, by2, w2[k])
  BY WalkOfText
<1>4. \A i \in 1..n : c[i] \in 1..m /\ Kind(u, c[i]) = Kind(t, i)
  <2>1. Ordered(t, u, c)
    BY AlignedOrder
  <2> QED
    BY <2>1 DEF Ordered, Aligned
<1>5. /\ \A i \in 1..n : size[i] = Len(by[i])
      /\ \A i \in 1..m : size2[i] = Len(by2[i])
  BY DEF Sizes
<1>. HIDE DEF size, size2, w, w2, new, new2
<1>6. Follows(t, c, ends, size, ends2, size2)
  <2>. SUFFICES ASSUME NEW i \in 1..Len(t)
                PROVE  /\ Matched(ends, i) <=> Matched(ends2, c[i])
                       /\ Matched(ends, i) => /\ Kind(t, i) # " " /\ ends2[c[i]] = c[ends[i]]
                                              /\ size2[c[i]] = size[i]
    BY DEF Follows
  <2>1. size[i] = Len(by[i]) /\ size2[c[i]] = Len(by2[c[i]])
    BY <1>4, <1>5
  <2> QED
    BY <2>1 DEF Mates
<1>7. PICK d : Along(t, c, w, w2, d)
  <2>. HIDE DEF n, m
  <2>1. Sized(Len(t), ends, size) /\ IsWalk(w, 1, Len(t), ends, size)
    BY <1>2 DEF n
  <2>2. Sized(Len(u), ends2, size2) /\ IsWalk(w2, 1, Len(u), ends2, size2)
    BY <1>3 DEF m
  <2> QED
    BY <1>6, <2>1, <2>2, WalksGoAlong
<1>8. /\ Len(w) \in Nat /\ Len(w2) \in Nat
      /\ \A k \in 1..Len(w) :
           /\ w[k].at \in 1..n /\ w[k].part \in Nat
           /\ Matched(ends, w[k].at) => w[k].part \in 1..size[w[k].at]
           /\ ~ Matched(ends, w[k].at) => w[k].part = 0
  <2>1. Len(w2) \in Nat
    BY <1>3 DEF IsWalk
  <2>2. /\ Len(w) \in Nat
        /\ \A k \in 1..Len(w) :
             /\ w[k].at \in 1..n /\ w[k].part \in Nat
             /\ Matched(ends, w[k].at) => w[k].part \in 1..size[w[k].at]
             /\ ~ Matched(ends, w[k].at) => w[k].part = 0
    BY <1>1, <1>2, WalkSteps
  <2> QED
    BY <2>1, <2>2
<1>9. /\ d \in [1..Len(w) + 1 -> 1..Len(w2) + 1]
      /\ d[1] = 1 /\ d[Len(w) + 1] = Len(w2) + 1
      /\ \A k \in 1..Len(w) :
           /\ d[k] \in 1..Len(w2) /\ w2[d[k]].at = c[w[k].at] /\ w2[d[k]].part = w[k].part
           /\ d[k + 1] = IF w[k].part = 0 /\ TwoSpaces(t, w[k].at) THEN d[k] ELSE d[k] + 1
  <2>1. \A x : Moved(c, x).at = c[x.at] /\ Moved(c, x).part = x.part
    BY DEF Moved, Place
  <2> QED
    BY <1>7, <2>1 DEF Along
<1>10. /\ \A i \in 1..n : Kind(t, i) = t[i].kind
       /\ \A i \in 1..m : Kind(u, i) = u[i].kind
       /\ \A k \in 1..Len(w) : Kind(new, k) = new[k].kind
       /\ \A k \in 1..Len(w2) : Kind(new2, k) = new2[k].kind
  <2>1. \A i \in 1..n : Kind(t, i) = t[i].kind
    BY KindIs
  <2>2. \A i \in 1..m : Kind(u, i) = u[i].kind
    BY KindIs
  <2>3. DOMAIN new = 1..Len(w) /\ DOMAIN new2 = 1..Len(w2)
    BY <1>2, <1>3
  <2> QED
    BY <2>1, <2>2, <2>3 DEF Kind
<1>. HIDE DEF n, m
<1>11. /\ \A k \in 1..Len(w) : new[k] = IF w[k].part = 0 THEN t[w[k].at] ELSE by[w[k].at][w[k].part]
      /\ \A k \in 1..Len(w2) :
           new2[k] = IF w2[k].part = 0 THEN u[w2[k].at] ELSE by2[w2[k].at][w2[k].part]
  <2>1. \A k \in 1..Len(w) : new[k] = Picked(t, by, w[k])
    BY <1>2
  <2>2. \A k \in 1..Len(w2) : new2[k] = Picked(u, by2, w2[k])
    BY <1>3
  <2> QED
    BY <2>1, <2>2, Zenon DEF Picked
<1>12. ASSUME NEW k \in 1..Len(w), w[k].part = 0
       PROVE  /\ Kind(new, k) = Kind(t, w[k].at)
              /\ Kind(new2, d[k]) = Kind(t, w[k].at)
  <2>1. new[k] = t[w[k].at]
    BY <1>11, <1>12
  <2>2. w2[d[k]].part = 0 /\ w2[d[k]].at = c[w[k].at] /\ d[k] \in 1..Len(w2)
    BY <1>9, <1>12
  <2>3. new2[d[k]] = u[c[w[k].at]]
    BY <1>11, <2>2
  <2>4. w[k].at \in 1..n
    BY <1>8
  <2>5. c[w[k].at] \in 1..m /\ Kind(u, c[w[k].at]) = Kind(t, w[k].at)
    BY <1>4, <2>4
  <2> QED
    BY <1>10, <2>1, <2>2, <2>3, <2>4, <2>5
<1>13. ASSUME NEW k \in 1..Len(w), w[k].part # 0
       PROVE  /\ new2[d[k]] = new[k] /\ Kind(new, k) # " "
              /\ Kind(new2, d[k]) = Kind(new, k)
  <2>. DEFINE i == w[k].at
              q == w[k].part
  <2>1. i \in 1..n /\ q # 0 /\ q \in 1..size[i] /\ Matched(ends, i)
    BY <1>8, <1>13
  <2>2. new[k] = by[i][q]
    BY <1>11, <1>13
  <2>3. w2[d[k]].part = q /\ w2[d[k]].at = c[i] /\ d[k] \in 1..Len(w2)
    BY <1>9
  <2>4. new2[d[k]] = by2[c[i]][q]
    BY <1>11, <1>13, <2>3
  <2>. HIDE DEF i, q
  <2>5. q \in 1..Len(by[i])
    BY <1>5, <2>1
  <2>6. by2[c[i]][q] = by[i][q] /\ by[i][q].kind # " "
    BY <2>1, <2>5 DEF Mates, n
  <2>7. new2[d[k]] = new[k] /\ new[k].kind # " "
    BY <2>2, <2>4, <2>6
  <2>8. Kind(new, k) = new[k].kind /\ Kind(new2, d[k]) = new2[d[k]].kind
    BY <1>10, <2>3
  <2> QED
    BY <2>7, <2>8
<1>14. ASSUME NEW k \in 1..Len(w)
       PROVE  TwoSpaces(new, k) <=> w[k].part = 0 /\ TwoSpaces(t, w[k].at)
  <2>. DEFINE i == w[k].at
  <2>1. i \in 1..n
    BY <1>8
  <2>2. StepsRight(w, n, ends, size)
    BY <1>2 DEF IsWalk
  <2>3. ASSUME w[k].part = 0, Kind(t, i) = " ", Kind(t, i + 1) = " "
        PROVE  Kind(new, k + 1) = " "
    <3>1. ~ Matched(ends, i)
      BY <2>1, <2>3 DEF Mates, n
    <3>2. i + 1 \in 1..n
      <4>1. i + 1 \in Nat
        BY <2>1
      <4>2. Kind(t, i + 1) # "end"
        BY <2>3
      <4> QED
        BY <4>1, <4>2, KindIs DEF n
    <3>3. ~ Matched(ends, i + 1)
      BY <2>3, <3>2 DEF Mates, n
    <3>4. IsLast(size, w[k]) /\ Beyond(ends, i) = i + 1
      BY <2>3, <3>1 DEF IsLast, Beyond
    <3>5. ~ (Beyond(ends, i) > n)
      <4>. HIDE DEF i
      <4> QED
        BY <1>1, <2>1, <3>2, <3>4 DEF n
    <3>6. k < Len(w) /\ w[k + 1] = First(ends, i + 1)
      BY <2>2, <3>4, <3>5 DEF StepsRight
    <3>7. k + 1 \in 1..Len(w)
      BY <1>8, <3>6
    <3>8. w[k + 1].part = 0 /\ w[k + 1].at = i + 1
      BY <3>3, <3>6 DEF First, Place
    <3> QED
      BY <1>12, <2>3, <3>7, <3>8
  <2>4. ASSUME Kind(new, k) = " ", Kind(new, k + 1) = " "
        PROVE  w[k].part = 0 /\ Kind(t, i) = " " /\ Kind(t, i + 1) = " "
    <3>1. w[k].part = 0
      BY <1>13, <2>4
    <3>2. Kind(t, i) = " "
      BY <1>12, <2>4, <3>1
    <3>3. k + 1 \in 1..Len(w)
      <4>1. k + 1 \in Nat
        BY <1>8
      <4>2. Kind(new, k + 1) # "end"
        BY <2>4
      <4>3. k + 1 \in 1..Len(new)
        BY <1>2, <4>1, <4>2, KindIs
      <4> QED
        BY <1>2, <4>3
    <3>4. w[k + 1].part = 0
      BY <1>13, <2>4, <3>3
    <3>5. Kind(t, w[k + 1].at) = " "
      BY <1>12, <2>4, <3>3, <3>4
    <3>6. ~ Matched(ends, i)
      BY <2>1, <3>2 DEF Mates, n
    <3>7. IsLast(size, w[k]) /\ Beyond(ends, i) = i + 1
      BY <3>1, <3>6 DEF IsLast, Beyond
    <3>8. k # Len(w)
      BY <1>8, <3>3
    <3>9. w[k + 1] = First(ends, i + 1)
      BY <2>2, <3>7, <3>8 DEF StepsRight
    <3>10. w[k + 1].at = i + 1
      BY <3>9 DEF First, Place
    <3> QED
      BY <3>1, <3>2, <3>5, <3>10
  <2>5. ASSUME w[k].part = 0, Kind(t, i) = " "
        PROVE  Kind(new, k) = " "
    BY <1>12, <2>5
  <2> QED
    BY <2>3, <2>4, <2>5 DEF TwoSpaces
<1>15. Aligned(new, new2, d)
  <2>1. /\ d \in [1..Len(new) + 1 -> 1..Len(new2) + 1]
        /\ d[1] = 1 /\ d[Len(new) + 1] = Len(new2) + 1
    BY <1>2, <1>3, <1>9
  <2>2. ASSUME NEW k \in 1..Len(new)
        PROVE  /\ Kind(new2, d[k]) = Kind(new, k)
               /\ d[k + 1] = IF TwoSpaces(new, k) THEN d[k] ELSE d[k] + 1
    <3>1. k \in 1..Len(w)
      BY <1>2
    <3>2. Kind(new2, d[k]) = Kind(new, k)
      BY <1>12, <1>13, <3>1
    <3>3. d[k + 1] = IF TwoSpaces(new, k) THEN d[k] ELSE d[k] + 1
      BY <1>9, <1>14, <3>1
    <3> QED
      BY <3>2, <3>3
  <2> QED
    BY <2>1, <2>2 DEF Aligned
<1> QED
  BY <1>7, <1>15 DEF w, w2, new, new2

-----------------------------------------------------------------------------
(* What a substitution leaves where it was *)

\* Up to the first match nothing moves.
LEMMA BeforeMatches ==
  ASSUME NEW n \in Nat, NEW ends, NEW size, NEW w,
         Sized(n, ends, size), IsWalk(w, 1, n, ends, size),
         NEW p \in 1..n, \A i \in 1..p : ~ Matched(ends, i)
  PROVE  \A k \in 1..p : k \in 1..Len(w) /\ w[k] = Place(k, 0)
<1>. DEFINE N == Len(w)
            T == {k \in 1..p : k \in 1..N /\ w[k] = Place(k, 0)}
<1>1. \A k \in 1..p : First(ends, k) = Place(k, 0) /\ Beyond(ends, k) = k + 1
  BY DEF First, Beyond
<1>2. N > 0 /\ w[1] = First(ends, 1)
  BY DEF IsWalk
<1>3. N \in Nat
  BY DEF IsWalk
<1>4. StepsRight(w, n, ends, size)
  BY DEF IsWalk
<1>. HIDE DEF N
<1>5. 1 \in T
  <2>1. 1 \in 1..p /\ 1 \in 1..N
    BY <1>2, <1>3
  <2> QED
    BY <1>1, <1>2, <2>1
<1>6. ASSUME NEW k \in 1..p - 1, k \in T
      PROVE  k + 1 \in T
  <2>1. k \in 1..p /\ k + 1 \in 1..p /\ k \in 1..N /\ k + 1 <= n
    BY <1>6
  <2>2. w[k] = Place(k, 0)
    BY <1>6
  <2>3. w[k].at = k /\ w[k].part = 0
    BY <2>2 DEF Place
  <2>4. IsLast(size, w[k]) /\ Beyond(ends, w[k].at) = k + 1
    BY <1>1, <2>1, <2>3 DEF IsLast
  <2>5. k < N /\ w[k + 1] = First(ends, k + 1)
    <3>1. ~ (Beyond(ends, w[k].at) > n)
      BY <2>1, <2>4
    <3> QED
      BY <1>4, <2>1, <2>4, <3>1 DEF StepsRight, N
  <2>6. k + 1 \in 1..N
    BY <1>3, <2>5
  <2> QED
    BY <1>1, <2>1, <2>5, <2>6
<1>7. \A k \in 1..p : k \in T
  <2>. HIDE DEF T
  <2> QED
    BY <1>5, <1>6, FromTheBeginning
<1> QED
  BY <1>7 DEF N

\* A token that is kept comes right behind another, or behind a match.
LEMMA KeptBehind ==
  ASSUME NEW n \in Nat, NEW ends, NEW size, NEW w,
         Sized(n, ends, size), IsWalk(w, 1, n, ends, size),
         NEW k \in 1..Len(w), w[k].part = 0, w[k].at > 1
  PROVE  /\ k - 1 \in 1..Len(w) /\ w[k - 1].at \in 1..n
         /\ \/ ~ Matched(ends, w[k - 1].at) /\ w[k - 1].part = 0 /\ w[k - 1].at = w[k].at - 1
            \/ Matched(ends, w[k - 1].at) /\ ends[w[k - 1].at] = w[k].at
<1>1. /\ Len(w) \in Nat
      /\ \A j \in 1..Len(w) :
           /\ w[j].at \in 1..n /\ w[j].part \in Nat
           /\ Matched(ends, w[j].at) => w[j].part \in 1..size[w[j].at]
           /\ ~ Matched(ends, w[j].at) => w[j].part = 0
  BY WalkSteps
<1>2. StepsRight(w, n, ends, size) /\ w[1] = First(ends, 1)
  <2>1. ~ (1 > n)
    BY <1>1
  <2> QED
    BY <2>1 DEF IsWalk
<1>. DEFINE N == Len(w)
            l == k - 1
            x == w[l].at
            p == w[k].at
<1>3. k # 1
  <2>1. First(ends, 1).at = 1
    BY DEF First, Place
  <2> QED
    BY <1>2, <2>1
<1>4. l \in 1..N /\ l + 1 = k /\ l # N
  BY <1>1, <1>3
<1>. HIDE DEF N, l
<1>5. x \in 1..n
  BY <1>1, <1>4 DEF N
<1>6. IF ~ IsLast(size, w[l])
      THEN l < N /\ w[k] = Place(x, w[l].part + 1)
      ELSE IF Beyond(ends, x) > n THEN l = N
      ELSE l < N /\ w[k] = First(ends, Beyond(ends, x))
  BY <1>2, <1>4 DEF StepsRight, N
<1>7. IsLast(size, w[l])
  <2>. SUFFICES ASSUME ~ IsLast(size, w[l])
                PROVE  FALSE
    OBVIOUS
  <2>1. w[k] = Place(x, w[l].part + 1)
    BY <1>6
  <2>2. w[k].part = w[l].part + 1
    BY <2>1 DEF Place
  <2>3. w[l].part \in Nat
    BY <1>1, <1>4 DEF N
  <2> QED
    BY <2>2, <2>3
<1>8. p = Beyond(ends, x)
  <2>1. w[k] = First(ends, Beyond(ends, x))
    BY <1>4, <1>6, <1>7
  <2>2. First(ends, Beyond(ends, x)).at = Beyond(ends, x)
    BY DEF First, Place
  <2> QED
    BY <2>1, <2>2
<1>9. CASE Matched(ends, x)
  <2>1. p = ends[x]
    BY <1>8, <1>9 DEF Beyond
  <2> QED
    BY <1>4, <1>5, <1>9, <2>1 DEF N, l
<1>10. CASE ~ Matched(ends, x)
  <2>1. p = x + 1 /\ w[l].part = 0
    BY <1>1, <1>4, <1>8, <1>10 DEF Beyond, N
  <2>2. x = p - 1
    BY <1>5, <2>1
  <2> QED
    BY <1>4, <1>5, <1>10, <2>1, <2>2 DEF N, l
<1> QED
  BY <1>9, <1>10

\* What is before a token that is kept is kept or in a match that ends before it.
LEMMA BeforeKept ==
  ASSUME NEW n \in Nat, NEW ends, NEW size, NEW w,
         Sized(n, ends, size), IsWalk(w, 1, n, ends, size),
         NEW k \in 1..Len(w), w[k].part = 0, NEW j \in 1..w[k].at
  PROVE  \E x \in 1..j : IF Matched(ends, x) THEN j < ends[x] /\ ends[x] <= w[k].at
                         ELSE x = j
<1>. DEFINE p == w[k].at
<1>1. /\ Len(w) \in Nat
      /\ \A l \in 1..Len(w) :
           /\ w[l].at \in 1..n /\ w[l].part \in Nat
           /\ Matched(ends, w[l].at) => w[l].part \in 1..size[w[l].at]
           /\ ~ Matched(ends, w[l].at) => w[l].part = 0
  BY WalkSteps
<1>2. p \in 1..n /\ j \in 1..n
  BY <1>1
<1>3. PICK l \in 1..Len(w) : /\ w[l] = First(ends, w[l].at)
                             /\ w[l].at <= j /\ j < Beyond(ends, w[l].at)
  BY <1>2 DEF IsWalk, Covered
<1>. DEFINE x == w[l].at
<1>4. x \in 1..n /\ x <= j /\ j < Beyond(ends, x)
  BY <1>1, <1>3
<1>. HIDE DEF x
<1>5. x \in 1..j
  BY <1>2, <1>4
<1>6. CASE ~ Matched(ends, x)
  <2>1. Beyond(ends, x) = x + 1
    BY <1>6 DEF Beyond
  <2>2. x = j
    BY <1>2, <1>4, <2>1
  <2> QED
    BY <1>5, <1>6, <2>2
<1>7. CASE Matched(ends, x)
  <2>1. Beyond(ends, x) = ends[x] /\ ends[x] \in 1..n + 1
    BY <1>4, <1>7 DEF Beyond, Sized
  <2>2. ends[x] <= p
    <3>1. ~ Matched(ends, p)
      <4>1. Matched(ends, p) => w[k].part \in 1..size[p] /\ size[p] \in Nat
        BY <1>1, <1>2 DEF Sized
      <4> QED
        BY <4>1
    <3>2. l # k
      BY <1>7, <3>1 DEF x
    <3>3. /\ l < k => (w[k].at = w[l].at /\ w[k].part > w[l].part) \/ w[k].at >= Beyond(ends, w[l].at)
          /\ k < l => (w[l].at = w[k].at /\ w[l].part > w[k].part) \/ w[l].at >= Beyond(ends, w[k].at)
      BY DEF IsWalk, InOrder
    <3>4. x # p
      BY <1>7, <3>1
    <3>5. CASE l < k
      BY <2>1, <3>3, <3>4, <3>5 DEF x
    <3>6. CASE k < l
      <4>1. x >= Beyond(ends, p)
        BY <3>3, <3>4, <3>6 DEF x
      <4>2. Beyond(ends, p) = p + 1
        BY <3>1 DEF Beyond
      <4>3. x <= p
        BY <1>2, <1>4
      <4> QED
        BY <1>2, <1>4, <4>1, <4>2, <4>3
    <3> QED
      BY <1>1, <3>2, <3>5, <3>6
  <2> QED
    BY <1>4, <1>5, <1>7, <2>1, <2>2
<1> QED
  BY <1>6, <1>7

-----------------------------------------------------------------------------
(* Occurrences of one error on their way *)

\* The substitution that replaces a kind.
ReplacedBy(kind) == IF kind = "huge" THEN "hex" ELSE kind

\* A substitution that is left will take the token at i as the value of what is
\* before it.
Claimed(t, line, left, i) ==
  \/ "request_id" \in left /\ Kind(t, i) \in {"small", "word"} /\ After(t, i, "request")
  \/ "label" \in left /\ Kind(t, i) = "small" /\ After(t, i, "label")
  \/ "label" \in left /\ OnLine(line) /\ Kind(t, i) = "small" /\ Kind(t, i - 1) = "frame"
  \/ "colon" \in left /\ OnLine(line) /\ Kind(t, i) = "small" /\ Kind(t, i - 1) = ":"

\* A substitution that is left will take it.
Awaits(t, line, left, i) ==
  \/ Kind(t, i) \in Replaced /\ ReplacedBy(Kind(t, i)) \in left
  \/ Claimed(t, line, left, i)

\* Aligned texts differ in nothing else.
Alike(t, u, c, line, left) ==
  \A i \in 1..Len(t) :
    t[i] = u[c[i]] \/ Awaits(t, line, left, i)

Twins(t, u, line, left) == \E c : Aligned(t, u, c) /\ Alike(t, u, c, line, left)

\* What a token is claimed by is of one of these kinds, and so is the token.
Telling == {"request", "label", "frame", "small", "word"} \cup Separators

\* No token that is replaced, or was, is of them.
LEMMA TellingKinds ==
  /\ Telling \cap (Replaced \cup {"placeholder", "remainder", "location", "end"}) = {}
  /\ {"request", "label", "frame", "small", "word", " ", ":"} \subseteq Telling
  /\ Separators \subseteq Telling
BY DEF Telling, Replaced, Separators

\* The first tokens of u are those of t behind so many spaces, as far as claims
\* are concerned.
Shifted(t, u, d, i) ==
  /\ \A q \in 1..d : Kind(t, q) = " "
  /\ \A q \in 1..i : \A x \in Telling : (Kind(u, q) = x) <=> (Kind(t, q + d) = x)

\* A token is claimed where the same tokens are before it, but for spaces at the
\* beginning.
LEMMA ClaimedMoves ==
  ASSUME NEW t \in Seq(WorkTokens), NEW u \in Seq(WorkTokens), NEW line, NEW left,
         NEW d \in Nat, NEW i \in Nat, i >= 1, NEW p \in Nat, p = i + d,
         Shifted(t, u, d, i), Claimed(t, line, left, p)
  PROVE  Claimed(u, line, left, i)
<1>1. /\ \A q \in 1..d : Kind(t, q) = " "
      /\ \A q \in 1..i : \A x \in Telling : (Kind(u, q) = x) <=> (Kind(t, q + d) = x)
  BY DEF Shifted
<1>2. i \in 1..i /\ \A q \in 1..i : q + d \in 1..p
  OBVIOUS
<1>3. \A x \in Telling : (Kind(u, i) = x) <=> (Kind(t, p) = x)
  BY <1>1, <1>2
<1>4. \A j \in 1..p - 2 : j \notin 1..d => \E l \in 1..i - 2 : l + d = j /\ l \in 1..i
  <2>. TAKE j \in 1..p - 2
  <2>1. j > d => j - d \in 1..i - 2 /\ j - d \in 1..i /\ (j - d) + d = j
    OBVIOUS
  <2> QED
    BY <2>1
<1>5. ASSUME NEW label \in {"request", "label"}, After(t, p, label)
      PROVE  After(u, i, label)
  <2>1. PICK j \in 1..p - 2 : /\ Kind(t, j) = label
                              /\ \A k \in j + 1..p - 1 : Kind(t, k) \in Separators
                              /\ \A k \in 1..j - 1 : Kind(t, k) # "request"
    BY <1>5, Zenon DEF After
  <2>2. ~ (j \in 1..d)
    <3>1. label # " "
      OBVIOUS
    <3> QED
      BY <1>1, <2>1, <3>1
  <2>3. PICK l \in 1..i - 2 : l + d = j /\ l \in 1..i
    BY <1>4, <2>2
  <2>4. Kind(u, l) = label
    <3>1. label \in Telling
      BY TellingKinds
    <3> QED
      BY <1>1, <2>1, <2>3, <3>1
  <2>5. \A k \in l + 1..i - 1 : Kind(u, k) \in Separators
    <3>. TAKE k \in l + 1..i - 1
    <3>1. k \in 1..i /\ k + d \in j + 1..p - 1
      BY <2>3
    <3>2. Kind(t, k + d) \in Separators /\ Kind(t, k + d) \in Telling
      BY <2>1, <3>1, TellingKinds
    <3> QED
      BY <1>1, <3>1, <3>2
  <2>6. \A k \in 1..l - 1 : Kind(u, k) # "request"
    <3>. TAKE k \in 1..l - 1
    <3>1. k \in 1..i /\ k + d \in 1..j - 1
      BY <2>3
    <3>2. Kind(t, k + d) # "request"
      BY <2>1, <3>1
    <3>3. "request" \in Telling
      BY TellingKinds
    <3> QED
      BY <1>1, <3>1, <3>2, <3>3
  <2> QED
    BY <2>3, <2>4, <2>5, <2>6, Zenon DEF After
<1>6. ASSUME NEW x \in {"frame", ":"}, Kind(t, p - 1) = x
      PROVE  Kind(u, i - 1) = x
  <2>1. x # " " /\ x # "end" /\ x \in Telling
    BY TellingKinds
  <2>2. CASE i = 1
    <3>1. p - 1 = d
      BY <2>2
    <3>2. d = 0 \/ d \in 1..d
      OBVIOUS
    <3>3. Kind(t, 0) = "end"
      BY KindIs
    <3> QED
      BY <1>1, <1>6, <2>1, <3>1, <3>2, <3>3
  <2>3. CASE i # 1
    <3>1. i - 1 \in 1..i /\ (i - 1) + d = p - 1
      BY <2>3
    <3> QED
      BY <1>1, <1>6, <2>1, <3>1
  <2> QED
    BY <2>2, <2>3
<1>7. /\ Kind(t, p) = "small" => Kind(u, i) = "small"
      /\ Kind(t, p) \in {"small", "word"} => Kind(u, i) \in {"small", "word"}
  <2>1. "small" \in Telling /\ "word" \in Telling
    BY TellingKinds
  <2> QED
    BY <1>3, <2>1
<1> QED
  BY <1>5, <1>6, <1>7 DEF Claimed

\* What is claimed by a substitution that is left is so with fewer left.
LEMMA ClaimedLess ==
  ASSUME NEW t, NEW line, NEW left, NEW less, NEW i, Claimed(t, line, left, i),
         less \subseteq left, left \cap {"request_id", "label", "colon"} \subseteq less
  PROVE  Claimed(t, line, less, i)
BY DEF Claimed

\* Tokens of these kinds are alike.
LEMMA PlainAlike ==
  ASSUME NEW t \in Seq(WorkTokens), NEW u \in Seq(WorkTokens), NEW c, NEW line, NEW left,
         Alike(t, u, c, line, left), NEW i \in 1..Len(t),
         Kind(t, i) \in {"frame", "location", "request", "label", ":"}
  PROVE  t[i] = u[c[i]]
<1>1. Kind(t, i) \notin Replaced /\ Kind(t, i) \notin {"small", "word"} /\ Kind(t, i) # " "
  BY DEF Replaced
<1>2. ~ Awaits(t, line, left, i)
  BY <1>1 DEF Awaits, Claimed
<1> QED
  BY <1>1, <1>2 DEF Alike

\* The tokens that a substitution keeps are claimed in its result.
Carries(t, line, left, ends, by, less) ==
  \A k \in 1..Len(WalkOf(t, ends, by)) :
    LET x == WalkOf(t, ends, by)[k]
    IN  x.part = 0 /\ Awaits(t, line, left, x.at)
          => Awaits(Substitute(t, ends, by), line, less, k)

\* A substitution whose matches correspond makes twins of twins.
LEMMA SubstituteTwins ==
  ASSUME NEW t \in Seq(WorkTokens), NEW u \in Seq(WorkTokens), NEW c, Aligned(t, u, c),
         NEW line, NEW left, NEW less, Alike(t, u, c, line, left),
         NEW ends, NEW by, Fits(Len(t), ends, by, WorkTokens),
         NEW ends2, NEW by2, Fits(Len(u), ends2, by2, WorkTokens),
         Mates(t, c, ends, by, ends2, by2),
         Carries(t, line, left, ends, by, less)
  PROVE  Twins(Substitute(t, ends, by), Substitute(u, ends2, by2), line, less)
<1>. DEFINE w == WalkOf(t, ends, by)
            w2 == WalkOf(u, ends2, by2)
            new == Substitute(t, ends, by)
            new2 == Substitute(u, ends2, by2)
            n == Len(t)
            size == Sizes(t, by)
<1>1. PICK d : Aligned(new, new2, d) /\ Along(t, c, w, w2, d)
  BY SubstituteAligned
<1>2. /\ Sized(n, ends, size) /\ IsWalk(w, 1, n, ends, size)
      /\ new \in Seq(WorkTokens) /\ Len(new) = Len(w)
      /\ \A k \in 1..Len(w) : new[k] = Picked(t, by, w[k])
  BY WalkOfText
<1>3. \A k \in 1..Len(w2) : new2[k] = Picked(u, by2, w2[k])
  BY WalkOfText
<1>4. \A i \in 1..n : size[i] = Len(by[i])
  BY DEF Sizes
<1>5. n \in Nat
  OBVIOUS
<1>. HIDE DEF w, w2, new, new2, n, size
<1>6. \A k \in 1..Len(w) :
        /\ w[k].at \in 1..n /\ w[k].part \in Nat
        /\ Matched(ends, w[k].at) => w[k].part \in 1..size[w[k].at]
        /\ ~ Matched(ends, w[k].at) => w[k].part = 0
  BY <1>2, <1>5, WalkSteps
<1>7. \A k \in 1..Len(w) :
         d[k] \in 1..Len(w2) /\ w2[d[k]].at = c[w[k].at] /\ w2[d[k]].part = w[k].part
  <2>1. \A x : Moved(c, x).at = c[x.at] /\ Moved(c, x).part = x.part
    BY DEF Moved, Place
  <2> QED
    BY <1>1, <2>1 DEF Along
<1>8. /\ \A k \in 1..Len(w) :
           new[k] = IF w[k].part = 0 THEN t[w[k].at] ELSE by[w[k].at][w[k].part]
      /\ \A k \in 1..Len(w) :
           new2[d[k]] = IF w[k].part = 0 THEN u[c[w[k].at]] ELSE by2[c[w[k].at]][w[k].part]
  <2>1. \A k \in 1..Len(w) : new2[d[k]] = Picked(u, by2, w2[d[k]])
    BY <1>3, <1>7
  <2> QED
    BY <1>2, <1>7, <2>1, Zenon DEF Picked
<1>9. ASSUME NEW k \in 1..Len(new)
      PROVE  new[k] = new2[d[k]] \/ Awaits(new, line, less, k)
  <2>. DEFINE i == w[k].at
              q == w[k].part
  <2>1. k \in 1..Len(w) /\ i \in 1..n
    BY <1>2, <1>6
  <2>2. CASE q = 0
    <3>1. new[k] = t[i] /\ new2[d[k]] = u[c[i]]
      BY <1>8, <2>1, <2>2
    <3>2. t[i] = u[c[i]] \/ Awaits(t, line, left, i)
      BY <2>1 DEF Alike, n
    <3>3. Awaits(t, line, left, i) => Awaits(new, line, less, k)
      BY <2>1, <2>2 DEF Carries, w, new
    <3> QED
      BY <3>1, <3>2, <3>3
  <2>3. CASE q # 0
    <3>1. Matched(ends, i) /\ q \in 1..size[i]
      BY <1>6, <2>1, <2>3
    <3>2. q \in 1..Len(by[i])
      BY <1>4, <2>1, <3>1
    <3>3. new[k] = by[i][q] /\ new2[d[k]] = by2[c[i]][q]
      BY <1>8, <2>1, <2>3
    <3>. HIDE DEF i, q
    <3>4. by2[c[i]][q] = by[i][q]
      BY <2>1, <3>1, <3>2 DEF Mates, n
    <3> QED
      BY <3>3, <3>4
  <2> QED
    BY <2>2, <2>3
<1>10. Alike(new, new2, d, line, less)
  BY <1>9 DEF Alike
<1> QED
  BY <1>1, <1>10 DEF Twins, new, new2

Solid(t, i) == Kind(t, i) # " "

\* The end e of a match at i, or i itself, is where e2 is in the other text.
EndsAgree(t, c, i, e, e2) ==
  /\ e # i => Solid(t, i) /\ e2 = c[e]
  /\ e2 # c[i] => e # i

\* Where the tokens of aligned texts are.
LEMMA AlignedAt ==
  ASSUME NEW t \in Seq(WorkTokens), NEW u \in Seq(WorkTokens), NEW c, Aligned(t, u, c),
         NEW i \in 1..Len(t) + 1
  PROVE  /\ c[i] \in 1..Len(u) + 1 /\ c[i] \in Nat /\ Kind(u, c[i]) = Kind(t, i)
         /\ i # Len(t) + 1 => i \in 1..Len(t) /\ c[i] \in 1..Len(u)
<1>. DEFINE n == Len(t)
            m == Len(u)
<1>1. n \in Nat /\ m \in Nat /\ i \in 1..n + 1
  OBVIOUS
<1>2. Ordered(t, u, c)
  BY AlignedOrder
<1>3. /\ \A k \in 1..n + 1 : c[k] \in 1..m + 1 /\ Kind(u, c[k]) = Kind(t, k)
      /\ \A k \in 1..n : c[k] \in 1..m
  BY <1>2 DEF Ordered
<1>. HIDE DEF n, m
<1>4. i # n + 1 => i \in 1..n
  BY <1>1
<1>5. c[i] \in Nat
  <2>1. c[i] \in 1..m + 1
    BY <1>1, <1>3
  <2> QED
    BY <2>1
<1> QED
  BY <1>1, <1>3, <1>4, <1>5 DEF n, m

\* Behind a token that is no space the texts go on alike.
LEMMA AlignedNext ==
  ASSUME NEW t \in Seq(WorkTokens), NEW u \in Seq(WorkTokens), NEW c, Aligned(t, u, c),
         NEW i \in 1..Len(t), Solid(t, i)
  PROVE  /\ i + 1 \in 1..Len(t) + 1 /\ c[i + 1] = c[i] + 1
         /\ Kind(u, c[i] + 1) = Kind(t, i + 1)
         /\ Kind(t, i + 1) # "end" => i + 1 \in 1..Len(t)
<1>. DEFINE n == Len(t)
            j == i + 1
<1>1. n \in Nat /\ i \in 1..n
  OBVIOUS
<1>2. ~ TwoSpaces(t, i)
  BY DEF TwoSpaces, Solid
<1>3. c[j] = c[i] + 1
  BY <1>2 DEF Aligned
<1>4. j \in Nat /\ j \in 1..n + 1
  <2>. HIDE DEF n
  <2> QED
    BY <1>1
<1>. HIDE DEF j
<1>5. Kind(u, c[j]) = Kind(t, j) /\ (Kind(t, j) # "end" => j \in 1..n)
  BY <1>4, AlignedAt, KindIs
<1> QED
  BY <1>3, <1>4, <1>5 DEF j

\* A number is neither a separator nor the end.
LEMMA NumbersAreNot ==
  /\ " " \notin Numbers /\ ":" \notin Numbers /\ "end" \notin Numbers
  /\ "frame" \notin Numbers /\ "label" \notin Numbers /\ "request" \notin Numbers
  /\ Numbers \cap Separators = {} /\ "small" \in Numbers
BY DEF Numbers, Separators

\* A frame ends where its twin does.
LEMMA FrameEndsAgree ==
  ASSUME NEW t \in Seq(WorkTokens), NEW u \in Seq(WorkTokens), NEW c, Aligned(t, u, c),
         NEW i \in 1..Len(t)
  PROVE  EndsAgree(t, c, i, FrameEnd(t, i), FrameEnd(u, c[i]))
<1>1. c[i] \in 1..Len(u) /\ c[i] \in Nat /\ Kind(u, c[i]) = Kind(t, i)
  <2>1. i \in 1..Len(t) + 1 /\ i # Len(t) + 1
    OBVIOUS
  <2> QED
    BY <2>1, AlignedAt
<1>2. CASE Kind(t, i) = "frame" /\ Kind(t, i + 1) \in Numbers
  <2>1. /\ Solid(t, i) /\ Solid(t, i + 1) /\ Kind(t, i + 1) # "end"
        /\ Kind(u, c[i]) = "frame"
    BY <1>1, <1>2, NumbersAreNot DEF Solid
  <2>2. /\ c[i + 1] = c[i] + 1 /\ i + 1 \in 1..Len(t)
        /\ Kind(u, c[i] + 1) = Kind(t, i + 1)
    BY <2>1, AlignedNext
  <2>3. /\ c[(i + 1) + 1] = c[i + 1] + 1
        /\ Kind(u, c[i + 1] + 1) = Kind(t, (i + 1) + 1)
        /\ Kind(t, (i + 1) + 1) # "end" => (i + 1) + 1 \in 1..Len(t)
    BY <2>1, <2>2, AlignedNext
  <2>4. /\ (i + 1) + 1 = i + 2 /\ (i + 2) + 1 = i + 3
        /\ c[i] + 1 + 1 = c[i] + 2 /\ c[i] + 2 + 1 = c[i] + 3
    BY <1>1
  <2>5. c[i + 2] = c[i] + 2 /\ Kind(u, c[i] + 2) = Kind(t, i + 2)
    BY <2>2, <2>3, <2>4
  <2>6. CASE Kind(t, i + 2) = "location"
    <3>1. i + 2 \in 1..Len(t) /\ Solid(t, i + 2)
      BY <2>3, <2>4, <2>6 DEF Solid
    <3>2. c[(i + 2) + 1] = c[i + 2] + 1
      BY <3>1, AlignedNext
    <3>3. c[i + 3] = c[i] + 3
      BY <2>4, <2>5, <3>2
    <3>4. FrameEnd(t, i) = i + 3 /\ FrameEnd(u, c[i]) = c[i] + 3
      BY <1>2, <2>1, <2>2, <2>5, <2>6 DEF FrameEnd
    <3>5. i + 3 # i
      OBVIOUS
    <3> QED
      BY <2>1, <3>3, <3>4, <3>5 DEF EndsAgree
  <2>7. CASE Kind(t, i + 2) # "location"
    <3>1. FrameEnd(t, i) = i /\ FrameEnd(u, c[i]) = c[i]
      BY <2>5, <2>7 DEF FrameEnd
    <3> QED
      BY <3>1 DEF EndsAgree
  <2> QED
    BY <2>6, <2>7
<1>3. CASE ~ (Kind(t, i) = "frame" /\ Kind(t, i + 1) \in Numbers)
  <2>1. Kind(t, i) = "frame" => Kind(u, c[i] + 1) = Kind(t, i + 1)
    <3>1. Kind(t, i) = "frame" => Solid(t, i)
      BY DEF Solid
    <3> QED
      BY <3>1, AlignedNext
  <2>2. FrameEnd(t, i) = i /\ FrameEnd(u, c[i]) = c[i]
    BY <1>1, <1>3, <2>1 DEF FrameEnd
  <2> QED
    BY <2>2 DEF EndsAgree
<1> QED
  BY <1>2, <1>3

\* A colon and its number end where their twins do.
LEMMA ColonEndsAgree ==
  ASSUME NEW t \in Seq(WorkTokens), NEW u \in Seq(WorkTokens), NEW c, Aligned(t, u, c),
         NEW i \in 1..Len(t)
  PROVE  EndsAgree(t, c, i, ColonEnd(t, i), ColonEnd(u, c[i]))
<1>1. c[i] \in 1..Len(u) /\ c[i] \in Nat /\ Kind(u, c[i]) = Kind(t, i)
  <2>1. i \in 1..Len(t) + 1 /\ i # Len(t) + 1
    OBVIOUS
  <2> QED
    BY <2>1, AlignedAt
<1>2. CASE Kind(t, i) = ":" /\ Kind(t, i + 1) \in Numbers
  <2>1. /\ Solid(t, i) /\ Solid(t, i + 1) /\ Kind(t, i + 1) # "end"
        /\ Kind(u, c[i]) = ":"
    BY <1>1, <1>2, NumbersAreNot DEF Solid
  <2>2. /\ c[i + 1] = c[i] + 1 /\ i + 1 \in 1..Len(t)
        /\ Kind(u, c[i] + 1) = Kind(t, i + 1)
    BY <2>1, AlignedNext
  <2>3. c[(i + 1) + 1] = c[i + 1] + 1
    BY <2>1, <2>2, AlignedNext
  <2>4. (i + 1) + 1 = i + 2 /\ c[i] + 1 + 1 = c[i] + 2 /\ i + 2 # i
    BY <1>1
  <2>5. c[i + 2] = c[i] + 2
    BY <2>2, <2>3, <2>4
  <2>6. ColonEnd(t, i) = i + 2 /\ ColonEnd(u, c[i]) = c[i] + 2
    BY <1>2, <2>1, <2>2 DEF ColonEnd
  <2> QED
    BY <2>1, <2>4, <2>5, <2>6 DEF EndsAgree
<1>3. CASE ~ (Kind(t, i) = ":" /\ Kind(t, i + 1) \in Numbers)
  <2>1. Kind(t, i) = ":" => Kind(u, c[i] + 1) = Kind(t, i + 1)
    <3>1. Kind(t, i) = ":" => Solid(t, i)
      BY DEF Solid
    <3> QED
      BY <3>1, AlignedNext
  <2>2. ColonEnd(t, i) = i /\ ColonEnd(u, c[i]) = c[i]
    BY <1>1, <1>3, <2>1 DEF ColonEnd
  <2> QED
    BY <2>2 DEF EndsAgree
<1> QED
  BY <1>2, <1>3

\* The separators behind a token end at the same place.
LEMMA AlignedAfter ==
  ASSUME NEW t \in Seq(WorkTokens), NEW u \in Seq(WorkTokens), NEW c, Aligned(t, u, c),
         NEW i \in 1..Len(t), Solid(t, i)
  PROVE  LET after == RunEnd(t, i + 1, Separators)
         IN  /\ after \in i + 1..Len(t) + 1 /\ after \in 1..Len(t) + 1
             /\ RunEnd(u, c[i] + 1, Separators) = c[after]
             /\ Kind(u, c[after]) = Kind(t, after)
             /\ c[after] > c[i] + 1 <=> after > i + 1
<1>. DEFINE n == Len(t)
            after == RunEnd(t, i + 1, Separators)
<1>1. n \in Nat /\ i \in 1..n /\ "end" \notin Separators
  BY DEF Separators
<1>2. c[i + 1] = c[i] + 1 /\ i + 1 \in 1..Len(t) + 1
  BY AlignedNext
<1>3. /\ after \in i + 1..Len(t) + 1 /\ Kind(t, after) \notin Separators
      /\ \A k \in i + 1..after - 1 : Kind(t, k) \in Separators
  BY <1>1, <1>2, RunEnds
<1>4. RunEnd(u, c[i + 1], Separators) = c[after]
  BY <1>1, <1>2, AlignedRunEnd
<1>. HIDE DEF after
<1>5. after \in 1..n + 1 /\ i + 1 <= after /\ after \in i + 1..n + 1
  <2>1. after \in i + 1..n + 1
    BY <1>3
  <2>. HIDE DEF n
  <2> QED
    BY <1>1, <2>1
<1>6. Kind(u, c[after]) = Kind(t, after) /\ Kind(u, c[i + 1]) = Kind(t, i + 1)
      /\ c[i + 1] <= c[after] /\ c[i + 1] \in Nat /\ c[after] \in Nat
  <2>1. Ordered(t, u, c)
    BY AlignedOrder
  <2>2. \A k, l \in 1..n + 1 : k <= l => c[k] <= c[l]
    BY <2>1 DEF Ordered
  <2>3. c[i + 1] <= c[after]
    BY <1>2, <1>5, <2>2
  <2> QED
    BY <1>2, <1>5, <2>3, AlignedAt
<1>. HIDE DEF n
<1>7. after > i + 1 => c[after] # c[i + 1]
  <2>. SUFFICES ASSUME after > i + 1
                PROVE  c[after] # c[i + 1]
    OBVIOUS
  <2>1. i + 1 \in i + 1..after - 1
    BY <1>1, <1>5
  <2> QED
    BY <1>3, <1>6, <2>1
<1>8. c[after] > c[i] + 1 <=> after > i + 1
  <2>1. after = i + 1 => c[after] = c[i + 1]
    OBVIOUS
  <2>. DEFINE x == c[after]
              y == c[i + 1]
  <2>2. x \in Nat /\ y \in Nat /\ y <= x /\ (after > i + 1 => x # y)
        /\ (after = i + 1 => x = y) /\ y = c[i] + 1
    BY <1>2, <1>6, <1>7, <2>1
  <2>. HIDE DEF x, y
  <2>3. x > y <=> after > i + 1
    BY <1>1, <1>5, <2>2
  <2> QED
    BY <2>2, <2>3 DEF x
<1> QED
  BY <1>3, <1>2, <1>4, <1>5, <1>6, <1>8 DEF after, n

\* A label and its number end where their twins do.
LEMMA LabelEndsAgree ==
  ASSUME NEW t \in Seq(WorkTokens), NEW u \in Seq(WorkTokens), NEW c, Aligned(t, u, c),
         NEW i \in 1..Len(t)
  PROVE  EndsAgree(t, c, i, LabelEnd(t, i), LabelEnd(u, c[i]))
<1>1. c[i] \in 1..Len(u) /\ c[i] \in Nat /\ Kind(u, c[i]) = Kind(t, i)
  <2>1. i \in 1..Len(t) + 1 /\ i # Len(t) + 1
    OBVIOUS
  <2> QED
    BY <2>1, AlignedAt
<1>2. CASE Kind(t, i) \in {"label", "request", "frame"}
  <2>. DEFINE after == RunEnd(t, i + 1, Separators)
  <2>1. Solid(t, i)
    BY <1>2 DEF Solid
  <2>2. /\ after \in i + 1..Len(t) + 1 /\ after \in 1..Len(t) + 1
        /\ RunEnd(u, c[i] + 1, Separators) = c[after]
        /\ Kind(u, c[after]) = Kind(t, after)
        /\ c[after] > c[i] + 1 <=> after > i + 1
    BY <2>1, AlignedAfter
  <2>3. /\ LabelEnd(t, i) = IF /\ \/ Kind(t, i) \in {"label", "request"} /\ after > i + 1
                                  \/ Kind(t, i) = "frame"
                               /\ Kind(t, after) \in Numbers
                            THEN after + 1 ELSE i
        /\ LabelEnd(u, c[i]) =
             IF /\ \/ Kind(u, c[i]) \in {"label", "request"}
                      /\ RunEnd(u, c[i] + 1, Separators) > c[i] + 1
                   \/ Kind(u, c[i]) = "frame"
                /\ Kind(u, RunEnd(u, c[i] + 1, Separators)) \in Numbers
             THEN RunEnd(u, c[i] + 1, Separators) + 1 ELSE c[i]
    BY Zenon DEF LabelEnd
  <2>. HIDE DEF after
  <2>4. LabelEnd(u, c[i]) = IF /\ \/ Kind(t, i) \in {"label", "request"} /\ after > i + 1
                                  \/ Kind(t, i) = "frame"
                               /\ Kind(t, after) \in Numbers
                            THEN c[after] + 1 ELSE c[i]
    BY <1>1, <2>2, <2>3
  <2>5. Kind(t, after) \in Numbers => after \in 1..Len(t)
    <3>1. after \in Nat
      BY <2>2
    <3> QED
      BY <3>1, KindIs, NumbersAreNot
  <2>6. Kind(t, after) \in Numbers => c[after + 1] = c[after] + 1
    <3>1. Kind(t, after) \in Numbers => Solid(t, after)
      BY NumbersAreNot DEF Solid
    <3> QED
      BY <2>5, <3>1, AlignedNext
  <2> QED
    BY <2>1, <2>3, <2>4, <2>6 DEF EndsAgree
<1>3. CASE Kind(t, i) \notin {"label", "request", "frame"}
  <2>1. LabelEnd(t, i) = i /\ LabelEnd(u, c[i]) = c[i]
    BY <1>1, <1>3 DEF LabelEnd
  <2> QED
    BY <2>1 DEF EndsAgree
<1> QED
  BY <1>2, <1>3

\* The colons between two places.
Colons(t, i, e) == {j \in i + 1..e - 1 : Kind(t, j) = ":"}

\* The last of the colons between two places is the last.
LEMMA ColonsAgree ==
  ASSUME NEW t \in Seq(WorkTokens), NEW u \in Seq(WorkTokens), NEW c, Aligned(t, u, c),
         NEW i \in 1..Len(t), NEW e \in 1..Len(t) + 1, Solid(t, i)
  PROVE  /\ Colons(t, i, e) = {} <=> Colons(u, c[i], c[e]) = {}
         /\ Colons(t, i, e) # {} => /\ Max(Colons(t, i, e)) \in Colons(t, i, e)
                                    /\ Max(Colons(u, c[i], c[e])) = c[Max(Colons(t, i, e))]
<1>. DEFINE n == Len(t)
            m == Len(u)
            A == Colons(t, i, e)
            B == Colons(u, c[i], c[e])
            b == c[i]
            f == c[e]
<1>1. n \in Nat /\ m \in Nat /\ i \in 1..n /\ e \in 1..n + 1
  OBVIOUS
<1>2. Ordered(t, u, c)
  BY AlignedOrder
<1>3. /\ \A k \in 1..n + 1 : c[k] \in 1..m + 1
      /\ \A k, j \in 1..n + 1 : k <= j => c[k] <= c[j]
      /\ \A l \in 1..m + 1 : \E k \in 1..n + 1 : c[k] = l
  <2>. HIDE DEF A, B, b, f
  <2> QED
    BY <1>2 DEF Ordered
<1>4. \A k \in 1..n + 1 : Kind(u, c[k]) = Kind(t, k)
  <2>. HIDE DEF A, B, b, f
  <2> QED
    BY <1>2 DEF Ordered
<1>5. \A k, j \in 1..n + 1 : k < j /\ Solid(t, k) => c[k] < c[j]
  <2>. HIDE DEF A, B, b, f
  <2> QED
    BY <1>2 DEF Ordered, Solid
<1>6. /\ \A j : j \in A <=> j \in i + 1..e - 1 /\ Kind(t, j) = ":"
      /\ \A l : l \in B <=> l \in b + 1..f - 1 /\ Kind(u, l) = ":"
  BY DEF Colons
<1>. HIDE DEF n, m, A, B
<1>7. b \in Nat /\ f \in Nat /\ b \in 1..m + 1 /\ f \in 1..m + 1
  <2>1. i \in 1..n + 1
    BY <1>1
  <2>2. b \in 1..m + 1 /\ f \in 1..m + 1
    BY <1>1, <1>3, <2>1
  <2>. HIDE DEF b, f
  <2> QED
    BY <1>1, <2>2
<1>8. i \in Nat /\ e \in Nat
  BY <1>1
<1>9. ASSUME NEW k \in A
      PROVE  c[k] \in B
  <2>1. k \in i + 1..e - 1 /\ Kind(t, k) = ":" /\ Solid(t, k)
    BY <1>6 DEF Solid
  <2>2. k \in 1..n + 1 /\ i < k /\ k < e /\ i \in 1..n + 1
    BY <1>1, <1>8, <2>1
  <2>3. b < c[k] /\ c[k] < f /\ c[k] \in 1..m + 1 /\ Kind(u, c[k]) = ":"
    <3>1. b < c[k] /\ c[k] < f
      BY <1>1, <1>5, <2>1, <2>2
    <3> QED
      BY <1>3, <1>4, <2>1, <2>2, <3>1
  <2>. DEFINE x == c[k]
  <2>4. b < x /\ x < f /\ x \in 1..m + 1 /\ Kind(u, x) = ":"
    BY <2>3
  <2>. HIDE DEF x, b, f
  <2>5. x \in b + 1..f - 1
    BY <1>1, <1>7, <2>4
  <2> QED
    BY <1>6, <2>4, <2>5 DEF x
<1>10. ASSUME NEW l \in B
       PROVE  \E k \in A : c[k] = l
  <2>1. l \in b + 1..f - 1 /\ Kind(u, l) = ":"
    BY <1>6
  <2>2. l \in 1..m + 1 /\ b < l /\ l < f
    <3>. HIDE DEF b, f
    <3> QED
      BY <1>1, <1>7, <2>1
  <2>3. PICK k \in 1..n + 1 : c[k] = l
    BY <1>3, <2>2
  <2>4. Kind(t, k) = ":"
    BY <1>4, <2>1, <2>3
  <2>5. ~ (k <= i) /\ ~ (e <= k)
    BY <1>1, <1>3, <1>7, <2>2, <2>3
  <2>6. k \in i + 1..e - 1
    BY <1>1, <1>8, <2>3, <2>5
  <2> QED
    BY <1>6, <2>3, <2>4, <2>6
<1>11. A = {} <=> B = {}
  BY <1>9, <1>10
<1>12. ASSUME A # {}
       PROVE  Max(A) \in A /\ Max(B) = c[Max(A)]
  <2>1. A \in SUBSET Nat /\ \A k \in A : k <= e
    BY <1>6, <1>8
  <2>2. B \in SUBSET Nat /\ \A l \in B : l <= f
    <3>. HIDE DEF b, f
    <3> QED
      BY <1>6, <1>7
  <2>3. B # {}
    BY <1>11, <1>12
  <2>4. Max(A) \in A /\ \A k \in A : k <= Max(A)
    BY <1>8, <1>12, <2>1, MaxIsGreatest
  <2>5. Max(B) \in B /\ \A l \in B : l <= Max(B)
    BY <1>7, <2>2, <2>3, MaxIsGreatest
  <2>. DEFINE x == Max(A)
              y == Max(B)
  <2>. HIDE DEF x, y
  <2>6. x \in A /\ (\A k \in A : k <= x) /\ y \in B /\ \A l \in B : l <= y
    BY <2>4, <2>5 DEF x, y
  <2>7. c[x] \in B /\ c[x] <= y
    BY <1>9, <2>6
  <2>8. PICK k \in A : c[k] = y
    BY <1>10, <2>6
  <2>9. k \in 1..n + 1 /\ x \in 1..n + 1 /\ k <= x
    <3>1. k \in i + 1..e - 1 /\ x \in i + 1..e - 1
      BY <1>6, <2>6
    <3> QED
      BY <1>1, <1>8, <2>6, <3>1
  <2>10. c[k] <= c[x]
    BY <1>3, <2>9
  <2>11. y \in Nat /\ c[x] \in Nat
    BY <2>2, <2>6, <2>7
  <2>12. y = c[x]
    BY <2>7, <2>8, <2>10, <2>11
  <2> QED
    BY <2>6, <2>12 DEF x, y
<1> QED
  BY <1>11, <1>12 DEF A, B

\* A request id ends where its twin does.
LEMMA RequestEndsAgree ==
  ASSUME NEW t \in Seq(WorkTokens), NEW u \in Seq(WorkTokens), NEW c, Aligned(t, u, c),
         NEW i \in 1..Len(t)
  PROVE  EndsAgree(t, c, i, RequestEnd(t, i), RequestEnd(u, c[i]))
<1>1. c[i] \in 1..Len(u) /\ c[i] \in Nat /\ Kind(u, c[i]) = Kind(t, i)
  <2>1. i \in 1..Len(t) + 1 /\ i # Len(t) + 1
    OBVIOUS
  <2> QED
    BY <2>1, AlignedAt
<1>2. CASE Kind(t, i) = "request"
  <2>. DEFINE after == RunEnd(t, i + 1, Separators)
              after2 == RunEnd(u, c[i] + 1, Separators)
              A == Colons(t, i, after)
              B == Colons(u, c[i], after2)
              b == RequestBegin(t, i)
              b2 == RequestBegin(u, c[i])
              r == RunEnd(t, b, Valued)
  <2>1. Solid(t, i)
    BY <1>2 DEF Solid
  <2>2. /\ after \in i + 1..Len(t) + 1 /\ after \in 1..Len(t) + 1
        /\ after2 = c[after] /\ Kind(u, c[after]) = Kind(t, after)
    BY <2>1, AlignedAfter
  <2>3. /\ b = IF Kind(t, after) \in Valued \/ A = {} THEN after ELSE Max(A)
        /\ b2 = IF Kind(u, after2) \in Valued \/ B = {} THEN after2 ELSE Max(B)
    BY Zenon DEF RequestBegin, Colons
  <2>4. /\ RequestEnd(t, i) = IF Kind(t, i) = "request" /\ Kind(t, b) \in Valued THEN r ELSE i
        /\ RequestEnd(u, c[i]) = IF Kind(u, c[i]) = "request" /\ Kind(u, b2) \in Valued
                                 THEN RunEnd(u, b2, Valued) ELSE c[i]
    BY Zenon DEF RequestEnd, RequestBegin
  <2>. HIDE DEF after, after2, b, b2, r
  <2>5. /\ A = {} <=> B = {}
        /\ A # {} => Max(A) \in A /\ Max(B) = c[Max(A)]
    <3>. DEFINE C == Colons(u, c[i], c[after])
    <3>1. /\ A = {} <=> C = {}
          /\ A # {} => Max(A) \in A /\ Max(C) = c[Max(A)]
      BY <2>1, <2>2, ColonsAgree
    <3>2. B = C
      BY <2>2
    <3>. HIDE DEF A, B, C
    <3> QED
      BY <3>1, <3>2
  <2>6. b2 = c[b]
    <3>. HIDE DEF A, B
    <3> QED
      BY <2>2, <2>3, <2>5
  <2>7. b \in i + 1..Len(t) + 1
    BY RequestEnds DEF b
  <2>8. b \in 1..Len(t) + 1
    BY <2>7
  <2>9. Kind(u, b2) = Kind(t, b)
    BY <2>6, <2>8, AlignedAt
  <2>10. RunEnd(u, b2, Valued) = c[r]
    <3>1. "end" \notin Valued
      BY KindsAre
    <3> QED
      BY <2>6, <2>8, <3>1, AlignedRunEnd DEF r
  <2> QED
    BY <1>1, <1>2, <2>1, <2>4, <2>9, <2>10 DEF EndsAgree
<1>3. CASE Kind(t, i) # "request"
  <2>1. RequestEnd(t, i) = i /\ RequestEnd(u, c[i]) = c[i]
    BY <1>1, <1>3 DEF RequestEnd
  <2> QED
    BY <2>1 DEF EndsAgree
<1> QED
  BY <1>2, <1>3

Inked(x) == x.kind # " "

\* A match at i is replaced by the same tokens, none of which is a space.
SameBy(c, i, by, by2) ==
  by2[c[i]] = by[i] /\ \A q \in 1..Len(by[i]) : by[i][q].kind # " "

\* What makes the matches correspond.
LEMMA MatesIf ==
  ASSUME NEW t \in Seq(WorkTokens), NEW u \in Seq(WorkTokens), NEW c, Aligned(t, u, c),
         NEW ends, NEW by, NEW ends2, NEW by2,
         \A i \in 1..Len(t) : ends[i] \in i..Len(t) + 1,
         \A l \in 1..Len(u) : ends2[l] \in l..Len(u) + 1,
         \A i \in 1..Len(t) : EndsAgree(t, c, i, ends[i], ends2[c[i]]),
         \A i \in 1..Len(t) : ends[i] # i => SameBy(c, i, by, by2)
  PROVE  Mates(t, c, ends, by, ends2, by2)
<1>. DEFINE n == Len(t)
            m == Len(u)
<1>1. n \in Nat /\ m \in Nat
  OBVIOUS
<1>2. Ordered(t, u, c)
  BY AlignedOrder
<1>3. /\ \A k \in 1..n : c[k] \in 1..m
      /\ \A k, j \in 1..n + 1 : k < j /\ Solid(t, k) => c[k] < c[j]
  BY <1>2 DEF Ordered, Solid
<1>4. /\ \A i \in 1..n : ends[i] \in i..n + 1
      /\ \A l \in 1..m : ends2[l] \in l..m + 1
  OBVIOUS
<1>5. \A i \in 1..n : /\ ends[i] # i => Solid(t, i) /\ ends2[c[i]] = c[ends[i]]
                      /\ ends2[c[i]] # c[i] => ends[i] # i
  BY DEF EndsAgree
<1>. HIDE DEF n, m
<1>6. ASSUME NEW i \in 1..n
      PROVE  /\ Matched(ends, i) <=> ends[i] # i
             /\ Matched(ends2, c[i]) <=> ends2[c[i]] # c[i]
  <2>1. ends[i] \in i..n + 1
    BY <1>4
  <2>2. c[i] \in 1..m /\ ends2[c[i]] \in c[i]..m + 1
    BY <1>3, <1>4
  <2>. DEFINE x == c[i]
              y == ends2[c[i]]
  <2>3. x \in 1..m /\ y \in x..m + 1
    BY <2>2
  <2>. HIDE DEF x, y
  <2>4. y > x <=> y # x
    BY <1>1, <2>3
  <2>5. ends[i] > i <=> ends[i] # i
    BY <1>1, <2>1
  <2> QED
    BY <2>4, <2>5 DEF Matched, x, y
<1>7. ASSUME NEW i \in 1..n
      PROVE  Matched(ends, i) <=> Matched(ends2, c[i])
  <2>1. ends[i] # i => ends2[c[i]] # c[i]
    <3>. SUFFICES ASSUME ends[i] # i
                  PROVE  ends2[c[i]] # c[i]
      OBVIOUS
    <3>1. i \in 1..n + 1 /\ ends[i] \in 1..n + 1 /\ i < ends[i]
      BY <1>1, <1>4
    <3>2. c[i] < c[ends[i]] /\ ends2[c[i]] = c[ends[i]]
      BY <1>3, <1>5, <3>1
    <3>3. c[i] \in Nat
      BY <1>1, <1>3
    <3> QED
      BY <3>2, <3>3
  <2> QED
    BY <1>5, <1>6, <2>1
<1>8. ASSUME NEW i \in 1..n, Matched(ends, i)
      PROVE  /\ Kind(t, i) # " " /\ ends2[c[i]] = c[ends[i]]
             /\ Len(by2[c[i]]) = Len(by[i])
             /\ \A q \in 1..Len(by[i]) : by2[c[i]][q] = by[i][q] /\ by[i][q].kind # " "
  <2>1. ends[i] # i
    BY <1>6, <1>8
  <2>2. SameBy(c, i, by, by2)
    BY <2>1 DEF n
  <2> QED
    BY <1>5, <2>1, <2>2 DEF SameBy, Solid
<1> QED
  BY <1>7, <1>8 DEF Mates, n

\* What a substitution puts there is neither a space nor the end.
LEMMA KindsOfMarks ==
  /\ Inked(Placeholder("line")) /\ Inked(Placeholder("request_id"))
  /\ Inked(Placeholder("id")) /\ Inked(Mark(":")) /\ Inked(Mark("="))
BY DEF Placeholder, Mark, Token, Inked

\* Both texts get the same three tokens.
LEMMA SameTriple ==
  ASSUME NEW c, NEW i, NEW by, NEW by2, NEW x, NEW y, NEW z,
         Inked(x), Inked(y), Inked(z)
  PROVE  /\ by[i] = <<x, y, z>> /\ by2[c[i]] = <<x, y, z>> => SameBy(c, i, by, by2)
         /\ by[i] = <<x, y>> /\ by2[c[i]] = <<x, y>> => SameBy(c, i, by, by2)
<1>. DEFINE s == <<x, y, z>>
            p == <<x, y>>
<1>1. s[1] = x /\ s[2] = y /\ s[3] = z /\ Len(s) = 3 /\ p[1] = x /\ p[2] = y /\ Len(p) = 2
  OBVIOUS
<1>2. \A q \in 1..3 : q = 1 \/ q = 2 \/ q = 3
  OBVIOUS
<1>3. \A q \in 1..2 : q = 1 \/ q = 2
  OBVIOUS
<1>. HIDE DEF s, p
<1>4. \A q \in 1..3 : Inked(s[q])
  BY <1>1, <1>2
<1>5. \A q \in 1..2 : Inked(p[q])
  BY <1>1, <1>3
<1>6. /\ by[i] = s /\ by2[c[i]] = s => SameBy(c, i, by, by2)
      /\ by[i] = p /\ by2[c[i]] = p => SameBy(c, i, by, by2)
  BY <1>1, <1>4, <1>5 DEF SameBy, Inked
<1> QED
  BY <1>6 DEF s, p

Plain(t, i) == Kind(t, i) \in {"frame", "location", "request", "label", ":"}

Same(t, u, c, i) == c[i] \in 1..Len(u) /\ u[c[i]] = t[i] /\ Inked(t[i])

\* What is at a place that is no space is the same in the other text, if it is
\* of one of these kinds.
LEMMA PlainToken ==
  ASSUME NEW t \in Seq(WorkTokens), NEW u \in Seq(WorkTokens), NEW c, Aligned(t, u, c),
         NEW line, NEW left, Alike(t, u, c, line, left), NEW i \in 1..Len(t), Plain(t, i)
  PROVE  Same(t, u, c, i)
<1>1. Kind(t, i) \in {"frame", "location", "request", "label", ":"}
  BY DEF Plain
<1>2. t[i] = u[c[i]]
  BY <1>1, PlainAlike
<1>3. Inked(t[i])
  <2>1. Kind(t, i) = t[i].kind
    BY DEF Kind
  <2> QED
    BY <1>1, <2>1 DEF Inked
<1>4. c[i] \in 1..Len(u)
  <2>1. Ordered(t, u, c)
    BY AlignedOrder
  <2> QED
    BY <2>1 DEF Ordered
<1> QED
  BY <1>2, <1>3, <1>4 DEF Same

\* The matches of frames, request ids, labels and colons correspond.
LEMMA FrameMates ==
  ASSUME NEW t \in Seq(WorkTokens), NEW u \in Seq(WorkTokens), NEW c, Aligned(t, u, c),
         NEW line, NEW left, Alike(t, u, c, line, left)
  PROVE  Mates(t, c, FrameEndsOf(t), FrameBy(t), FrameEndsOf(u), FrameBy(u))
<1>1. DOMAIN t = 1..Len(t) /\ DOMAIN u = 1..Len(u)
  OBVIOUS
<1>2. /\ \A i \in 1..Len(t) : FrameEndsOf(t)[i] = FrameEnd(t, i)
      /\ \A l \in 1..Len(u) : FrameEndsOf(u)[l] = FrameEnd(u, l)
  BY <1>1 DEF FrameEndsOf
<1>3. /\ \A i \in 1..Len(t) : FrameEndsOf(t)[i] \in i..Len(t) + 1
      /\ \A l \in 1..Len(u) : FrameEndsOf(u)[l] \in l..Len(u) + 1
  BY <1>2, FrameEnds
<1>4. \A i \in 1..Len(t) : c[i] \in 1..Len(u)
  BY AlignedOrder DEF Ordered
<1>5. \A i \in 1..Len(t) : EndsAgree(t, c, i, FrameEndsOf(t)[i], FrameEndsOf(u)[c[i]])
  BY <1>2, <1>4, FrameEndsAgree
<1>6. ASSUME NEW i \in 1..Len(t), FrameEndsOf(t)[i] # i
      PROVE  SameBy(c, i, FrameBy(t), FrameBy(u))
  <2>1. /\ Kind(t, i) = "frame" /\ Kind(t, i + 1) \in Numbers /\ Kind(t, i + 2) = "location"
    BY <1>2, <1>6, FrameEnds
  <2>2. Solid(t, i) /\ Solid(t, i + 1) /\ Kind(t, i + 1) # "end" /\ Kind(t, i + 2) # "end"
    BY <2>1, NumbersAreNot DEF Solid
  <2>3. c[i + 1] = c[i] + 1 /\ i + 1 \in 1..Len(t)
    BY <2>2, AlignedNext
  <2>4. /\ c[(i + 1) + 1] = c[i + 1] + 1
        /\ Kind(t, (i + 1) + 1) # "end" => (i + 1) + 1 \in 1..Len(t)
    BY <2>2, <2>3, AlignedNext
  <2>5. (i + 1) + 1 = i + 2 /\ c[i] + 1 + 1 = c[i] + 2
    BY <1>4
  <2>6. c[i + 2] = c[i] + 2 /\ i + 2 \in 1..Len(t)
    BY <2>2, <2>3, <2>4, <2>5
  <2>7. Same(t, u, c, i)
    <3>1. Plain(t, i)
      BY <2>1 DEF Plain
    <3> QED
      BY <3>1, PlainToken, Zenon
  <2>8. u[c[i] + 2] = t[i + 2] /\ Inked(t[i + 2])
    <3>1. PICK p \in 1..Len(t) : p = i + 2
      BY <2>6
    <3>2. Plain(t, p)
      BY <2>1, <3>1 DEF Plain
    <3>3. Same(t, u, c, p)
      BY <3>1, <3>2, PlainToken, Zenon
    <3> QED
      BY <2>6, <3>1, <3>3 DEF Same
  <2>9. /\ FrameBy(t)[i] = <<t[i], Placeholder("line"), t[i + 2]>>
        /\ FrameBy(u)[c[i]] = <<u[c[i]], Placeholder("line"), u[c[i] + 2]>>
    BY <1>1, <2>7 DEF FrameBy, Same
  <2>10. FrameBy(u)[c[i]] = <<t[i], Placeholder("line"), t[i + 2]>>
    BY <2>7, <2>8, <2>9 DEF Same
  <2> QED
    BY <2>7, <2>8, <2>9, <2>10, KindsOfMarks, SameTriple DEF Same
<1> QED
  BY <1>3, <1>5, <1>6, MatesIf

\* Request ids are put alike into both texts.
LEMMA RequestMates ==
  ASSUME NEW t \in Seq(WorkTokens), NEW u \in Seq(WorkTokens), NEW c, Aligned(t, u, c),
         NEW line, NEW left, Alike(t, u, c, line, left)
  PROVE  Mates(t, c, RequestEndsOf(t), RequestBy(t), RequestEndsOf(u), RequestBy(u))
<1>1. DOMAIN t = 1..Len(t) /\ DOMAIN u = 1..Len(u)
  OBVIOUS
<1>2. /\ \A i \in 1..Len(t) : RequestEndsOf(t)[i] = RequestEnd(t, i)
      /\ \A l \in 1..Len(u) : RequestEndsOf(u)[l] = RequestEnd(u, l)
  BY <1>1 DEF RequestEndsOf
<1>3. /\ \A i \in 1..Len(t) : RequestEndsOf(t)[i] \in i..Len(t) + 1
      /\ \A l \in 1..Len(u) : RequestEndsOf(u)[l] \in l..Len(u) + 1
  BY <1>2, RequestEnds
<1>4. \A i \in 1..Len(t) : c[i] \in 1..Len(u)
  BY AlignedOrder DEF Ordered
<1>5. \A i \in 1..Len(t) : EndsAgree(t, c, i, RequestEndsOf(t)[i], RequestEndsOf(u)[c[i]])
  BY <1>2, <1>4, RequestEndsAgree
<1>6. ASSUME NEW i \in 1..Len(t), RequestEndsOf(t)[i] # i
      PROVE  SameBy(c, i, RequestBy(t), RequestBy(u))
  <2>1. Kind(t, i) = "request"
    BY <1>2, <1>6, RequestEnds
  <2>2. Same(t, u, c, i)
    <3>1. Plain(t, i)
      BY <2>1 DEF Plain
    <3> QED
      BY <3>1, PlainToken, Zenon
  <2>3. /\ RequestBy(t)[i] = <<t[i], Mark(":"), Placeholder("request_id")>>
        /\ RequestBy(u)[c[i]] = <<u[c[i]], Mark(":"), Placeholder("request_id")>>
    BY <1>1, <2>2 DEF RequestBy, Same
  <2>4. RequestBy(u)[c[i]] = <<t[i], Mark(":"), Placeholder("request_id")>>
    BY <2>2, <2>3 DEF Same
  <2> QED
    BY <2>2, <2>3, <2>4, KindsOfMarks, SameTriple DEF Same
<1> QED
  BY <1>3, <1>5, <1>6, MatesIf

\* Labelled numbers are put alike into both texts.
LEMMA LabelMates ==
  ASSUME NEW t \in Seq(WorkTokens), NEW u \in Seq(WorkTokens), NEW c, Aligned(t, u, c),
         NEW line, NEW left, Alike(t, u, c, line, left)
  PROVE  Mates(t, c, LabelEndsOf(t), LabelBy(t), LabelEndsOf(u), LabelBy(u))
<1>1. DOMAIN t = 1..Len(t) /\ DOMAIN u = 1..Len(u)
  OBVIOUS
<1>2. /\ \A i \in 1..Len(t) : LabelEndsOf(t)[i] = LabelEnd(t, i)
      /\ \A l \in 1..Len(u) : LabelEndsOf(u)[l] = LabelEnd(u, l)
  BY <1>1 DEF LabelEndsOf
<1>3. /\ \A i \in 1..Len(t) : LabelEndsOf(t)[i] \in i..Len(t) + 1
      /\ \A l \in 1..Len(u) : LabelEndsOf(u)[l] \in l..Len(u) + 1
  BY <1>2, LabelEnds
<1>4. \A i \in 1..Len(t) : c[i] \in 1..Len(u)
  BY AlignedOrder DEF Ordered
<1>5. \A i \in 1..Len(t) : EndsAgree(t, c, i, LabelEndsOf(t)[i], LabelEndsOf(u)[c[i]])
  BY <1>2, <1>4, LabelEndsAgree
<1>6. ASSUME NEW i \in 1..Len(t), LabelEndsOf(t)[i] # i
      PROVE  SameBy(c, i, LabelBy(t), LabelBy(u))
  <2>1. Kind(t, i) \in {"label", "request", "frame"}
    BY <1>2, <1>6, LabelEnds
  <2>2. Same(t, u, c, i)
    <3>1. Plain(t, i)
      BY <2>1 DEF Plain
    <3> QED
      BY <3>1, PlainToken, Zenon
  <2>3. /\ LabelBy(t)[i] = <<t[i], Mark("="), Placeholder("id")>>
        /\ LabelBy(u)[c[i]] = <<u[c[i]], Mark("="), Placeholder("id")>>
    BY <1>1, <2>2 DEF LabelBy, Same
  <2>4. LabelBy(u)[c[i]] = <<t[i], Mark("="), Placeholder("id")>>
    BY <2>2, <2>3 DEF Same
  <2> QED
    BY <2>2, <2>3, <2>4, KindsOfMarks, SameTriple DEF Same
<1> QED
  BY <1>3, <1>5, <1>6, MatesIf

\* Numbers behind a colon are put alike into both texts.
LEMMA ColonMates ==
  ASSUME NEW t \in Seq(WorkTokens), NEW u \in Seq(WorkTokens), NEW c, Aligned(t, u, c),
         NEW line, NEW left, Alike(t, u, c, line, left)
  PROVE  Mates(t, c, ColonEndsOf(t), ColonBy(t), ColonEndsOf(u), ColonBy(u))
<1>1. DOMAIN t = 1..Len(t) /\ DOMAIN u = 1..Len(u)
  OBVIOUS
<1>2. /\ \A i \in 1..Len(t) : ColonEndsOf(t)[i] = ColonEnd(t, i)
      /\ \A l \in 1..Len(u) : ColonEndsOf(u)[l] = ColonEnd(u, l)
  BY <1>1 DEF ColonEndsOf
<1>3. /\ \A i \in 1..Len(t) : ColonEndsOf(t)[i] \in i..Len(t) + 1
      /\ \A l \in 1..Len(u) : ColonEndsOf(u)[l] \in l..Len(u) + 1
  BY <1>2, ColonEnds
<1>4. \A i \in 1..Len(t) : c[i] \in 1..Len(u)
  BY AlignedOrder DEF Ordered
<1>5. \A i \in 1..Len(t) : EndsAgree(t, c, i, ColonEndsOf(t)[i], ColonEndsOf(u)[c[i]])
  BY <1>2, <1>4, ColonEndsAgree
<1>6. ASSUME NEW i \in 1..Len(t), ColonEndsOf(t)[i] # i
      PROVE  SameBy(c, i, ColonBy(t), ColonBy(u))
  <2>1. Kind(t, i) = ":"
    BY <1>2, <1>6, ColonEnds
  <2>2. Same(t, u, c, i)
    <3>1. Plain(t, i)
      BY <2>1 DEF Plain
    <3> QED
      BY <3>1, PlainToken, Zenon
  <2>3. /\ ColonBy(t)[i] = <<t[i], Placeholder("line")>>
        /\ ColonBy(u)[c[i]] = <<u[c[i]], Placeholder("line")>>
    BY <1>1, <2>2 DEF ColonBy, Same
  <2>4. ColonBy(u)[c[i]] = <<t[i], Placeholder("line")>>
    BY <2>2, <2>3 DEF Same
  <2> QED
    BY <2>2, <2>3, <2>4, KindsOfMarks, SameTriple DEF Same
<1> QED
  BY <1>3, <1>5, <1>6, MatesIf

-----------------------------------------------------------------------------
(* What a substitution leaves to those that come *)

\* A token that is kept.
Kept(t, ends, by, k, p) ==
  k \in 1..Len(WalkOf(t, ends, by)) /\ WalkOf(t, ends, by)[k] = Place(p, 0)

\* It was not matched, and is what it was.
LEMMA KeptIs ==
  ASSUME NEW t \in Seq(WorkTokens), NEW ends, NEW by, Fits(Len(t), ends, by, WorkTokens),
         NEW k, NEW p, Kept(t, ends, by, k, p)
  PROVE  /\ p \in 1..Len(t) /\ ~ Matched(ends, p)
         /\ k \in 1..Len(Substitute(t, ends, by))
         /\ Kind(Substitute(t, ends, by), k) = Kind(t, p)
<1>. DEFINE w == WalkOf(t, ends, by)
            n == Len(t)
            size == Sizes(t, by)
            new == Substitute(t, ends, by)
<1>1. /\ Sized(n, ends, size) /\ IsWalk(w, 1, n, ends, size)
      /\ new \in Seq(WorkTokens) /\ Len(new) = Len(w)
      /\ \A l \in 1..Len(w) : new[l] = Picked(t, by, w[l])
  BY WalkOfText
<1>2. n \in Nat
  OBVIOUS
<1>3. k \in 1..Len(w) /\ w[k] = Place(p, 0)
  BY DEF Kept
<1>. HIDE DEF w, n, size, new
<1>4. \A x, y : Place(x, y).at = x /\ Place(x, y).part = y
  BY DEF Place
<1>5. w[k].at = p /\ w[k].part = 0
  BY <1>3, <1>4
<1>6. p \in 1..n /\ (Matched(ends, p) => w[k].part \in 1..size[p])
  BY <1>1, <1>2, <1>3, <1>5, WalkSteps
<1>7. ~ Matched(ends, p)
  <2>1. 0 \notin 1..size[p]
    OBVIOUS
  <2> QED
    BY <1>5, <1>6, <2>1
<1>8. new[k] = t[p]
  BY <1>1, <1>3, <1>5 DEF Picked
<1>9. k \in Nat /\ p \in Nat /\ k \in 1..Len(new)
  BY <1>1, <1>3, <1>6
<1>10. Kind(new, k) = Kind(t, p)
  <2>1. Kind(new, k) = new[k].kind
    BY <1>1, <1>9, KindIs
  <2>2. Kind(t, p) = t[p].kind
    BY <1>6, <1>9, KindIs DEF n
  <2> QED
    BY <1>8, <2>1, <2>2
<1> QED
  BY <1>6, <1>7, <1>9, <1>10 DEF n, new

\* Where no match comes before it, it is claimed as it was.
LEMMA ClaimStays ==
  ASSUME NEW t \in Seq(WorkTokens), NEW ends, NEW by, Fits(Len(t), ends, by, WorkTokens),
         NEW k, NEW p, Kept(t, ends, by, k, p),
         \A i \in 1..p : ~ Matched(ends, i),
         NEW line, NEW left, Claimed(t, line, left, p)
  PROVE  Claimed(Substitute(t, ends, by), line, left, k)
<1>. DEFINE w == WalkOf(t, ends, by)
            n == Len(t)
            size == Sizes(t, by)
            new == Substitute(t, ends, by)
<1>1. /\ Sized(n, ends, size) /\ IsWalk(w, 1, n, ends, size)
      /\ new \in Seq(WorkTokens)
  BY WalkOfText
<1>2. n \in Nat
  OBVIOUS
<1>3. k \in 1..Len(w) /\ w[k] = Place(p, 0)
  BY DEF Kept
<1>4. p \in 1..n
  BY KeptIs
<1>5. \A q \in 1..p : Kind(new, q) = Kind(t, q) /\ Kept(t, ends, by, q, q)
  <2>1. \A q \in 1..p : q \in 1..Len(w) /\ w[q] = Place(q, 0)
    <3>. HIDE DEF w, n, size, new
    <3> QED
      BY <1>1, <1>2, <1>4, BeforeMatches
  <2>2. \A q \in 1..p : Kept(t, ends, by, q, q)
    <3>1. \A q \in 1..p : q \in 1..Len(WalkOf(t, ends, by)) /\ WalkOf(t, ends, by)[q] = Place(q, 0)
      BY <2>1
    <3> QED
      BY <3>1, Zenon DEF Kept
  <2> QED
    BY <2>2, KeptIs
<1>6. k = p
  <2>1. p \in 1..Len(w) /\ w[p] = Place(p, 0) /\ p \in Nat /\ p >= 1 /\ p + 1 > p
    <3>1. Kept(t, ends, by, p, p)
      BY <1>4, <1>5
    <3> QED
      BY <1>4, <3>1 DEF Kept
  <2>2. \A x, y : Place(x, y).at = x /\ Place(x, y).part = y
    BY DEF Place
  <2>3. Beyond(ends, p) = p + 1
    <3>1. ~ Matched(ends, p)
      BY KeptIs
    <3> QED
      BY <3>1 DEF Beyond
  <2>4. \A a, b \in 1..Len(w) : a < b => \/ w[b].at = w[a].at /\ w[b].part > w[a].part
                                         \/ w[b].at >= Beyond(ends, w[a].at)
    BY <1>1, Zenon DEF IsWalk, InOrder
  <2>. HIDE DEF w, n
  <2>5. w[p].at = p /\ w[p].part = 0 /\ w[k].at = p /\ w[k].part = 0
    BY <1>3, <2>1, <2>2
  <2>6. ~ (k < p) /\ ~ (p < k)
    BY <1>3, <2>1, <2>3, <2>4, <2>5
  <2> QED
    BY <1>3, <2>1, <2>6
<1>7. Shifted(t, new, 0, p)
  <2>1. \A q \in 1..p : q + 0 = q
    BY <1>4
  <2>2. 1..0 = {}
    OBVIOUS
  <2>. HIDE DEF new
  <2> QED
    BY <1>5, <2>1, <2>2 DEF Shifted
<1>8. p \in Nat /\ p >= 1 /\ p = p + 0 /\ 0 \in Nat
  BY <1>4
<1>. HIDE DEF new, n
<1>9. Claimed(new, line, left, p)
  BY <1>1, <1>7, <1>8, ClaimedMoves
<1> QED
  BY <1>6, <1>9 DEF new

\* The token before it was there too, if it is not the last of a match.
LEMMA KeptNext ==
  ASSUME NEW t \in Seq(WorkTokens), NEW ends, NEW by, Fits(Len(t), ends, by, WorkTokens),
         NEW k, NEW p, Kept(t, ends, by, k, p), p > 1,
         \A q \in 1..Len(t) : Matched(ends, q) => ends[q] # p
  PROVE  /\ Kind(Substitute(t, ends, by), k - 1) = Kind(t, p - 1)
         /\ ~ Matched(ends, p - 1)
<1>. DEFINE w == WalkOf(t, ends, by)
            n == Len(t)
            size == Sizes(t, by)
<1>1. Sized(n, ends, size) /\ IsWalk(w, 1, n, ends, size)
  BY WalkOfText
<1>2. n \in Nat
  OBVIOUS
<1>3. k \in 1..Len(w) /\ w[k] = Place(p, 0)
  BY DEF Kept
<1>4. \A x, y : Place(x, y).at = x /\ Place(x, y).part = y
  BY DEF Place
<1>5. w[k].at = p /\ w[k].part = 0
  BY <1>3, <1>4
<1>6. /\ k - 1 \in 1..Len(w) /\ w[k - 1].at \in 1..n
      /\ \/ ~ Matched(ends, w[k - 1].at) /\ w[k - 1].part = 0 /\ w[k - 1].at = w[k].at - 1
         \/ Matched(ends, w[k - 1].at) /\ ends[w[k - 1].at] = w[k].at
  <2>. HIDE DEF w, n, size
  <2> QED
    BY <1>1, <1>2, <1>3, <1>5, KeptBehind
<1>7. w[k - 1].part = 0 /\ w[k - 1].at = p - 1
  BY <1>5, <1>6
<1>8. w[k - 1] = Place(p - 1, 0)
  <2>1. w[k - 1] \in Places
    BY <1>1, <1>6 DEF IsWalk
  <2>. HIDE DEF w
  <2> QED
    BY <1>7, <2>1 DEF Places, Place
<1>9. Kept(t, ends, by, k - 1, p - 1)
  BY <1>6, <1>8 DEF Kept
<1> QED
  BY <1>9, KeptIs

\* It is enough to look at what is claimed.
LEMMA CarriesIf ==
  ASSUME NEW t \in Seq(WorkTokens), NEW ends, NEW by, Fits(Len(t), ends, by, WorkTokens),
         NEW line, NEW left, NEW name, name \notin Replaced,
         \A k, p : Kept(t, ends, by, k, p) /\ Claimed(t, line, left, p)
                     => Claimed(Substitute(t, ends, by), line, left \ {name}, k)
  PROVE  Carries(t, line, left, ends, by, left \ {name})
<1>. DEFINE w == WalkOf(t, ends, by)
            new == Substitute(t, ends, by)
            less == left \ {name}
<1>1. w \in Seq(Places)
  <2>1. IsWalk(w, 1, Len(t), ends, Sizes(t, by))
    BY WalkOfText
  <2> QED
    BY <2>1 DEF IsWalk
<1>2. ASSUME NEW k \in 1..Len(w), w[k].part = 0, Awaits(t, line, left, w[k].at)
      PROVE  Awaits(new, line, less, k)
  <2>. DEFINE p == w[k].at
  <2>1. w[k] = Place(p, 0)
    <3>1. w[k] \in Places
      BY <1>1
    <3>. HIDE DEF w
    <3> QED
      BY <1>2, <3>1 DEF Places, Place
  <2>2. Kept(t, ends, by, k, p)
    BY <2>1 DEF Kept
  <2>. HIDE DEF p
  <2>3. Kind(new, k) = Kind(t, p)
    BY <2>2, KeptIs
  <2>4. CASE Claimed(t, line, left, p)
    BY <2>2, <2>4 DEF Awaits
  <2>5. CASE Kind(t, p) \in Replaced /\ ReplacedBy(Kind(t, p)) \in left
    <3>1. ReplacedBy(Kind(t, p)) \in Replaced
      BY <2>5 DEF ReplacedBy, Replaced
    <3>2. ReplacedBy(Kind(t, p)) \in less
      BY <2>5, <3>1
    <3> QED
      BY <2>3, <2>5, <3>2 DEF Awaits
  <2> QED
    BY <1>2, <2>4, <2>5 DEF Awaits, p
<1> QED
  BY <1>2 DEF Carries

\* What is before a token that is kept is kept or in a match that ends before it.
LEMMA KeptPast ==
  ASSUME NEW t \in Seq(WorkTokens), NEW ends, NEW by, Fits(Len(t), ends, by, WorkTokens),
         NEW k, NEW p, Kept(t, ends, by, k, p), NEW j \in 1..p
  PROVE  \E x \in 1..j : IF Matched(ends, x) THEN j < ends[x] /\ ends[x] <= p ELSE x = j
<1>. DEFINE w == WalkOf(t, ends, by)
            n == Len(t)
            size == Sizes(t, by)
<1>1. Sized(n, ends, size) /\ IsWalk(w, 1, n, ends, size)
  BY WalkOfText
<1>2. n \in Nat
  OBVIOUS
<1>3. k \in 1..Len(w) /\ w[k] = Place(p, 0)
  BY DEF Kept
<1>4. \A x, y : Place(x, y).at = x /\ Place(x, y).part = y
  BY DEF Place
<1>. HIDE DEF w, n, size
<1>5. w[k].at = p /\ w[k].part = 0
  BY <1>3, <1>4
<1>6. w[k].part = 0 /\ j \in 1..w[k].at
  BY <1>5
<1>7. \E x \in 1..j : IF Matched(ends, x) THEN j < ends[x] /\ ends[x] <= w[k].at ELSE x = j
  BY <1>1, <1>2, <1>3, <1>6, BeforeKept
<1> QED
  BY <1>7, <1>5

\* What the first token behind a label is, position by position.
Behind(t, i, label, j) ==
  /\ j \in 1..i - 2 /\ Kind(t, j) = label
  /\ \A k \in j + 1..i - 1 : Kind(t, k) \in Separators
  /\ \A k \in 1..j - 1 : Kind(t, k) # "request"

\* What it means to be after a label.
LEMMA AfterIs ==
  ASSUME NEW t, NEW i, NEW label, After(t, i, label)
  PROVE  \E j : Behind(t, i, label, j)
BY Zenon DEF After, Behind

\* The separators behind it end there.
LEMMA BehindEnds ==
  ASSUME NEW t \in Seq(WorkTokens), NEW i \in 1..Len(t), NEW label, NEW j,
         Behind(t, i, label, j), Kind(t, i) \notin Separators
  PROVE  /\ j \in 1..Len(t) /\ j \in 1..i - 2 /\ i > j + 1
         /\ RunEnd(t, j + 1, Separators) = i
<1>. DEFINE n == Len(t)
            b == j + 1
<1>1. n \in Nat /\ i \in 1..n
  OBVIOUS
<1>2. j \in 1..i - 2 /\ \A k \in j + 1..i - 1 : Kind(t, k) \in Separators
  BY DEF Behind
<1>3. j \in 1..n /\ i > j + 1 /\ b \in 1..n + 1 /\ i \in b..n + 1
  <2>. HIDE DEF n
  <2> QED
    BY <1>1, <1>2
<1>4. \A k \in b..i - 1 : Kind(t, k) \in Separators
  BY <1>2
<1>. HIDE DEF b
<1>5. RunEnd(t, b, Separators) = i
  <2>1. "end" \notin Separators
    BY DEF Separators
  <2> QED
    BY <1>3, <1>4, <2>1, RunEndIs
<1> QED
  BY <1>2, <1>3, <1>5 DEF b, n

\* What is claimed is a small number or a word.
LEMMA ClaimedKinds ==
  /\ {"small", "word"} \cap Separators = {} /\ {"small", "word"} \subseteq Valued
  /\ "small" \in Numbers /\ {"frame", "label", "request", ":"} \cap Numbers = {}
  /\ {"frame", "label", "request", "small", "word"} \cap Separators = {}
BY DEF Separators, Valued, Worded, Numbers

\* Request ids leave to the substitutions that come what they claim.
LEMMA RequestCarries ==
  ASSUME NEW t \in Seq(WorkTokens), NEW line, NEW left
  PROVE  Carries(t, line, left, RequestEndsOf(t), RequestBy(t), left \ {"request_id"})
<1>. DEFINE ends == RequestEndsOf(t)
            by == RequestBy(t)
            n == Len(t)
            less == left \ {"request_id"}
            new == Substitute(t, ends, by)
<1>1. Fits(n, ends, by, WorkTokens)
  BY SubstitutionsFit
<1>2. n \in Nat /\ DOMAIN t = 1..n
  OBVIOUS
<1>3. \A i \in 1..n : ends[i] = RequestEnd(t, i)
  BY <1>2 DEF RequestEndsOf
<1>4. ASSUME NEW i \in 1..n
      PROVE  /\ Matched(ends, i) <=> RequestEnd(t, i) # i
             /\ Matched(ends, i) => Kind(t, i) = "request" /\ Kind(t, ends[i]) \notin Valued
  <2>. DEFINE e == RequestEnd(t, i)
  <2>1. /\ e \in i..Len(t) + 1
        /\ e # i => Kind(t, i) = "request" /\ Kind(t, e) \notin Valued
    BY RequestEnds
  <2>2. ends[i] = e
    BY <1>3
  <2>. HIDE DEF e, ends
  <2>3. e > i <=> e # i
    BY <1>2, <2>1
  <2> QED
    BY <2>1, <2>2, <2>3 DEF Matched, e
<1>. HIDE DEF ends, by, n
<1>5. ASSUME NEW k, NEW p, Kept(t, ends, by, k, p), Claimed(t, line, left, p)
      PROVE  Claimed(new, line, less, k)
  <2>1. p \in 1..n /\ Kind(new, k) = Kind(t, p)
    BY <1>1, <1>5, KeptIs DEF n
  <2>2. CASE Kind(t, p) \in {"small", "word"} /\ After(t, p, "request")
    <3>1. PICK j : Behind(t, p, "request", j)
      BY <2>2, AfterIs
    <3>2. Kind(t, p) \notin Separators /\ Kind(t, p) \in Valued
      BY <2>2, ClaimedKinds
    <3>3. /\ j \in 1..n /\ j \in 1..p - 2 /\ RunEnd(t, j + 1, Separators) = p
      BY <2>1, <3>1, <3>2, BehindEnds DEF n
    <3>4. Kind(t, j) = "request" /\ \A i \in 1..j - 1 : Kind(t, i) # "request"
      BY <3>1 DEF Behind
    <3>5. RequestBegin(t, j) = p
      BY <3>2, <3>3 DEF RequestBegin
    <3>6. RequestEnd(t, j) # j /\ p < RequestEnd(t, j)
      BY <3>2, <3>3, <3>4, <3>5, RequestEnds DEF n
    <3>7. Matched(ends, j) /\ p < ends[j]
      BY <1>3, <1>4, <3>3, <3>6
    <3>8. PICK x \in 1..j : IF Matched(ends, x) THEN j < ends[x] /\ ends[x] <= p ELSE x = j
      <4>1. j \in 1..p
        BY <2>1, <3>3
      <4> QED
        BY <1>1, <1>5, <4>1, KeptPast DEF n
    <3>9. Matched(ends, x) => x = j
      <4>1. x \in 1..n /\ (x = j \/ x \in 1..j - 1)
        BY <1>2, <3>3, <3>8
      <4> QED
        BY <1>4, <3>4, <4>1
    <3>10. ends[j] \in Nat /\ p \in Nat
      <4>1. ends[j] \in 1..n + 1
        BY <1>1, <3>3 DEF Fits
      <4> QED
        BY <1>2, <2>1, <4>1
    <3> QED
      BY <3>7, <3>8, <3>9, <3>10
  <2>3. CASE "label" \in left /\ Kind(t, p) = "small" /\ After(t, p, "label")
    <3>1. PICK j : Behind(t, p, "label", j)
      BY <2>3, AfterIs
    <3>2. /\ j \in 1..p - 2 /\ Kind(t, j) = "label"
          /\ \A i \in j + 1..p - 1 : Kind(t, i) \in Separators
          /\ \A i \in 1..j - 1 : Kind(t, i) # "request"
      BY <3>1 DEF Behind
    <3>3. \A i \in 1..p : i \in 1..n /\ (i \in 1..j - 1 \/ i = j \/ i \in j + 1..p - 1 \/ i = p)
      BY <1>2, <2>1, <3>2
    <3>4. \A i \in 1..p : Kind(t, i) # "request"
      BY <2>3, <3>2, <3>3, ClaimedKinds
    <3>5. \A i \in 1..p : ~ Matched(ends, i)
      BY <1>4, <3>3, <3>4
    <3>6. Claimed(t, line, less, p)
      BY <2>3 DEF Claimed
    <3> QED
      BY <1>1, <1>5, <3>5, <3>6, ClaimStays DEF n
  <2>4. CASE Kind(t, p) = "small" /\ Kind(t, p - 1) \in {"frame", ":"}
    <3>1. p > 1
      <4>1. Kind(t, 0) = "end"
        BY KindIs
      <4>2. p - 1 # 0
        BY <2>4, <4>1
      <4> QED
        BY <2>1, <4>2
    <3>2. \A q \in 1..n : Matched(ends, q) => ends[q] # p
      BY <1>4, <2>4, ClaimedKinds
    <3>3. Kind(new, k - 1) = Kind(t, p - 1)
      BY <1>1, <1>5, <3>1, <3>2, KeptNext DEF n
    <3> QED
      BY <1>5, <2>1, <2>2, <2>3, <2>4, <3>3 DEF Claimed
  <2> QED
    BY <1>5, <2>2, <2>3, <2>4 DEF Claimed
<1>6. "request_id" \notin Replaced
  BY DEF Replaced
<1> QED
  BY <1>1, <1>5, <1>6, CarriesIf DEF n, ends, by

\* So do labelled numbers.
LEMMA LabelCarries ==
  ASSUME NEW t \in Seq(WorkTokens), NEW line, NEW left, "request_id" \notin left
  PROVE  Carries(t, line, left, LabelEndsOf(t), LabelBy(t), left \ {"label"})
<1>. DEFINE ends == LabelEndsOf(t)
            by == LabelBy(t)
            n == Len(t)
            less == left \ {"label"}
            new == Substitute(t, ends, by)
<1>1. Fits(n, ends, by, WorkTokens)
  BY SubstitutionsFit
<1>2. n \in Nat /\ DOMAIN t = 1..n
  OBVIOUS
<1>3. \A i \in 1..n : ends[i] = LabelEnd(t, i)
  BY <1>2 DEF LabelEndsOf
<1>4. ASSUME NEW i \in 1..n
      PROVE  LET after == RunEnd(t, i + 1, Separators)
             IN  /\ Matched(ends, i) <=> LabelEnd(t, i) # i
                 /\ Matched(ends, i) => /\ after \in i + 1..n + 1 /\ ends[i] = after + 1
                                        /\ Kind(t, after) \in Numbers
                                        /\ \A k \in i + 1..after - 1 : Kind(t, k) \in Separators
  <2>. DEFINE e == LabelEnd(t, i)
              after == RunEnd(t, i + 1, Separators)
  <2>1. /\ e \in i..Len(t) + 1
        /\ after \in i + 1..Len(t) + 1
        /\ \A k \in i + 1..after - 1 : Kind(t, k) \in Separators
        /\ e # i => Kind(t, after) \in Numbers
        /\ e # i => e = after + 1
    BY LabelEnds
  <2>2. ends[i] = e
    BY <1>3
  <2>. HIDE DEF e, ends, after
  <2>3. e > i <=> e # i
    BY <1>2, <2>1
  <2> QED
    BY <2>1, <2>2, <2>3 DEF Matched, e, after
<1>. HIDE DEF ends, by, n
<1>5. ASSUME NEW k, NEW p, Kept(t, ends, by, k, p), Claimed(t, line, left, p)
      PROVE  Claimed(new, line, less, k)
  <2>1. p \in 1..n /\ Kind(new, k) = Kind(t, p)
    BY <1>1, <1>5, KeptIs DEF n
  <2>2. CASE Kind(t, p) = "small" /\ After(t, p, "label")
    <3>1. PICK j : Behind(t, p, "label", j)
      BY <2>2, AfterIs
    <3>2. Kind(t, p) \notin Separators /\ Kind(t, p) \in Numbers
      BY <2>2, ClaimedKinds
    <3>3. /\ j \in 1..n /\ j \in 1..p - 2 /\ p > j + 1 /\ RunEnd(t, j + 1, Separators) = p
      BY <2>1, <3>1, <3>2, BehindEnds DEF n
    <3>4. Kind(t, j) = "label"
      BY <3>1 DEF Behind
    <3>5. LabelEnd(t, j) = p + 1
      BY <3>2, <3>3, <3>4 DEF LabelEnd
    <3>6. Matched(ends, j) /\ ends[j] = p + 1
      <4>1. p + 1 # j
        BY <1>2, <2>1, <3>3
      <4> QED
        BY <1>3, <1>4, <3>3, <3>5, <4>1
    <3>7. PICK x \in 1..j : IF Matched(ends, x) THEN j < ends[x] /\ ends[x] <= p ELSE x = j
      <4>1. j \in 1..p
        BY <2>1, <3>3
      <4> QED
        BY <1>1, <1>5, <4>1, KeptPast DEF n
    <3>8. x # j
      <4>1. p \in Nat
        BY <2>1
      <4> QED
        BY <3>6, <3>7, <4>1
    <3>9. Matched(ends, x) /\ j < ends[x] /\ x \in 1..n /\ x < j
      BY <1>2, <3>3, <3>7, <3>8
    <3>. DEFINE after == RunEnd(t, x + 1, Separators)
    <3>10. /\ after \in x + 1..n + 1 /\ ends[x] = after + 1
           /\ Kind(t, after) \in Numbers
           /\ \A i \in x + 1..after - 1 : Kind(t, i) \in Separators
      BY <1>4, <3>9
    <3>. HIDE DEF after
    <3>11. j \in x + 1..after - 1 \/ j = after
      BY <1>2, <3>3, <3>9, <3>10
    <3> QED
      BY <3>4, <3>10, <3>11, ClaimedKinds
  <2>3. ASSUME Kind(t, p) = "small", Kind(t, p - 1) \in {"frame", ":"}
        PROVE  Kind(new, k - 1) = Kind(t, p - 1) /\ Kind(t, p - 1) # "frame"
    <3>1. p > 1
      <4>1. Kind(t, 0) = "end"
        BY KindIs
      <4>2. p - 1 # 0
        BY <2>3, <4>1
      <4> QED
        BY <2>1, <4>2
    <3>2. ASSUME NEW q \in 1..n, Matched(ends, q), ends[q] = p
          PROVE  FALSE
      <4>. DEFINE after == RunEnd(t, q + 1, Separators)
      <4>1. after \in q + 1..n + 1 /\ ends[q] = after + 1 /\ Kind(t, after) \in Numbers
        BY <1>4, <3>2
      <4>. HIDE DEF after
      <4>2. after = p - 1
        BY <1>2, <3>2, <4>1
      <4> QED
        BY <2>3, <4>1, <4>2, ClaimedKinds
    <3>3. Kind(new, k - 1) = Kind(t, p - 1) /\ ~ Matched(ends, p - 1)
      BY <1>1, <1>5, <3>1, <3>2, KeptNext DEF n
    <3>4. ASSUME Kind(t, p - 1) = "frame"
          PROVE  FALSE
      <4>1. PICK i \in 1..n : i = p - 1 /\ i + 1 = p
        BY <1>2, <2>1, <3>1
      <4>2. Kind(t, p) \notin Separators /\ Kind(t, p) \in Numbers
        BY <2>3, ClaimedKinds
      <4>3. RunEnd(t, i + 1, Separators) = p
        <5>1. "end" \notin Separators
          BY DEF Separators
        <5>2. p \in 1..Len(t) + 1 /\ p \in p..Len(t) + 1 /\ p..p - 1 = {}
          BY <1>2, <2>1 DEF n
        <5>3. RunEnd(t, p, Separators) = p
          BY <4>2, <5>1, <5>2, RunEndIs
        <5> QED
          BY <4>1, <5>3
      <4>4. LabelEnd(t, i) = p + 1
        BY <3>4, <4>1, <4>2, <4>3 DEF LabelEnd
      <4>5. p + 1 # i
        BY <4>1
      <4> QED
        BY <1>4, <3>3, <4>1, <4>4, <4>5
    <3> QED
      BY <3>3, <3>4
  <2> QED
    BY <1>5, <2>1, <2>2, <2>3 DEF Claimed
<1>6. "label" \notin Replaced
  BY DEF Replaced
<1> QED
  BY <1>1, <1>5, <1>6, CarriesIf DEF n, ends, by

\* So do numbers behind a colon.
LEMMA ColonCarries ==
  ASSUME NEW t \in Seq(WorkTokens), NEW line, NEW left,
         "request_id" \notin left /\ "label" \notin left
  PROVE  Carries(t, line, left, ColonEndsOf(t), ColonBy(t), left \ {"colon"})
<1>. DEFINE ends == ColonEndsOf(t)
            by == ColonBy(t)
            n == Len(t)
            less == left \ {"colon"}
            new == Substitute(t, ends, by)
<1>1. Fits(n, ends, by, WorkTokens)
  BY SubstitutionsFit
<1>2. n \in Nat /\ DOMAIN t = 1..n
  OBVIOUS
<1>3. \A i \in 1..n : ends[i] = ColonEnd(t, i)
  BY <1>2 DEF ColonEndsOf
<1>4. ASSUME NEW i \in 1..n
      PROVE  /\ Matched(ends, i) <=> ColonEnd(t, i) # i
             /\ Matched(ends, i) => ends[i] = i + 2 /\ Kind(t, i + 1) \in Numbers
  <2>. DEFINE e == ColonEnd(t, i)
  <2>1. /\ e \in i..Len(t) + 1
        /\ e # i => e = i + 2 /\ Kind(t, i + 1) \in Numbers
    BY ColonEnds
  <2>2. ends[i] = e
    BY <1>3
  <2>. HIDE DEF e, ends
  <2>3. e > i <=> e # i
    BY <1>2, <2>1
  <2> QED
    BY <2>1, <2>2, <2>3 DEF Matched, e
<1>. HIDE DEF ends, by, n
<1>5. ASSUME NEW k, NEW p, Kept(t, ends, by, k, p), Claimed(t, line, left, p)
      PROVE  FALSE
  <2>1. p \in 1..n
    BY <1>1, <1>5, KeptIs DEF n
  <2>2. Kind(t, p) = "small" /\ Kind(t, p - 1) = ":"
    BY <1>5 DEF Claimed
  <2>3. p > 1
    <3>1. Kind(t, 0) = "end"
      BY KindIs
    <3>2. p - 1 # 0
      BY <2>2, <3>1
    <3> QED
      BY <2>1, <3>2
  <2>4. ASSUME NEW q \in 1..n, Matched(ends, q), ends[q] = p
        PROVE  FALSE
    <3>1. ends[q] = q + 2 /\ Kind(t, q + 1) \in Numbers
      BY <1>4, <2>4
    <3>2. q + 1 = p - 1
      BY <1>2, <2>4, <3>1
    <3> QED
      BY <2>2, <3>1, <3>2, ClaimedKinds
  <2>5. ~ Matched(ends, p - 1)
    BY <1>1, <1>5, <2>3, <2>4, KeptNext DEF n
  <2>6. PICK i \in 1..n : i = p - 1 /\ i + 1 = p
    BY <1>2, <2>1, <2>3
  <2>7. ColonEnd(t, i) = i + 2
    BY <2>2, <2>6, ClaimedKinds DEF ColonEnd
  <2>8. i + 2 # i
    BY <2>6
  <2> QED
    BY <1>4, <2>5, <2>6, <2>7, <2>8
<1>6. "colon" \notin Replaced
  BY DEF Replaced
<1> QED
  BY <1>1, <1>5, <1>6, CarriesIf DEF n, ends, by

\* A frame that is followed by a location has the line to itself.
FrameAlone(t) ==
  \A i \in 1..Len(t) :
    /\ Kind(t, i) = "frame" /\ Kind(t, i + 1) \in Numbers /\ Kind(t, i + 2) = "location"
    => i = 1 /\ Len(t) = 3

\* So do frames, which have their line to themselves.
LEMMA FrameCarries ==
  ASSUME NEW t \in Seq(WorkTokens), NEW line, NEW left, FrameAlone(t)
  PROVE  Carries(t, line, left, FrameEndsOf(t), FrameBy(t), left \ {"frame"})
<1>. DEFINE ends == FrameEndsOf(t)
            by == FrameBy(t)
            n == Len(t)
            less == left \ {"frame"}
            new == Substitute(t, ends, by)
<1>1. Fits(n, ends, by, WorkTokens)
  BY SubstitutionsFit
<1>2. n \in Nat /\ DOMAIN t = 1..n
  OBVIOUS
<1>3. \A i \in 1..n : ends[i] = FrameEnd(t, i)
  BY <1>2 DEF FrameEndsOf
<1>4. ASSUME NEW i \in 1..n, Matched(ends, i)
      PROVE  i = 1 /\ n = 3 /\ ends[i] = i + 3
  <2>. DEFINE e == FrameEnd(t, i)
  <2>1. /\ e \in i..Len(t) + 1
        /\ e # i => e = i + 3
        /\ e # i => /\ Kind(t, i) = "frame" /\ Kind(t, i + 1) \in Numbers
                    /\ Kind(t, i + 2) = "location"
    BY FrameEnds
  <2>2. ends[i] = e
    BY <1>3
  <2>. HIDE DEF e, ends
  <2>3. e # i
    <3>1. e > i
      BY <1>4, <2>2 DEF Matched
    <3> QED
      BY <1>2, <3>1
  <2>4. i = 1 /\ n = 3
    BY <2>1, <2>3 DEF FrameAlone
  <2> QED
    BY <2>1, <2>2, <2>3, <2>4
<1>. HIDE DEF ends, by, n
<1>5. ASSUME NEW k, NEW p, Kept(t, ends, by, k, p), Claimed(t, line, left, p)
      PROVE  Claimed(new, line, less, k)
  <2>1. p \in 1..n
    BY <1>1, <1>5, KeptIs DEF n
  <2>2. ASSUME NEW i \in 1..n, Matched(ends, i)
        PROVE  FALSE
    <3>1. i = 1 /\ n = 3 /\ ends[1] = 4 /\ Matched(ends, 1)
      BY <1>4, <2>2
    <3>2. 1 \in 1..p
      BY <1>2, <2>1
    <3>3. \E x \in 1..1 : IF Matched(ends, x) THEN 1 < ends[x] /\ ends[x] <= p ELSE x = 1
      BY <1>1, <1>5, <3>2, KeptPast DEF n
    <3>4. ends[1] <= p
      <4>1. \A x \in 1..1 : x = 1
        OBVIOUS
      <4> QED
        BY <3>1, <3>3, <4>1
    <3> QED
      BY <2>1, <3>1, <3>4
  <2>3. \A i \in 1..p : ~ Matched(ends, i)
    <3>1. \A i \in 1..p : i \in 1..n
      BY <1>2, <2>1
    <3> QED
      BY <2>2, <3>1
  <2>4. Claimed(t, line, less, p)
    BY <1>5 DEF Claimed
  <2> QED
    BY <1>1, <1>5, <2>3, <2>4, ClaimStays DEF n
<1>6. "frame" \notin Replaced
  BY DEF Replaced
<1> QED
  BY <1>1, <1>5, <1>6, CarriesIf DEF n, ends, by

-----------------------------------------------------------------------------
(* What the substitutions make of twins *)

\* The substitution of frames makes twins of twins.
LEMMA FrameTwins ==
  ASSUME NEW t \in Seq(WorkTokens), NEW u \in Seq(WorkTokens), NEW line, NEW left,
         Twins(t, u, line, left), FrameAlone(t)
  PROVE  Twins(Apply("frame", t), Apply("frame", u), line, left \ {"frame"})
<1>1. PICK c : Aligned(t, u, c) /\ Alike(t, u, c, line, left)
  BY DEF Twins
<1>2. /\ Fits(Len(t), FrameEndsOf(t), FrameBy(t), WorkTokens)
      /\ Fits(Len(u), FrameEndsOf(u), FrameBy(u), WorkTokens)
  BY SubstitutionsFit, Zenon
<1>3. Mates(t, c, FrameEndsOf(t), FrameBy(t), FrameEndsOf(u), FrameBy(u))
  BY <1>1, FrameMates, Zenon
<1>4. Carries(t, line, left, FrameEndsOf(t), FrameBy(t), left \ {"frame"})
  BY FrameCarries, Zenon
<1>5. Twins(Substitute(t, FrameEndsOf(t), FrameBy(t)),
            Substitute(u, FrameEndsOf(u), FrameBy(u)), line, left \ {"frame"})
  BY <1>1, <1>2, <1>3, <1>4, SubstituteTwins, Zenon
<1> QED
  BY <1>5, ApplyIs, Zenon

\* And so does that of request ids.
LEMMA RequestTwins ==
  ASSUME NEW t \in Seq(WorkTokens), NEW u \in Seq(WorkTokens), NEW line, NEW left,
         Twins(t, u, line, left)
  PROVE  Twins(Apply("request_id", t), Apply("request_id", u), line,
               left \ {"request_id"})
<1>1. PICK c : Aligned(t, u, c) /\ Alike(t, u, c, line, left)
  BY DEF Twins
<1>2. /\ Fits(Len(t), RequestEndsOf(t), RequestBy(t), WorkTokens)
      /\ Fits(Len(u), RequestEndsOf(u), RequestBy(u), WorkTokens)
  BY SubstitutionsFit, Zenon
<1>3. Mates(t, c, RequestEndsOf(t), RequestBy(t), RequestEndsOf(u), RequestBy(u))
  BY <1>1, RequestMates, Zenon
<1>4. Carries(t, line, left, RequestEndsOf(t), RequestBy(t), left \ {"request_id"})
  BY RequestCarries, Zenon
<1>5. Twins(Substitute(t, RequestEndsOf(t), RequestBy(t)),
            Substitute(u, RequestEndsOf(u), RequestBy(u)), line, left \ {"request_id"})
  BY <1>1, <1>2, <1>3, <1>4, SubstituteTwins, Zenon
<1> QED
  BY <1>5, ApplyIs, Zenon

\* That of labels does when the request ids are gone.
LEMMA LabelTwins ==
  ASSUME NEW t \in Seq(WorkTokens), NEW u \in Seq(WorkTokens), NEW line, NEW left,
         Twins(t, u, line, left), "request_id" \notin left
  PROVE  Twins(Apply("label", t), Apply("label", u), line, left \ {"label"})
<1>1. PICK c : Aligned(t, u, c) /\ Alike(t, u, c, line, left)
  BY DEF Twins
<1>2. /\ Fits(Len(t), LabelEndsOf(t), LabelBy(t), WorkTokens)
      /\ Fits(Len(u), LabelEndsOf(u), LabelBy(u), WorkTokens)
  BY SubstitutionsFit, Zenon
<1>3. Mates(t, c, LabelEndsOf(t), LabelBy(t), LabelEndsOf(u), LabelBy(u))
  BY <1>1, LabelMates, Zenon
<1>4. Carries(t, line, left, LabelEndsOf(t), LabelBy(t), left \ {"label"})
  BY LabelCarries, Zenon
<1>5. Twins(Substitute(t, LabelEndsOf(t), LabelBy(t)),
            Substitute(u, LabelEndsOf(u), LabelBy(u)), line, left \ {"label"})
  BY <1>1, <1>2, <1>3, <1>4, SubstituteTwins, Zenon
<1> QED
  BY <1>5, ApplyIs, Zenon

\* And that of colons when the labels are gone too.
LEMMA ColonTwins ==
  ASSUME NEW t \in Seq(WorkTokens), NEW u \in Seq(WorkTokens), NEW line, NEW left,
         Twins(t, u, line, left), "request_id" \notin left /\ "label" \notin left
  PROVE  Twins(Apply("colon", t), Apply("colon", u), line, left \ {"colon"})
<1>1. PICK c : Aligned(t, u, c) /\ Alike(t, u, c, line, left)
  BY DEF Twins
<1>2. /\ Fits(Len(t), ColonEndsOf(t), ColonBy(t), WorkTokens)
      /\ Fits(Len(u), ColonEndsOf(u), ColonBy(u), WorkTokens)
  BY SubstitutionsFit, Zenon
<1>3. Mates(t, c, ColonEndsOf(t), ColonBy(t), ColonEndsOf(u), ColonBy(u))
  BY <1>1, ColonMates, Zenon
<1>4. Carries(t, line, left, ColonEndsOf(t), ColonBy(t), left \ {"colon"})
  BY ColonCarries, Zenon
<1>5. Twins(Substitute(t, ColonEndsOf(t), ColonBy(t)),
            Substitute(u, ColonEndsOf(u), ColonBy(u)), line, left \ {"colon"})
  BY <1>1, <1>2, <1>3, <1>4, SubstituteTwins, Zenon
<1> QED
  BY <1>5, ApplyIs, Zenon

\* What a kind becomes when a kind is replaced.
NewKind(K, kind) ==
  IF K \in IF kind = "hex" THEN {"hex", "huge"} ELSE {kind} THEN "placeholder"
  ELSE IF K \in Within(kind) THEN "remainder" ELSE K

\* The kind of what becomes of a token depends on its kind alone.
LEMMA ReplacementKind ==
  ASSUME NEW x \in WorkTokens, NEW kind \in Replaced
  PROVE  /\ Replacement(x, kind) \in WorkTokens
         /\ Replacement(x, kind).kind = NewKind(x.kind, kind)
<1>1. x.kind \in WorkKinds /\ x.value \in Values
  BY DEF WorkTokens
<1>2. Placeholder(kind) \in WorkTokens /\ Token("remainder", x.value) \in WorkTokens
  BY <1>1, TokenTypes DEF WorkKinds, Values
<1>3. Placeholder(kind).kind = "placeholder"
  BY DEF Placeholder, Token
<1>4. Token("remainder", x.value).kind = "remainder"
  BY DEF Token
<1> QED
  BY <1>2, <1>3, <1>4, Zenon DEF Replacement, NewKind

\* What is replaced, and what is put in its place, tells nothing of its neighbours.
LEMMA NewKindTells ==
  ASSUME NEW K, NEW kind \in Replaced
  PROVE  \A L \in Telling : (NewKind(K, kind) = L) <=> (K = L)
<1>1. Within(kind) \subseteq Replaced
  BY DEF Within, Replaced
<1>2. kind \in Replaced /\ "hex" \in Replaced /\ "huge" \in Replaced
  BY DEF Replaced
<1>3. /\ Telling \cap Replaced = {} /\ "placeholder" \notin Telling
      /\ "remainder" \notin Telling
  BY TellingKinds
<1>. SUFFICES ASSUME NEW L \in Telling
              PROVE  (NewKind(K, kind) = L) <=> (K = L)
  OBVIOUS
<1>4. L \notin Replaced /\ L # "placeholder" /\ L # "remainder"
  BY <1>3
<1>5. CASE K \in IF kind = "hex" THEN {"hex", "huge"} ELSE {kind}
  BY <1>2, <1>4, <1>5 DEF NewKind
<1>6. CASE K \notin (IF kind = "hex" THEN {"hex", "huge"} ELSE {kind}) /\ K \in Within(kind)
  BY <1>1, <1>4, <1>6 DEF NewKind
<1>7. CASE K \notin (IF kind = "hex" THEN {"hex", "huge"} ELSE {kind}) /\ K \notin Within(kind)
  BY <1>7 DEF NewKind
<1> QED
  BY <1>5, <1>6, <1>7

\* What awaits a substitution is taken by it, or is left for another.
LEMMA ReplacedAgree ==
  ASSUME NEW x \in WorkTokens, NEW y \in WorkTokens, y.kind = x.kind,
         x.kind \in Replaced, NEW kind \in Replaced, kind # "huge",
         NEW left, ReplacedBy(x.kind) \in left, Within(kind) \cap left = {}
  PROVE  \/ Replacement(x, kind) = Replacement(y, kind)
         \/ Replacement(x, kind) = x /\ ReplacedBy(x.kind) \in left \ {kind}
<1>1. CASE ReplacedBy(x.kind) = kind
  <2>1. x.kind \in IF kind = "hex" THEN {"hex", "huge"} ELSE {kind}
    BY <1>1 DEF ReplacedBy
  <2>2. Replacement(x, kind) = Placeholder(kind)
    BY <2>1, Zenon DEF Replacement
  <2>3. Replacement(y, kind) = Placeholder(kind)
    BY <2>1, Zenon DEF Replacement
  <2> QED
    BY <2>2, <2>3, Zenon
<1>2. CASE ReplacedBy(x.kind) # kind
  <2>1. x.kind \notin IF kind = "hex" THEN {"hex", "huge"} ELSE {kind}
    BY <1>2 DEF ReplacedBy
  <2>2. \A K \in Within(kind) : ReplacedBy(K) = K
    BY DEF Within, ReplacedBy, Replaced
  <2>3. x.kind \notin Within(kind)
    BY <2>2
  <2>4. Replacement(x, kind) = x
    BY <2>1, <2>3, Zenon DEF Replacement
  <2> QED
    BY <1>2, <2>4
<1> QED
  BY <1>1, <1>2

\* Replaced texts have two spaces where they had.
LEMMA ReplaceKinds ==
  ASSUME NEW t \in Seq(WorkTokens), NEW kind \in Replaced, NEW i \in Nat
  PROVE  /\ \A L \in Telling : (Kind(Replace(t, kind), i) = L) <=> (Kind(t, i) = L)
         /\ i \in 1..Len(t) => Kind(Replace(t, kind), i) = NewKind(Kind(t, i), kind)
<1>1. /\ Replace(t, kind) \in Seq(WorkTokens) /\ Len(Replace(t, kind)) = Len(t)
      /\ \A q \in 1..Len(t) : Replace(t, kind)[q] = Replacement(t[q], kind)
  BY ReplaceIs, Zenon
<1>2. CASE i \in 1..Len(t)
  <2>1. t[i] \in WorkTokens /\ Kind(t, i) = t[i].kind
    BY <1>2, KindIs, Zenon
  <2>2. Kind(Replace(t, kind), i) = Replace(t, kind)[i].kind
    BY <1>1, <1>2, KindIs, Zenon
  <2>3. Kind(Replace(t, kind), i) = NewKind(Kind(t, i), kind)
    BY <1>1, <1>2, <2>1, <2>2, ReplacementKind, Zenon
  <2> QED
    BY <2>3, NewKindTells, Zenon
<1>3. CASE i \notin 1..Len(t)
  BY <1>1, <1>3, KindIs, Zenon
<1> QED
  BY <1>2, <1>3

\* The substitution of a kind makes twins of twins.
LEMMA ReplaceTwins ==
  ASSUME NEW t \in Seq(WorkTokens), NEW u \in Seq(WorkTokens), NEW line, NEW left,
         Twins(t, u, line, left), NEW kind \in Replaced, kind # "huge",
         Within(kind) \cap left = {}
  PROVE  Twins(Apply(kind, t), Apply(kind, u), line, left \ {kind})
<1>. DEFINE tt == Replace(t, kind)
            uu == Replace(u, kind)
            n == Len(t)
            m == Len(u)
<1>1. PICK c : Aligned(t, u, c) /\ Alike(t, u, c, line, left)
  BY DEF Twins
<1>2. n \in Nat /\ m \in Nat
  OBVIOUS
<1>3. /\ tt \in Seq(WorkTokens) /\ Len(tt) = n
      /\ uu \in Seq(WorkTokens) /\ Len(uu) = m
      /\ \A i \in 1..n : tt[i] = Replacement(t[i], kind)
      /\ \A i \in 1..m : uu[i] = Replacement(u[i], kind)
  BY ReplaceIs, Zenon
<1>4. \A i \in 1..n : /\ i \in Nat /\ c[i] \in 1..m /\ c[i] \in Nat /\ i + 1 \in Nat
                      /\ Kind(u, c[i]) = Kind(t, i)
  <2>1. Ordered(t, u, c)
    BY <1>1, AlignedOrder
  <2>2. \A i \in 1..n : c[i] \in 1..m
    BY <2>1 DEF Ordered
  <2>3. \A i \in 1..n : Kind(u, c[i]) = Kind(t, i)
    BY <1>1 DEF Aligned
  <2>. HIDE DEF n, m
  <2> QED
    BY <1>2, <2>2, <2>3
<1>. HIDE DEF n, m
<1>5. /\ \A i \in Nat : \A L \in Telling : (Kind(tt, i) = L) <=> (Kind(t, i) = L)
      /\ \A i \in 1..n : Kind(tt, i) = NewKind(Kind(t, i), kind)
  <2>1. \A i \in Nat : \A L \in Telling : (Kind(tt, i) = L) <=> (Kind(t, i) = L)
    BY ReplaceKinds
  <2>2. \A i \in 1..n : Kind(tt, i) = NewKind(Kind(t, i), kind)
    BY <1>4, ReplaceKinds DEF n
  <2> QED
    BY <2>1, <2>2
<1>6. \A i \in 1..m : Kind(uu, i) = NewKind(Kind(u, i), kind)
  BY <1>2, ReplaceKinds DEF m
<1>7. Apply(kind, t) = tt /\ Apply(kind, u) = uu
  BY ApplyIs, Zenon
<1>. HIDE DEF tt, uu
<1>8. \A i \in 1..n : TwoSpaces(tt, i) <=> TwoSpaces(t, i)
  <2>1. " " \in Telling
    BY TellingKinds
  <2>2. \A i \in Nat : (Kind(tt, i) = " ") <=> (Kind(t, i) = " ")
    BY <1>5, <2>1, Zenon
  <2> QED
    BY <1>4, <2>2, Zenon DEF TwoSpaces
<1>9. \A i \in 1..n : Kind(uu, c[i]) = Kind(tt, i)
  <2>. SUFFICES ASSUME NEW i \in 1..n
                PROVE  Kind(uu, c[i]) = Kind(tt, i)
    OBVIOUS
  <2>1. Kind(tt, i) = NewKind(Kind(t, i), kind)
    BY <1>5, Zenon
  <2>2. Kind(uu, c[i]) = NewKind(Kind(u, c[i]), kind)
    BY <1>4, <1>6, Zenon
  <2> QED
    BY <1>4, <2>1, <2>2, Zenon
<1>10. Aligned(tt, uu, c)
  BY <1>1, <1>3, <1>8, <1>9, Zenon DEF Aligned, n, m
<1>11. ASSUME NEW i \in 1..n
       PROVE  tt[i] = uu[c[i]] \/ Awaits(tt, line, left \ {kind}, i)
  <2>1. /\ t[i] \in WorkTokens /\ u[c[i]] \in WorkTokens
        /\ Kind(t, i) = t[i].kind /\ u[c[i]].kind = t[i].kind
    <3>1. t[i] \in WorkTokens /\ Kind(t, i) = t[i].kind
      BY <1>4, KindIs, Zenon DEF n
    <3>2. u[c[i]] \in WorkTokens /\ Kind(u, c[i]) = u[c[i]].kind
      BY <1>4, KindIs, Zenon DEF m
    <3> QED
      BY <1>4, <3>1, <3>2
  <2>2. tt[i] = Replacement(t[i], kind) /\ uu[c[i]] = Replacement(u[c[i]], kind)
    BY <1>3, <1>4, Zenon
  <2>3. t[i] = u[c[i]] \/ Awaits(t, line, left, i)
    BY <1>1, Zenon DEF Alike, n
  <2>4. CASE t[i] = u[c[i]]
    BY <2>2, <2>4, Zenon
  <2>5. CASE Kind(t, i) \in Replaced /\ ReplacedBy(Kind(t, i)) \in left
    <3>1. t[i].kind \in Replaced /\ ReplacedBy(t[i].kind) \in left
      BY <2>1, <2>5, Zenon
    <3>2. \/ Replacement(t[i], kind) = Replacement(u[c[i]], kind)
          \/ Replacement(t[i], kind) = t[i] /\ ReplacedBy(t[i].kind) \in left \ {kind}
      BY <2>1, <3>1, ReplacedAgree, Zenon
    <3>3. CASE Replacement(t[i], kind) = Replacement(u[c[i]], kind)
      BY <2>2, <3>3, Zenon
    <3>4. CASE Replacement(t[i], kind) = t[i] /\ ReplacedBy(t[i].kind) \in left \ {kind}
      <4>1. Kind(tt, i) = tt[i].kind
        BY <1>3, <1>4, KindIs, Zenon
      <4>2. Kind(tt, i) = Kind(t, i)
        BY <2>1, <2>2, <3>4, <4>1, Zenon
      <4> QED
        BY <2>1, <2>5, <3>4, <4>2, Zenon DEF Awaits
    <3> QED
      BY <3>2, <3>3, <3>4
  <2>6. CASE Claimed(t, line, left, i)
    <3>1. i \in Nat /\ i >= 1 /\ i = i + 0 /\ 0 \in Nat /\ \A q \in 1..i : q \in Nat /\ q + 0 = q
      BY <1>2
    <3>2. Shifted(t, tt, 0, i)
      <4>1. \A q \in 1..0 : FALSE
        OBVIOUS
      <4>2. \A q \in 1..i : \A x \in Telling : (Kind(tt, q) = x) <=> (Kind(t, q + 0) = x)
        BY <1>5, <3>1, Zenon
      <4> QED
        BY <4>1, <4>2, Zenon DEF Shifted
    <3>3. Claimed(tt, line, left, i)
      BY <1>3, <2>6, <3>1, <3>2, ClaimedMoves, Zenon
    <3>4. left \cap {"request_id", "label", "colon"} \subseteq left \ {kind}
      BY DEF Replaced
    <3>5. left \ {kind} \subseteq left
      OBVIOUS
    <3>6. Claimed(tt, line, left \ {kind}, i)
      BY <3>3, <3>4, <3>5, ClaimedLess, Zenon
    <3> QED
      BY <3>6, Zenon DEF Awaits
  <2> QED
    BY <2>3, <2>4, <2>5, <2>6, Zenon DEF Awaits
<1>12. Alike(tt, uu, c, line, left \ {kind})
  BY <1>3, <1>11, Zenon DEF Alike
<1> QED
  BY <1>10, <1>12, <1>7, Zenon DEF Twins

\* What is from a to b is what is left of t when it is stripped.
Stripped(t, a, b) ==
  /\ a \in 1..Len(t) /\ b \in 1..Len(t) /\ a <= b
  /\ Solid(t, a) /\ Solid(t, b)
  /\ \A i \in 1..Len(t) : i < a \/ i > b => ~ Solid(t, i)

\* Strip finds it.
LEMMA StrippedIs ==
  ASSUME NEW t \in Seq(WorkTokens)
  PROVE  \/ Strip(t) = <<>> /\ \A i \in 1..Len(t) : ~ Solid(t, i)
         \/ \E a, b : Stripped(t, a, b) /\ Strip(t) = SubSeq(t, a, b)
<1>1. \/ Strip(t) = <<>> /\ \A i \in 1..Len(t) : Kind(t, i) = " "
      \/ \E a, b \in 1..Len(t) :
           /\ a <= b /\ Strip(t) = SubSeq(t, a, b)
           /\ Kind(t, a) # " " /\ Kind(t, b) # " "
           /\ \A i \in 1..Len(t) : i < a \/ i > b => Kind(t, i) = " "
  BY StripIs, Zenon
<1>2. CASE Strip(t) = <<>> /\ \A i \in 1..Len(t) : Kind(t, i) = " "
  BY <1>2, Zenon DEF Solid
<1>3. CASE \E a, b \in 1..Len(t) :
             /\ a <= b /\ Strip(t) = SubSeq(t, a, b)
             /\ Kind(t, a) # " " /\ Kind(t, b) # " "
             /\ \A i \in 1..Len(t) : i < a \/ i > b => Kind(t, i) = " "
  BY <1>3, Zenon DEF Solid, Stripped
<1> QED
  BY <1>1, <1>2, <1>3

\* And nothing else.
LEMMA StrippedOnce ==
  ASSUME NEW t \in Seq(WorkTokens), NEW a, NEW b, Stripped(t, a, b)
  PROVE  Strip(t) = SubSeq(t, a, b)
<1>. DEFINE n == Len(t)
<1>1. n \in Nat
  OBVIOUS
<1>2. /\ a \in 1..n /\ b \in 1..n /\ Solid(t, a) /\ Solid(t, b)
      /\ \A i \in 1..n : i < a \/ i > b => ~ Solid(t, i)
  BY DEF Stripped
<1>3. ~ (\A i \in 1..n : ~ Solid(t, i))
  BY <1>2, Zenon
<1>4. PICK x, y : Stripped(t, x, y) /\ Strip(t) = SubSeq(t, x, y)
  BY <1>3, StrippedIs, Zenon
<1>5. /\ x \in 1..n /\ y \in 1..n /\ Solid(t, x) /\ Solid(t, y)
      /\ \A i \in 1..n : i < x \/ i > y => ~ Solid(t, i)
  BY <1>4 DEF Stripped
<1>. HIDE DEF n
<1>6. x = a /\ y = b
  <2>1. ~ (x < a) /\ ~ (a < x) /\ ~ (y > b) /\ ~ (b > y)
    BY <1>2, <1>5
  <2> QED
    BY <1>1, <1>2, <1>5, <2>1
<1> QED
  BY <1>4, <1>6

\* A part of a text.
LEMMA PartIs ==
  ASSUME NEW t \in Seq(WorkTokens), NEW a \in 1..Len(t), NEW b \in 1..Len(t), a <= b
  PROVE  /\ SubSeq(t, a, b) \in Seq(WorkTokens)
         /\ Len(SubSeq(t, a, b)) = b - a + 1 /\ Len(SubSeq(t, a, b)) \in Nat \ {0}
         /\ \A i \in 1..b - a + 1 :
              /\ i + a - 1 \in 1..Len(t) /\ SubSeq(t, a, b)[i] = t[i + a - 1]
              /\ Kind(SubSeq(t, a, b), i) = Kind(t, i + a - 1)
<1>. DEFINE n == Len(t)
            v == SubSeq(t, a, b)
<1>1. n \in Nat /\ a \in 1..n /\ b \in 1..n
  OBVIOUS
<1>2. v \in Seq(WorkTokens) /\ Len(v) = b - a + 1
  OBVIOUS
<1>3. \A i \in 1..b - a + 1 : v[i] = t[i + a - 1]
  <2>1. \A i \in 1..b - a + 1 : v[i] = t[a + i - 1]
    BY <1>1, SubSeqProperties
  <2> QED
    BY <1>1, <2>1
<1>. HIDE DEF n, v
<1>4. /\ b - a + 1 \in Nat \ {0}
      /\ \A i \in 1..b - a + 1 : i \in Nat /\ i + a - 1 \in 1..n /\ i + a - 1 \in Nat
  BY <1>1
<1>5. \A i \in 1..b - a + 1 : Kind(v, i) = Kind(t, i + a - 1)
  <2>. SUFFICES ASSUME NEW i \in 1..b - a + 1
                PROVE  Kind(v, i) = Kind(t, i + a - 1)
    OBVIOUS
  <2>1. Kind(v, i) = v[i].kind
    BY <1>2, <1>4, KindIs
  <2>2. Kind(t, i + a - 1) = t[i + a - 1].kind
    BY <1>4, KindIs, Zenon DEF n
  <2> QED
    BY <1>3, <2>1, <2>2
<1> QED
  BY <1>2, <1>3, <1>4, <1>5, Zenon DEF n, v

\* A text that was stripped stays as it is.
LEMMA StripAgain ==
  ASSUME NEW t \in Seq(WorkTokens)
  PROVE  Strip(Strip(t)) = Strip(t)
<1>1. CASE Strip(t) = <<>>
  <2>1. <<>> \in Seq(WorkTokens) /\ Len(<<>>) = 0 /\ 1..0 = {}
    OBVIOUS
  <2>2. ~ \E a, b : Stripped(<<>>, a, b)
    BY <2>1, Zenon DEF Stripped
  <2>3. Strip(<<>>) = <<>>
    BY <2>1, <2>2, StrippedIs, Zenon
  <2> QED
    BY <1>1, <2>3
<1>2. CASE Strip(t) # <<>>
  <2>1. PICK a, b : Stripped(t, a, b) /\ Strip(t) = SubSeq(t, a, b)
    BY <1>2, StrippedIs, Zenon
  <2>. DEFINE v == SubSeq(t, a, b)
              n == Len(t)
              m == Len(v)
  <2>2. /\ a \in 1..n /\ b \in 1..n /\ a <= b /\ Solid(t, a) /\ Solid(t, b)
    BY <2>1 DEF Stripped
  <2>3. /\ v \in Seq(WorkTokens) /\ m = b - a + 1 /\ m \in Nat \ {0}
        /\ \A i \in 1..m : Kind(v, i) = Kind(t, i + a - 1)
    BY <2>2, PartIs
  <2>4. n \in Nat
    OBVIOUS
  <2>5. v = SubSeq(v, 1, m)
    BY <2>3
  <2>. HIDE DEF n, m, v
  <2>6. 1 \in 1..m /\ m \in 1..m /\ 1 <= m /\ m + a - 1 = b /\ 1 + a - 1 = a
    BY <2>2, <2>3, <2>4
  <2>7. Solid(v, 1) /\ Solid(v, m)
    BY <2>2, <2>3, <2>6, Zenon DEF Solid
  <2>8. \A i \in 1..m : ~ (i < 1 \/ i > m)
    BY <2>3
  <2>9. Stripped(v, 1, m)
    BY <2>6, <2>7, <2>8, Zenon DEF Stripped, m
  <2>10. Strip(v) = SubSeq(v, 1, m)
    BY <2>3, <2>9, StrippedOnce, Zenon
  <2> QED
    BY <2>1, <2>5, <2>10 DEF v
<1> QED
  BY <1>1, <1>2

\* A frame that has its line to itself keeps it.
LEMMA StripFrame ==
  ASSUME NEW t \in Seq(WorkTokens), FrameAlone(t)
  PROVE  FrameAlone(Strip(t))
<1>. SUFFICES ASSUME NEW i \in 1..Len(Strip(t)),
                     Kind(Strip(t), i) = "frame" /\ Kind(Strip(t), i + 1) \in Numbers
                       /\ Kind(Strip(t), i + 2) = "location"
              PROVE  i = 1 /\ Len(Strip(t)) = 3
  BY DEF FrameAlone
<1>1. Strip(t) # <<>>
  <2>1. Len(<<>>) = 0 /\ 1..0 = {}
    OBVIOUS
  <2> QED
    BY <2>1
<1>2. PICK a, b : Stripped(t, a, b) /\ Strip(t) = SubSeq(t, a, b)
  BY <1>1, StrippedIs, Zenon
<1>. DEFINE v == SubSeq(t, a, b)
            n == Len(t)
            m == Len(v)
            x == i + 1
            y == i + 2
            k == i + a - 1
<1>3. /\ a \in 1..n /\ b \in 1..n /\ a <= b /\ n \in Nat
  BY <1>2 DEF Stripped
<1>4. /\ v \in Seq(WorkTokens) /\ m = b - a + 1 /\ m \in Nat \ {0}
      /\ \A q \in 1..m : Kind(v, q) = Kind(t, q + a - 1)
  BY <1>3, PartIs
<1>5. i \in 1..m
  BY <1>2
<1>. HIDE DEF v, n, m
<1>6. x \in Nat /\ y \in Nat /\ x = i + 1 /\ y = i + 2
  BY <1>4, <1>5
<1>. HIDE DEF x, y
<1>7. y \in 1..m /\ x \in 1..m
  <2>1. Kind(v, x) # "end" /\ Kind(v, y) # "end"
    <3>1. Kind(v, x) \in Numbers /\ Kind(v, y) = "location"
      BY <1>2, <1>6 DEF v
    <3> QED
      BY <3>1, NumbersAreNot
  <2> QED
    BY <1>4, <1>6, <2>1, KindIs, Zenon DEF m
<1>8. x + a - 1 = k + 1 /\ y + a - 1 = k + 2 /\ k \in 1..n /\ i + a - 1 = k
  BY <1>3, <1>4, <1>5, <1>6
<1>9. /\ Kind(t, k) = Kind(v, i) /\ Kind(t, k + 1) = Kind(v, x)
      /\ Kind(t, k + 2) = Kind(v, y)
  BY <1>4, <1>5, <1>7, <1>8
<1>10. Kind(v, i) = "frame" /\ Kind(v, x) \in Numbers /\ Kind(v, y) = "location"
  BY <1>2, <1>6 DEF v
<1>11. k = 1 /\ n = 3
  BY <1>8, <1>9, <1>10, Zenon DEF FrameAlone, n
<1>12. i = 1 /\ m = 3
  BY <1>3, <1>4, <1>5, <1>6, <1>7, <1>11
<1> QED
  BY <1>2, <1>12 DEF v, m

\* The texts are stripped at the same places.
LEMMA StrippedAlike ==
  ASSUME NEW t \in Seq(WorkTokens), NEW u \in Seq(WorkTokens), NEW c, Aligned(t, u, c)
  PROVE  /\ \A a, b : Stripped(t, a, b) => Stripped(u, c[a], c[b])
         /\ (\A i \in 1..Len(t) : ~ Solid(t, i)) => (\A l \in 1..Len(u) : ~ Solid(u, l))
<1>. DEFINE n == Len(t)
            m == Len(u)
<1>1. n \in Nat /\ m \in Nat
  OBVIOUS
<1>2. Ordered(t, u, c)
  BY AlignedOrder
<1>3. /\ \A i \in 1..n : c[i] \in 1..m /\ Kind(u, c[i]) = Kind(t, i)
      /\ \A i, j \in 1..n + 1 : i <= j => c[i] <= c[j]
      /\ \A l \in 1..m + 1 : \E i \in 1..n + 1 : c[i] = l
      /\ c[n + 1] = m + 1
  <2>1. /\ \A i \in 1..n : c[i] \in 1..m
        /\ \A i, j \in 1..n + 1 : i <= j => c[i] <= c[j]
        /\ \A l \in 1..m + 1 : \E i \in 1..n + 1 : c[i] = l
    BY <1>2, Zenon DEF Ordered, n, m
  <2>2. /\ \A i \in 1..n : Kind(u, c[i]) = Kind(t, i)
        /\ c[n + 1] = m + 1
    BY Zenon DEF Aligned, n, m
  <2> QED
    BY <2>1, <2>2
<1>. HIDE DEF n, m
<1>4. \A l \in 1..m : \E i \in 1..n : c[i] = l
  <2>. SUFFICES ASSUME NEW l \in 1..m
                PROVE  \E i \in 1..n : c[i] = l
    OBVIOUS
  <2>1. l \in 1..m + 1 /\ l # m + 1
    BY <1>1
  <2>2. PICK i \in 1..n + 1 : c[i] = l
    BY <1>3, <2>1
  <2>3. i # n + 1
    BY <1>3, <2>1, <2>2
  <2>4. i \in 1..n
    BY <1>1, <2>3
  <2> QED
    BY <2>2, <2>4
<1>5. \A i \in 1..n : Solid(u, c[i]) <=> Solid(t, i)
  BY <1>3, Zenon DEF Solid
<1>6. ASSUME NEW a, NEW b, Stripped(t, a, b)
      PROVE  Stripped(u, c[a], c[b])
  <2>1. /\ a \in 1..n /\ b \in 1..n /\ a <= b /\ Solid(t, a) /\ Solid(t, b)
        /\ \A i \in 1..n : i < a \/ i > b => ~ Solid(t, i)
    BY <1>6 DEF Stripped, n
  <2>2. a \in 1..n + 1 /\ b \in 1..n + 1
    BY <1>1, <2>1
  <2>3. /\ c[a] \in 1..m /\ c[b] \in 1..m /\ c[a] <= c[b]
        /\ Solid(u, c[a]) /\ Solid(u, c[b])
    BY <1>3, <1>5, <2>1, <2>2
  <2>4. ASSUME NEW l \in 1..m, l < c[a] \/ l > c[b]
        PROVE  ~ Solid(u, l)
    <3>1. PICK i \in 1..n : c[i] = l
      BY <1>4
    <3>2. i \in 1..n + 1
      BY <1>1
    <3>3. ~ (a <= i /\ i <= b)
      <4>. SUFFICES ASSUME a <= i, i <= b
                    PROVE  FALSE
        OBVIOUS
      <4>1. c[a] <= c[i] /\ c[i] <= c[b]
        BY <1>3, <2>2, <3>2
      <4> QED
        BY <2>3, <2>4, <3>1, <4>1
    <3>4. i < a \/ i > b
      BY <1>1, <2>1, <3>3
    <3>5. ~ Solid(t, i)
      BY <2>1, <3>4
    <3> QED
      BY <1>5, <3>1, <3>5
  <2> QED
    BY <2>3, <2>4, Zenon DEF Stripped, m
<1>7. ASSUME \A i \in 1..n : ~ Solid(t, i)
      PROVE  \A l \in 1..m : ~ Solid(u, l)
  BY <1>4, <1>5, <1>7
<1> QED
  BY <1>6, <1>7, Zenon DEF n, m

\* Parts of aligned texts are aligned, if no gap is at their ends.
LEMMA PartsAligned ==
  ASSUME NEW t \in Seq(WorkTokens), NEW u \in Seq(WorkTokens), NEW c, Aligned(t, u, c),
         NEW a, NEW b, Stripped(t, a, b), NEW e,
         e = [i \in 1..(b - a + 1) + 1 |-> c[i + a - 1] - c[a] + 1]
  PROVE  Aligned(SubSeq(t, a, b), SubSeq(u, c[a], c[b]), e)
<1>. DEFINE n == Len(t)
            m == Len(u)
            N == b - a + 1
            M == c[b] - c[a] + 1
            tt == SubSeq(t, a, b)
            uu == SubSeq(u, c[a], c[b])
<1>1. n \in Nat /\ m \in Nat
  OBVIOUS
<1>2. a \in 1..n /\ b \in 1..n /\ a <= b /\ Solid(t, a) /\ Solid(t, b)
  BY DEF Stripped
<1>3. Stripped(u, c[a], c[b])
  BY StrippedAlike, Zenon
<1>4. c[a] \in 1..m /\ c[b] \in 1..m /\ c[a] <= c[b]
  BY <1>3 DEF Stripped
<1>5. /\ tt \in Seq(WorkTokens) /\ Len(tt) = N
      /\ \A i \in 1..N : Kind(tt, i) = Kind(t, i + a - 1)
  BY <1>2, PartIs
<1>6. /\ uu \in Seq(WorkTokens) /\ Len(uu) = M
      /\ \A i \in 1..M : Kind(uu, i) = Kind(u, i + c[a] - 1)
  BY <1>4, PartIs
<1>7. /\ \A i, j \in 1..n + 1 : i <= j => c[i] <= c[j]
      /\ \A i \in 1..n + 1 : c[i] \in 1..m + 1
  <2>1. Ordered(t, u, c)
    BY AlignedOrder
  <2> QED
    BY <2>1, Zenon DEF Ordered, n, m
<1>8. \A i \in 1..n : /\ Kind(u, c[i]) = Kind(t, i)
                      /\ c[i + 1] = IF TwoSpaces(t, i) THEN c[i] ELSE c[i] + 1
  BY Zenon DEF Aligned, n
<1>9. c[b + 1] = c[b] + 1
  BY <1>2, AlignedNext DEF n
<1>. HIDE DEF n, m, N, M, tt, uu
<1>10. /\ N \in Nat \ {0} /\ N = b - a + 1 /\ M = c[b] - c[a] + 1 /\ M \in Nat \ {0}
       /\ N + 1 + a - 1 = b + 1 /\ 1 + a - 1 = a
  BY <1>2, <1>4 DEF N, M
<1>11. e = [i \in 1..N + 1 |-> c[i + a - 1] - c[a] + 1]
  BY DEF N
<1>12. \A i \in 1..N + 1 : e[i] = c[i + a - 1] - c[a] + 1
  BY <1>11
<1>13. \A i \in 1..N : /\ i + a - 1 \in 1..n /\ i \in 1..N + 1 /\ i + 1 \in 1..N + 1
                       /\ (i + 1) + a - 1 = (i + a - 1) + 1
                       /\ a <= i + a - 1 /\ i + a - 1 <= b
                       /\ i # N => i + 1 \in 1..N
  BY <1>1, <1>2, <1>10
<1>14. \A i \in 1..N : /\ c[i + a - 1] \in Nat /\ c[a] <= c[i + a - 1]
                       /\ c[i + a - 1] <= c[b]
  <2>. SUFFICES ASSUME NEW i \in 1..N
                PROVE  /\ c[i + a - 1] \in Nat /\ c[a] <= c[i + a - 1]
                       /\ c[i + a - 1] <= c[b]
    OBVIOUS
  <2>. DEFINE p == i + a - 1
  <2>1. p \in 1..n /\ a <= p /\ p <= b
    BY <1>13
  <2>. HIDE DEF p
  <2>2. p \in 1..n + 1 /\ a \in 1..n + 1 /\ b \in 1..n + 1
    BY <1>1, <1>2, <2>1
  <2>3. c[p] \in Nat /\ c[a] <= c[p] /\ c[p] <= c[b]
    BY <1>7, <2>1, <2>2
  <2> QED
    BY <2>3 DEF p
<1>15. \A i \in 1..N : e[i] \in 1..M /\ e[i] + c[a] - 1 = c[i + a - 1]
  <2>. SUFFICES ASSUME NEW i \in 1..N
                PROVE  e[i] \in 1..M /\ e[i] + c[a] - 1 = c[i + a - 1]
    OBVIOUS
  <2>. DEFINE x == c[i + a - 1]
              y == c[a]
              z == c[b]
  <2>1. e[i] = x - y + 1 /\ x \in Nat /\ y <= x /\ x <= z
    BY <1>12, <1>13, <1>14
  <2>2. y \in Nat /\ z \in Nat /\ M = z - y + 1
    BY <1>4, <1>10
  <2>. HIDE DEF x, y, z
  <2>3. e[i] \in 1..M /\ e[i] + y - 1 = x
    BY <2>1, <2>2
  <2> QED
    BY <2>3 DEF x, y
<1>16. e[1] = 1 /\ e[N + 1] = M + 1
  <2>1. e[1] = c[a] - c[a] + 1
    BY <1>10, <1>12
  <2>2. e[N + 1] = c[b + 1] - c[a] + 1
    BY <1>10, <1>12
  <2> QED
    BY <1>4, <1>9, <1>10, <2>1, <2>2
<1>17. e \in [1..N + 1 -> 1..M + 1]
  <2>1. \A i \in 1..N + 1 : e[i] \in 1..M + 1
    <3>. SUFFICES ASSUME NEW i \in 1..N + 1
                  PROVE  e[i] \in 1..M + 1
      OBVIOUS
    <3>1. CASE i \in 1..N
      BY <1>10, <1>15, <3>1
    <3>2. CASE i \notin 1..N
      <4>1. i = N + 1
        BY <1>10, <3>2
      <4> QED
        BY <1>10, <1>16, <4>1
    <3> QED
      BY <3>1, <3>2
  <2> QED
    BY <1>11, <2>1
<1>18. \A i \in 1..N : Kind(uu, e[i]) = Kind(tt, i)
  <2>. SUFFICES ASSUME NEW i \in 1..N
                PROVE  Kind(uu, e[i]) = Kind(tt, i)
    OBVIOUS
  <2>1. Kind(uu, e[i]) = Kind(u, e[i] + c[a] - 1)
    BY <1>6, <1>15
  <2>2. Kind(u, c[i + a - 1]) = Kind(t, i + a - 1)
    BY <1>8, <1>13
  <2>3. Kind(uu, e[i]) = Kind(u, c[i + a - 1])
    BY <1>15, <2>1
  <2> QED
    BY <1>5, <2>2, <2>3
<1>19. \A i \in 1..N : TwoSpaces(tt, i) <=> TwoSpaces(t, i + a - 1)
  <2>. SUFFICES ASSUME NEW i \in 1..N
                PROVE  TwoSpaces(tt, i) <=> TwoSpaces(t, i + a - 1)
    OBVIOUS
  <2>1. CASE i # N
    <3>1. /\ Kind(tt, i) = Kind(t, i + a - 1)
          /\ Kind(tt, i + 1) = Kind(t, (i + a - 1) + 1)
      BY <1>5, <1>13, <2>1
    <3> QED
      BY <3>1, Zenon DEF TwoSpaces
  <2>2. CASE i = N
    <3>1. i + a - 1 = b
      BY <1>2, <1>10, <2>2
    <3>2. Kind(tt, i) = Kind(t, b)
      BY <1>5, <3>1
    <3> QED
      BY <1>2, <3>1, <3>2 DEF TwoSpaces, Solid
  <2> QED
    BY <2>1, <2>2
<1>20. \A i \in 1..N : e[i + 1] = IF TwoSpaces(tt, i) THEN e[i] ELSE e[i] + 1
  <2>. SUFFICES ASSUME NEW i \in 1..N
                PROVE  e[i + 1] = IF TwoSpaces(tt, i) THEN e[i] ELSE e[i] + 1
    OBVIOUS
  <2>. DEFINE p == i + a - 1
  <2>1. p \in 1..n /\ i + 1 \in 1..N + 1 /\ (i + 1) + a - 1 = p + 1
    BY <1>13
  <2>2. e[i + 1] = c[p + 1] - c[a] + 1
    BY <1>12, <2>1
  <2>3. e[i] = c[p] - c[a] + 1 /\ c[p] \in Nat
    BY <1>12, <1>13, <1>14
  <2>4. TwoSpaces(tt, i) <=> TwoSpaces(t, p)
    BY <1>19
  <2>. HIDE DEF p
  <2>5. c[p + 1] = IF TwoSpaces(t, p) THEN c[p] ELSE c[p] + 1
    BY <1>8, <2>1
  <2>6. CASE TwoSpaces(t, p)
    BY <2>2, <2>3, <2>4, <2>5, <2>6
  <2>7. CASE ~ TwoSpaces(t, p)
    <3>1. c[p + 1] = c[p] + 1
      BY <2>5, <2>7
    <3>2. e[i + 1] = e[i] + 1
      BY <1>4, <2>2, <2>3, <3>1
    <3> QED
      BY <2>4, <2>7, <3>2
  <2> QED
    BY <2>6, <2>7
<1> QED
  BY <1>5, <1>6, <1>16, <1>17, <1>18, <1>20, Zenon DEF Aligned, tt, uu

\* Stripping makes twins of twins.
LEMMA StripTwins ==
  ASSUME NEW t \in Seq(WorkTokens), NEW u \in Seq(WorkTokens), NEW line, NEW left,
         Twins(t, u, line, left)
  PROVE  Twins(Strip(t), Strip(u), line, left)
<1>1. PICK c : Aligned(t, u, c) /\ Alike(t, u, c, line, left)
  BY DEF Twins
<1>2. CASE \A i \in 1..Len(t) : ~ Solid(t, i)
  <2>1. \A l \in 1..Len(u) : ~ Solid(u, l)
    BY <1>1, <1>2, StrippedAlike, Zenon
  <2>2. (~ \E a, b : Stripped(t, a, b)) /\ (~ \E a, b : Stripped(u, a, b))
    BY <1>2, <2>1, Zenon DEF Stripped
  <2>3. Strip(t) = <<>> /\ Strip(u) = <<>>
    BY <2>2, StrippedIs, Zenon
  <2>. DEFINE d == [i \in 1..1 |-> 1]
  <2>4. Len(<<>>) = 0 /\ 0 + 1 = 1 /\ 1..0 = {} /\ d \in [1..1 -> 1..1] /\ d[1] = 1
    OBVIOUS
  <2>. HIDE DEF d
  <2>5. Aligned(<<>>, <<>>, d)
    BY <2>4, Zenon DEF Aligned
  <2>6. Alike(<<>>, <<>>, d, line, left)
    BY <2>4, Zenon DEF Alike
  <2> QED
    BY <2>3, <2>5, <2>6, Zenon DEF Twins
<1>3. CASE ~ \A i \in 1..Len(t) : ~ Solid(t, i)
  <2>1. PICK a, b : Stripped(t, a, b) /\ Strip(t) = SubSeq(t, a, b)
    BY <1>3, StrippedIs, Zenon
  <2>2. Stripped(u, c[a], c[b])
    BY <1>1, <2>1, StrippedAlike, Zenon
  <2>3. Strip(u) = SubSeq(u, c[a], c[b])
    BY <2>2, StrippedOnce, Zenon
  <2>. DEFINE N == b - a + 1
              d == [i \in 1..N + 1 |-> c[i + a - 1] - c[a] + 1]
              tt == SubSeq(t, a, b)
              uu == SubSeq(u, c[a], c[b])
              n == Len(t)
              m == Len(u)
  <2>4. Aligned(tt, uu, d)
    BY <1>1, <2>1, PartsAligned
  <2>5. /\ a \in 1..n /\ b \in 1..n /\ a <= b
        /\ c[a] \in 1..m /\ c[b] \in 1..m /\ c[a] <= c[b]
        /\ \A q \in 1..n : q < a => ~ Solid(t, q)
    BY <2>1, <2>2 DEF Stripped
  <2>6. /\ tt \in Seq(WorkTokens) /\ Len(tt) = N /\ N \in Nat \ {0}
        /\ \A i \in 1..N : /\ i + a - 1 \in 1..n /\ tt[i] = t[i + a - 1]
                           /\ Kind(tt, i) = Kind(t, i + a - 1)
    BY <2>5, PartIs
  <2>7. /\ Len(uu) = c[b] - c[a] + 1
        /\ \A i \in 1..c[b] - c[a] + 1 : uu[i] = u[i + c[a] - 1]
    <3>. DEFINE x == c[a]
                y == c[b]
    <3>1. x \in 1..Len(u) /\ y \in 1..Len(u) /\ x <= y
      BY <2>5
    <3>. HIDE DEF x, y
    <3>2. /\ Len(SubSeq(u, x, y)) = y - x + 1
          /\ \A i \in 1..y - x + 1 : SubSeq(u, x, y)[i] = u[i + x - 1]
      BY <3>1, PartIs
    <3> QED
      BY <3>2 DEF x, y
  <2>8. \A i \in 1..N : d[i] = c[i + a - 1] - c[a] + 1
    BY <2>6
  <2>9. n \in Nat /\ m \in Nat
    OBVIOUS
  <2>10. \A i \in 1..N : c[i + a - 1] \in Nat
    <3>1. Ordered(t, u, c)
      BY <1>1, AlignedOrder
    <3>2. \A p \in 1..n : c[p] \in 1..m
      BY <3>1, Zenon DEF Ordered, n, m
    <3>3. \A p \in 1..n : c[p] \in Nat
      BY <2>9, <3>2
    <3> QED
      BY <2>6, <3>3, Zenon
  <2>11. \A i \in 1..N : d[i] \in 1..Len(uu)
    <3>1. Ordered(tt, uu, d)
      <4>1. uu \in Seq(WorkTokens)
        BY <2>5, PartIs
      <4> QED
        BY <2>4, <2>6, <4>1, AlignedOrder, Zenon
    <3> QED
      BY <2>6, <3>1, Zenon DEF Ordered
  <2>. HIDE DEF N, d, tt, uu, n, m
  <2>12. \A i \in 1..N : d[i] + c[a] - 1 = c[i + a - 1]
    BY <2>5, <2>8, <2>10
  <2>13. \A i \in 1..N : uu[d[i]] = u[c[i + a - 1]]
    BY <2>7, <2>11, <2>12
  <2>14. ASSUME NEW i \in 1..N
         PROVE  tt[i] = uu[d[i]] \/ Awaits(tt, line, left, i)
    <3>. DEFINE p == i + a - 1
                z == a - 1
    <3>1. /\ p \in 1..n /\ tt[i] = t[p] /\ Kind(tt, i) = Kind(t, p) /\ uu[d[i]] = u[c[p]]
      BY <2>6, <2>13
    <3>2. z \in Nat /\ p \in Nat /\ p = i + z /\ i \in Nat /\ i >= 1
      BY <2>5, <2>6, <2>9
    <3>3. Shifted(t, tt, z, i)
      <4>1. \A q \in 1..z : Kind(t, q) = " "
        <5>1. \A q \in 1..z : q \in 1..n /\ q < a
          BY <2>5, <2>9
        <5> QED
          BY <2>5, <5>1, Zenon DEF Solid
      <4>2. \A q \in 1..i : Kind(tt, q) = Kind(t, q + z)
        <5>1. \A q \in 1..i : q \in 1..N /\ q + a - 1 = q + z
          BY <2>5, <2>6
        <5> QED
          BY <2>6, <5>1
      <4> QED
        BY <4>1, <4>2, Zenon DEF Shifted
    <3>. HIDE DEF p, z
    <3>4. t[p] = u[c[p]] \/ Awaits(t, line, left, p)
      BY <1>1, <3>1, Zenon DEF Alike, n
    <3>5. Claimed(t, line, left, p) => Claimed(tt, line, left, i)
      BY <2>6, <3>2, <3>3, ClaimedMoves, Zenon
    <3>6. Awaits(t, line, left, p) => Awaits(tt, line, left, i)
      BY <3>1, <3>5 DEF Awaits
    <3> QED
      BY <3>1, <3>4, <3>6, Zenon
  <2>15. Alike(tt, uu, d, line, left)
    BY <2>6, <2>14, Zenon DEF Alike
  <2> QED
    BY <2>1, <2>3, <2>4, <2>15, Zenon DEF Twins, tt, uu
<1> QED
  BY <1>2, <1>3

-----------------------------------------------------------------------------
(* When spaces collapse *)

Squeeze(t) == Substitute(t, SpaceEndsOf(t), SpaceBy(t))

SqueezeWalk(t) == WalkOf(t, SpaceEndsOf(t), SpaceBy(t))

\* A space is matched with the gap that begins there, nothing else is.
Runs(t, n, to) ==
  \A i \in 1..n :
    /\ to[i] \in i + 1..n + 1
    /\ Solid(t, i) => to[i] = i + 1
    /\ ~ Solid(t, i) => (\A q \in i..to[i] - 1 : ~ Solid(t, q)) /\ Solid(t, to[i])

\* That is how the spaces of a text are matched.
LEMMA SpaceRuns ==
  ASSUME NEW t \in Seq(WorkTokens)
  PROVE  /\ \A i \in 1..Len(t) : Matched(SpaceEndsOf(t), i) <=> ~ Solid(t, i)
         /\ Runs(t, Len(t), [i \in 1..Len(t) |-> Beyond(SpaceEndsOf(t), i)])
<1>. DEFINE n == Len(t)
            e == SpaceEndsOf(t)
            to == [i \in 1..n |-> Beyond(e, i)]
<1>1. n \in Nat /\ DOMAIN t = 1..n
  OBVIOUS
<1>2. \A i \in 1..n : e[i] = RunEnd(t, i, {" "})
  BY <1>1 DEF SpaceEndsOf
<1>3. \A i \in 1..n : /\ e[i] \in i..n + 1
                      /\ e[i] # i <=> Kind(t, i) = " "
                      /\ Kind(t, e[i]) # " "
                      /\ \A k \in i..e[i] - 1 : Kind(t, k) = " "
  BY <1>2, SpaceEnds
<1>4. \A i \in 1..n : /\ e[i] \in i..n + 1
                      /\ e[i] # i <=> ~ Solid(t, i)
                      /\ Solid(t, e[i])
                      /\ \A k \in i..e[i] - 1 : ~ Solid(t, k)
  BY <1>3, Zenon DEF Solid
<1>. HIDE DEF n, e
<1>5. \A i \in 1..n : Matched(e, i) <=> ~ Solid(t, i)
  <2>1. \A i \in 1..n : e[i] > i <=> e[i] # i
    BY <1>1, <1>4
  <2> QED
    BY <1>4, <2>1, Zenon DEF Matched
<1>6. \A i \in 1..n : to[i] = IF Solid(t, i) THEN i + 1 ELSE e[i]
  BY <1>5 DEF Beyond
<1>7. \A i \in 1..n : ~ Solid(t, i) => e[i] \in i + 1..n + 1
  BY <1>1, <1>4
<1>8. \A i \in 1..n : i + 1 \in i + 1..n + 1
  BY <1>1
<1>. HIDE DEF to
<1>9. Runs(t, n, to)
  <2>. SUFFICES ASSUME NEW i \in 1..n
                PROVE  /\ to[i] \in i + 1..n + 1
                       /\ Solid(t, i) => to[i] = i + 1
                       /\ ~ Solid(t, i) => /\ \A q \in i..to[i] - 1 : ~ Solid(t, q)
                                          /\ Solid(t, to[i])
    BY DEF Runs
  <2>1. CASE Solid(t, i)
    <3>1. to[i] = i + 1
      BY <1>6, <2>1
    <3> QED
      BY <1>8, <2>1, <3>1
  <2>2. CASE ~ Solid(t, i)
    <3>1. to[i] = e[i]
      BY <1>6, <2>2
    <3> QED
      BY <1>4, <1>7, <2>2, <3>1
  <2> QED
    BY <2>1, <2>2
<1> QED
  BY <1>5, <1>9, Zenon DEF n, e, to

\* One place of the walk for each run, one after another.
Strides(w, at, n, to) ==
  /\ w \in Nat
  /\ \A k \in 1..w : at[k] \in 1..n
  /\ n > 0 => w > 0 /\ at[1] = 1
  /\ n = 0 => w = 0
  /\ \A k \in 1..w : IF to[at[k]] > n THEN k = w ELSE k < w /\ at[k + 1] = to[at[k]]
  /\ \A k, l \in 1..w : k < l => at[l] >= to[at[k]]
  /\ \A p \in 1..n : \E k \in 1..w : at[k] <= p /\ p < to[at[k]]

\* That is how the text is walked through.
LEMMA SqueezeStrides ==
  ASSUME NEW t \in Seq(WorkTokens)
  PROVE  LET w == SqueezeWalk(t)
         IN  /\ Strides(Len(w), [k \in 1..Len(w) |-> w[k].at], Len(t),
                        [i \in 1..Len(t) |-> Beyond(SpaceEndsOf(t), i)])
             /\ \A k \in 1..Len(w) : w[k] = First(SpaceEndsOf(t), w[k].at)
<1>. DEFINE n == Len(t)
            e == SpaceEndsOf(t)
            by == SpaceBy(t)
            size == Sizes(t, by)
            w == SqueezeWalk(t)
            m == Len(w)
            to == [i \in 1..n |-> Beyond(e, i)]
            at == [k \in 1..m |-> w[k].at]
<1>1. n \in Nat /\ DOMAIN t = 1..n
  OBVIOUS
<1>2. Fits(n, e, by, WorkTokens)
  BY SubstitutionsFit, Zenon
<1>3. \A i \in 1..n : size[i] = 1
  <2>1. \A i \in 1..n : by[i] = <<Mark(" ")>>
    BY <1>1 DEF SpaceBy
  <2>2. \A i \in 1..n : size[i] = Len(by[i])
    BY DEF Sizes
  <2> QED
    BY <2>1, <2>2
<1>4. IsWalk(w, 1, n, e, size)
  BY <1>2, WalkOfText, Zenon DEF SqueezeWalk
<1>5. /\ w \in Seq(Places) /\ m \in Nat
      /\ \A k \in 1..m : IsPlace(w[k], 1, n, e, size)
      /\ IF 1 > n THEN w = <<>> ELSE m > 0 /\ w[1] = First(e, 1)
      /\ StepsRight(w, n, e, size)
      /\ InOrder(w, e)
      /\ Covered(w, 1, n, e)
  BY <1>4 DEF IsWalk
<1>6. 1 > n => m = 0
  BY <1>5
<1>. HIDE DEF n, e, by, size, w, m
<1>7. \A k \in 1..m : /\ w[k] \in Places /\ w[k].at \in 1..n
                      /\ w[k].part = IF Matched(e, w[k].at) THEN 1 ELSE 0
  <2>. SUFFICES ASSUME NEW k \in 1..m
                PROVE  /\ w[k] \in Places /\ w[k].at \in 1..n
                       /\ w[k].part = IF Matched(e, w[k].at) THEN 1 ELSE 0
    OBVIOUS
  <2>1. /\ w[k] \in Places /\ w[k].at \in 1..n
        /\ IF Matched(e, w[k].at) THEN w[k].part \in 1..size[w[k].at] ELSE w[k].part = 0
    BY <1>5, Zenon DEF IsPlace
  <2>2. size[w[k].at] = 1
    BY <1>3, <2>1
  <2> QED
    BY <2>1, <2>2
<1>8. \A k \in 1..m : w[k] = First(e, w[k].at) /\ IsLast(size, w[k])
  <2>1. \A k \in 1..m : w[k] = First(e, w[k].at)
    BY <1>7 DEF First, Places, Place
  <2>2. \A k \in 1..m : w[k].part = 0 \/ w[k].part = 1
    BY <1>7
  <2> QED
    BY <1>3, <1>7, <2>1, <2>2 DEF IsLast
<1>9. \A i \in 1..n : to[i] = Beyond(e, i)
  OBVIOUS
<1>10. \A k \in 1..m : at[k] = w[k].at /\ at[k] \in 1..n /\ to[at[k]] = Beyond(e, w[k].at)
  BY <1>7, <1>9
<1>11. \A x : First(e, x).at = x
  BY DEF First, Place
<1>. HIDE DEF to, at
<1>12. \A k \in 1..m : IF to[at[k]] > n THEN k = m ELSE k < m /\ at[k + 1] = to[at[k]]
  <2>. SUFFICES ASSUME NEW k \in 1..m
                PROVE  IF to[at[k]] > n THEN k = m ELSE k < m /\ at[k + 1] = to[at[k]]
    OBVIOUS
  <2>1. IF Beyond(e, w[k].at) > n THEN k = Len(w)
        ELSE k < Len(w) /\ w[k + 1] = First(e, Beyond(e, w[k].at))
    BY <1>5, <1>8, Zenon DEF StepsRight, m
  <2>2. Len(w) = m
    BY DEF m
  <2>3. CASE to[at[k]] > n
    BY <1>10, <2>1, <2>2, <2>3
  <2>4. CASE ~ (to[at[k]] > n)
    <3>1. k < m /\ w[k + 1] = First(e, Beyond(e, w[k].at))
      BY <1>10, <2>1, <2>2, <2>4
    <3>2. k + 1 \in 1..m
      BY <1>5, <3>1
    <3>3. at[k + 1] = to[at[k]]
      BY <1>10, <1>11, <3>1, <3>2
    <3> QED
      BY <2>4, <3>1, <3>3
  <2> QED
    BY <2>3, <2>4
<1>13. \A k, l \in 1..m : k < l => at[l] >= to[at[k]]
  <2>. SUFFICES ASSUME NEW k \in 1..m, NEW l \in 1..m, k < l
                PROVE  at[l] >= to[at[k]]
    OBVIOUS
  <2>1. \/ w[l].at = w[k].at /\ w[l].part > w[k].part
        \/ w[l].at >= Beyond(e, w[k].at)
    BY <1>5 DEF InOrder, m
  <2>2. w[l].at = w[k].at => w[l] = w[k]
    BY <1>8, Zenon
  <2>3. w[k].part \in Nat /\ (w[l].at = w[k].at => w[l].part = w[k].part)
    BY <1>7, <2>2
  <2>4. ~ (w[l].at = w[k].at /\ w[l].part > w[k].part)
    BY <2>3
  <2> QED
    BY <1>10, <2>1, <2>4
<1>14. \A p \in 1..n : \E k \in 1..m : at[k] <= p /\ p < to[at[k]]
  <2>. SUFFICES ASSUME NEW p \in 1..n
                PROVE  \E k \in 1..m : at[k] <= p /\ p < to[at[k]]
    OBVIOUS
  <2>1. PICK k \in 1..m : w[k].at <= p /\ p < Beyond(e, w[k].at)
    BY <1>5, Zenon DEF Covered, m
  <2> QED
    BY <1>10, <2>1
<1>15. /\ n > 0 => m > 0 /\ at[1] = 1
       /\ n = 0 => m = 0
  <2>1. n > 0 => m > 0 /\ w[1] = First(e, 1)
    BY <1>1, <1>5
  <2>2. n > 0 => 1 \in 1..m
    BY <1>5, <2>1
  <2>3. n > 0 => at[1] = 1
    BY <1>10, <1>11, <2>1, <2>2
  <2> QED
    BY <1>1, <1>6, <2>1, <2>3
<1>16. Strides(m, at, n, to)
  BY <1>5, <1>10, <1>12, <1>13, <1>14, <1>15 DEF Strides
<1> QED
  BY <1>8, <1>16, Zenon DEF n, e, w, m, at, to

\* a gives the place in the walk of each token.
RunOf(t, w, at, to, a) ==
  /\ a \in [1..Len(t) + 1 -> 1..w + 1]
  /\ a[1] = 1 /\ a[Len(t) + 1] = w + 1
  /\ \A i \in 1..Len(t) :
       /\ a[i] \in 1..w /\ (Solid(t, at[a[i]]) <=> Solid(t, i))
       /\ Solid(t, i) => at[a[i]] = i
       /\ a[i + 1] = IF TwoSpaces(t, i) THEN a[i] ELSE a[i] + 1

\* There are such places.
LEMMA RunsAreFound ==
  ASSUME NEW t \in Seq(WorkTokens), NEW w, NEW at, NEW to,
         Runs(t, Len(t), to), Strides(w, at, Len(t), to)
  PROVE  \E a : RunOf(t, w, at, to, a)
<1>. DEFINE n == Len(t)
            In(i, k) == at[k] <= i /\ i < to[at[k]]
            a == [i \in 1..n + 1 |->
                    IF i = n + 1 THEN w + 1 ELSE CHOOSE k \in 1..w : In(i, k)]
<1>1. n \in Nat
  OBVIOUS
<1>2. /\ w \in Nat
      /\ \A k \in 1..w : at[k] \in 1..n
      /\ n > 0 => w > 0 /\ at[1] = 1
      /\ n = 0 => w = 0
      /\ \A k \in 1..w : IF to[at[k]] > n THEN k = w ELSE k < w /\ at[k + 1] = to[at[k]]
      /\ \A k, l \in 1..w : k < l => at[l] >= to[at[k]]
      /\ \A p \in 1..n : \E k \in 1..w : In(p, k)
  BY DEF Strides
<1>3. \A i \in 1..n : /\ to[i] \in i + 1..n + 1
                      /\ Solid(t, i) => to[i] = i + 1
                      /\ ~ Solid(t, i) => /\ \A q \in i..to[i] - 1 : ~ Solid(t, q)
                                          /\ Solid(t, to[i])
  BY DEF Runs
<1>. HIDE DEF n
<1>4. \A i \in 1..n : a[i] \in 1..w /\ In(i, a[i])
  <2>. SUFFICES ASSUME NEW i \in 1..n
                PROVE  a[i] \in 1..w /\ In(i, a[i])
    OBVIOUS
  <2>1. i \in 1..n + 1 /\ i # n + 1
    BY <1>1
  <2>2. \E k \in 1..w : In(i, k)
    BY <1>2, Zenon
  <2>. HIDE DEF In
  <2>3. a[i] = CHOOSE k \in 1..w : In(i, k)
    BY <2>1
  <2> QED
    BY <2>2, <2>3
<1>5. a[n + 1] = w + 1
  BY <1>1
<1>6. \A x \in 1..n : to[x] \in Nat
  <2>. SUFFICES ASSUME NEW x \in 1..n
                PROVE  to[x] \in Nat
    OBVIOUS
  <2>1. to[x] \in x + 1..n + 1
    BY <1>3
  <2> QED
    BY <1>1, <2>1
<1>7. \A i \in 1..n : \A k, l \in 1..w : In(i, k) /\ In(i, l) => k = l
  <2>. SUFFICES ASSUME NEW i \in 1..n, NEW k \in 1..w, NEW l \in 1..w
                PROVE  In(i, k) /\ In(i, l) => k = l
    BY Zenon
  <2>. SUFFICES ASSUME In(i, k), In(i, l)
                PROVE  k = l
    OBVIOUS
  <2>1. at[k] \in 1..n /\ at[l] \in 1..n
    BY <1>2
  <2>2. to[at[k]] \in Nat /\ to[at[l]] \in Nat
    BY <1>6, <2>1
  <2>3. at[k] <= i /\ i < to[at[k]] /\ at[l] <= i /\ i < to[at[l]]
    OBVIOUS
  <2>4. k < l => at[l] >= to[at[k]]
    BY <1>2
  <2>5. l < k => at[k] >= to[at[l]]
    BY <1>2
  <2>6. i \in Nat /\ at[k] \in Nat /\ at[l] \in Nat
    BY <1>1, <2>1
  <2>7. ~ (k < l) /\ ~ (l < k)
    BY <2>2, <2>3, <2>4, <2>5, <2>6
  <2>8. k \in Nat /\ l \in Nat
    BY <1>2
  <2> QED
    BY <2>7, <2>8
<1>8. a \in [1..n + 1 -> 1..w + 1]
  <2>1. \A i \in 1..n + 1 : a[i] \in 1..w + 1
    <3>. SUFFICES ASSUME NEW i \in 1..n + 1
                  PROVE  a[i] \in 1..w + 1
      OBVIOUS
    <3>. HIDE DEF a
    <3>1. CASE i \in 1..n
      <4>1. a[i] \in 1..w
        BY <1>4, <3>1
      <4> QED
        BY <1>2, <4>1
    <3>2. CASE i \notin 1..n
      <4>1. i = n + 1
        BY <1>1, <3>2
      <4> QED
        BY <1>2, <1>5, <4>1
    <3> QED
      BY <3>1, <3>2
  <2>2. a = [i \in 1..n + 1 |-> a[i]]
    OBVIOUS
  <2>. HIDE DEF a
  <2> QED
    BY <2>1, <2>2
<1>. HIDE DEF a
<1>9. a[1] = 1
  <2>1. CASE n = 0
    BY <1>2, <1>5, <2>1
  <2>2. CASE n # 0
    <3>1. 1 \in 1..n /\ 1 \in 1..w /\ at[1] = 1
      BY <1>1, <1>2, <2>2
    <3>2. to[1] \in Nat /\ 1 < to[1]
      BY <1>1, <1>3, <3>1
    <3>3. In(1, 1)
      BY <3>1, <3>2
    <3> QED
      BY <1>4, <1>7, <3>1, <3>3, Zenon
  <2> QED
    BY <2>1, <2>2
<1>10. ASSUME NEW i \in 1..n
       PROVE  /\ a[i] \in 1..w /\ (Solid(t, at[a[i]]) <=> Solid(t, i))
              /\ Solid(t, i) => at[a[i]] = i
              /\ a[i + 1] = IF TwoSpaces(t, i) THEN a[i] ELSE a[i] + 1
  <2>. DEFINE k == a[i]
              x == at[k]
              y == to[x]
              j == i + 1
  <2>1. /\ k \in 1..w /\ x <= i /\ i < y
    BY <1>4
  <2>2. x \in 1..n
    BY <1>2, <2>1
  <2>3. /\ y \in x + 1..n + 1
        /\ Solid(t, x) => y = x + 1
        /\ ~ Solid(t, x) => (\A q \in x..y - 1 : ~ Solid(t, q)) /\ Solid(t, y)
    BY <1>3, <2>2
  <2>4. /\ IF y > n THEN k = w ELSE k < w /\ at[k + 1] = y
    BY <1>2, <2>1
  <2>5. j \in Nat /\ j = i + 1
    BY <1>1
  <2>6. TwoSpaces(t, i) <=> ~ Solid(t, i) /\ ~ Solid(t, j)
    BY Zenon DEF TwoSpaces, Solid
  <2>. HIDE DEF k, x, y, j
  <2>7. (Solid(t, x) <=> Solid(t, i)) /\ (Solid(t, i) => x = i)
    <3>1. CASE Solid(t, x)
      <4>1. x = i
        BY <2>1, <2>2, <2>3, <3>1
      <4> QED
        BY <3>1, <4>1
    <3>2. CASE ~ Solid(t, x)
      <4>1. i \in x..y - 1
        BY <2>1, <2>2, <2>3
      <4> QED
        BY <2>3, <3>2, <4>1
    <3> QED
      BY <3>1, <3>2
  <2>8. CASE TwoSpaces(t, i)
    <3>1. ~ Solid(t, x) /\ Solid(t, y) /\ ~ Solid(t, j)
      BY <2>3, <2>6, <2>7, <2>8
    <3>2. j # y
      BY <3>1
    <3>3. x <= j /\ j < y /\ j \in 1..n
      BY <1>1, <2>1, <2>2, <2>3, <2>5, <3>2
    <3>4. In(j, k) /\ In(j, a[j])
      BY <1>4, <3>3 DEF x, y
    <3>5. a[j] = k
      BY <1>4, <1>7, <2>1, <3>3, <3>4
    <3> QED
      BY <2>1, <2>7, <2>8, <3>5, Zenon DEF k, x, j
  <2>9. CASE ~ TwoSpaces(t, i)
    <3>1. j = y
      <4>1. CASE Solid(t, i)
        BY <2>3, <2>5, <2>7, <4>1
      <4>2. CASE ~ Solid(t, i)
        <5>1. Solid(t, j) /\ ~ Solid(t, x)
          BY <2>6, <2>7, <2>9, <4>2
        <5>2. j \notin x..y - 1
          BY <2>3, <5>1
        <5> QED
          BY <2>1, <2>2, <2>3, <2>5, <5>2
      <4> QED
        BY <4>1, <4>2
    <3>2. a[j] = k + 1
      <4>1. CASE y > n
        <5>1. j = n + 1 /\ k = w
          BY <1>1, <2>3, <2>4, <3>1, <4>1
        <5> QED
          BY <1>5, <5>1
      <4>2. CASE ~ (y > n)
        <5>1. k + 1 \in 1..w /\ at[k + 1] = j /\ j \in 1..n
          BY <1>1, <1>2, <2>1, <2>4, <2>3, <2>5, <3>1, <4>2
        <5>2. to[j] \in Nat /\ j < to[j]
          BY <1>1, <1>3, <5>1
        <5>3. In(j, k + 1)
          BY <5>1, <5>2
        <5> QED
          BY <1>4, <1>7, <5>1, <5>3
      <4> QED
        BY <4>1, <4>2
    <3> QED
      BY <2>1, <2>7, <2>9, <3>2, Zenon DEF k, x, j
  <2> QED
    BY <2>8, <2>9
<1> QED
  BY <1>5, <1>8, <1>9, <1>10, Zenon DEF RunOf, n

\* A text is aligned with what is left when its gaps have collapsed.
SqueezedTo(t, s, a) ==
  /\ Aligned(t, s, a)
  /\ \A i \in 1..Len(t) : s[a[i]] = IF Solid(t, i) THEN t[i] ELSE Mark(" ")

\* It is aligned with it.
LEMMA SqueezeAligned ==
  ASSUME NEW t \in Seq(WorkTokens)
  PROVE  \E a : SqueezedTo(t, Squeeze(t), a)
<1>. DEFINE n == Len(t)
            e == SpaceEndsOf(t)
            by == SpaceBy(t)
            v == SqueezeWalk(t)
            m == Len(v)
            s == Squeeze(t)
            to == [i \in 1..n |-> Beyond(e, i)]
            at == [k \in 1..m |-> v[k].at]
<1>1. n \in Nat /\ DOMAIN t = 1..n
  OBVIOUS
<1>2. Fits(n, e, by, WorkTokens)
  BY SubstitutionsFit, Zenon
<1>3. /\ s \in Seq(WorkTokens) /\ Len(s) = m
      /\ \A k \in 1..m : s[k] = Picked(t, by, v[k])
  BY <1>2, WalkOfText, Zenon DEF SqueezeWalk, Squeeze
<1>4. /\ \A i \in 1..n : Matched(e, i) <=> ~ Solid(t, i)
      /\ Runs(t, n, to)
  BY SpaceRuns, Zenon
<1>5. Strides(m, at, n, to) /\ \A k \in 1..m : v[k] = First(e, v[k].at)
  BY SqueezeStrides, Zenon
<1>6. PICK a : RunOf(t, m, at, to, a)
  BY <1>4, <1>5, RunsAreFound, Zenon
<1>7. \A i \in 1..n : by[i][1] = Mark(" ")
  BY <1>1 DEF SpaceBy
<1>8. \A k \in 1..m : at[k] = v[k].at /\ at[k] \in 1..n
  <2>1. \A k \in 1..m : at[k] = v[k].at
    OBVIOUS
  <2>2. \A k \in 1..m : at[k] \in 1..n
    BY <1>5, Zenon DEF Strides
  <2> QED
    BY <2>1, <2>2
<1>. HIDE DEF n, e, by, v, m, s, to, at
<1>9. /\ a \in [1..n + 1 -> 1..m + 1]
      /\ a[1] = 1 /\ a[n + 1] = m + 1
      /\ \A i \in 1..n :
           /\ a[i] \in 1..m /\ (Solid(t, at[a[i]]) <=> Solid(t, i))
           /\ Solid(t, i) => at[a[i]] = i
           /\ a[i + 1] = IF TwoSpaces(t, i) THEN a[i] ELSE a[i] + 1
  BY <1>6 DEF RunOf, n
<1>10. ASSUME NEW i \in 1..n
       PROVE  s[a[i]] = IF Solid(t, i) THEN t[i] ELSE Mark(" ")
  <2>. DEFINE k == a[i]
              x == at[k]
  <2>1. /\ k \in 1..m /\ (Solid(t, x) <=> Solid(t, i))
        /\ Solid(t, i) => x = i
    BY <1>9
  <2>2. x \in 1..n /\ v[k] = First(e, x) /\ s[k] = Picked(t, by, v[k])
    BY <1>3, <1>5, <1>8, <2>1
  <2>. HIDE DEF k, x
  <2>3. CASE Solid(t, i)
    <3>1. ~ Matched(e, x)
      BY <1>4, <2>1, <2>2, <2>3
    <3>2. v[k] = Place(x, 0)
      BY <2>2, <3>1 DEF First
    <3>3. Picked(t, by, Place(x, 0)) = t[x]
      BY DEF Picked, Place
    <3> QED
      BY <2>1, <2>2, <2>3, <3>2, <3>3 DEF k
  <2>4. CASE ~ Solid(t, i)
    <3>1. Matched(e, x)
      BY <1>4, <2>1, <2>2, <2>4
    <3>2. v[k] = Place(x, 1)
      BY <2>2, <3>1 DEF First
    <3>3. Picked(t, by, Place(x, 1)) = by[x][1]
      BY DEF Picked, Place
    <3>4. by[x][1] = Mark(" ")
      BY <1>7, <2>2
    <3> QED
      BY <2>2, <2>4, <3>2, <3>3, <3>4 DEF k
  <2> QED
    BY <2>3, <2>4
<1>11. ASSUME NEW i \in 1..n
       PROVE  Kind(s, a[i]) = Kind(t, i)
  <2>1. a[i] \in 1..m /\ a[i] \in Nat /\ i \in Nat
    <3>1. a[i] \in 1..m
      BY <1>9
    <3> QED
      BY <1>1, <3>1
  <2>2. Kind(s, a[i]) = s[a[i]].kind
    BY <1>3, <2>1, KindIs, Zenon
  <2>3. Kind(t, i) = t[i].kind
    BY <2>1, KindIs, Zenon DEF n
  <2>4. CASE Solid(t, i)
    BY <1>10, <2>2, <2>3, <2>4
  <2>5. CASE ~ Solid(t, i)
    <3>1. Kind(t, i) = " "
      BY <2>5, Zenon DEF Solid
    <3>2. s[a[i]] = Mark(" ")
      BY <1>10, <2>5
    <3>3. Mark(" ").kind = " "
      BY DEF Mark, Token
    <3> QED
      BY <2>2, <3>1, <3>2, <3>3
  <2> QED
    BY <2>4, <2>5
<1>12. Aligned(t, s, a)
  BY <1>3, <1>9, <1>11, Zenon DEF Aligned, n
<1> QED
  BY <1>10, <1>12, Zenon DEF SqueezedTo, n, s

NoGaps(t) == \A i \in 1..Len(t) : ~ TwoSpaces(t, i)

\* There is one way to align a text.
LEMMA AlignedOnce ==
  ASSUME NEW t \in Seq(WorkTokens), NEW u, NEW v, NEW c, NEW a,
         Aligned(t, u, c), Aligned(t, v, a)
  PROVE  \A i \in 1..Len(t) + 1 : c[i] = a[i]
<1>. DEFINE n == Len(t)
            T == {i \in 1..n + 1 : c[i] = a[i]}
<1>1. n \in Nat
  OBVIOUS
<1>2. /\ c[1] = 1 /\ a[1] = 1
      /\ \A i \in 1..n : c[i + 1] = IF TwoSpaces(t, i) THEN c[i] ELSE c[i] + 1
      /\ \A i \in 1..n : a[i + 1] = IF TwoSpaces(t, i) THEN a[i] ELSE a[i] + 1
  BY Zenon DEF Aligned, n
<1>. HIDE DEF n
<1>3. 1 \in T
  BY <1>1, <1>2
<1>4. \A i \in 1..(n + 1) - 1 : i \in T => i + 1 \in T
  <2>. SUFFICES ASSUME NEW i \in 1..(n + 1) - 1, i \in T
                PROVE  i + 1 \in T
    OBVIOUS
  <2>1. i \in 1..n /\ i + 1 \in 1..n + 1
    BY <1>1
  <2>2. c[i + 1] = a[i + 1]
    BY <1>2, <2>1
  <2> QED
    BY <2>1, <2>2
<1>5. n + 1 \in Nat
  BY <1>1
<1>. HIDE DEF T
<1>6. \A i \in 1..n + 1 : i \in T
  BY <1>3, <1>4, <1>5, FromTheBeginning
<1> QED
  BY <1>6 DEF n, T

\* Without gaps it stays where it is.
LEMMA AlignedWithoutGaps ==
  ASSUME NEW t \in Seq(WorkTokens), NEW u \in Seq(WorkTokens), NEW c,
         Aligned(t, u, c), NoGaps(t)
  PROVE  /\ Len(u) = Len(t)
         /\ \A i \in 1..Len(t) + 1 : c[i] = i
<1>. DEFINE n == Len(t)
            m == Len(u)
            T == {i \in 1..n + 1 : c[i] = i}
<1>1. n \in Nat /\ m \in Nat
  OBVIOUS
<1>2. /\ c[1] = 1 /\ c[n + 1] = m + 1
      /\ \A i \in 1..n : c[i + 1] = IF TwoSpaces(t, i) THEN c[i] ELSE c[i] + 1
      /\ \A i \in 1..n : ~ TwoSpaces(t, i)
  BY Zenon DEF Aligned, NoGaps, n, m
<1>. HIDE DEF n, m
<1>3. 1 \in T
  BY <1>1, <1>2
<1>4. \A i \in 1..(n + 1) - 1 : i \in T => i + 1 \in T
  <2>. SUFFICES ASSUME NEW i \in 1..(n + 1) - 1, i \in T
                PROVE  i + 1 \in T
    OBVIOUS
  <2>1. i \in 1..n /\ i + 1 \in 1..n + 1
    BY <1>1
  <2>2. c[i + 1] = i + 1
    BY <1>2, <2>1
  <2> QED
    BY <2>1, <2>2
<1>5. n + 1 \in Nat /\ n + 1 \in 1..n + 1
  BY <1>1
<1>. HIDE DEF T
<1>6. \A i \in 1..n + 1 : i \in T
  BY <1>3, <1>4, <1>5, FromTheBeginning
<1>7. \A i \in 1..n + 1 : c[i] = i
  BY <1>6 DEF T
<1>8. m = n
  BY <1>1, <1>2, <1>5, <1>7
<1> QED
  BY <1>7, <1>8 DEF n, m

\* No gap is left in a text that another is aligned with.
LEMMA AlignedHasNoGaps ==
  ASSUME NEW t \in Seq(WorkTokens), NEW u \in Seq(WorkTokens), NEW c, Aligned(t, u, c)
  PROVE  NoGaps(u)
<1>. DEFINE n == Len(t)
            m == Len(u)
<1>1. n \in Nat /\ m \in Nat
  OBVIOUS
<1>2. Ordered(t, u, c)
  BY AlignedOrder
<1>3. /\ c[1] = 1 /\ c[n + 1] = m + 1
      /\ \A i \in 1..n : c[i + 1] = IF TwoSpaces(t, i) THEN c[i] ELSE c[i] + 1
  BY Zenon DEF Aligned, n, m
<1>4. \A i \in 1..n + 1 : c[i] \in 1..m + 1 /\ Kind(u, c[i]) = Kind(t, i)
  BY <1>2, Zenon DEF Ordered, n, m
<1>. SUFFICES ASSUME NEW l \in 1..m, TwoSpaces(u, l)
              PROVE  FALSE
  BY DEF NoGaps
<1>. DEFINE T == {i \in 1..n + 1 : c[i] >= l + 1}
            x == l + 1
<1>. HIDE DEF n, m
<1>5. x \in Nat /\ x = l + 1 /\ x <= m + 1 /\ l \in Nat
  BY <1>1
<1>6. T \in SUBSET Nat /\ n + 1 \in T
  BY <1>1, <1>3
<1>7. PICK j \in T : \A k \in T : j <= k
  BY <1>6, LeastNumber
<1>. DEFINE i == j - 1
<1>8. j \in 1..n + 1 /\ c[j] >= x /\ j # 1
  BY <1>1, <1>3, <1>5, <1>7
<1>9. i \in 1..n /\ i \in 1..n + 1 /\ i + 1 = j /\ i < j
  BY <1>1, <1>8
<1>10. ~ (c[i] >= x)
  <2>1. i \notin T
    BY <1>1, <1>7, <1>9
  <2> QED
    BY <1>5, <1>9, <2>1
<1>. HIDE DEF i, T
<1>11. c[i] \in Nat /\ c[j] \in Nat
  BY <1>1, <1>4, <1>8, <1>9
<1>12. ~ TwoSpaces(t, i) /\ c[i] = l /\ c[j] = x
  <2>1. c[j] = IF TwoSpaces(t, i) THEN c[i] ELSE c[i] + 1
    BY <1>3, <1>9
  <2>. HIDE DEF x
  <2>2. ~ TwoSpaces(t, i)
    BY <1>8, <1>10, <2>1
  <2>3. c[j] = c[i] + 1
    BY <2>1, <2>2
  <2> QED
    BY <1>5, <1>8, <1>10, <1>11, <2>2, <2>3
<1>13. Kind(t, i) = Kind(u, l) /\ Kind(t, i + 1) = Kind(u, l + 1)
  BY <1>4, <1>8, <1>9, <1>12
<1> QED
  BY <1>12, <1>13, Zenon DEF TwoSpaces

\* Stripping makes no gaps.
LEMMA StripGaps ==
  ASSUME NEW t \in Seq(WorkTokens), NoGaps(t)
  PROVE  NoGaps(Strip(t))
<1>1. CASE Strip(t) = <<>>
  <2>1. Len(<<>>) = 0 /\ 1..0 = {}
    OBVIOUS
  <2> QED
    BY <1>1, <2>1, Zenon DEF NoGaps
<1>2. CASE Strip(t) # <<>>
  <2>1. PICK a, b : Stripped(t, a, b) /\ Strip(t) = SubSeq(t, a, b)
    BY <1>2, StrippedIs, Zenon
  <2>. DEFINE v == SubSeq(t, a, b)
              n == Len(t)
              m == Len(v)
  <2>2. a \in 1..n /\ b \in 1..n /\ a <= b /\ n \in Nat
    BY <2>1 DEF Stripped
  <2>3. /\ v \in Seq(WorkTokens) /\ m = b - a + 1 /\ m \in Nat \ {0}
        /\ \A q \in 1..m : q + a - 1 \in 1..n /\ Kind(v, q) = Kind(t, q + a - 1)
    BY <2>2, PartIs
  <2>. HIDE DEF v, n, m
  <2>4. \A i \in 1..m : ~ TwoSpaces(v, i)
    <3>. SUFFICES ASSUME NEW i \in 1..m, TwoSpaces(v, i)
                  PROVE  FALSE
      OBVIOUS
    <3>1. i + 1 \in 1..m
      <4>1. Kind(v, i + 1) = " "
        BY Zenon DEF TwoSpaces
      <4>2. Kind(v, i + 1) # "end"
        BY <4>1
      <4>3. i + 1 \in Nat
        BY <2>3
      <4> QED
        BY <2>3, <4>2, <4>3, KindIs, Zenon DEF m
    <3>2. (i + 1) + a - 1 = (i + a - 1) + 1
      BY <2>2, <2>3
    <3>3. /\ i + a - 1 \in 1..n /\ Kind(v, i) = Kind(t, i + a - 1)
          /\ Kind(v, i + 1) = Kind(t, (i + a - 1) + 1)
      BY <2>3, <3>1, <3>2
    <3>4. TwoSpaces(t, i + a - 1)
      BY <3>3, Zenon DEF TwoSpaces
    <3> QED
      BY <3>3, <3>4, Zenon DEF NoGaps, n
  <2> QED
    BY <2>1, <2>4, Zenon DEF NoGaps, v, m
<1> QED
  BY <1>1, <1>2

\* A text without gaps is its own twin.
LEMMA OwnTwin ==
  ASSUME NEW t \in Seq(WorkTokens), NoGaps(t), NEW line, NEW left
  PROVE  Twins(t, t, line, left)
<1>. DEFINE n == Len(t)
            c == [i \in 1..n + 1 |-> i]
<1>1. n \in Nat
  OBVIOUS
<1>. HIDE DEF n
<1>2. /\ 1 \in 1..n + 1 /\ n + 1 \in 1..n + 1
      /\ \A i \in 1..n : i \in 1..n + 1 /\ i + 1 \in 1..n + 1
  BY <1>1
<1>3. /\ c \in [1..n + 1 -> 1..n + 1]
      /\ \A i \in 1..n + 1 : c[i] = i
  OBVIOUS
<1>. HIDE DEF c
<1>4. Aligned(t, t, c)
  <2>1. /\ c[1] = 1 /\ c[n + 1] = n + 1
        /\ \A i \in 1..n : c[i] = i /\ c[i + 1] = c[i] + 1
    BY <1>2, <1>3
  <2>2. \A i \in 1..n : ~ TwoSpaces(t, i)
    BY Zenon DEF NoGaps, n
  <2>3. \A i \in 1..n : /\ Kind(t, c[i]) = Kind(t, i)
                        /\ c[i + 1] = IF TwoSpaces(t, i) THEN c[i] ELSE c[i] + 1
    BY <2>1, <2>2
  <2> QED
    BY <1>3, <2>1, <2>3, Zenon DEF Aligned, n
<1>5. Alike(t, t, c, line, left)
  <2>1. \A i \in 1..n : t[i] = t[c[i]]
    BY <1>2, <1>3
  <2> QED
    BY <2>1, Zenon DEF Alike, n
<1> QED
  BY <1>4, <1>5, Zenon DEF Twins

\* A twin has no gaps.
LEMMA TwinHasNoGaps ==
  ASSUME NEW t \in Seq(WorkTokens), NEW u \in Seq(WorkTokens), NEW line, NEW left,
         Twins(t, u, line, left)
  PROVE  NoGaps(u)
BY AlignedHasNoGaps, Zenon DEF Twins

\* Twins without gaps of which nothing awaits a substitution are the same.
LEMMA TwinsAreSame ==
  ASSUME NEW t \in Seq(WorkTokens), NEW u \in Seq(WorkTokens), NEW line,
         Twins(t, u, line, {}), NoGaps(t)
  PROVE  t = u
<1>1. PICK c : Aligned(t, u, c) /\ Alike(t, u, c, line, {})
  BY DEF Twins
<1>2. Len(u) = Len(t) /\ \A i \in 1..Len(t) + 1 : c[i] = i
  BY <1>1, AlignedWithoutGaps, Zenon
<1>3. \A i \in 1..Len(t) : ~ Awaits(t, line, {}, i)
  BY DEF Awaits, Claimed
<1>4. \A i \in 1..Len(t) : t[i] = u[i]
  <2>1. \A i \in 1..Len(t) : t[i] = u[c[i]]
    BY <1>1, <1>3, Zenon DEF Alike
  <2>2. \A i \in 1..Len(t) : i \in 1..Len(t) + 1
    <3>1. Len(t) \in Nat
      OBVIOUS
    <3> QED
      BY <3>1
  <2> QED
    BY <1>2, <2>1, <2>2
<1> QED
  BY <1>2, <1>4

\* s and v are what is left of two aligned texts.
SqueezedPair(t, u, c, s, v) ==
  /\ s \in Seq(WorkTokens) /\ v \in Seq(WorkTokens)
  /\ Len(s) = Len(u) /\ Len(v) = Len(u) /\ NoGaps(s)
  /\ \A i \in 1..Len(t) :
       /\ Kind(s, c[i]) = Kind(t, i) /\ Kind(v, c[i]) = Kind(t, i)
       /\ s[c[i]] = IF Solid(t, i) THEN t[i] ELSE Mark(" ")
       /\ v[c[i]] = IF Solid(t, i) THEN u[c[i]] ELSE Mark(" ")

\* The tokens of aligned texts whose gaps collapse are in the same places.
LEMMA SqueezedAlike ==
  ASSUME NEW t \in Seq(WorkTokens), NEW u \in Seq(WorkTokens), NEW c, Aligned(t, u, c)
  PROVE  SqueezedPair(t, u, c, Squeeze(t), Squeeze(u))
<1>. DEFINE n == Len(t)
            m == Len(u)
            s == Squeeze(t)
            v == Squeeze(u)
<1>1. n \in Nat /\ m \in Nat
  OBVIOUS
<1>2. PICK a : SqueezedTo(t, s, a)
  BY SqueezeAligned
<1>3. PICK b : SqueezedTo(u, v, b)
  BY SqueezeAligned
<1>4. s \in Seq(WorkTokens) /\ v \in Seq(WorkTokens)
  <2>1. /\ Fits(n, SpaceEndsOf(t), SpaceBy(t), WorkTokens)
        /\ Fits(m, SpaceEndsOf(u), SpaceBy(u), WorkTokens)
    BY SubstitutionsFit, Zenon
  <2> QED
    BY <2>1, SubstituteType, Zenon DEF Squeeze
<1>5. Aligned(t, s, a) /\ Aligned(u, v, b)
  BY <1>2, <1>3, Zenon DEF SqueezedTo
<1>6. \A i \in 1..n + 1 : c[i] = a[i]
  <2>1. Aligned(t, s, a)
    BY <1>5
  <2> QED
    BY <2>1, AlignedOnce
<1>7. NoGaps(s)
  BY <1>4, <1>5, AlignedHasNoGaps, Zenon
<1>8. NoGaps(u)
  BY AlignedHasNoGaps, Zenon
<1>9. Len(v) = m /\ \A l \in 1..m + 1 : b[l] = l
  BY <1>4, <1>5, <1>8, AlignedWithoutGaps, Zenon
<1>10. c[n + 1] = m + 1 /\ a[n + 1] = Len(s) + 1 /\ n + 1 \in 1..n + 1
  <2>1. c[n + 1] = m + 1 /\ a[n + 1] = Len(s) + 1
    BY <1>5, Zenon DEF Aligned
  <2>. HIDE DEF n
  <2> QED
    BY <1>1, <2>1
<1>11. Len(s) \in Nat
  BY <1>4
<1>12. Len(s) = m
  <2>. HIDE DEF n, m, s
  <2>1. m + 1 = Len(s) + 1
    BY <1>6, <1>10
  <2> QED
    BY <1>1, <1>11, <2>1
<1>13. \A i \in 1..n : i \in 1..n + 1 /\ c[i] \in 1..m /\ c[i] \in 1..m + 1
  <2>1. \A i \in 1..n : c[i] \in 1..m
    BY AlignedOrder, Zenon DEF Ordered
  <2>. HIDE DEF n, m
  <2> QED
    BY <1>1, <2>1
<1>14. ASSUME NEW i \in 1..n
       PROVE  /\ Kind(s, c[i]) = Kind(t, i) /\ Kind(v, c[i]) = Kind(t, i)
              /\ s[c[i]] = IF Solid(t, i) THEN t[i] ELSE Mark(" ")
              /\ v[c[i]] = IF Solid(t, i) THEN u[c[i]] ELSE Mark(" ")
  <2>1. c[i] = a[i] /\ b[c[i]] = c[i] /\ c[i] \in 1..m
    BY <1>6, <1>9, <1>13
  <2>2. /\ Kind(s, a[i]) = Kind(t, i)
        /\ s[a[i]] = IF Solid(t, i) THEN t[i] ELSE Mark(" ")
    BY <1>2, <1>5, Zenon DEF SqueezedTo, Aligned
  <2>3. /\ Kind(v, b[c[i]]) = Kind(u, c[i])
        /\ v[b[c[i]]] = IF Solid(u, c[i]) THEN u[c[i]] ELSE Mark(" ")
    BY <1>3, <1>5, <2>1, Zenon DEF SqueezedTo, Aligned
  <2>4. Kind(u, c[i]) = Kind(t, i)
    BY Zenon DEF Aligned
  <2>5. Solid(u, c[i]) <=> Solid(t, i)
    BY <2>4, Zenon DEF Solid
  <2>. HIDE DEF s, v
  <2>6. /\ Kind(s, c[i]) = Kind(t, i)
        /\ s[c[i]] = IF Solid(t, i) THEN t[i] ELSE Mark(" ")
    BY <2>1, <2>2
  <2>7. /\ Kind(v, c[i]) = Kind(t, i)
        /\ v[c[i]] = IF Solid(t, i) THEN u[c[i]] ELSE Mark(" ")
    <3>. DEFINE l == c[i]
                x == b[l]
    <3>1. Kind(v, x) = Kind(u, l) /\ v[x] = IF Solid(u, l) THEN u[l] ELSE Mark(" ")
      BY <2>3
    <3>2. x = l /\ Kind(u, l) = Kind(t, i) /\ (Solid(u, l) <=> Solid(t, i))
      BY <2>1, <2>4, <2>5
    <3>. HIDE DEF l, x
    <3>3. Kind(v, l) = Kind(t, i) /\ v[l] = IF Solid(t, i) THEN u[l] ELSE Mark(" ")
      BY <3>1, <3>2
    <3> QED
      BY <3>3 DEF l
  <2> QED
    BY <2>6, <2>7
<1> QED
  BY <1>4, <1>7, <1>9, <1>12, <1>14, Zenon DEF SqueezedPair, n, m, s, v

Late(left) == left \subseteq {"space", "colon"}

\* What awaits only the substitutions of spaces and colons stays so.
LEMMA SqueezeKeepsClaim ==
  ASSUME NEW t \in Seq(WorkTokens), NEW u \in Seq(WorkTokens), NEW c, Aligned(t, u, c),
         NEW line, NEW left, Late(left), NEW i \in 1..Len(t),
         Awaits(t, line, left, i)
  PROVE  Awaits(Squeeze(t), line, left \ {"space"}, c[i])
<1>. DEFINE n == Len(t)
            s == Squeeze(t)
<1>1. n \in Nat
  OBVIOUS
<1>2. ~ (Kind(t, i) \in Replaced /\ ReplacedBy(Kind(t, i)) \in left)
  <2>1. \A K \in Replaced : ReplacedBy(K) \in Replaced
    BY DEF ReplacedBy, Replaced
  <2>2. Replaced \cap {"space", "colon"} = {}
    BY DEF Replaced
  <2> QED
    BY <2>1, <2>2 DEF Late
<1>3. Claimed(t, line, left, i)
  BY <1>2, Zenon DEF Awaits
<1>4. "colon" \in left /\ OnLine(line) /\ Kind(t, i) = "small" /\ Kind(t, i - 1) = ":"
  BY <1>3 DEF Claimed, Late
<1>5. i - 1 \in 1..n
  <2>1. i - 1 \in Nat
    BY <1>1
  <2>2. ":" # "end"
    OBVIOUS
  <2> QED
    BY <1>4, <2>1, <2>2, KindIs, Zenon DEF n
<1>. HIDE DEF n
<1>6. PICK j \in 1..n : j = i - 1
  BY <1>5
<1>7. j + 1 = i
  BY <1>1, <1>6
<1>8. Kind(t, j) = ":" /\ Kind(t, j) # " "
  BY <1>4, <1>6
<1>9. c[i] = c[j] + 1
  <2>1. j \in 1..Len(t) /\ Solid(t, j)
    BY <1>6, <1>8, Zenon DEF Solid, n
  <2>2. c[j + 1] = c[j] + 1
    BY <2>1, AlignedNext
  <2> QED
    BY <1>7, <2>2
<1>10. c[j] \in Nat
  <2>1. Ordered(t, u, c)
    BY AlignedOrder
  <2>2. c[j] \in 1..Len(u)
    BY <2>1, Zenon DEF Ordered, n
  <2>3. Len(u) \in Nat
    OBVIOUS
  <2> QED
    BY <2>2, <2>3
<1>11. c[i] - 1 = c[j]
  BY <1>9, <1>10
<1>12. Kind(s, c[i]) = "small" /\ Kind(s, c[i] - 1) = ":"
  <2>1. \A q \in 1..n : Kind(s, c[q]) = Kind(t, q)
    <3>1. SqueezedPair(t, u, c, Squeeze(t), Squeeze(u))
      BY SqueezedAlike, Zenon
    <3> QED
      BY <3>1, Zenon DEF SqueezedPair, n
  <2>2. i \in 1..n
    BY Zenon DEF n
  <2>3. Kind(s, c[i]) = Kind(t, i) /\ Kind(s, c[j]) = Kind(t, j)
    BY <1>6, <2>1, <2>2
  <2> QED
    BY <1>4, <1>8, <1>11, <2>3
<1>13. "colon" \in left \ {"space"}
  BY <1>4
<1> QED
  BY <1>4, <1>12, <1>13, Zenon DEF Awaits, Claimed

\* When spaces collapse, twins are made of twins, and without gaps.
LEMMA SpaceTwins ==
  ASSUME NEW t \in Seq(WorkTokens), NEW u \in Seq(WorkTokens), NEW line, NEW left,
         Twins(t, u, line, left), Late(left)
  PROVE  /\ Twins(Apply("space", t), Apply("space", u), line, left \ {"space"})
         /\ NoGaps(Apply("space", t))
<1>. DEFINE n == Len(t)
            m == Len(u)
            s == Squeeze(t)
            v == Squeeze(u)
            less == left \ {"space"}
            d == [l \in 1..m + 1 |-> l]
<1>1. PICK c : Aligned(t, u, c) /\ Alike(t, u, c, line, left)
  BY DEF Twins
<1>2. n \in Nat /\ m \in Nat
  OBVIOUS
<1>3. /\ s \in Seq(WorkTokens) /\ v \in Seq(WorkTokens)
      /\ Len(s) = m /\ Len(v) = m /\ NoGaps(s)
      /\ \A i \in 1..n :
           /\ Kind(s, c[i]) = Kind(t, i) /\ Kind(v, c[i]) = Kind(t, i)
           /\ s[c[i]] = IF Solid(t, i) THEN t[i] ELSE Mark(" ")
           /\ v[c[i]] = IF Solid(t, i) THEN u[c[i]] ELSE Mark(" ")
  <2>1. SqueezedPair(t, u, c, s, v)
    BY <1>1, SqueezedAlike, Zenon
  <2> QED
    BY <2>1, Zenon DEF SqueezedPair
<1>4. \A i \in 1..n : Awaits(t, line, left, i) => Awaits(s, line, less, c[i])
  BY <1>1, SqueezeKeepsClaim, Zenon
<1>5. \A i \in 1..n : t[i] = u[c[i]] \/ Awaits(t, line, left, i)
  BY <1>1, Zenon DEF Alike
<1>6. /\ c[n + 1] = m + 1
      /\ \A l \in 1..m + 1 : \E i \in 1..n + 1 : c[i] = l
  <2>1. Ordered(t, u, c)
    BY <1>1, AlignedOrder
  <2>2. c[n + 1] = m + 1
    BY <1>1, Zenon DEF Aligned
  <2> QED
    BY <2>1, <2>2, Zenon DEF Ordered
<1>. HIDE DEF n, m, s, v, less
<1>7. \A l \in 1..m : \E i \in 1..n : c[i] = l
  <2>. SUFFICES ASSUME NEW l \in 1..m
                PROVE  \E i \in 1..n : c[i] = l
    OBVIOUS
  <2>1. l \in 1..m + 1 /\ l # m + 1
    BY <1>2
  <2>2. PICK i \in 1..n + 1 : c[i] = l
    BY <1>6, <2>1
  <2>3. i # n + 1
    BY <1>6, <2>1, <2>2
  <2>4. i \in 1..n
    BY <1>2, <2>3
  <2> QED
    BY <2>2, <2>4
<1>8. ASSUME NEW l \in 1..m
      PROVE  Kind(v, l) = Kind(s, l) /\ (s[l] = v[l] \/ Awaits(s, line, less, l))
  <2>1. PICK i \in 1..n : c[i] = l
    BY <1>7
  <2>2. Kind(v, l) = Kind(s, l)
    BY <1>3, <2>1
  <2>3. s[l] = v[l] \/ Awaits(s, line, less, l)
    BY <1>3, <1>4, <1>5, <2>1
  <2> QED
    BY <2>2, <2>3
<1>9. /\ d \in [1..m + 1 -> 1..m + 1] /\ \A l \in 1..m + 1 : d[l] = l
  OBVIOUS
<1>. HIDE DEF d
<1>10. /\ d[1] = 1 /\ d[m + 1] = m + 1
       /\ \A l \in 1..m : d[l] = l /\ d[l + 1] = d[l] + 1
  <2>1. /\ 1 \in 1..m + 1 /\ m + 1 \in 1..m + 1
        /\ \A l \in 1..m : l \in 1..m + 1 /\ l + 1 \in 1..m + 1
    BY <1>2
  <2> QED
    BY <1>9, <2>1
<1>11. Aligned(s, v, d)
  <2>1. \A l \in 1..m : ~ TwoSpaces(s, l)
    BY <1>3, Zenon DEF NoGaps
  <2>2. \A l \in 1..m : /\ Kind(v, d[l]) = Kind(s, l)
                        /\ d[l + 1] = IF TwoSpaces(s, l) THEN d[l] ELSE d[l] + 1
    BY <1>8, <1>10, <2>1
  <2> QED
    BY <1>3, <1>9, <1>10, <2>2, Zenon DEF Aligned
<1>12. Alike(s, v, d, line, less)
  <2>1. \A l \in 1..m : s[l] = v[d[l]] \/ Awaits(s, line, less, l)
    BY <1>8, <1>10
  <2> QED
    BY <1>3, <2>1, Zenon DEF Alike
<1>13. Twins(s, v, line, less)
  BY <1>11, <1>12, Zenon DEF Twins
<1>14. Twins(Strip(s), Strip(v), line, less) /\ NoGaps(Strip(s))
  BY <1>3, <1>13, StripTwins, StripGaps, Zenon
<1>15. Apply("space", t) = Strip(s) /\ Apply("space", u) = Strip(v)
  BY ApplyIs, Zenon DEF s, v, Squeeze
<1> QED
  BY <1>14, <1>15, Zenon DEF less

\* The substitution of colons makes no gaps.
LEMMA ColonGaps ==
  ASSUME NEW t \in Seq(WorkTokens), NoGaps(t)
  PROVE  NoGaps(Apply("colon", t))
<1>1. Twins(t, t, FALSE, {})
  BY OwnTwin, Zenon
<1>2. "request_id" \notin {} /\ "label" \notin {}
  OBVIOUS
<1>3. Twins(Apply("colon", t), Apply("colon", t), FALSE, {} \ {"colon"})
  BY <1>1, <1>2, ColonTwins, Zenon
<1>4. Apply("colon", t) \in Seq(WorkTokens)
  <2>1. "colon" \in Names
    BY DEF Names
  <2> QED
    BY <2>1, ApplyType, Zenon
<1> QED
  BY <1>3, <1>4, TwinHasNoGaps, Zenon

-----------------------------------------------------------------------------
(* The order of the substitutions *)

\* Where in the list some of them are.
LEMMA CommonPlaces ==
  ASSUME NEW p \in 1..12
  PROVE  /\ Common[p] \notin {"huge", "frame", "colon"}
         /\ Common[p] = "uuid" => p = 2
         /\ Common[p] = "timestamp" => p = 3
         /\ Common[p] = "date" => p = 4
         /\ Common[p] = "request_id" => p = 8
         /\ Common[p] = "label" => p = 9
         /\ Common[p] = "hex" => p = 10
         /\ Common[p] = "long" => p = 11
         /\ Common[p] = "space" => p = 12
<1>1. /\ Common[1] = "strip" /\ Common[2] = "uuid" /\ Common[3] = "timestamp"
      /\ Common[4] = "date" /\ Common[5] = "email" /\ Common[6] = "ip"
      /\ Common[7] = "address" /\ Common[8] = "request_id" /\ Common[9] = "label"
      /\ Common[10] = "hex" /\ Common[11] = "long" /\ Common[12] = "space"
  BY DEF Common
<1>2. \/ p = 1 \/ p = 2 \/ p = 3 \/ p = 4 \/ p = 5 \/ p = 6
      \/ p = 7 \/ p = 8 \/ p = 9 \/ p = 10 \/ p = 11 \/ p = 12
  OBVIOUS
<1> QED
  BY <1>1, <1>2

\* What comes after the names that meet others.
InOrderOf(names, n) ==
  \A j, k \in 1..n :
    j <= k =>
      /\ names[j] # "huge"
      /\ names[j] = "date" => names[k] # "timestamp"
      /\ names[j] \in {"hex", "long"} => names[k] # "uuid"
      /\ names[j] = "label" => names[k] # "request_id"
      /\ names[j] = "colon" => names[k] \notin {"request_id", "label"}
      /\ names[j] = "space" => names[k] \in {"space", "colon"}
      /\ names[j] = "frame" => j <= 2

\* The substitutions of a message are in that order.
LEMMA CommonOrder == InOrderOf(Common, 12)
<1>. SUFFICES ASSUME NEW j \in 1..12, NEW k \in 1..12, j <= k
              PROVE  /\ Common[j] # "huge"
                     /\ Common[j] = "date" => Common[k] # "timestamp"
                     /\ Common[j] \in {"hex", "long"} => Common[k] # "uuid"
                     /\ Common[j] = "label" => Common[k] # "request_id"
                     /\ Common[j] = "colon" => Common[k] \notin {"request_id", "label"}
                     /\ Common[j] = "space" => Common[k] \in {"space", "colon"}
                     /\ Common[j] = "frame" => j <= 2
  BY DEF InOrderOf
<1>1. /\ Common[j] \notin {"huge", "frame", "colon"}
      /\ Common[j] = "date" => j = 4
      /\ Common[j] = "label" => j = 9
      /\ Common[j] = "hex" => j = 10
      /\ Common[j] = "long" => j = 11
      /\ Common[j] = "space" => j = 12
  BY CommonPlaces
<1>2. /\ Common[k] = "uuid" => k = 2
      /\ Common[k] = "timestamp" => k = 3
      /\ Common[k] = "request_id" => k = 8
  BY CommonPlaces
<1>3. j = 12 => k = 12
  OBVIOUS
<1>4. Common[12] = "space"
  BY DEF Common
<1> QED
  BY <1>1, <1>2, <1>3, <1>4

\* So are those of a line.
LEMMA SubstitutionsInOrder ==
  ASSUME NEW line \in BOOLEAN
  PROVE  /\ Len(Substitutions(line)) \in Nat
         /\ InOrderOf(Substitutions(line), Len(Substitutions(line)))
<1>1. CASE line = FALSE
  <2>1. Substitutions(line) = Common /\ Len(Substitutions(line)) = 12
    BY <1>1, SubstitutionsAre
  <2> QED
    BY <2>1, CommonOrder
<1>2. CASE line = TRUE
  <2>. DEFINE all == Substitutions(line)
  <2>1. /\ Len(all) = 15 /\ all[1] = "strip" /\ all[2] = "frame" /\ all[15] = "colon"
        /\ \A p \in 1..12 : all[p + 2] = Common[p]
    BY <1>2, SubstitutionsAre
  <2>. HIDE DEF all
  <2>2. ASSUME NEW j \in 1..15
        PROVE  \/ j = 1 /\ all[j] = "strip"
               \/ j = 2 /\ all[j] = "frame"
               \/ j = 15 /\ all[j] = "colon"
               \/ \E p \in 1..12 : j = p + 2 /\ all[j] = Common[p]
    <3>1. CASE j = 1
      BY <2>1, <3>1
    <3>2. CASE j = 2
      BY <2>1, <3>2
    <3>3. CASE j = 15
      BY <2>1, <3>3
    <3>4. CASE j # 1 /\ j # 2 /\ j # 15
      <4>. DEFINE p == j - 2
      <4>1. p \in 1..12 /\ p + 2 = j
        BY <3>4
      <4>. HIDE DEF p
      <4>2. all[p + 2] = Common[p]
        BY <2>1, <4>1
      <4>3. j = p + 2 /\ all[j] = Common[p]
        BY <4>1, <4>2
      <4> QED
        BY <4>1, <4>3, Zenon
    <3> QED
      BY <3>1, <3>2, <3>3, <3>4
  <2>3. InOrderOf(all, 15)
    <3>. SUFFICES ASSUME NEW j \in 1..15, NEW k \in 1..15, j <= k
                  PROVE  /\ all[j] # "huge"
                         /\ all[j] = "date" => all[k] # "timestamp"
                         /\ all[j] \in {"hex", "long"} => all[k] # "uuid"
                         /\ all[j] = "label" => all[k] # "request_id"
                         /\ all[j] = "colon" => all[k] \notin {"request_id", "label"}
                         /\ all[j] = "space" => all[k] \in {"space", "colon"}
                         /\ all[j] = "frame" => j <= 2
      BY DEF InOrderOf
    <3>1. CASE j = 1 \/ j = 2
      BY <2>1, <3>1
    <3>2. CASE j = 15
      <4>1. k = 15
        BY <3>2
      <4> QED
        BY <2>1, <3>2, <4>1
    <3>3. CASE j # 1 /\ j # 2 /\ j # 15
      <4>1. PICK p \in 1..12 : j = p + 2 /\ all[j] = Common[p]
        BY <2>2, <3>3
      <4>2. Common[p] \notin {"huge", "frame", "colon"}
        BY <4>1, CommonPlaces
      <4>3. CASE k = 15
        BY <2>1, <4>1, <4>2, <4>3
      <4>4. CASE k # 15
        <5>1. k # 1 /\ k # 2
          BY <3>3
        <5>2. PICK q \in 1..12 : k = q + 2 /\ all[k] = Common[q]
          BY <2>2, <4>4, <5>1
        <5>3. p <= q
          BY <4>1, <5>2
        <5>4. /\ Common[p] = "date" => Common[q] # "timestamp"
              /\ Common[p] \in {"hex", "long"} => Common[q] # "uuid"
              /\ Common[p] = "label" => Common[q] # "request_id"
              /\ Common[p] = "space" => Common[q] \in {"space", "colon"}
          BY <4>1, <5>2, <5>3, CommonOrder, Zenon DEF InOrderOf
        <5> QED
          BY <4>1, <4>2, <5>2, <5>4
      <4> QED
        BY <4>3, <4>4
    <3> QED
      BY <3>1, <3>2, <3>3
  <2> QED
    BY <2>1, <2>3 DEF all
<1> QED
  BY <1>1, <1>2

\* The substitutions that are left.
LeftAfter(line, done) ==
  {Substitutions(line)[k] : k \in done + 1..Len(Substitutions(line))}

Fewer(left, name, less) == left \ {name} \subseteq less

\* One fewer is left, and the order is as it must be.
MayApply(line, left, name, done) ==
  /\ name \in Names
  /\ name \in Replaced => name # "huge" /\ Within(name) \cap left = {}
  /\ name = "label" => "request_id" \notin left
  /\ name = "colon" => "request_id" \notin left /\ "label" \notin left
  /\ name = "space" => Late(left)
  /\ name = "frame" => done <= 1

\* The next substitution may be applied, whichever it is.
LEMMA LeftInOrder ==
  ASSUME NEW line \in BOOLEAN, NEW done \in 0..Len(Substitutions(line)) - 1
  PROVE  LET name == Substitutions(line)[done + 1]
         IN  /\ MayApply(line, LeftAfter(line, done), name, done)
             /\ Fewer(LeftAfter(line, done), name, LeftAfter(line, done + 1))
<1>. DEFINE all == Substitutions(line)
            n == Len(all)
            j == done + 1
            name == all[j]
            left == LeftAfter(line, done)
            less == LeftAfter(line, done + 1)
<1>1. n \in Nat /\ InOrderOf(all, n)
  BY SubstitutionsInOrder
<1>. HIDE DEF n
<1>2. j \in 1..n /\ j \in Nat /\ done \in Nat
  BY <1>1 DEF n
<1>3. left = {all[k] : k \in j..n} /\ less = {all[k] : k \in j + 1..n}
  BY DEF LeftAfter, n
<1>4. name \in Names
  BY <1>2, SubstitutionsType DEF n
<1>. HIDE DEF all, left, less
<1>5. \A x \in left : \E k \in 1..n : j <= k /\ x = all[k]
  <2>1. \A k \in j..n : k \in 1..n /\ j <= k
    BY <1>1, <1>2
  <2>. HIDE DEF j
  <2> QED
    BY <1>3, <2>1
<1>6. left \ {name} \subseteq less
  <2>1. \A k \in j..n : k = j \/ k \in j + 1..n
    BY <1>1, <1>2
  <2>. HIDE DEF j
  <2> QED
    BY <1>3, <2>1
<1>7. \A x \in left :
        /\ name # "huge"
        /\ name = "date" => x # "timestamp"
        /\ name \in {"hex", "long"} => x # "uuid"
        /\ name = "label" => x # "request_id"
        /\ name = "colon" => x \notin {"request_id", "label"}
        /\ name = "space" => x \in {"space", "colon"}
        /\ name = "frame" => j <= 2
  <2>. HIDE DEF j
  <2> QED
    BY <1>1, <1>2, <1>5, Zenon DEF InOrderOf
<1>8. name \in left
  <2>1. j \in j..n
    BY <1>1, <1>2
  <2>. HIDE DEF j
  <2> QED
    BY <1>3, <2>1
<1>9. j <= 2 => done <= 1
  BY <1>2
<1>. HIDE DEF j
<1>10. Within(name) \cap left = {}
  <2>1. \A x \in Within(name) : \/ name = "date" /\ x = "timestamp"
                                \/ name \in {"hex", "long"} /\ x = "uuid"
    BY DEF Within
  <2> QED
    BY <1>7, <2>1
<1>11. Late(left) \/ name # "space"
  BY <1>7 DEF Late
<1>12. MayApply(line, left, name, done)
  BY <1>4, <1>7, <1>8, <1>9, <1>10, <1>11, Zenon DEF MayApply
<1> QED
  BY <1>6, <1>12, Zenon DEF Fewer, all, j, left, less

\* Twins stay twins when more is left.
LEMMA TwinsWithMore ==
  ASSUME NEW t, NEW u, NEW line, NEW left, NEW more,
         Twins(t, u, line, left), left \subseteq more
  PROVE  Twins(t, u, line, more)
<1>1. \A i : Claimed(t, line, left, i) => Claimed(t, line, more, i)
  BY DEF Claimed
<1>2. \A i : Awaits(t, line, left, i) => Awaits(t, line, more, i)
  BY <1>1 DEF Awaits
<1> QED
  BY <1>2, Zenon DEF Twins, Alike

\* Every substitution makes twins of twins when its turn has come.
LEMMA ApplyTwins ==
  ASSUME NEW t \in Seq(WorkTokens), NEW u \in Seq(WorkTokens), NEW line, NEW left,
         Twins(t, u, line, left), NEW name, NEW done, MayApply(line, left, name, done),
         done <= 1 => FrameAlone(t), NEW less, Fewer(left, name, less)
  PROVE  Twins(Apply(name, t), Apply(name, u), line, less)
<1>1. /\ name \in Names
      /\ name \in Replaced => name # "huge" /\ Within(name) \cap left = {}
      /\ name = "label" => "request_id" \notin left
      /\ name = "colon" => "request_id" \notin left /\ "label" \notin left
      /\ name = "space" => Late(left)
      /\ name = "frame" => done <= 1
  BY Zenon DEF MayApply
<1>2. Twins(Apply(name, t), Apply(name, u), line, left \ {name})
  <2>1. CASE name \in Replaced
    BY <1>1, <2>1, ReplaceTwins, Zenon
  <2>2. CASE name = "strip"
    <3>1. Twins(Strip(t), Strip(u), line, left)
      BY StripTwins, Zenon
    <3>2. Apply("strip", t) = Strip(t) /\ Apply("strip", u) = Strip(u)
      BY ApplyIs, Zenon
    <3>3. Twins(Apply("strip", t), Apply("strip", u), line, left)
      BY <3>1, <3>2, Zenon
    <3>4. \A i : Awaits(Strip(t), line, left, i)
                   => Awaits(Strip(t), line, left \ {"strip"}, i)
      <4>1. \A K \in Replaced : ReplacedBy(K) # "strip"
        BY DEF ReplacedBy, Replaced
      <4>2. \A i : Claimed(Strip(t), line, left, i)
                     => Claimed(Strip(t), line, left \ {"strip"}, i)
        BY DEF Claimed
      <4> QED
        BY <4>1, <4>2 DEF Awaits
    <3>5. Twins(Strip(t), Strip(u), line, left \ {"strip"})
      BY <3>1, <3>4, Zenon DEF Twins, Alike
    <3> QED
      BY <2>2, <3>2, <3>5, Zenon
  <2>3. CASE name = "frame"
    <3>1. Twins(Apply("frame", t), Apply("frame", u), line, left \ {"frame"})
      BY <1>1, <2>3, FrameTwins, Zenon
    <3> QED
      BY <2>3, <3>1, Zenon
  <2>4. CASE name = "request_id"
    <3>1. Twins(Apply("request_id", t), Apply("request_id", u), line, left \ {"request_id"})
      BY RequestTwins, Zenon
    <3> QED
      BY <2>4, <3>1, Zenon
  <2>5. CASE name = "label"
    <3>1. Twins(Apply("label", t), Apply("label", u), line, left \ {"label"})
      BY <1>1, <2>5, LabelTwins, Zenon
    <3> QED
      BY <2>5, <3>1, Zenon
  <2>6. CASE name = "space"
    <3>1. Twins(Apply("space", t), Apply("space", u), line, left \ {"space"})
      BY <1>1, <2>6, SpaceTwins, Zenon
    <3> QED
      BY <2>6, <3>1, Zenon
  <2>7. CASE name = "colon"
    <3>1. Twins(Apply("colon", t), Apply("colon", u), line, left \ {"colon"})
      BY <1>1, <2>7, ColonTwins, Zenon
    <3> QED
      BY <2>7, <3>1, Zenon
  <2> QED
    BY <1>1, <2>1, <2>2, <2>3, <2>4, <2>5, <2>6, <2>7 DEF Names
<1> QED
  BY <1>2, TwinsWithMore, Zenon DEF Fewer

\* Two occurrences of one error after so many substitutions.  Before the first one
\* the twin is stripped and the text is not.
Twinned(line, t, u, done) ==
  /\ done = 0 => \E v \in Seq(WorkTokens) :
                    u = Strip(v) /\ Twins(t, v, line, LeftAfter(line, done))
  /\ done # 0 => Twins(t, u, line, LeftAfter(line, done))
  /\ done <= 1 => FrameAlone(t)
  /\ done >= SpaceAt(line) => NoGaps(t)

\* One more substitution.
LEMMA ApplyTwinned ==
  ASSUME NEW t \in Seq(WorkTokens), NEW u \in Seq(WorkTokens), NEW line \in BOOLEAN,
         NEW done \in 0..Len(Substitutions(line)) - 1, Twinned(line, t, u, done)
  PROVE  Twinned(line, Apply(Substitutions(line)[done + 1], t),
                 Apply(Substitutions(line)[done + 1], u), done + 1)
<1>. DEFINE all == Substitutions(line)
            next == done + 1
            name == all[next]
            left == LeftAfter(line, done)
            less == LeftAfter(line, next)
            at == SpaceAt(line)
            tt == Apply(name, t)
            uu == Apply(name, u)
<1>1. Len(all) \in Nat /\ at \in Nat /\ at >= 12
  <2>1. line = TRUE \/ line = FALSE
    OBVIOUS
  <2> QED
    BY <2>1, SubstitutionsAre DEF SpaceAt
<1>2. done \in Nat /\ next \in 1..Len(all) /\ next # 0 /\ next = done + 1
  <2>. HIDE DEF all
  <2> QED
    BY <1>1 DEF all
<1>3. MayApply(line, left, name, done) /\ Fewer(left, name, less)
  BY LeftInOrder, Zenon
<1>4. /\ next < at => name \in Early
      /\ next = at => name = "space"
      /\ next > at => name = "colon"
  BY <1>2, SubstitutionOrder
<1>5. /\ done = 0 => \E v \in Seq(WorkTokens) : u = Strip(v) /\ Twins(t, v, line, left)
      /\ done # 0 => Twins(t, u, line, left)
      /\ done <= 1 => FrameAlone(t)
      /\ done >= at => NoGaps(t)
  BY Zenon DEF Twinned
<1>6. done = 0 => name = "strip"
  <2>1. line = TRUE \/ line = FALSE
    OBVIOUS
  <2>2. all[1] = "strip"
    <3>1. Common[1] = "strip"
      BY DEF Common
    <3> QED
      BY <2>1, <3>1, SubstitutionsAre
  <2>3. done = 0 => next = 1
    OBVIOUS
  <2>. HIDE DEF next, all
  <2> QED
    BY <2>2, <2>3
<1>. HIDE DEF all, next, name, left, less, at, tt, uu
<1>7. Twins(tt, uu, line, less)
  <2>1. CASE done = 0
    <3>1. PICK v \in Seq(WorkTokens) : u = Strip(v) /\ Twins(t, v, line, left)
      BY <1>5, <2>1
    <3>2. Twins(Apply(name, t), Apply(name, v), line, less)
      BY <1>3, <1>5, <3>1, ApplyTwins, Zenon
    <3>3. Apply(name, v) = Strip(v) /\ Apply(name, u) = Strip(u)
      BY <1>6, <2>1, ApplyIs, Zenon
    <3>4. Strip(u) = Strip(v)
      BY <3>1, StripAgain, Zenon
    <3> QED
      BY <3>2, <3>3, <3>4, Zenon DEF tt, uu
  <2>2. CASE done # 0
    BY <1>3, <1>5, <2>2, ApplyTwins, Zenon DEF tt, uu
  <2> QED
    BY <2>1, <2>2
<1>8. next <= 1 => FrameAlone(tt)
  <2>. SUFFICES ASSUME next <= 1
                PROVE  FrameAlone(tt)
    OBVIOUS
  <2>1. done = 0 /\ done <= 1
    BY <1>2
  <2>2. tt = Strip(t)
    BY <1>6, <2>1, ApplyIs, Zenon DEF tt
  <2> QED
    BY <1>5, <2>1, <2>2, StripFrame, Zenon
<1>9. next >= at => NoGaps(tt)
  <2>1. CASE next = at
    <3>1. name = "space"
      BY <1>4, <2>1
    <3>2. Late(left)
      BY <1>3, <3>1, Zenon DEF MayApply
    <3>3. Twins(t, u, line, left)
      BY <1>1, <1>2, <1>5, <2>1
    <3>4. NoGaps(Apply("space", t))
      BY <3>2, <3>3, SpaceTwins, Zenon
    <3> QED
      BY <3>1, <3>4, Zenon DEF tt
  <2>2. CASE next > at
    <3>1. name = "colon" /\ done >= at
      BY <1>1, <1>2, <1>4, <2>2
    <3>2. NoGaps(Apply("colon", t))
      BY <1>5, <3>1, ColonGaps, Zenon
    <3> QED
      BY <3>1, <3>2, Zenon DEF tt
  <2>3. CASE next < at
    BY <1>1, <1>2, <2>3
  <2> QED
    BY <1>1, <1>2, <2>1, <2>2, <2>3
<1>10. Twinned(line, tt, uu, next)
  BY <1>2, <1>7, <1>8, <1>9, Zenon DEF Twinned, less, at
<1> QED
  BY <1>10, Zenon DEF tt, uu, name, next, all

\* When nothing is left, the two are the same.
LEMMA TwinnedAreSame ==
  ASSUME NEW t \in Seq(WorkTokens), NEW u \in Seq(WorkTokens), NEW line \in BOOLEAN,
         Twinned(line, t, u, Len(Substitutions(line)))
  PROVE  t = u
<1>. DEFINE n == Len(Substitutions(line))
<1>1. n \in Nat /\ n # 0 /\ n >= SpaceAt(line)
  <2>1. CASE line = TRUE
    <3>1. n = 15 /\ SpaceAt(line) = 14
      BY <2>1, SubstitutionsAre DEF SpaceAt
    <3>. HIDE DEF n
    <3> QED
      BY <3>1
  <2>2. CASE line = FALSE
    <3>1. n = 12 /\ SpaceAt(line) = 12
      BY <2>2, SubstitutionsAre DEF SpaceAt
    <3>. HIDE DEF n
    <3> QED
      BY <3>1
  <2> QED
    BY <2>1, <2>2
<1>2. LeftAfter(line, n) = {}
  <2>1. LeftAfter(line, n) = {Substitutions(line)[k] : k \in n + 1..n}
    BY DEF LeftAfter
  <2>. HIDE DEF n
  <2>2. n + 1..n = {}
    BY <1>1
  <2> QED
    BY <2>1, <2>2
<1>3. Twins(t, u, line, {}) /\ NoGaps(t)
  BY <1>1, <1>2, Zenon DEF Twinned
<1> QED
  BY <1>3, TwinsAreSame, Zenon

-----------------------------------------------------------------------------
(* Two occurrences of one error *)

\* All spaces of a text that comes in are the same, and a frame is all there is.
Incoming(s) ==
  /\ \A i \in 1..Len(s) : ~ Solid(s, i) => s[i] = Mark(" ")
  /\ FrameAlone(s)

\* The texts that come in are such texts.
LEMMA InputsArePlain ==
  /\ \A s \in Texts(MaxMessage) : Incoming(s)
  /\ \A s \in Lines : Incoming(s)
<1>1. \A x \in Tokens : x.kind # "frame" /\ (x.kind = " " => x = Mark(" "))
  <2>1. \A kind \in Kinds \ {"request", "label"}, value \in {"a", "b"} :
           Token(kind, value).kind \notin {"frame", " "}
    BY FingerprintAssumption DEF Token, Worded, Replaced
  <2>2. \A kind \in Separators \cup (Kinds \cap {"request", "label"}) :
           Mark(kind).kind # "frame" /\ Mark(kind).kind = kind
    BY DEF Mark, Token, Separators
  <2>3. Bar.kind # "frame" /\ Bar.kind # " "
    BY DEF Bar, Mark, Token
  <2>. SUFFICES ASSUME NEW x \in Tokens
                PROVE  x.kind # "frame" /\ (x.kind = " " => x = Mark(" "))
    OBVIOUS
  <2>4. \/ \E kind \in Kinds \ {"request", "label"}, value \in {"a", "b"} : x = Token(kind, value)
        \/ \E kind \in Separators \cup (Kinds \cap {"request", "label"}) : x = Mark(kind)
        \/ x = Bar
    BY DEF Tokens
  <2> QED
    BY <2>1, <2>2, <2>3, <2>4
<1>2. ASSUME NEW n \in Nat, NEW s \in Texts(n)
      PROVE  Incoming(s)
  <2>1. PICK m \in 0..n : s \in [1..m -> Tokens]
    BY Zenon DEF Texts
  <2>2. DOMAIN s = 1..m /\ m \in Nat /\ Len(s) = m
    BY <2>1
  <2>3. \A i \in 1..m : s[i].kind # "frame" /\ (s[i].kind = " " => s[i] = Mark(" "))
    BY <1>1, <2>1
  <2> QED
    BY <2>2, <2>3 DEF Incoming, FrameAlone, Solid, Kind
<1>3. ASSUME NEW number, number.kind \in Numbers
      PROVE  /\ Incoming(<<Mark("frame"), number>>)
             /\ Incoming(<<Mark("frame"), number, Mark("location")>>)
  <2>1. /\ number.kind \notin {" ", "frame"} /\ Mark("frame").kind # " "
        /\ Mark("location").kind \notin {" ", "frame"}
    BY <1>3 DEF Numbers, Mark, Token
  <2>2. Incoming(<<Mark("frame"), number>>)
    <3>. DEFINE x == Mark("frame")
                s == <<x, number>>
    <3>1. Len(s) = 2 /\ DOMAIN s = 1..2 /\ s[1] = x /\ s[2] = number
      OBVIOUS
    <3>2. x.kind # " " /\ number.kind # " "
      BY <2>1
    <3>. HIDE DEF s, x
    <3>3. ~ \E i \in 1..2 : s[i].kind = " "
      <4>1. s[1].kind # " " /\ s[2].kind # " "
        BY <3>1, <3>2
      <4>2. \A i \in 1..2 : i = 1 \/ i = 2
        OBVIOUS
      <4> QED
        BY <4>1, <4>2, Zenon
    <3>4. \A i \in 1..2 : i + 2 \notin DOMAIN s
      BY <3>1
    <3>5. \A i \in 1..2 : Kind(s, i + 2) = "end" /\ Kind(s, i) = s[i].kind
      BY <3>1, <3>4 DEF Kind
    <3>6. Incoming(s)
      BY <3>1, <3>3, <3>5 DEF Incoming, FrameAlone, Solid
    <3> QED
      BY <3>6 DEF s, x
  <2>3. Incoming(<<Mark("frame"), number, Mark("location")>>)
    <3>. DEFINE x == Mark("frame")
                y == Mark("location")
                s == <<x, number, y>>
    <3>1. Len(s) = 3 /\ DOMAIN s = 1..3 /\ s[1] = x /\ s[2] = number /\ s[3] = y
      OBVIOUS
    <3>2. /\ x.kind # " " /\ number.kind # " " /\ y.kind # " "
          /\ number.kind # "frame" /\ y.kind # "frame"
      BY <2>1
    <3>. HIDE DEF s, x, y
    <3>3. ~ \E i \in 1..3 : s[i].kind = " "
      <4>1. s[1].kind # " " /\ s[2].kind # " " /\ s[3].kind # " "
        BY <3>1, <3>2
      <4>2. \A i \in 1..3 : i = 1 \/ i = 2 \/ i = 3
        OBVIOUS
      <4> QED
        BY <4>1, <4>2, Zenon
    <3>4. \A i \in 1..3 : Kind(s, i) = s[i].kind
      BY <3>1 DEF Kind
    <3>5. \A i \in 1..3 : s[i].kind = "frame" => i = 1
      <4>1. s[2].kind # "frame" /\ s[3].kind # "frame"
        BY <3>1, <3>2
      <4>2. \A i \in 1..3 : i = 1 \/ i = 2 \/ i = 3
        OBVIOUS
      <4> QED
        BY <4>1, <4>2, Zenon
    <3>6. Incoming(s)
      BY <3>1, <3>3, <3>4, <3>5 DEF Incoming, FrameAlone, Solid
    <3> QED
      BY <3>6 DEF s, x, y
  <2> QED
    BY <2>2, <2>3
<1>4. ASSUME NEW s \in Lines
      PROVE  Incoming(s)
  <2>. DEFINE numbers == {Token(k, v) : k \in Numbers \cap Kinds, v \in {"a", "b"}}
  <2>1. \A number \in numbers : number.kind \in Numbers
    BY DEF Token
  <2>2. Lines = Texts(MaxLine)
                  \cup {<<Mark("frame"), number>> : number \in numbers}
                  \cup {<<Mark("frame"), number, Mark("location")>> : number \in numbers}
    BY DEF Lines
  <2>. HIDE DEF numbers
  <2>3. \/ s \in Texts(MaxLine)
        \/ \E number \in numbers : s = <<Mark("frame"), number>>
        \/ \E number \in numbers : s = <<Mark("frame"), number, Mark("location")>>
    BY <2>2
  <2> QED
    BY <1>2, <1>3, <2>1, <2>3, FingerprintAssumption
<1> QED
  BY <1>2, <1>4, FingerprintAssumption

\* What is left at first claims all that is incidental.
LEMMA IncidentalAwaits ==
  ASSUME NEW s, NEW line \in BOOLEAN, NEW i, Incidental(s, line, i)
  PROVE  Awaits(s, line, LeftAfter(line, 0), i)
<1>. DEFINE all == Substitutions(line)
            left == LeftAfter(line, 0)
<1>1. {"uuid", "timestamp", "date", "email", "ip", "address", "request_id", "label",
       "hex", "long"} \subseteq left
  <2>1. CASE line = FALSE
    <3>1. all = Common /\ Len(all) = 12
      BY <2>1, SubstitutionsAre
    <3>2. \A k \in 1..12 : Common[k] \in left
      <4>1. 0 + 1 = 1
        OBVIOUS
      <4> QED
        BY <3>1, <4>1 DEF LeftAfter
    <3>3. /\ Common[2] \in left /\ Common[3] \in left /\ Common[4] \in left
          /\ Common[5] \in left /\ Common[6] \in left /\ Common[7] \in left
          /\ Common[8] \in left /\ Common[9] \in left /\ Common[10] \in left
          /\ Common[11] \in left
      BY <3>2
    <3>. HIDE DEF left
    <3> QED
      BY <3>3 DEF Common
  <2>2. CASE line = TRUE
    <3>1. Len(all) = 15 /\ \A j \in 1..12 : all[j + 2] = Common[j]
      BY <2>2, SubstitutionsAre
    <3>2. \A k \in 1..12 : Common[k] \in left
      <4>. SUFFICES ASSUME NEW k \in 1..12
                    PROVE  Common[k] \in left
        OBVIOUS
      <4>1. k + 2 \in 0 + 1..Len(all) /\ all[k + 2] = Common[k]
        BY <3>1
      <4> QED
        BY <4>1 DEF LeftAfter
    <3>3. /\ Common[2] \in left /\ Common[3] \in left /\ Common[4] \in left
          /\ Common[5] \in left /\ Common[6] \in left /\ Common[7] \in left
          /\ Common[8] \in left /\ Common[9] \in left /\ Common[10] \in left
          /\ Common[11] \in left
      BY <3>2
    <3>. HIDE DEF left
    <3> QED
      BY <3>3 DEF Common
  <2> QED
    BY <2>1, <2>2
<1>2. OnLine(line) => "colon" \in left
  <2>. SUFFICES ASSUME OnLine(line)
                PROVE  "colon" \in left
    OBVIOUS
  <2>1. Len(all) = 15 /\ all[15] = "colon"
    BY SubstitutionsAre DEF OnLine
  <2>2. 15 \in 0 + 1..Len(all)
    BY <2>1
  <2> QED
    BY <2>1, <2>2 DEF LeftAfter
<1>. HIDE DEF left, all
<1>3. CASE Kind(s, i) \in Replaced
  <2>1. ReplacedBy(Kind(s, i)) \in left
    BY <1>1, <1>3 DEF ReplacedBy, Replaced
  <2> QED
    BY <1>3, <2>1 DEF Awaits, left
<1>4. CASE Kind(s, i) = "small" /\ After(s, i, "label")
  BY <1>1, <1>4 DEF Awaits, Claimed, left
<1>5. CASE Kind(s, i) \in {"small", "word"} /\ After(s, i, "request")
  BY <1>1, <1>5 DEF Awaits, Claimed, left
<1>6. CASE Kind(s, i) = "small" /\ Kind(s, i - 1) \in {"frame", ":"} /\ line
  <2>1. OnLine(line)
    BY <1>6 DEF OnLine
  <2> QED
    BY <1>1, <1>2, <1>6, <2>1 DEF Awaits, Claimed, left
<1> QED
  BY <1>3, <1>4, <1>5, <1>6 DEF Incidental

\* A text that comes in and a typical one are twins.
LEMMA SourceTwinned ==
  ASSUME NEW s \in Seq(SourceTokens), NEW line \in BOOLEAN, Incoming(s)
  PROVE  Twinned(line, s, Typical(s, line), 0)
<1>. DEFINE v == [i \in DOMAIN s |->
                    IF Incidental(s, line, i) THEN [s[i] EXCEPT !.value = "a"] ELSE s[i]]
            n == Len(s)
            u == Squeeze(v)
            left == LeftAfter(line, 0)
<1>1. DOMAIN s = 1..n /\ n \in Nat /\ \A i \in 1..n : s[i] \in WorkTokens
  BY SourcesAreTexts
<1>2. \A x \in WorkTokens : /\ [x EXCEPT !.value = "a"] \in WorkTokens
                            /\ [x EXCEPT !.value = "a"].kind = x.kind
  BY DEF WorkTokens, Values
<1>3. v = [i \in 1..n |->
             IF Incidental(s, line, i) THEN [s[i] EXCEPT !.value = "a"] ELSE s[i]]
  BY <1>1
<1>4. /\ v \in Seq(WorkTokens) /\ Len(v) = n /\ DOMAIN v = 1..n
      /\ \A i \in 1..n : ~ Incidental(s, line, i) => v[i] = s[i]
      /\ \A i \in 1..n : v[i].kind = s[i].kind
  <2>. HIDE DEF v, n
  <2> QED
    BY <1>1, <1>2, <1>3
<1>5. Typical(s, line) = Strip(u)
  BY Zenon DEF Typical, Collapse, Squeeze, SpaceEndsOf, SpaceBy
<1>6. u \in Seq(WorkTokens)
  <2>. HIDE DEF v
  <2>1. Fits(Len(v), SpaceEndsOf(v), SpaceBy(v), WorkTokens)
    BY <1>4, SubstitutionsFit, Zenon
  <2> QED
    BY <1>4, <2>1, SubstituteType, Zenon DEF Squeeze
<1>7. PICK a : SqueezedTo(v, u, a)
  <2>. HIDE DEF v
  <2> QED
    BY <1>4, SqueezeAligned, Zenon
<1>. HIDE DEF v, u, n, left
<1>8. \A i : Kind(v, i) = Kind(s, i)
  BY <1>1, <1>4 DEF Kind
<1>9. Aligned(s, u, a)
  <2>1. \A i : TwoSpaces(v, i) <=> TwoSpaces(s, i)
    BY <1>8, Zenon DEF TwoSpaces
  <2>2. Aligned(v, u, a)
    BY <1>7 DEF SqueezedTo
  <2>3. /\ a \in [1..n + 1 -> 1..Len(u) + 1]
        /\ a[1] = 1 /\ a[n + 1] = Len(u) + 1
        /\ \A i \in 1..n : /\ Kind(u, a[i]) = Kind(v, i)
                           /\ a[i + 1] = IF TwoSpaces(v, i) THEN a[i] ELSE a[i] + 1
    BY <1>4, <2>2 DEF Aligned
  <2>4. \A i \in 1..n : /\ Kind(u, a[i]) = Kind(s, i)
                        /\ a[i + 1] = IF TwoSpaces(s, i) THEN a[i] ELSE a[i] + 1
    BY <1>8, <2>1, <2>3
  <2>5. n = Len(s)
    BY DEF n
  <2> QED
    BY <2>3, <2>4, <2>5 DEF Aligned
<1>10. Alike(s, u, a, line, left)
  <2>. SUFFICES ASSUME NEW i \in 1..n
                PROVE  s[i] = u[a[i]] \/ Awaits(s, line, left, i)
    BY DEF Alike, n
  <2>1. u[a[i]] = IF Solid(v, i) THEN v[i] ELSE Mark(" ")
    BY <1>4, <1>7 DEF SqueezedTo
  <2>2. CASE ~ Solid(s, i)
    <3>1. ~ Solid(v, i) /\ s[i] = Mark(" ")
      BY <1>8, <2>2 DEF Solid, Incoming, n
    <3> QED
      BY <2>1, <3>1
  <2>3. CASE Solid(s, i) /\ ~ Incidental(s, line, i)
    <3>1. Solid(v, i) /\ v[i] = s[i]
      BY <1>4, <1>8, <2>3 DEF Solid
    <3> QED
      BY <2>1, <3>1
  <2>4. CASE Incidental(s, line, i)
    BY <2>4, IncidentalAwaits, Zenon DEF left
  <2> QED
    BY <2>2, <2>3, <2>4
<1>11. Twins(s, u, line, left)
  BY <1>9, <1>10 DEF Twins
<1>12. ~ (0 >= SpaceAt(line))
  BY DEF SpaceAt
<1>13. FrameAlone(s)
  BY DEF Incoming
<1> QED
  BY <1>5, <1>6, <1>11, <1>12, <1>13 DEF Twinned, left

-----------------------------------------------------------------------------

\* The text and its twin were twins all along.
TwinInv == Twinned(isLine, text, twin, pass)

\* Deterministic grouping: occurrences of an error that differ in their values, or
\* in the length of their gaps, become one text, whatever the error is.
THEOREM ValuesStayTogether == Spec => []ValuesDoNotSplit
<1>1. Init => TwinInv
  <2>. SUFFICES ASSUME Init
                PROVE  TwinInv
    OBVIOUS
  <2>1. source \in Seq(SourceTokens) /\ isLine \in BOOLEAN
    BY InputsType DEF Init
  <2>2. Incoming(source)
    BY InputsArePlain DEF Init
  <2>3. text = source /\ pass = 0 /\ twin = Typical(source, isLine)
    BY DEF Init
  <2>4. Twinned(isLine, source, Typical(source, isLine), 0)
    BY <2>1, <2>2, SourceTwinned, Zenon
  <2> QED
    BY <2>3, <2>4, Zenon DEF TwinInv
<1>2. TypeInv /\ TwinInv /\ [Next]_vars => TwinInv'
  <2>. SUFFICES ASSUME TypeInv, TwinInv, [Next]_vars
                PROVE  TwinInv'
    OBVIOUS
  <2>1. CASE Step
    <3>. DEFINE n == Len(Substitutions(isLine))
                name == Substitutions(isLine)[pass + 1]
    <3>1. text \in Seq(WorkTokens) /\ twin \in Seq(WorkTokens) /\ isLine \in BOOLEAN
      BY DEF TypeInv
    <3>2. pass \in 0..n - 1
      <4>1. n \in Nat /\ pass \in 0..n /\ pass < n
        BY <2>1, SubstitutionsAre DEF Step, TypeInv
      <4>. HIDE DEF n
      <4> QED
        BY <4>1
    <3>3. Twinned(isLine, Apply(name, text), Apply(name, twin), pass + 1)
      BY <3>1, <3>2, ApplyTwinned, Zenon DEF TwinInv
    <3>4. /\ isLine' = isLine /\ pass' = pass + 1
          /\ text' = Apply(name, text) /\ twin' = Apply(name, twin)
      BY <2>1 DEF Step
    <3>5. Twinned(isLine, text, twin, pass)'
      BY <3>3, <3>4
    <3> QED
      BY <3>5 DEF TwinInv
  <2>2. CASE UNCHANGED vars
    BY <2>2 DEF vars, TwinInv
  <2> QED
    BY <2>1, <2>2 DEF Next
<1>3. TypeInv /\ TwinInv => ValuesDoNotSplit
  <2>. SUFFICES ASSUME TypeInv, TwinInv, pass = Len(Substitutions(isLine))
                PROVE  text = twin
    BY DEF ValuesDoNotSplit, Normalized
  <2>1. text \in Seq(WorkTokens) /\ twin \in Seq(WorkTokens) /\ isLine \in BOOLEAN
    BY DEF TypeInv
  <2>2. Twinned(isLine, text, twin, Len(Substitutions(isLine)))
    BY DEF TwinInv
  <2> QED
    BY <2>1, <2>2, TwinnedAreSame, Zenon
<1> QED
  BY <1>1, <1>2, <1>3, TypesStay, PTL DEF Spec

===============================================================================
