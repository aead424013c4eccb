---------------------------- MODULE LinesProofs ----------------------------
(***************************************************************************)
(* Lemmas about Lines: leaving a line, listing a set by rank.              *)
(***************************************************************************)
EXTENDS Lines, SequenceTheorems, FiniteSetTheorems, TLAPS

-----------------------------------------------------------------------------
(* Leaving a line keeps the order of those who stay: the places that stay  *)
(* are counted through without a gap.                                      *)

LEMMA PlacesInOrder ==
    ASSUME NEW T, NEW s \in Seq(T), NEW S
    PROVE  LET n == Cardinality(Staying(s, S)) IN
           /\ n \in Nat /\ Staying(s, S) \subseteq 1..Len(s)
           /\ \A k \in 1..n : Place(s, S, k) \in Staying(s, S)
           /\ \A i \in Staying(s, S) : \E k \in 1..n : Place(s, S, k) = i
           /\ \A k, l \in 1..n : Place(s, S, k) = Place(s, S, l) => k = l
<1>. DEFINE P == Staying(s, S)
            n == Cardinality(P)
            rank == [i \in P |-> Cardinality(Before(s, S, i))]
<1>1. Len(s) \in Nat /\ DOMAIN s = 1..Len(s) /\ P \subseteq 1..Len(s)
  BY DEF Staying
<1>2. IsFiniteSet(P) /\ n \in Nat
  <2>1. IsFiniteSet(1..Len(s))
    BY <1>1, FS_Interval
  <2>2. IsFiniteSet(P)
    <3>. HIDE DEF P
    <3>. QED BY <1>1, <2>1, FS_Subset
  <2>. QED BY <2>2, FS_CardinalityType
<1>3. ASSUME NEW i \in P
      PROVE  /\ Before(s, S, i) \subseteq P /\ i \in Before(s, S, i)
             /\ IsFiniteSet(Before(s, S, i)) /\ rank[i] \in 1..n
  <2>1. Before(s, S, i) \subseteq P /\ i \in Before(s, S, i)
    BY <1>1 DEF Before
  <2>2. /\ IsFiniteSet(Before(s, S, i)) /\ Cardinality(Before(s, S, i)) <= n
        /\ Cardinality(Before(s, S, i)) \in Nat
    BY <1>2, <2>1, FS_Subset, FS_CardinalityType
  <2>3. Cardinality(Before(s, S, i)) # 0
    BY <2>1, <2>2, FS_EmptySet
  <2>. QED BY <1>2, <2>1, <2>2, <2>3
<1>4. ASSUME NEW i \in P, NEW j \in P, i < j PROVE rank[i] # rank[j]
  <2>1. Before(s, S, i) \subseteq Before(s, S, j) /\ j \notin Before(s, S, i) /\ j \in Before(s, S, j)
    BY <1>1, <1>4 DEF Before
  <2>. QED BY <1>3, <2>1, FS_Subset
<1>5. \A i, j \in P : rank[i] = rank[j] => i = j
  BY <1>1, <1>4
<1>6. rank \in Injection(P, 1..n)
  <2>1. rank \in [P -> 1..n]
    BY <1>3
  <2>. QED BY <1>5, <2>1 DEF Injection, IsInjective
<1>7. IsFiniteSet(1..n) /\ Cardinality(1..n) = n
  BY <1>2, FS_Interval
<1>8. \A k \in 1..n : \E i \in P : rank[i] = k
  <2>1. rank \in Surjection(P, 1..n)
    <3>1. Cardinality(P) = n
      OBVIOUS
    <3>. HIDE DEF rank, P, n
    <3>. QED BY <1>6, <1>7, <3>1, FS_Injection
  <2>. QED BY <2>1 DEF Surjection
<1>9. ASSUME NEW k \in 1..n PROVE Place(s, S, k) \in P /\ rank[Place(s, S, k)] = k
  <2>1. \E i \in P : Cardinality(Before(s, S, i)) = k
    BY <1>8
  <2>2. Place(s, S, k) \in P /\ Cardinality(Before(s, S, Place(s, S, k))) = k
    BY <2>1 DEF Place
  <2>. QED BY <2>2
<1>10. ASSUME NEW i \in P PROVE \E k \in 1..n : Place(s, S, k) = i
  <2>1. rank[i] \in 1..n
    BY <1>3
  <2>. QED BY <1>5, <1>9, <2>1
<1>11. \A k, l \in 1..n : Place(s, S, k) = Place(s, S, l) => k = l
  BY <1>9
<1>. HIDE DEF rank
<1>. QED BY <1>1, <1>2, <1>9, <1>10, <1>11

LEMMA WithoutKeeps ==
    ASSUME NEW T, NEW s \in Seq(T), NEW S
    PROVE  /\ Without(s, S) \in Seq(T)
           /\ Standing(Without(s, S)) = Standing(s) \ S
           /\ IsInjective(s) => IsInjective(Without(s, S))
<1>. DEFINE n == Cardinality(Staying(s, S))
            w == Without(s, S)
<1>1. /\ n \in Nat /\ Staying(s, S) \subseteq 1..Len(s) /\ DOMAIN s = 1..Len(s)
      /\ \A i \in 1..Len(s) : s[i] \in T
      /\ \A k \in 1..n : Place(s, S, k) \in Staying(s, S)
      /\ \A i \in Staying(s, S) : \E k \in 1..n : Place(s, S, k) = i
      /\ \A k, l \in 1..n : Place(s, S, k) = Place(s, S, l) => k = l
  BY PlacesInOrder
<1>2. DOMAIN w = 1..n /\ \A k \in 1..n : w[k] = s[Place(s, S, k)]
  BY DEF Without
<1>3. w \in Seq(T)
  <2>1. w = [k \in 1..n |-> s[Place(s, S, k)]] /\ \A k \in 1..n : s[Place(s, S, k)] \in T
    BY <1>1 DEF Without
  <2>. HIDE DEF w, n
  <2>. QED BY <1>1, <2>1
<1>4. Standing(w) = Standing(s) \ S
  <2>1. ASSUME NEW x \in Standing(w) PROVE x \in Standing(s) \ S
    BY <1>1, <1>2 DEF Standing, Staying
  <2>2. ASSUME NEW x \in Standing(s) \ S PROVE x \in Standing(w)
    <3>1. PICK i \in DOMAIN s : s[i] = x
      BY <2>2 DEF Standing
    <3>2. i \in Staying(s, S)
      BY <2>2, <3>1 DEF Staying
    <3>. QED BY <1>1, <1>2, <3>1, <3>2 DEF Standing
  <2>. QED BY <2>1, <2>2
<1>5. ASSUME IsInjective(s) PROVE IsInjective(w)
  BY <1>1, <1>2, <1>5 DEF IsInjective
<1>. QED BY <1>3, <1>4, <1>5

LEMMA WithoutNobody ==
    ASSUME NEW T, NEW s \in Seq(T), NEW S, Standing(s) \cap S = {}
    PROVE  Without(s, S) = s
<1>1. Len(s) \in Nat /\ DOMAIN s = 1..Len(s) /\ Staying(s, S) = 1..Len(s)
  BY DEF Staying, Standing
<1>2. Cardinality(Staying(s, S)) = Len(s)
  BY <1>1, FS_Interval
<1>3. ASSUME NEW i \in 1..Len(s) PROVE Cardinality(Before(s, S, i)) = i
  <2>1. Before(s, S, i) = 1..i
    BY <1>1 DEF Before
  <2>. QED BY <1>1, <2>1, FS_Interval
<1>4. ASSUME NEW k \in 1..Len(s) PROVE Place(s, S, k) = k
  BY <1>1, <1>3 DEF Place
<1>5. Without(s, S) = [k \in 1..Len(s) |-> s[k]]
  BY <1>2, <1>4 DEF Without
<1>. QED BY <1>5, IsASeq

\* Only who stands in line can leave it.
LEMMA WithoutOthers ==
    ASSUME NEW s, NEW S, NEW U, \A x \in Standing(s) : x \in S <=> x \in U
    PROVE  Without(s, S) = Without(s, U)
<1>1. Staying(s, S) = Staying(s, U)
  BY DEF Staying, Standing
<1>2. \A n : Place(s, S, n) = Place(s, U, n)
  BY <1>1 DEF Place, Before
<1>. QED BY <1>1, <1>2 DEF Without

FirstOf(s, k) == {s[i] : i \in 1..k}

\* The first k leave, and the rest move up.
LEMMA RestOfLine ==
    ASSUME NEW T, NEW s \in Seq(T), NEW k \in 0..Len(s)
    PROVE  LET r == SubSeq(s, k + 1, Len(s))
               f == FirstOf(s, k)
           IN  /\ r \in Seq(T) /\ Standing(s) = f \cup Standing(r)
               /\ IsInjective(s) => /\ IsInjective(r) /\ f \cap Standing(r) = {}
                                  /\ IsFiniteSet(f) /\ Cardinality(f) = k
<1>. DEFINE r == SubSeq(s, k + 1, Len(s))
            f == FirstOf(s, k)
<1>0. f = {s[i] : i \in 1..k}
  BY DEF FirstOf
<1>. HIDE DEF f
<1>1. Len(s) \in Nat /\ k \in Nat /\ k <= Len(s) /\ DOMAIN s = 1..Len(s)
      /\ \A i \in 1..Len(s) : s[i] \in T
  OBVIOUS
<1>2. /\ r \in Seq(T) /\ Len(r) = Len(s) - k /\ DOMAIN r = 1..Len(r)
      /\ \A i \in 1..(Len(s) - k) : r[i] = s[k + i]
  <2>1. k + 1 \in Int /\ Len(s) \in Int /\ \A i \in (k + 1)..Len(s) : s[i] \in T
    BY <1>1
  <2>2. /\ r \in Seq(T) /\ Len(r) = IF k + 1 <= Len(s) THEN Len(s) - (k + 1) + 1 ELSE 0
        /\ \A i \in 1..(Len(s) - (k + 1) + 1) : r[i] = s[(k + 1) + i - 1]
    BY <2>1, SubSeqProperties
  <2>. HIDE DEF r
  <2>3. Len(s) - (k + 1) + 1 = Len(s) - k
    BY <1>1
  <2>4. Len(r) = Len(s) - k
    <3>1. Len(s) \in Nat /\ k \in Nat /\ k <= Len(s)
      BY <1>1
    <3>2. Len(r) = IF k + 1 <= Len(s) THEN Len(s) - k ELSE 0
      BY <2>2, <2>3
    <3>. QED BY <3>1, <3>2
  <2>5. DOMAIN r = 1..Len(r)
    BY <2>2
  <2>6. ASSUME NEW i \in 1..(Len(s) - k) PROVE r[i] = s[k + i]
    <3>1. (k + 1) + i - 1 = k + i
      BY <1>1
    <3>2. r[i] = s[(k + 1) + i - 1]
      BY <2>2, <2>3
    <3>. QED BY <3>1, <3>2
  <2>. QED BY <2>2, <2>4, <2>5, <2>6
<1>. HIDE DEF r
<1>3. Standing(s) = f \cup Standing(r)
  <2>1. ASSUME NEW i \in 1..Len(s) PROVE s[i] \in f \cup Standing(r)
    <3>1. CASE i <= k
      <4>1. i \in 1..k
        BY <1>1, <3>1
      <4>. QED BY <1>0, <4>1
    <3>2. CASE i > k
      <4>1. i - k \in 1..(Len(s) - k) /\ k + (i - k) = i
        BY <1>1, <3>2
      <4>2. r[i - k] = s[i] /\ i - k \in DOMAIN r
        BY <1>2, <4>1
      <4>. QED BY <4>2 DEF Standing
    <3>. QED BY <1>1, <3>1, <3>2
  <2>2. f \subseteq Standing(s)
    <3>1. 1..k \subseteq DOMAIN s
      BY <1>1
    <3>. QED BY <1>0, <3>1 DEF Standing
  <2>3. Standing(r) \subseteq Standing(s)
    <3>1. ASSUME NEW i \in DOMAIN r PROVE k + i \in DOMAIN s /\ r[i] = s[k + i]
      BY <1>1, <1>2
    <3>. QED BY <3>1 DEF Standing
  <2>4. Standing(s) \subseteq f \cup Standing(r)
    <3>. QED BY <1>1, <2>1 DEF Standing
  <2>. QED BY <2>2, <2>3, <2>4
<1>4. ASSUME IsInjective(s)
      PROVE  IsInjective(r) /\ f \cap Standing(r) = {} /\ IsFiniteSet(f) /\ Cardinality(f) = k
  <2>1. ASSUME NEW i \in DOMAIN r PROVE k + i \in DOMAIN s /\ r[i] = s[k + i] /\ i \in Nat \ {0}
    BY <1>1, <1>2
  <2>2. IsInjective(r)
    <3>1. ASSUME NEW i \in DOMAIN r, NEW j \in DOMAIN r, r[i] = r[j] PROVE i = j
      <4>1. k + i = k + j
        BY <1>4, <2>1, <3>1 DEF IsInjective
      <4>. QED BY <1>1, <2>1, <4>1
    <3>. QED BY <3>1 DEF IsInjective
  <2>3. ASSUME NEW i \in 1..k, NEW j \in DOMAIN r PROVE s[i] # r[j]
    <3>1. i \in DOMAIN s /\ i # k + j
      BY <1>1, <2>1
    <3>. QED BY <1>4, <2>1, <3>1 DEF IsInjective
  <2>4. f \cap Standing(r) = {}
    BY <1>0, <2>3 DEF Standing
  <2>5. ExistsBijection(1..k, f)
    <3>1. \A i, j \in 1..k : s[i] = s[j] => i = j
      BY <1>1, <1>4 DEF IsInjective
    <3>2. [i \in 1..k |-> s[i]] \in [1..k -> f]
      BY <1>0
    <3>3. [i \in 1..k |-> s[i]] \in Injection(1..k, f)
      BY <3>1, <3>2 DEF Injection, IsInjective
    <3>4. [i \in 1..k |-> s[i]] \in Surjection(1..k, f)
      BY <1>0, <3>2 DEF Surjection
    <3>. QED BY <3>3, <3>4 DEF Bijection, ExistsBijection
  <2>6. IsFiniteSet(1..k) /\ Cardinality(1..k) = k
    BY <1>1, FS_Interval
  <2>. QED BY <2>2, <2>4, <2>5, <2>6, FS_Bijection
<1>. QED BY <1>2, <1>3, <1>4 DEF r, f

-----------------------------------------------------------------------------
(* Lists by rank hold every element once. *)

LEMMA ListedAll ==
    ASSUME NEW S, IsFiniteSet(S), NEW rank, \A x \in S : rank[x] \in Nat,
           \A x, y \in S : rank[x] = rank[y] => x = y
    PROVE  Listed(S, rank) \in Seq(S) /\ Range(Listed(S, rank)) = S /\ IsInjective(Listed(S, rank))
<1>. DEFINE n == Cardinality(S)
            at(x) == Cardinality(UpTo(S, rank, x))
            place == [x \in S |-> at(x)]
            nth(k) == CHOOSE x \in S : at(x) = k
            q == Listed(S, rank)
<1>1. n \in Nat
  BY FS_CardinalityType
<1>2. ASSUME NEW x \in S
      PROVE  /\ UpTo(S, rank, x) \subseteq S /\ x \in UpTo(S, rank, x)
             /\ IsFiniteSet(UpTo(S, rank, x)) /\ place[x] \in 1..n
  <2>1. UpTo(S, rank, x) \subseteq S /\ x \in UpTo(S, rank, x)
    BY DEF UpTo
  <2>2. /\ IsFiniteSet(UpTo(S, rank, x)) /\ at(x) <= n /\ at(x) \in Nat
    BY <2>1, FS_Subset, FS_CardinalityType
  <2>3. at(x) # 0
    BY <2>1, <2>2, FS_EmptySet
  <2>. QED BY <1>1, <2>1, <2>2, <2>3
<1>3. ASSUME NEW x \in S, NEW y \in S, rank[x] < rank[y] PROVE place[x] # place[y]
  <2>1. UpTo(S, rank, x) \subseteq UpTo(S, rank, y)
        /\ y \notin UpTo(S, rank, x) /\ y \in UpTo(S, rank, y)
    BY <1>3 DEF UpTo
  <2>. QED BY <1>2, <2>1, FS_Subset
<1>4. \A x, y \in S : place[x] = place[y] => x = y
  <2>. SUFFICES ASSUME NEW x \in S, NEW y \in S, x # y PROVE place[x] # place[y]
    OBVIOUS
  <2>1. rank[x] < rank[y] \/ rank[y] < rank[x]
    OBVIOUS
  <2>. QED BY <1>3, <2>1
<1>5. place \in Injection(S, 1..n)
  <2>1. place \in [S -> 1..n]
    BY <1>2
  <2>. QED BY <1>4, <2>1 DEF Injection, IsInjective
<1>6. IsFiniteSet(1..n) /\ Cardinality(1..n) = n
  BY <1>1, FS_Interval
<1>7. \A k \in 1..n : \E x \in S : place[x] = k
  <2>1. place \in Surjection(S, 1..n)
    <3>1. Cardinality(S) = n
      OBVIOUS
    <3>. HIDE DEF place, n
    <3>. QED BY <1>5, <1>6, <3>1, FS_Injection
  <2>. QED BY <2>1 DEF Surjection
<1>8. ASSUME NEW k \in 1..n PROVE nth(k) \in S /\ place[nth(k)] = k
  <2>1. \E x \in S : at(x) = k
    BY <1>7
  <2>2. nth(k) \in S /\ at(nth(k)) = k
    BY <2>1
  <2>. QED BY <2>2
<1>9. q = [k \in 1..n |-> nth(k)]
  BY DEF Listed
<1>. HIDE DEF q, place, n, nth
<1>10. q \in Seq(S)
  BY <1>1, <1>8, <1>9
<1>11. Range(q) = S
  <2>1. ASSUME NEW x \in S PROVE \E k \in DOMAIN q : q[k] = x
    <3>1. place[x] \in 1..n
      BY <1>2
    <3>2. nth(place[x]) = x
      BY <1>4, <1>8, <3>1
    <3>. QED BY <1>9, <3>1, <3>2
  <2>2. ASSUME NEW k \in DOMAIN q PROVE q[k] \in S
    BY <1>8, <1>9
  <2>. QED BY <2>1, <2>2 DEF Range
<1>12. IsInjective(q)
  BY <1>8, <1>9 DEF IsInjective
<1>. QED BY <1>10, <1>11, <1>12 DEF q

\* What is listed n-th is the element with n up to it.
LEMMA ListedAt ==
    ASSUME NEW S, IsFiniteSet(S), NEW rank, \A x \in S : rank[x] \in Nat,
           \A x, y \in S : rank[x] = rank[y] => x = y,
           NEW x \in S
    PROVE  LET k == Cardinality(UpTo(S, rank, x)) IN
           k \in 1..Cardinality(S) /\ Listed(S, rank)[k] = x
<1>. DEFINE at(y) == Cardinality(UpTo(S, rank, y))
<1>1. ASSUME NEW y \in S
      PROVE  /\ IsFiniteSet(UpTo(S, rank, y)) /\ at(y) \in 1..Cardinality(S)
  <2>1. UpTo(S, rank, y) \subseteq S /\ y \in UpTo(S, rank, y)
    BY DEF UpTo
  <2>2. /\ IsFiniteSet(UpTo(S, rank, y)) /\ at(y) <= Cardinality(S) /\ at(y) \in Nat
        /\ Cardinality(S) \in Nat
    BY <2>1, FS_Subset, FS_CardinalityType
  <2>3. at(y) # 0
    BY <2>1, <2>2, FS_EmptySet
  <2>. QED BY <2>2, <2>3
<1>2. ASSUME NEW y \in S, NEW z \in S, rank[y] < rank[z] PROVE at(y) # at(z)
  <2>1. UpTo(S, rank, y) \subseteq UpTo(S, rank, z)
        /\ z \notin UpTo(S, rank, y) /\ z \in UpTo(S, rank, z)
    BY <1>2 DEF UpTo
  <2>. QED BY <1>1, <2>1, FS_Subset
<1>3. ASSUME NEW y \in S, at(y) = at(x) PROVE y = x
  <2>1. rank[x] < rank[y] \/ rank[y] < rank[x] \/ rank[x] = rank[y]
    OBVIOUS
  <2>. QED BY <1>2, <1>3, <2>1
<1>4. at(x) \in 1..Cardinality(S)
  BY <1>1
<1>5. Listed(S, rank)[at(x)] = CHOOSE y \in S : at(y) = at(x)
  BY <1>4 DEF Listed
<1>. QED BY <1>3, <1>4, <1>5

\* U is S and T, and what is of T has the higher ranks.
Joined(U, S, T, rank) ==
    /\ IsFiniteSet(S) /\ IsFiniteSet(T) /\ U = S \cup T
    /\ (\A x \in U : rank[x] \in Nat) /\ \A x, y \in U : rank[x] = rank[y] => x = y
    /\ \A x \in S, y \in T : rank[x] < rank[y]

\* A set whose elements all come after those of another is listed after it.
LEMMA ListedJoin ==
    ASSUME NEW S, NEW T, NEW rank, NEW U, Joined(U, S, T, rank)
    PROVE  Listed(U, rank) = Listed(S, rank) \o Listed(T, rank)
<1>. /\ IsFiniteSet(S) /\ IsFiniteSet(T) /\ U = S \cup T
     /\ (\A x \in S \cup T : rank[x] \in Nat) /\ (\A x, y \in S \cup T : rank[x] = rank[y] => x = y)
     /\ \A x \in S, y \in T : rank[x] < rank[y]
  BY DEF Joined
<1>. DEFINE n == Cardinality(S)  m == Cardinality(T)
            a == Listed(S, rank)  b == Listed(T, rank)  c == Listed(S \cup T, rank)
<1>1. n \in Nat /\ m \in Nat /\ IsFiniteSet(S \cup T) /\ Cardinality(S \cup T) = n + m
  <2>1. S \cap T = {}
    OBVIOUS
  <2>2. Cardinality(S \cap T) = 0
    BY <2>1, FS_EmptySet
  <2>3. n \in Nat /\ m \in Nat
    BY FS_CardinalityType
  <2>4. IsFiniteSet(S \cup T) /\ Cardinality(S \cup T) = n + m - Cardinality(S \cap T)
    BY FS_Union
  <2>. HIDE DEF n, m
  <2>. QED BY <2>2, <2>3, <2>4
<1>2. a \in Seq(S) /\ b \in Seq(T) /\ c \in Seq(S \cup T) /\ Range(a) = S /\ Range(b) = T
  BY <1>1, ListedAll
<1>3. Len(a) = n /\ Len(b) = m /\ Len(c) = n + m
  <2>1. DOMAIN a = 1..n /\ DOMAIN b = 1..m /\ DOMAIN c = 1..(n + m)
    BY <1>1 DEF Listed
  <2>. HIDE DEF n, m, a, b, c
  <2>. QED BY <1>1, <1>2, <2>1
<1>4. ASSUME NEW k \in 1..n PROVE c[k] = a[k]
  <2>1. PICK x \in S : Cardinality(UpTo(S, rank, x)) = k /\ a[k] = x
    <3>1. k \in DOMAIN a
      BY <1>4 DEF Listed
    <3>2. PICK y \in S : y = a[k]
      BY <1>2, <3>1
    <3>3. \A x \in S : a[Cardinality(UpTo(S, rank, x))] = x /\ Cardinality(UpTo(S, rank, x)) \in 1..n
      BY ListedAt
    <3>4. Cardinality(UpTo(S, rank, y)) = k
      <4>1. IsInjective(a)
        BY <1>1, ListedAll
      <4>2. DOMAIN a = 1..n
        BY DEF Listed
      <4>. HIDE DEF a
      <4>. QED BY <1>4, <3>2, <3>3, <4>1, <4>2 DEF IsInjective
    <3>. QED BY <3>2, <3>4
  <2>2. UpTo(S \cup T, rank, x) = UpTo(S, rank, x)
    <3>1. \A y \in T : ~(rank[y] <= rank[x])
      OBVIOUS
    <3>. QED BY <3>1 DEF UpTo
  <2>. QED BY <1>1, <2>1, <2>2, ListedAt
<1>5. ASSUME NEW k \in 1..m PROVE c[n + k] = b[k]
  <2>1. PICK x \in T : Cardinality(UpTo(T, rank, x)) = k /\ b[k] = x
    <3>1. k \in DOMAIN b
      BY <1>5 DEF Listed
    <3>2. PICK y \in T : y = b[k]
      BY <1>2, <3>1
    <3>3. \A x \in T : b[Cardinality(UpTo(T, rank, x))] = x /\ Cardinality(UpTo(T, rank, x)) \in 1..m
      BY ListedAt
    <3>4. Cardinality(UpTo(T, rank, y)) = k
      <4>1. IsInjective(b)
        BY <1>1, ListedAll
      <4>2. DOMAIN b = 1..m
        BY DEF Listed
      <4>. HIDE DEF b
      <4>. QED BY <1>5, <3>2, <3>3, <4>1, <4>2 DEF IsInjective
    <3>. QED BY <3>2, <3>4
  <2>2. UpTo(S \cup T, rank, x) = S \cup UpTo(T, rank, x)
    <3>1. \A y \in S : rank[y] <= rank[x]
      OBVIOUS
    <3>. QED BY <3>1 DEF UpTo
  <2>3. Cardinality(S \cup UpTo(T, rank, x)) = n + k
    <3>1. UpTo(T, rank, x) \subseteq T /\ S \cap UpTo(T, rank, x) = {}
      BY DEF UpTo
    <3>2. IsFiniteSet(UpTo(T, rank, x)) /\ Cardinality(S \cap UpTo(T, rank, x)) = 0
      BY <3>1, FS_Subset, FS_EmptySet
    <3>3. PICK u : u = UpTo(T, rank, x)
      OBVIOUS
    <3>4. IsFiniteSet(u) /\ Cardinality(S \cap u) = 0 /\ Cardinality(u) = k
      BY <2>1, <3>2, <3>3
    <3>5. Cardinality(S \cup u) = n + k - 0
      BY <3>4, FS_Union
    <3>. QED BY <1>1, <3>3, <3>5
  <2>4. Cardinality(UpTo(S \cup T, rank, x)) = n + k
    BY <2>2, <2>3
  <2>5. Listed(S \cup T, rank)[Cardinality(UpTo(S \cup T, rank, x))] = x
    BY <1>1, ListedAt
  <2>. QED BY <2>1, <2>4, <2>5
<1>. HIDE DEF n, m, a, b, c
<1>6. Len(a \o b) = n + m /\ (\A k \in 1..n : (a \o b)[k] = a[k]) /\ \A k \in 1..m : (a \o b)[n + k] = b[k]
  <2>1. a \in Seq(S \cup T) /\ b \in Seq(S \cup T)
    BY <1>2
  <2>2. PICK q : q = a \o b
    OBVIOUS
  <2>3. Len(q) = n + m /\ \A k \in 1..(n + m) : q[k] = IF k <= n THEN a[k] ELSE b[k - n]
    <3>1. /\ Len(q) = Len(a) + Len(b)
          /\ \A k \in 1..(Len(a) + Len(b)) : q[k] = IF k <= Len(a) THEN a[k] ELSE b[k - Len(a)]
      BY <2>1, <2>2, ConcatProperties
    <3>. QED BY <1>3, <3>1
  <2>4. \A k \in 1..n : q[k] = a[k]
    BY <1>1, <2>3
  <2>5. ASSUME NEW k \in 1..m PROVE q[n + k] = b[k]
    <3>1. n + k \in 1..(n + m) /\ ~(n + k <= n) /\ (n + k) - n = k
      BY <1>1
    <3>. QED BY <2>3, <3>1
  <2>. QED BY <2>2, <2>3, <2>4, <2>5
<1>7. ASSUME NEW k \in 1..(n + m) PROVE c[k] = (a \o b)[k]
  <2>1. CASE k \in 1..n
    BY <1>4, <1>6, <2>1
  <2>2. CASE k \notin 1..n
    <3>1. k - n \in 1..m /\ n + (k - n) = k
      BY <1>1, <2>2
    <3>. QED BY <1>5, <1>6, <3>1
  <2>. QED BY <2>1, <2>2
<1>8. c = a \o b
  <2>1. a \in Seq(S \cup T) /\ b \in Seq(S \cup T) /\ c \in Seq(S \cup T)
    BY <1>2
  <2>2. PICK q : q = a \o b
    OBVIOUS
  <2>3. q \in Seq(S \cup T) /\ Len(q) = n + m
    BY <1>6, <2>1, <2>2, ConcatProperties
  <2>4. \A k \in 1..(n + m) : c[k] = q[k]
    BY <1>7, <2>2
  <2>. QED BY <1>3, <2>1, <2>2, <2>3, <2>4, SeqEqual
<1>. QED BY <1>8 DEF a, b, c

-----------------------------------------------------------------------------
(* Sets of numbers *)

LEMMA RankOfNumbers ==
    ASSUME NEW S, NEW T, S \subseteq T, T \subseteq Nat, IsFiniteSet(S)
    PROVE  InSequence(S) = Listed(S, [i \in T |-> i])
<1>. DEFINE u == [i \in S |-> i]  v == [i \in T |-> i]
            a == Listed(S, u)  b == Listed(S, v)  n == Cardinality(S)
<1>1. \A x \in S : UpTo(S, u, x) = UpTo(S, v, x)
  BY DEF UpTo
<1>2. /\ (\A x \in S : u[x] \in Nat) /\ \A x, y \in S : u[x] = u[y] => x = y
      /\ (\A x \in S : v[x] \in Nat) /\ \A x, y \in S : v[x] = v[y] => x = y
  OBVIOUS
<1>. HIDE DEF u, v
<1>3. /\ a \in Seq(S) /\ DOMAIN a = 1..n /\ IsInjective(a)
      /\ b \in Seq(S) /\ DOMAIN b = 1..n /\ a \in [1..n -> S] /\ b \in [1..n -> S]
  <2>1. a \in Seq(S) /\ IsInjective(a) /\ b \in Seq(S)
    BY <1>2, ListedAll
  <2>2. DOMAIN a = 1..n /\ DOMAIN b = 1..n
    BY DEF Listed
  <2>. HIDE DEF a, b, n
  <2>3. a \in [DOMAIN a -> S] /\ b \in [DOMAIN b -> S]
    BY <2>1, LenProperties
  <2>. QED BY <2>1, <2>2, <2>3
<1>4. \A x \in S : /\ Cardinality(UpTo(S, u, x)) \in 1..n /\ a[Cardinality(UpTo(S, u, x))] = x
                   /\ b[Cardinality(UpTo(S, v, x))] = x
  BY <1>2, ListedAt
<1>. HIDE DEF a, b, n
<1>5. ASSUME NEW k \in 1..n PROVE a[k] = b[k]
  <2>1. PICK x \in S : x = a[k]
    BY <1>3
  <2>2. Cardinality(UpTo(S, u, x)) = k
    BY <1>3, <1>4, <2>1 DEF IsInjective
  <2>. QED BY <1>1, <1>4, <2>1, <2>2
<1>6. a = b
  <2>1. n \in Nat
    BY FS_CardinalityType DEF n
  <2>2. Len(a) = n /\ Len(b) = n
    BY <1>3, <2>1
  <2>. QED BY <1>3, <1>5, <2>2, SeqEqual
<1>. QED BY <1>6 DEF a, b, u, v, InSequence

Ascending(S, T, U) ==
    /\ IsFiniteSet(S) /\ IsFiniteSet(T) /\ S \subseteq Nat /\ T \subseteq Nat
    /\ (\A x \in S, y \in T : x < y) /\ U = S \cup T

\* Numbers of a set that are all above those of another come after them.
LEMMA InSequenceJoin ==
    ASSUME NEW S, NEW T, NEW U, Ascending(S, T, U)
    PROVE  InSequence(U) = InSequence(S) \o InSequence(T)
<1>1. PICK rank : rank = [i \in U |-> i]
  OBVIOUS
<1>2. IsFiniteSet(S) /\ IsFiniteSet(T) /\ IsFiniteSet(U) /\ S \subseteq U /\ T \subseteq U /\ U \subseteq Nat
  BY FS_Union DEF Ascending
<1>3. InSequence(S) = Listed(S, rank) /\ InSequence(T) = Listed(T, rank) /\ InSequence(U) = Listed(U, rank)
  BY <1>1, <1>2, RankOfNumbers
<1>4. Joined(U, S, T, rank)
  BY <1>1, <1>2 DEF Joined, Ascending
<1>5. Listed(U, rank) = Listed(S, rank) \o Listed(T, rank)
  BY <1>4, ListedJoin
<1>. QED BY <1>3, <1>5

LEMMA InSequenceAll ==
    ASSUME NEW S, S \subseteq Nat, IsFiniteSet(S)
    PROVE  InSequence(S) \in Seq(S) /\ Range(InSequence(S)) = S /\ IsInjective(InSequence(S))
<1>. DEFINE rank == [i \in S |-> i]
<1>1. (\A x \in S : rank[x] \in Nat) /\ \A x, y \in S : rank[x] = rank[y] => x = y
  OBVIOUS
<1>2. InSequence(S) = Listed(S, rank)
  BY DEF InSequence
<1>. HIDE DEF rank
<1>. QED BY <1>1, <1>2, ListedAll

\* The first of a set of numbers is the least of them.
LEMMA LeastOf ==
    ASSUME NEW S, S \subseteq Nat, IsFiniteSet(S), S # {}
    PROVE  \E m \in S : \A x \in S : m <= x
<1>. DEFINE rank == [i \in S |-> i]
            q == Listed(S, rank)
            n == Cardinality(S)
<1>1. (\A x \in S : rank[x] \in Nat) /\ \A x, y \in S : rank[x] = rank[y] => x = y
  OBVIOUS
<1>2. n \in Nat /\ n # 0
  BY FS_CardinalityType, FS_EmptySet
<1>. HIDE DEF rank
<1>3. q \in Seq(S) /\ IsInjective(q) /\ DOMAIN q = 1..n /\ q \in [1..n -> S]
  <2>1. q \in Seq(S) /\ IsInjective(q)
    BY <1>1, ListedAll
  <2>2. DOMAIN q = 1..n
    BY DEF Listed
  <2>. HIDE DEF q, n
  <2>3. q \in [DOMAIN q -> S]
    BY <2>1, LenProperties
  <2>. QED BY <2>1, <2>2, <2>3
<1>4. 1 \in 1..n
  BY <1>2
<1>5. PICK m \in S : m = q[1]
  BY <1>3, <1>4
<1>6. Cardinality(UpTo(S, rank, m)) \in 1..n /\ q[Cardinality(UpTo(S, rank, m))] = m
  BY <1>1, ListedAt
<1>7. Cardinality(UpTo(S, rank, m)) = 1
  <2>. HIDE DEF q, n
  <2>. QED BY <1>3, <1>4, <1>5, <1>6 DEF IsInjective
<1>8. IsFiniteSet(UpTo(S, rank, m)) /\ m \in UpTo(S, rank, m)
  <2>1. UpTo(S, rank, m) \subseteq S
    BY DEF UpTo
  <2>2. rank[m] <= rank[m]
    BY <1>1
  <2>. QED BY <2>1, <2>2, FS_Subset DEF UpTo
<1>9. UpTo(S, rank, m) = {m}
  BY <1>7, <1>8, FS_Singleton
<1>10. ASSUME NEW x \in S PROVE m <= x
  <2>1. x = m \/ ~(rank[x] <= rank[m])
    BY <1>9 DEF UpTo
  <2>. QED BY <2>1 DEF rank
<1>. QED BY <1>10

\* What the first number has and each number passes on to the next, all have.
LEMMA OneToNext ==
    ASSUME NEW L \in Nat, NEW S, 0 \in S, \A n \in 1..L : n - 1 \in S => n \in S
    PROVE  \A n \in 0..L : n \in S
<1>. DEFINE Off == {n \in 0..L : n \notin S}
<1>1. SUFFICES ASSUME Off # {} PROVE FALSE
  OBVIOUS
<1>2. Off \subseteq Nat /\ IsFiniteSet(Off)
  <2>1. IsFiniteSet(0..L)
    BY FS_Interval
  <2>2. Off \subseteq 0..L
    OBVIOUS
  <2>. HIDE DEF Off
  <2>3. IsFiniteSet(Off)
    BY <2>1, <2>2, FS_Subset
  <2>. QED BY <2>2, <2>3
<1>3. PICK n \in Off : \A j \in Off : n <= j
  <2>. HIDE DEF Off
  <2>. QED BY <1>1, <1>2, LeastOf
<1>4. n \in 0..L /\ n \notin S /\ n # 0
  BY <1>3
<1>5. n \in 1..L /\ n - 1 \in 0..L /\ ~(n <= n - 1)
  BY <1>4
<1>6. n - 1 \in S
  BY <1>3, <1>5
<1>. QED BY <1>4, <1>5, <1>6
=============================================================================
