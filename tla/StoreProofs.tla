---------------------------- MODULE StoreProofs ----------------------------
(***************************************************************************)
(* Theorems about SessionStore: the types; that every row is what its last *)
(* writer knew; that no message lands after one its writer never saw; and  *)
(* that the messages are one durable log: for any number of processes, any *)
(* changes and any cuts, crashes, replays and overlaps of the plan.        *)
(***************************************************************************)
EXTENDS SessionStore, LinesProofs, SequenceTheorems, FiniteSetTheorems, TLAPS

-----------------------------------------------------------------------------
(* Prefixes *)

LEMMA Prefixes1 ==
    ASSUME NEW T, NEW s \in Seq(T), NEW t \in Seq(T)
    PROVE  IsPrefix(s, t) <=> Len(s) <= Len(t) /\ \A i \in 1..Len(s) : s[i] = t[i]
<1>1. Len(s) \in Nat /\ Len(t) \in Nat /\ 1 \in Int
      /\ (\A i \in 1..Len(s) : s[i] \in T) /\ \A i \in 1..Len(t) : t[i] \in T
  OBVIOUS
<1>2. SubSeq(s, 1, Len(s)) = s
  BY SubSeqFull
<1>3. ASSUME Len(s) <= Len(t)
      PROVE  /\ SubSeq(t, 1, Len(s)) \in Seq(T) /\ Len(SubSeq(t, 1, Len(s))) = Len(s)
             /\ \A i \in 1..Len(s) : SubSeq(t, 1, Len(s))[i] = t[i]
  <2>1. \A i \in 1..Len(s) : t[i] \in T
    BY <1>1, <1>3
  <2>2. PICK n : n = Len(s)
    OBVIOUS
  <2>3. PICK r : r = SubSeq(t, 1, n)
    OBVIOUS
  <2>4. /\ r \in Seq(T) /\ Len(r) = IF 1 <= n THEN n - 1 + 1 ELSE 0
        /\ \A i \in 1..(n - 1 + 1) : r[i] = t[1 + i - 1]
    BY <1>1, <2>1, <2>2, <2>3, SubSeqProperties
  <2>5. n \in Nat /\ n - 1 + 1 = n /\ \A i \in 1..n : 1 + i - 1 = i
    BY <1>1, <2>2
  <2>6. Len(r) = n
    BY <2>4, <2>5
  <2>7. \A i \in 1..n : r[i] = t[i]
    BY <2>4, <2>5
  <2>. QED BY <2>2, <2>3, <2>4, <2>6, <2>7
<1>4. ASSUME Len(s) <= Len(t), \A i \in 1..Len(s) : s[i] = t[i] PROVE s = SubSeq(t, 1, Len(s))
  <2>1. PICK r : r = SubSeq(t, 1, Len(s))
    OBVIOUS
  <2>2. r \in Seq(T) /\ Len(r) = Len(s) /\ \A i \in 1..Len(s) : s[i] = r[i]
    BY <1>3, <1>4, <2>1
  <2>3. s = r
    BY <2>2, SeqEqual
  <2>. QED BY <2>1, <2>3
<1>5. ASSUME Len(s) <= Len(t), s = SubSeq(t, 1, Len(s)) PROVE \A i \in 1..Len(s) : s[i] = t[i]
  BY <1>3, <1>5
<1>. QED BY <1>2, <1>4, <1>5 DEF IsPrefix

LEMMA PrefixTrans ==
    ASSUME NEW T, NEW s \in Seq(T), NEW t \in Seq(T), NEW u \in Seq(T), IsPrefix(s, t), IsPrefix(t, u)
    PROVE  IsPrefix(s, u)
<1>1. /\ Len(s) <= Len(t) /\ Len(t) <= Len(u) /\ Len(s) \in Nat /\ Len(t) \in Nat /\ Len(u) \in Nat
      /\ (\A i \in 1..Len(s) : s[i] = t[i]) /\ \A i \in 1..Len(t) : t[i] = u[i]
  BY Prefixes1
<1>2. Len(s) <= Len(u) /\ \A i \in 1..Len(s) : i \in 1..Len(t)
  BY <1>1
<1>. QED BY <1>1, <1>2, Prefixes1

LEMMA PrefixSelf == ASSUME NEW T, NEW s \in Seq(T) PROVE IsPrefix(s, s)
  BY Prefixes1

LEMMA PrefixOfConcat ==
    ASSUME NEW T, NEW s \in Seq(T), NEW t \in Seq(T)
    PROVE  IsPrefix(s, s \o t) /\ s \o t \in Seq(T) /\ Len(s \o t) = Len(s) + Len(t)
<1>1. PICK r : r = s \o t
  OBVIOUS
<1>2. /\ r \in Seq(T) /\ Len(r) = Len(s) + Len(t) /\ Len(s) \in Nat /\ Len(t) \in Nat
      /\ \A i \in 1 .. Len(s) + Len(t) : r[i] = IF i <= Len(s) THEN s[i] ELSE t[i - Len(s)]
  BY <1>1, ConcatProperties
<1>3. \A i \in 1..Len(s) : i \in 1 .. Len(s) + Len(t) /\ i <= Len(s)
  BY <1>2
<1>4. Len(s) <= Len(r) /\ \A i \in 1..Len(s) : s[i] = r[i]
  BY <1>2, <1>3
<1>. QED BY <1>1, <1>2, <1>4, Prefixes1

LEMMA PrefixAll ==
    ASSUME NEW T, NEW s \in Seq(T), NEW t \in Seq(T), IsPrefix(s, t), Len(s) = Len(t)
    PROVE  s = t
  BY Prefixes1, SeqEqual

LEMMA ConcatAt ==
    ASSUME NEW T, NEW s \in Seq(T), NEW t \in Seq(T), NEW r, r = s \o t
    PROVE  /\ r \in Seq(T) /\ Len(r) = Len(s) + Len(t) /\ Len(s) \in Nat /\ Len(t) \in Nat
           /\ \A i \in 1..Len(s) : r[i] = s[i]
           /\ \A i \in 1..Len(t) : r[Len(s) + i] = t[i]
<1>1. /\ r \in Seq(T) /\ Len(r) = Len(s) + Len(t) /\ Len(s) \in Nat /\ Len(t) \in Nat
      /\ \A i \in 1 .. Len(s) + Len(t) : r[i] = IF i <= Len(s) THEN s[i] ELSE t[i - Len(s)]
  BY ConcatProperties
<1>2. ASSUME NEW i \in 1..Len(s) PROVE r[i] = s[i]
  <2>1. i \in 1 .. Len(s) + Len(t) /\ i <= Len(s)
    BY <1>1
  <2>. QED BY <1>1, <2>1
<1>3. ASSUME NEW i \in 1..Len(t) PROVE r[Len(s) + i] = t[i]
  <2>1. Len(s) + i \in 1 .. Len(s) + Len(t) /\ ~(Len(s) + i <= Len(s)) /\ (Len(s) + i) - Len(s) = i
    BY <1>1
  <2>. QED BY <1>1, <2>1
<1>. QED BY <1>1, <1>2, <1>3

LEMMA ConcatTwice ==
    ASSUME NEW T, NEW s \in Seq(T), NEW t \in Seq(T), NEW u \in Seq(T),
           NEW v, v = t \o u, NEW x, x = s \o t, NEW y, y = s \o v
    PROVE  y = x \o u
<1>1. PICK z : z = x \o u
  OBVIOUS
<1>2. v \in Seq(T) /\ Len(v) = Len(t) + Len(u) /\ x \in Seq(T) /\ Len(x) = Len(s) + Len(t)
      /\ Len(s) \in Nat /\ Len(t) \in Nat /\ Len(u) \in Nat
  BY ConcatAt
<1>3. y \in Seq(T) /\ Len(y) = Len(s) + Len(v) /\ z \in Seq(T) /\ Len(z) = Len(x) + Len(u)
  BY <1>1, <1>2, ConcatAt
<1>4. ASSUME NEW i \in 1..Len(s) PROVE y[i] = z[i]
  <2>1. y[i] = s[i] /\ x[i] = s[i]
    BY <1>2, ConcatAt
  <2>2. i \in 1..Len(x)
    BY <1>2
  <2>3. z[i] = x[i]
    BY <1>1, <1>2, <2>2, ConcatAt
  <2>. QED BY <2>1, <2>3
<1>5. ASSUME NEW i \in 1..Len(t) PROVE y[Len(s) + i] = z[Len(s) + i]
  <2>1. v[i] = t[i] /\ x[Len(s) + i] = t[i]
    BY <1>2, ConcatAt
  <2>2. i \in 1..Len(v) /\ Len(s) + i \in 1..Len(x)
    BY <1>2
  <2>3. y[Len(s) + i] = v[i] /\ z[Len(s) + i] = x[Len(s) + i]
    BY <1>1, <1>2, <2>2, ConcatAt
  <2>. QED BY <2>1, <2>3
<1>6. ASSUME NEW i \in 1..Len(u) PROVE y[(Len(s) + Len(t)) + i] = z[(Len(s) + Len(t)) + i]
  <2>1. v[Len(t) + i] = u[i] /\ z[Len(x) + i] = u[i]
    BY <1>1, <1>2, ConcatAt
  <2>2. Len(t) + i \in 1..Len(v) /\ Len(s) + (Len(t) + i) = (Len(s) + Len(t)) + i
    BY <1>2
  <2>3. y[Len(s) + (Len(t) + i)] = v[Len(t) + i]
    BY <1>2, <2>2, ConcatAt
  <2>. QED BY <1>2, <2>1, <2>2, <2>3
<1>7. ASSUME NEW i \in 1..Len(y) PROVE y[i] = z[i]
  <2>1. CASE i <= Len(s)
    BY <1>2, <1>4, <2>1
  <2>2. CASE Len(s) < i /\ i <= Len(s) + Len(t)
    <3>1. i - Len(s) \in 1..Len(t) /\ Len(s) + (i - Len(s)) = i
      BY <1>2, <2>2
    <3>. QED BY <1>5, <3>1
  <2>3. CASE Len(s) + Len(t) < i
    <3>1. i - (Len(s) + Len(t)) \in 1..Len(u) /\ (Len(s) + Len(t)) + (i - (Len(s) + Len(t))) = i
      BY <1>2, <1>3, <2>3
    <3>. QED BY <1>6, <3>1
  <2>. QED BY <1>2, <1>3, <2>1, <2>2, <2>3
<1>8. Len(y) = Len(z)
  BY <1>2, <1>3
<1>9. y = z
  BY <1>3, <1>7, <1>8, SeqEqual
<1>. QED BY <1>1, <1>9

\* What is left of a concatenation after its first part.
LEMMA RestOfConcat ==
    ASSUME NEW T, NEW s \in Seq(T), NEW t \in Seq(T)
    PROVE  SubSeq(s \o t, Len(s) + 1, Len(s \o t)) = t
<1>1. PICK q : q = s \o t
  OBVIOUS
<1>2. /\ q \in Seq(T) /\ Len(q) = Len(s) + Len(t) /\ Len(s) \in Nat /\ Len(t) \in Nat
      /\ \A i \in 1 .. Len(s) + Len(t) : q[i] = IF i <= Len(s) THEN s[i] ELSE t[i - Len(s)]
  BY <1>1, ConcatProperties
<1>3. PICK a : a = Len(s) + 1
  OBVIOUS
<1>4. PICK b : b = Len(q)
  OBVIOUS
<1>5. PICK r : r = SubSeq(q, a, b)
  OBVIOUS
<1>6. a \in Int /\ b \in Int /\ \A i \in a..b : q[i] \in T
  BY <1>2, <1>3, <1>4
<1>7. /\ r \in Seq(T) /\ Len(r) = IF a <= b THEN b - a + 1 ELSE 0
      /\ \A i \in 1..(b - a + 1) : r[i] = q[a + i - 1]
  BY <1>5, <1>6, SubSeqProperties
<1>8. b - a + 1 = Len(t) /\ (~(a <= b) => Len(t) = 0)
  BY <1>2, <1>3, <1>4
<1>9. Len(r) = Len(t)
  BY <1>7, <1>8
<1>10. ASSUME NEW i \in 1..Len(t) PROVE r[i] = t[i]
  <2>1. a + i - 1 = Len(s) + i /\ Len(s) + i \in 1 .. Len(s) + Len(t) /\ ~(Len(s) + i <= Len(s))
        /\ (Len(s) + i) - Len(s) = i
    BY <1>2, <1>3
  <2>2. r[i] = q[Len(s) + i]
    BY <1>7, <1>8, <2>1
  <2>. QED BY <1>2, <2>1, <2>2
<1>11. r = t
  BY <1>7, <1>9, <1>10, SeqEqual
<1>. QED BY <1>1, <1>3, <1>4, <1>5, <1>11

-----------------------------------------------------------------------------
(* Changes *)

Changes == [kind: {"talk", "note", "step"}, to: 0..3]
Made == UNION {ChangesOf(p) : p \in Procs}
MadeTrue == made \in [Procs -> Seq(Changes)]

LEMMA MadeIs ==
    ASSUME MadeTrue
    PROVE  /\ \A p \in Procs : Gen(p) \in Nat /\ DOMAIN made[p] = 1..Gen(p)
           /\ \A p \in Procs : \A i \in 1..Gen(p) : <<p, i>> \in Made /\ made[p][i] \in Changes
           /\ \A c \in Made : c \in Procs \X Nat /\ made[c[1]][c[2]] \in Changes
<1>1. \A p \in Procs : made[p] \in Seq(Changes)
  BY DEF MadeTrue
<1>2. ASSUME NEW p \in Procs
      PROVE  Gen(p) \in Nat /\ DOMAIN made[p] = 1..Gen(p) /\ \A i \in 1..Gen(p) : made[p][i] \in Changes
  BY <1>1 DEF Gen
<1>3. \A p \in Procs : \A i \in 1..Gen(p) : <<p, i>> \in Made
  BY <1>2 DEF Made, ChangesOf
<1>4. ASSUME NEW c \in Made PROVE c \in Procs \X Nat /\ made[c[1]][c[2]] \in Changes
  <2>1. PICK p \in Procs : \E i \in DOMAIN made[p] : c = <<p, i>>
    BY DEF Made, ChangesOf
  <2>2. PICK i \in 1..Gen(p) : c = <<p, i>>
    BY <1>2, <2>1
  <2>3. i \in Nat
    BY <1>2
  <2>. QED BY <1>2, <2>2, <2>3
<1>. QED BY <1>2, <1>3, <1>4

\* ApplyInboxStates, and the table it counts with, of any changes m: the stage after each inbox state.
ToOf(m, c) == m[c[1]][c[2]].to
Applied(m, stage, steps) ==
    LET after[n \in 0..Len(steps)] ==
            IF n = 0 THEN stage ELSE InboxMoved(after[n - 1], m[steps[n][1]][steps[n][2]].to)
    IN after[Len(steps)]
Stages(m, f, stage, steps) ==
    /\ f[0] = stage /\ \A n \in 1..Len(steps) : f[n] = InboxMoved(f[n - 1], ToOf(m, steps[n]))
    /\ Applied(m, stage, steps) = f[Len(steps)]
    /\ \A n \in 0..Len(steps) : f[n] \in 0..3

LEMMA StagesAre ==
    ASSUME NEW m, NEW T, NEW stage \in 0..3, NEW steps \in Seq(T), \A c \in T : ToOf(m, c) \in 0..3
    PROVE  \E f : Stages(m, f, stage, steps)
<1>. DEFINE to(n) == m[steps[n][1]][steps[n][2]].to
            Table(k, f) == f = [n \in 0..k |-> IF n = 0 THEN stage ELSE InboxMoved(f[n - 1], to(n))]
            L == Len(steps)
<1>1. L \in Nat /\ \A n \in 1..L : to(n) \in 0..3 /\ to(n) = ToOf(m, steps[n])
  <2>1. \A n \in 1..L : steps[n] \in T
    OBVIOUS
  <2>. QED BY <2>1 DEF ToOf
<1>2. Applied(m, stage, steps) = (CHOOSE f : Table(L, f))[L]
  BY DEF Applied
<1>. HIDE DEF to, L
<1>3. \E f : Table(L, f)
  <2>. DEFINE S == {k \in 0..L : \E f : Table(k, f)}
  <2>1. 0 \in S
    <3>1. Table(0, [n \in 0..0 |-> stage])
      <4>1. 0..0 = {0}
        OBVIOUS
      <4>. QED BY <4>1
    <3>. HIDE DEF Table
    <3>. QED BY <1>1, <3>1
  <2>2. ASSUME NEW k \in 1..L, k - 1 \in S PROVE k \in S
    <3>1. k - 1 \in Nat /\ k \in 0..L /\ k # 0
      BY <1>1
    <3>3. PICK f : Table(k - 1, f)
      BY <2>2
    <3>4. PICK g : g = [n \in 0..k |-> IF n = k THEN InboxMoved(f[k - 1], to(k)) ELSE f[n]]
      OBVIOUS
    <3>5. ASSUME NEW n \in 0..k
          PROVE  g[n] = IF n = 0 THEN stage ELSE InboxMoved(g[n - 1], to(n))
      <4>1. CASE n = k
        <5>1. k - 1 \in 0..k /\ k - 1 # k /\ g[k - 1] = f[k - 1]
          BY <3>1, <3>4
        <5>2. g[k] = InboxMoved(f[k - 1], to(k))
          BY <3>1, <3>4
        <5>. QED BY <3>1, <4>1, <5>1, <5>2
      <4>2. CASE n # k
        <5>1. n \in 0..(k - 1) /\ g[n] = f[n]
          BY <3>1, <3>4, <4>2
        <5>2. f[n] = IF n = 0 THEN stage ELSE InboxMoved(f[n - 1], to(n))
          BY <3>3, <5>1
        <5>3. n # 0 => n - 1 \in 0..k /\ n - 1 # k
          BY <3>1, <4>2
        <5>4. n # 0 => g[n - 1] = f[n - 1]
          BY <3>4, <5>3
        <5>. QED BY <5>1, <5>2, <5>4
      <4>. QED BY <4>1, <4>2
    <3>6. Table(k, g)
      <4>. DEFINE e(n) == IF n = 0 THEN stage ELSE InboxMoved(g[n - 1], to(n))
      <4>1. g = [n \in 0..k |-> g[n]]
        BY <3>4
      <4>2. \A n \in 0..k : g[n] = e(n)
        BY <3>5
      <4>. HIDE DEF e
      <4>3. g = [n \in 0..k |-> e(n)]
        BY <4>1, <4>2
      <4>. QED BY <4>3 DEF e
    <3>. QED BY <3>1, <3>6
  <2>. HIDE DEF S
  <2>3. \A k \in 0..L : k \in S
    BY <1>1, <2>1, <2>2, OneToNext
  <2>4. L \in S
    BY <1>1, <2>3
  <2>. QED BY <2>4 DEF S
<1>4. PICK f : Table(L, f) /\ Applied(m, stage, steps) = f[L]
  BY <1>2, <1>3
<1>5. f[0] = stage /\ \A n \in 1..L : f[n] = InboxMoved(f[n - 1], to(n))
  <2>1. \A n \in 0..L : f[n] = IF n = 0 THEN stage ELSE InboxMoved(f[n - 1], to(n))
    BY <1>4
  <2>. QED BY <1>1, <2>1
<1>6. \A n \in 0..L : f[n] \in 0..3
  <2>. DEFINE S == {n \in 0..L : f[n] \in 0..3}
  <2>1. 0 \in S
    BY <1>1, <1>5
  <2>2. ASSUME NEW n \in 1..L, n - 1 \in S PROVE n \in S
    BY <1>1, <1>5, <2>2 DEF InboxMoved
  <2>. HIDE DEF S
  <2>3. \A n \in 0..L : n \in S
    BY <1>1, <2>1, <2>2, OneToNext
  <2>. QED BY <2>3 DEF S
<1>7. \A n \in 1..L : f[n] = InboxMoved(f[n - 1], ToOf(m, steps[n]))
  BY <1>1, <1>5
<1>. QED BY <1>4, <1>5, <1>6, <1>7 DEF Stages, L

LEMMA StageTables ==
    ASSUME MadeTrue, NEW stage \in 0..3, NEW steps \in Seq(Made)
    PROVE  /\ \E f : Stages(made, f, stage, steps)
           /\ ApplyInboxStates(stage, steps) = Applied(made, stage, steps)
           /\ Len(steps) \in Nat /\ \A n \in 1..Len(steps) : ToOf(made, steps[n]) \in 0..3
<1>1. \A c \in Made : ToOf(made, c) \in 0..3
  BY MadeIs DEF Changes, ToOf
<1>2. Len(steps) \in Nat /\ \A n \in 1..Len(steps) : steps[n] \in Made
  OBVIOUS
<1>3. \E f : Stages(made, f, stage, steps)
  BY <1>1, StagesAre
<1>4. ApplyInboxStates(stage, steps) = Applied(made, stage, steps)
  BY DEF ApplyInboxStates, Applied
<1>. QED BY <1>1, <1>2, <1>3, <1>4

\* A stage that is told nothing it does not know stays a stage.
LEMMA StageIn ==
    ASSUME MadeTrue, NEW stage \in 0..3, NEW steps \in Seq(Made)
    PROVE  ApplyInboxStates(stage, steps) \in 0..3
<1>1. Len(steps) \in 0..Len(steps)
  OBVIOUS
<1>. QED BY <1>1, StageTables DEF Stages

\* The changes of p with the numbers of I, as ChangesIn gives them.
Marked(p, I) == [j \in DOMAIN I |-> <<p, I[j]>>]

LEMMA MarkedIs ==
    ASSUME NEW p, NEW S, NEW I \in Seq(S), NEW T, \A i \in S : <<p, i>> \in T
    PROVE  Marked(p, I) \in Seq(T) /\ Len(Marked(p, I)) = Len(I)
           /\ \A j \in 1..Len(I) : Marked(p, I)[j] = <<p, I[j]>>
<1>1. Len(I) \in Nat /\ DOMAIN I = 1..Len(I) /\ \A j \in 1..Len(I) : I[j] \in S
  OBVIOUS
<1>2. PICK n : n = Len(I)
  OBVIOUS
<1>3. PICK e : e = Marked(p, I)
  OBVIOUS
<1>4. e = [j \in 1..n |-> <<p, I[j]>>] /\ \A j \in 1..n : <<p, I[j]>> \in T
  BY <1>1, <1>2, <1>3 DEF Marked
<1>5. e \in [1..n -> T] /\ \A j \in 1..n : e[j] = <<p, I[j]>>
  BY <1>4
<1>6. e \in Seq(T) /\ Len(e) = n
  BY <1>1, <1>2, <1>5
<1>. QED BY <1>2, <1>3, <1>5, <1>6

LEMMA MarkedJoin ==
    ASSUME NEW p, NEW I \in Seq(Nat), NEW J \in Seq(Nat), NEW K, K = I \o J
    PROVE  Marked(p, K) = Marked(p, I) \o Marked(p, J)
<1>. DEFINE T == {p} \X Nat
<1>1. \A i \in Nat : <<p, i>> \in T
  OBVIOUS
<1>3. /\ K \in Seq(Nat) /\ Len(K) = Len(I) + Len(J) /\ Len(I) \in Nat /\ Len(J) \in Nat
      /\ \A i \in 1 .. Len(I) + Len(J) : K[i] = IF i <= Len(I) THEN I[i] ELSE J[i - Len(I)]
  BY ConcatProperties
<1>. HIDE DEF T
<1>4. PICK a : a = Marked(p, I)
  OBVIOUS
<1>5. PICK b : b = Marked(p, J)
  OBVIOUS
<1>6. PICK c : c = Marked(p, K)
  OBVIOUS
<1>7. /\ a \in Seq(T) /\ Len(a) = Len(I) /\ \A j \in 1..Len(I) : a[j] = <<p, I[j]>>
      /\ b \in Seq(T) /\ Len(b) = Len(J) /\ \A j \in 1..Len(J) : b[j] = <<p, J[j]>>
      /\ c \in Seq(T) /\ Len(c) = Len(K) /\ \A j \in 1..Len(K) : c[j] = <<p, K[j]>>
  BY <1>1, <1>3, <1>4, <1>5, <1>6, MarkedIs
<1>8. PICK d : d = a \o b
  OBVIOUS
<1>9. /\ d \in Seq(T) /\ Len(d) = Len(I) + Len(J)
      /\ \A i \in 1 .. Len(I) + Len(J) : d[i] = IF i <= Len(I) THEN a[i] ELSE b[i - Len(I)]
  <2>1. /\ d \in Seq(T) /\ Len(d) = Len(a) + Len(b)
        /\ \A i \in 1 .. Len(a) + Len(b) : d[i] = IF i <= Len(a) THEN a[i] ELSE b[i - Len(a)]
    <3>1. a \in Seq(T) /\ b \in Seq(T)
      BY <1>7
    <3>. QED BY <1>8, <3>1, ConcatProperties
  <2>. QED BY <1>7, <2>1
<1>10. ASSUME NEW i \in 1 .. Len(I) + Len(J) PROVE c[i] = d[i]
  <2>1. CASE i <= Len(I)
    <3>1. i \in 1..Len(I) /\ i \in 1..Len(K)
      BY <1>3, <2>1
    <3>. QED BY <1>3, <1>7, <1>9, <2>1, <3>1
  <2>2. CASE ~(i <= Len(I))
    <3>1. i - Len(I) \in 1..Len(J) /\ i \in 1..Len(K)
      BY <1>3, <2>2
    <3>. QED BY <1>3, <1>7, <1>9, <2>2, <3>1
  <2>. QED BY <2>1, <2>2
<1>11. c = d
  BY <1>3, <1>7, <1>9, <1>10, SeqEqual
<1>. QED BY <1>4, <1>5, <1>6, <1>8, <1>11

LEMMA ThoseAre ==
    ASSUME NEW p, NEW kind, NEW a \in Nat, NEW b \in Nat
    PROVE  /\ IsFiniteSet(Those(p, kind, a, b)) /\ Those(p, kind, a, b) \subseteq Nat
           /\ InSequence(Those(p, kind, a, b)) \in Seq(Those(p, kind, a, b))
           /\ ChangesIn(p, kind, a, b) = Marked(p, InSequence(Those(p, kind, a, b)))
<1>1. PICK S : S = Those(p, kind, a, b)
  OBVIOUS
<1>2. S \subseteq (a + 1)..b /\ IsFiniteSet((a + 1)..b) /\ (a + 1)..b \subseteq Nat
  <2>1. a + 1 \in Int /\ b \in Int
    OBVIOUS
  <2>2. IsFiniteSet((a + 1)..b)
    BY <2>1, FS_Interval
  <2>3. S \subseteq (a + 1)..b
    BY <1>1 DEF Those
  <2>4. (a + 1)..b \subseteq Nat
    OBVIOUS
  <2>. QED BY <2>2, <2>3, <2>4
<1>3. IsFiniteSet(S) /\ S \subseteq Nat
  BY <1>2, FS_Subset
<1>4. InSequence(S) \in Seq(S)
  BY <1>3, InSequenceAll
<1>. QED BY <1>1, <1>3, <1>4 DEF ChangesIn, Marked

LEMMA ChangesInAre ==
    ASSUME MadeTrue, NEW p \in Procs, NEW kind, NEW a \in Nat, NEW b \in 0..Gen(p)
    PROVE  ChangesIn(p, kind, a, b) \in Seq(Made)
<1>1. Gen(p) \in Nat /\ \A i \in 1..Gen(p) : <<p, i>> \in Made
  BY MadeIs
<1>2. b \in Nat /\ b <= Gen(p)
  BY <1>1
<1>3. PICK S : S = Those(p, kind, a, b)
  OBVIOUS
<1>4. InSequence(S) \in Seq(S) /\ ChangesIn(p, kind, a, b) = Marked(p, InSequence(S))
  BY <1>2, <1>3, ThoseAre
<1>5. \A i \in S : <<p, i>> \in Made
  <2>1. S \subseteq (a + 1)..b
    BY <1>3 DEF Those
  <2>2. (a + 1)..b \subseteq 1..Gen(p)
    BY <1>1, <1>2
  <2>. QED BY <1>1, <2>1, <2>2
<1>. QED BY <1>4, <1>5, MarkedIs

LEMMA ChangesInJoin ==
    ASSUME NEW p, NEW kind, NEW a \in Nat, NEW b \in Nat, NEW c \in Nat, a <= b, b <= c
    PROVE  ChangesIn(p, kind, a, c) = ChangesIn(p, kind, a, b) \o ChangesIn(p, kind, b, c)
<1>1. PICK S : S = Those(p, kind, a, b)
  OBVIOUS
<1>2. PICK T : T = Those(p, kind, b, c)
  OBVIOUS
<1>3. /\ IsFiniteSet(S) /\ S \subseteq Nat /\ InSequence(S) \in Seq(S)
      /\ ChangesIn(p, kind, a, b) = Marked(p, InSequence(S))
      /\ IsFiniteSet(T) /\ T \subseteq Nat /\ InSequence(T) \in Seq(T)
      /\ ChangesIn(p, kind, b, c) = Marked(p, InSequence(T))
  BY <1>1, <1>2, ThoseAre
<1>4. PICK U : U = S \cup T
  OBVIOUS
<1>5. U = Those(p, kind, a, c)
  <2>1. \A i : i \in (a + 1)..c <=> i \in (a + 1)..b \/ i \in (b + 1)..c
    OBVIOUS
  <2>. QED BY <1>1, <1>2, <1>4, <2>1 DEF Those
<1>6. \A x \in S, y \in T : x < y
  <2>1. \A x \in (a + 1)..b, y \in (b + 1)..c : x < y
    OBVIOUS
  <2>2. S \subseteq (a + 1)..b /\ T \subseteq (b + 1)..c
    BY <1>1, <1>2 DEF Those
  <2>. QED BY <2>1, <2>2
<1>7. Ascending(S, T, U)
  BY <1>3, <1>4, <1>6 DEF Ascending
<1>8. InSequence(U) = InSequence(S) \o InSequence(T)
  BY <1>7, InSequenceJoin
<1>9. InSequence(S) \in Seq(Nat) /\ InSequence(T) \in Seq(Nat)
  BY <1>3, SeqMonotonic
<1>10. Marked(p, InSequence(U)) = Marked(p, InSequence(S)) \o Marked(p, InSequence(T))
  BY <1>8, <1>9, MarkedJoin
<1>11. ChangesIn(p, kind, a, c) = Marked(p, InSequence(U))
  BY <1>5, ThoseAre
<1>. QED BY <1>3, <1>10, <1>11

LEMMA ChangesInNone ==
    ASSUME NEW p, NEW kind, NEW a \in Nat
    PROVE  ChangesIn(p, kind, a, a) = <<>>
<1>1. Those(p, kind, a, a) = {}
  BY DEF Those
<1>2. InSequence({}) \in Seq({})
  <2>1. IsFiniteSet({}) /\ {} \subseteq Nat
    BY FS_EmptySet
  <2>. QED BY <2>1, InSequenceAll
<1>3. InSequence({}) = <<>>
  BY <1>2, EmptySeq
<1>4. ChangesIn(p, kind, a, a) = [j \in {} |-> <<p, <<>>[j]>>]
  BY <1>1, <1>3 DEF ChangesIn
<1>. QED BY <1>4

\* What is appended changes nothing about what was there.
LEMMA ChangesInKept ==
    ASSUME NEW p, NEW kind, NEW a \in Nat, NEW b \in Nat, \A i \in 1..b : made'[p][i] = made[p][i]
    PROVE  ChangesIn(p, kind, a, b)' = ChangesIn(p, kind, a, b)
<1>1. \A i \in (a + 1)..b : i \in 1..b
  OBVIOUS
<1>2. Those(p, kind, a, b)' = Those(p, kind, a, b)
  BY <1>1 DEF Those
<1>. QED BY <1>2 DEF ChangesIn

-----------------------------------------------------------------------------
(* The invariant *)

Rows == [log: Seq(Made), side: Seq(Made), stage: 0..3, flush: Nat \X Nat]
Snaps == [id: Procs \X Nat, base: Nat, last: Nat, msgs: Seq(Made), side: Seq(Made), steps: Seq(Made)]
EntryRecords == [id: Procs \X Nat, base: Nat, fly: Seq(Snaps), last: Nat,
                 msgs: Seq(Made), side: Seq(Made), steps: Seq(Made)]
Entries == {e \in EntryRecords : e.last = e.base + Len(e.msgs)}
Budgets == [changes: [Procs -> Nat], kinds: SUBSET {"talk", "note", "step"}, overlap: BOOLEAN,
            faults: [FaultKinds -> Nat]]

DiskTypes ==
    /\ db \in Rows /\ limbo \in Seq(Rows) /\ Len(limbo) \in 0..1
    /\ files \in Seq(Entries) /\ aside \in Seq(Entries)
    /\ start \in [Procs -> [log: Seq(Made), stage: 0..3]]
    /\ pc \in [Procs -> Seq(Made)] /\ pcRun \in [Procs -> Seq(Made)]
FlagTypes ==
    /\ lock \in 0..MaxBoots
    /\ life \in [Procs -> {"off", "boot", "up", "closed"} \cup Over]
    /\ taken \in [Procs -> BOOLEAN] /\ clash \in [Procs -> BOOLEAN] /\ dead \in [Procs -> BOOLEAN]
    /\ sick \in [Procs -> BOOLEAN] /\ reload \in [Procs -> BOOLEAN]
    /\ cgen \in [Procs -> Nat] /\ fly \in [Procs -> Nat] /\ todo \in [Procs -> Nat]
    /\ run \in [Procs -> {"idle", "sent", "backoff"}]
    /\ at \in [Procs -> {"read", "delete", "aside"}]
    /\ left \in Budgets

Fresh == {"off", "boot"}

\* How far a process has got.
Phase(p) ==
    /\ cgen[p] <= Gen(p) /\ (fly[p] # 0 => cgen[p] < fly[p] /\ fly[p] <= Gen(p))
    /\ run[p] # "idle" => fly[p] # 0
    /\ life[p] \in Fresh => made[p] = <<>> /\ fly[p] = 0
    /\ life[p] = "boot" => lock = p
    /\ todo[p] > 0 => life[p] = "boot"
    /\ at[p] # "read" => todo[p] > 0
    /\ todo[p] <= Len(files)

\* The conversation as p knew it after its change g.
Reach(p, g) == start[p].log \o ChangesIn(p, "talk", 0, g)

\* A row holds what its last writer knew: a process that flushed it, or one that has ended and
\* whose spill file was replayed.
WriterGen(id) == IF id[2] = 0 THEN Gen(id[1]) ELSE id[2]
RowTrue(d) ==
    LET p == d.flush[1] IN
    /\ p \in Procs /\ life[p] \notin Fresh /\ d.flush[2] <= Gen(p)
    /\ d.flush[2] = 0 => life[p] \in Over
    /\ d.log = Reach(p, WriterGen(d.flush))
Blank(d) == d.flush = <<0, 0>> /\ d.log = <<>>

\* A spill file is of a process that has ended, and holds what its flushes left over.
FlyTrue(p, f) ==
    /\ f.id[1] = p /\ cgen[p] < f.id[2] /\ f.id[2] <= Gen(p)
    /\ f.last = LastSeq(p, f.id[2])
EntryTrue(e) ==
    LET p == e.id[1] IN
    /\ e.id[2] = 0 /\ life[p] \in Over
    /\ e.base = LastSeq(p, cgen[p]) /\ e.msgs = ChangesIn(p, "talk", cgen[p], Gen(p))
    /\ e.fly # <<>> => FlyTrue(p, e.fly[1])

\* What p was told is committed is in the database.
Behind(p) == IsPrefix(Reach(p, cgen[p]), db.log)

WritesTrue ==
    /\ RowTrue(db) \/ Blank(db)
    /\ \A i \in DOMAIN limbo : RowTrue(limbo[i]) /\ IsPrefix(db.log, limbo[i].log)
    /\ \A i \in DOMAIN files : EntryTrue(files[i])
    /\ \A p \in Procs : Behind(p)

StoreInv == MadeTrue /\ DiskTypes /\ FlagTypes /\ (\A p \in Procs : Phase(p)) /\ WritesTrue

-----------------------------------------------------------------------------
(* What a process knew, and what a transaction makes of the conversation *)

Logs == start \in [Procs -> [log: Seq(Made), stage: 0..3]]

LEMMA ReachIs ==
    ASSUME MadeTrue, Logs, NEW p \in Procs, NEW a \in Nat, NEW b \in 0..Gen(p), a <= b
    PROVE  /\ Reach(p, a) \in Seq(Made) /\ Reach(p, b) \in Seq(Made)
           /\ ChangesIn(p, "talk", a, b) \in Seq(Made)
           /\ Reach(p, b) = Reach(p, a) \o ChangesIn(p, "talk", a, b)
           /\ LastSeq(p, b) = Len(Reach(p, b)) /\ LastSeq(p, b) \in Nat
           /\ IsPrefix(Reach(p, a), Reach(p, b))
<1>1. Gen(p) \in Nat /\ a \in 0..Gen(p) /\ b \in Nat /\ 0 \in Nat /\ 0 <= a
  BY MadeIs
<1>2. PICK s : s = start[p].log
  OBVIOUS
<1>3. PICK t : t = ChangesIn(p, "talk", 0, a)
  OBVIOUS
<1>4. PICK u : u = ChangesIn(p, "talk", a, b)
  OBVIOUS
<1>5. PICK v : v = ChangesIn(p, "talk", 0, b)
  OBVIOUS
<1>6. s \in Seq(Made) /\ t \in Seq(Made) /\ u \in Seq(Made) /\ v \in Seq(Made)
  <2>1. s \in Seq(Made)
    BY <1>2 DEF Logs
  <2>2. t \in Seq(Made)
    BY <1>1, <1>3, ChangesInAre
  <2>3. u \in Seq(Made)
    BY <1>1, <1>4, ChangesInAre
  <2>4. v \in Seq(Made)
    BY <1>1, <1>5, ChangesInAre
  <2>. QED BY <2>1, <2>2, <2>3, <2>4
<1>7. v = t \o u
  <2>1. a \in Nat /\ b \in Nat /\ 0 \in Nat /\ 0 <= a /\ a <= b
    BY <1>1
  <2>2. ChangesIn(p, "talk", 0, b) = ChangesIn(p, "talk", 0, a) \o ChangesIn(p, "talk", a, b)
    BY ONLY <2>1, ChangesInJoin
  <2>. QED BY <1>3, <1>4, <1>5, <2>2
<1>8. PICK x : x = s \o t
  OBVIOUS
<1>9. PICK y : y = s \o v
  OBVIOUS
<1>10. /\ x \in Seq(Made) /\ y \in Seq(Made) /\ Len(y) = Len(s) + Len(v)
  BY <1>6, <1>8, <1>9, PrefixOfConcat
<1>11. y = x \o u
  BY <1>6, <1>7, <1>8, <1>9, ConcatTwice
<1>12. Reach(p, a) = x /\ Reach(p, b) = y
  BY <1>2, <1>3, <1>5, <1>8, <1>9 DEF Reach
<1>13. IsPrefix(x, y)
  BY <1>6, <1>10, <1>11, PrefixOfConcat
<1>14. LastSeq(p, b) = Len(y) /\ Len(y) \in Nat
  <2>1. LastSeq(p, b) = Len(s) + Len(v)
    BY <1>2, <1>5 DEF LastSeq
  <2>2. Len(y) \in Nat
    BY <1>10
  <2>. QED BY <1>10, <2>1, <2>2
<1>. QED BY <1>4, <1>6, <1>10, <1>11, <1>12, <1>13, <1>14

ProcsAreNat == Procs \subseteq Nat \ {0}

LEMMA ProcsNat == ProcsAreNat
  BY StoreAssumption DEF ProcsAreNat, Procs

LEMMA WrittenIs ==
    ASSUME MadeTrue, NEW d \in Rows, NEW b, b.id \in Nat \X Nat, b.msgs \in Seq(Made),
           b.side \in Seq(Made), b.steps \in Seq(Made)
    PROVE  /\ Written(d, b) \in Rows /\ Written(d, b).flush = b.id
           /\ Written(d, b).log = d.log \o b.msgs
           /\ d.log \in Seq(Made) /\ Written(d, b).log \in Seq(Made)
           /\ IsPrefix(d.log, Written(d, b).log)
<1>1. d.log \in Seq(Made) /\ d.side \in Seq(Made) /\ d.stage \in 0..3
  BY DEF Rows
<1>2. PICK l : l = d.log \o b.msgs
  OBVIOUS
<1>3. PICK s : s = d.side \o b.side
  OBVIOUS
<1>4. PICK st : st = ApplyInboxStates(d.stage, b.steps)
  OBVIOUS
<1>5. l \in Seq(Made) /\ s \in Seq(Made) /\ st \in 0..3 /\ IsPrefix(d.log, l)
  <2>1. l \in Seq(Made) /\ s \in Seq(Made)
    BY <1>1, <1>2, <1>3, ConcatAt
  <2>2. st \in 0..3
    BY <1>1, <1>4, StageIn
  <2>3. IsPrefix(d.log, l)
    BY <1>1, <1>2, PrefixOfConcat
  <2>. QED BY <2>1, <2>2, <2>3
<1>6. Written(d, b) = [log |-> l, side |-> s, stage |-> st, flush |-> b.id]
  BY <1>2, <1>3, <1>4 DEF Written
<1>7. PICK w : w = Written(d, b)
  OBVIOUS
<1>8. w \in Rows /\ w.flush = b.id /\ w.log = l
  <2>1. w = [log |-> l, side |-> s, stage |-> st, flush |-> b.id]
    BY <1>6, <1>7
  <2>. QED BY <1>5, <2>1 DEF Rows
<1>9. Written(d, b).log = l
  BY <1>7, <1>8
<1>. QED BY <1>1, <1>2, <1>5, <1>7, <1>8, <1>9

LEMMA SteppedIs ==
    ASSUME MadeTrue, NEW d \in Rows, NEW steps \in Seq(Made)
    PROVE  Stepped(d, steps) \in Rows /\ Stepped(d, steps).log = d.log /\ Stepped(d, steps).flush = d.flush
<1>1. d.stage \in 0..3
  BY DEF Rows
<1>2. ApplyInboxStates(d.stage, steps) \in 0..3
  BY <1>1, StageIn
<1>. QED BY <1>2 DEF Stepped, Rows

LEMMA SnapIs ==
    ASSUME StoreInv, NEW p \in Procs, fly[p] # 0
    PROVE  /\ Snap(p) \in Snaps /\ Snap(p).id = <<p, fly[p]>>
           /\ Snap(p).base = LastSeq(p, cgen[p]) /\ Snap(p).last = LastSeq(p, fly[p])
           /\ Snap(p).msgs = ChangesIn(p, "talk", cgen[p], fly[p])
           /\ FlyTrue(p, Snap(p)) /\ Snap(p).id \in Nat \X Nat
<1>1. /\ MadeTrue /\ Logs /\ cgen[p] \in Nat /\ fly[p] \in Nat /\ p \in Nat
      /\ cgen[p] < fly[p] /\ fly[p] <= Gen(p)
  BY ProcsNat DEF StoreInv, DiskTypes, FlagTypes, Logs, Phase, ProcsAreNat
<1>2. fly[p] \in 0..Gen(p) /\ cgen[p] \in 0..Gen(p) /\ cgen[p] <= fly[p]
  BY <1>1, MadeIs
<1>3. LastSeq(p, fly[p]) \in Nat /\ LastSeq(p, cgen[p]) \in Nat
  <2>1. \A g \in 0..Gen(p) : g \in Nat /\ g <= g
    BY <1>1, MadeIs
  <2>2. \A g \in 0..Gen(p) : LastSeq(p, g) \in Nat
    BY <1>1, <2>1, ReachIs
  <2>. QED BY <1>2, <2>2
<1>4. \A kind : ChangesIn(p, kind, cgen[p], fly[p]) \in Seq(Made)
  BY <1>1, <1>2, ChangesInAre
<1>5. <<>> \in Seq(Made)
  OBVIOUS
<1>. QED BY <1>1, <1>3, <1>4, <1>5 DEF Snap, Snaps, FlyTrue

Lands(d) == d \in Rows /\ RowTrue(d) /\ IsPrefix(db.log, d.log)

\* A flush that fits is written behind all its process knew when it began.
LEMMA FlushLands ==
    ASSUME StoreInv, NEW p \in Procs, life[p] \notin Fresh, fly[p] # 0, Fits(db, Snap(p))
    PROVE  Lands(Written(db, Snap(p))) /\ Written(db, Snap(p)).flush = <<p, fly[p]>>
           /\ Written(db, Snap(p)).log = Reach(p, fly[p]) /\ db.log = Reach(p, cgen[p])
<1>1. /\ MadeTrue /\ Logs /\ db \in Rows /\ cgen[p] \in Nat /\ fly[p] \in Nat /\ Behind(p)
      /\ cgen[p] < fly[p] /\ fly[p] <= Gen(p)
  BY DEF StoreInv, DiskTypes, FlagTypes, Logs, Phase, WritesTrue
<1>2. fly[p] \in 0..Gen(p) /\ cgen[p] \in 0..Gen(p) /\ cgen[p] <= fly[p]
  BY <1>1, MadeIs
<1>3. /\ Reach(p, cgen[p]) \in Seq(Made) /\ LastSeq(p, cgen[p]) = Len(Reach(p, cgen[p]))
      /\ Reach(p, fly[p]) = Reach(p, cgen[p]) \o ChangesIn(p, "talk", cgen[p], fly[p])
  BY <1>1, <1>2, ReachIs
<1>4. db.log = Reach(p, cgen[p])
  <2>1. Len(db.log) = LastSeq(p, cgen[p])
    BY SnapIs DEF Fits
  <2>2. db.log \in Seq(Made)
    BY <1>1 DEF Rows
  <2>. QED BY <1>1, <1>3, <2>1, <2>2, PrefixAll DEF Behind
<1>5. /\ Written(db, Snap(p)) \in Rows /\ Written(db, Snap(p)).flush = <<p, fly[p]>>
      /\ Written(db, Snap(p)).log = db.log \o Snap(p).msgs
      /\ IsPrefix(db.log, Written(db, Snap(p)).log)
      /\ Snap(p).msgs = ChangesIn(p, "talk", cgen[p], fly[p])
  BY <1>1, SnapIs, WrittenIs DEF Snaps
<1>6. Written(db, Snap(p)).log = Reach(p, fly[p])
  <2>1. PICK l : l = db.log
    OBVIOUS
  <2>2. PICK m : m = Snap(p).msgs
    OBVIOUS
  <2>3. PICK x : x = l \o m
    OBVIOUS
  <2>4. Written(db, Snap(p)).log = x
    BY <1>5, <2>1, <2>2, <2>3
  <2>5. Reach(p, fly[p]) = x
    <3>1. Reach(p, fly[p]) = Reach(p, cgen[p]) \o ChangesIn(p, "talk", cgen[p], fly[p])
      BY <1>3
    <3>2. Reach(p, cgen[p]) = l /\ ChangesIn(p, "talk", cgen[p], fly[p]) = m
      BY <1>4, <1>5, <2>1, <2>2
    <3>. QED BY <2>3, <3>1, <3>2
  <2>. QED BY <2>4, <2>5
<1>7. RowTrue(Written(db, Snap(p)))
  <2>1. PICK w : w = Written(db, Snap(p))
    OBVIOUS
  <2>2. w.flush[1] = p /\ w.flush[2] = fly[p] /\ w.log = Reach(p, fly[p])
    BY <1>5, <1>6, <2>1
  <2>3. WriterGen(w.flush) = fly[p]
    BY <2>2 DEF WriterGen
  <2>4. RowTrue(w)
    BY <1>1, <2>2, <2>3 DEF RowTrue
  <2>. QED BY <2>1, <2>4
<1>. QED BY <1>4, <1>5, <1>6, <1>7 DEF Lands

LEMMA RestIs ==
    ASSUME NEW e \in Entries, NEW d
    PROVE  /\ RestOf(d, e).id = e.id
           /\ RestOf(d, e).side \in Seq(Made) /\ RestOf(d, e).steps \in Seq(Made)
           /\ FlyIn(d, e) => RestOf(d, e).msgs = SubSeq(e.msgs, (e.fly[1].last - e.base) + 1, Len(e.msgs))
           /\ ~FlyIn(d, e) => RestOf(d, e).msgs = SubSeq(e.msgs, 0 + 1, Len(e.msgs))
<1>1. e.side \in Seq(Made) /\ e.steps \in Seq(Made) /\ e.fly \in Seq(Snaps)
  BY DEF Entries, EntryRecords
<1>2. e.fly # <<>> => e.fly[1].side \in Seq(Made) /\ e.fly[1].steps \in Seq(Made)
  <2>1. e.fly # <<>> => e.fly[1] \in Snaps
    BY <1>1
  <2>. QED BY <2>1 DEF Snaps
<1>3. PICK f : f = IF e.fly = <<>> \/ FlyIn(d, e) THEN [side |-> <<>>, steps |-> <<>>] ELSE e.fly[1]
  OBVIOUS
<1>4. f.side \in Seq(Made) /\ f.steps \in Seq(Made)
  <2>1. <<>> \in Seq(Made)
    OBVIOUS
  <2>. QED BY <1>2, <1>3, <2>1
<1>5. f.side \o e.side \in Seq(Made) /\ f.steps \o e.steps \in Seq(Made)
  BY <1>1, <1>4, ConcatProperties
<1>6. RestOf(d, e) = [id |-> e.id,
                      msgs |-> SubSeq(e.msgs, (IF FlyIn(d, e) THEN e.fly[1].last - e.base ELSE 0) + 1, Len(e.msgs)),
                      side |-> f.side \o e.side, steps |-> f.steps \o e.steps]
  BY <1>3 DEF RestOf
<1>7. RestOf(d, e).id = e.id /\ RestOf(d, e).side \in Seq(Made) /\ RestOf(d, e).steps \in Seq(Made)
  BY <1>5, <1>6
<1>8. PICK from : from = IF FlyIn(d, e) THEN e.fly[1].last - e.base ELSE 0
  OBVIOUS
<1>9. RestOf(d, e).msgs = SubSeq(e.msgs, from + 1, Len(e.msgs))
  <2>1. PICK m : m = SubSeq(e.msgs, (IF FlyIn(d, e) THEN e.fly[1].last - e.base ELSE 0) + 1, Len(e.msgs))
    OBVIOUS
  <2>2. m = SubSeq(e.msgs, from + 1, Len(e.msgs))
    BY <1>8, <2>1
  <2>3. RestOf(d, e) = [id |-> e.id, msgs |-> m, side |-> f.side \o e.side, steps |-> f.steps \o e.steps]
    BY <1>6, <2>1
  <2>4. RestOf(d, e).msgs = m
    BY <2>3
  <2>. QED BY <2>2, <2>4
<1>. QED BY <1>7, <1>8, <1>9

\* A replay that continues the database writes what its process had left, behind all it knew.
LEMMA ReplayLands ==
    ASSUME StoreInv, NEW e \in Entries, EntryTrue(e), Continues(db, e)
    PROVE  /\ Lands(Written(db, RestOf(db, e))) /\ Written(db, RestOf(db, e)).flush = e.id
           /\ IsPrefix(db.log, Reach(e.id[1], Gen(e.id[1]))) /\ RestOf(db, e).msgs \in Seq(Made)
<1>. DEFINE b == RestOf(db, e)
<1>1. PICK p \in Procs : e.id[1] = p /\ e.id[2] = 0
  BY DEF Entries, EntryRecords, EntryTrue
<1>2. PICK c : c = cgen[p]
  OBVIOUS
<1>3. PICK n : n = Gen(p)
  OBVIOUS
<1>4. /\ MadeTrue /\ Logs /\ db \in Rows /\ Behind(p) /\ (RowTrue(db) \/ Blank(db))
      /\ c \in 0..n /\ n \in 0..n /\ n \in Nat /\ c \in Nat /\ c <= n
      /\ db.log \in Seq(Made) /\ life[p] \in Over /\ p \in Nat
  <2>1. MadeTrue /\ Logs /\ db \in Rows /\ Behind(p) /\ (RowTrue(db) \/ Blank(db)) /\ c \in Nat /\ c <= n
        /\ life[p] \in Over
    BY <1>1, <1>2, <1>3 DEF StoreInv, DiskTypes, FlagTypes, Logs, Phase, WritesTrue, EntryTrue
  <2>2. n \in Nat
    BY <1>3, <2>1, MadeIs
  <2>. QED BY <2>1, <2>2, ProcsNat DEF Rows, ProcsAreNat
<1>5. PICK m : m = e.msgs
  OBVIOUS
<1>6. m = ChangesIn(p, "talk", c, n) /\ m \in Seq(Made) /\ e.base = Len(Reach(p, c))
      /\ Reach(p, c) \in Seq(Made) /\ Reach(p, n) \in Seq(Made) /\ Len(m) \in Nat
  <2>1. m = ChangesIn(p, "talk", c, n) /\ e.base = LastSeq(p, c)
    BY <1>1, <1>2, <1>3, <1>5 DEF EntryTrue
  <2>2. m \in Seq(Made)
    BY <1>5 DEF Entries, EntryRecords
  <2>3. LastSeq(p, c) = Len(Reach(p, c)) /\ Reach(p, c) \in Seq(Made)
    <3>1. c \in 0..Gen(p) /\ c <= c
      BY <1>3, <1>4
    <3>. QED BY <1>4, <3>1, ReachIs
  <2>4. Reach(p, n) \in Seq(Made)
    BY <1>3, <1>4, ReachIs
  <2>. QED BY <2>1, <2>2, <2>3, <2>4
<1>7. \E g \in c..n : db.log = Reach(p, g) /\ b.msgs = ChangesIn(p, "talk", g, n)
  <2>1. CASE FlyIn(db, e)
    <3>1. PICK f : f = e.fly[1]
      OBVIOUS
    <3>2. PICK g : g = f.id[2]
      OBVIOUS
    <3>3. f.id[1] = p /\ c < g /\ g <= n /\ f.last = LastSeq(p, g) /\ db.flush = f.id /\ g \in Nat
      <4>1. e.fly # <<>> /\ db.flush = f.id
        BY <2>1, <3>1 DEF FlyIn, Known
      <4>2. FlyTrue(p, f)
        BY <1>1, <3>1, <4>1 DEF EntryTrue
      <4>3. f.id \in Procs \X Nat
        <5>1. e.fly \in Seq(Snaps)
          BY DEF Entries, EntryRecords
        <5>2. f \in Snaps
          BY <3>1, <4>1, <5>1
        <5>. QED BY <5>2 DEF Snaps
      <4>. QED BY <1>2, <1>3, <3>2, <4>1, <4>2, <4>3 DEF FlyTrue
    <3>4. db.log = Reach(p, g)
      <4>1. g # 0
        BY <1>4, <3>3
      <4>2. db.flush[1] = p /\ db.flush[2] = g
        BY <3>2, <3>3
      <4>3. ~Blank(db)
        BY <4>1, <4>2 DEF Blank
      <4>. QED BY <1>4, <4>1, <4>2, <4>3 DEF RowTrue, WriterGen
    <3>5. PICK s : s = ChangesIn(p, "talk", c, g)
      OBVIOUS
    <3>6. PICK t : t = ChangesIn(p, "talk", g, n)
      OBVIOUS
    <3>7. g \in 0..n /\ c <= g /\ c \in Nat /\ g \in Nat /\ n \in 0..n /\ g <= n
      BY <1>4, <3>3
    <3>8. s \in Seq(Made) /\ t \in Seq(Made) /\ m = s \o t
      <4>1. s \in Seq(Made) /\ t \in Seq(Made)
        <5>1. g \in 0..Gen(p) /\ n \in 0..Gen(p)
          BY <1>3, <3>7
        <5>2. ChangesIn(p, "talk", c, g) \in Seq(Made)
          BY <1>4, <5>1, ChangesInAre
        <5>3. MadeTrue /\ g \in Nat
          BY <1>4, <3>7
        <5>4. ChangesIn(p, "talk", g, n) \in Seq(Made)
          BY <5>1, <5>3, ChangesInAre
        <5>. QED BY <3>5, <3>6, <5>2, <5>4
      <4>2. ChangesIn(p, "talk", c, n) = ChangesIn(p, "talk", c, g) \o ChangesIn(p, "talk", g, n)
        <5>1. p \in Procs /\ c \in Nat /\ g \in Nat /\ n \in Nat /\ c <= g /\ g <= n
          BY <3>7
        <5>. QED BY ONLY <5>1, ChangesInJoin
      <4>. QED BY <1>6, <3>5, <3>6, <4>1, <4>2
    <3>9. f.last - e.base = Len(s)
      <4>1. PICK x : x = Reach(p, c)
        OBVIOUS
      <4>2. PICK y : y = Reach(p, g)
        OBVIOUS
      <4>3. /\ x \in Seq(Made) /\ y = x \o s /\ f.last = Len(y)
        BY <1>3, <1>4, <3>3, <3>5, <3>7, <4>1, <4>2, ReachIs
      <4>4. Len(y) = Len(x) + Len(s) /\ Len(x) \in Nat /\ Len(s) \in Nat
        BY <3>8, <4>3, ConcatAt
      <4>. QED BY <1>6, <4>1, <4>3, <4>4
    <3>10. b.msgs = SubSeq(m, Len(s) + 1, Len(m))
      <4>1. b.msgs = SubSeq(e.msgs, (e.fly[1].last - e.base) + 1, Len(e.msgs))
        BY <2>1, RestIs
      <4>. QED BY <1>5, <3>1, <3>9, <4>1
    <3>11. b.msgs = t
      <4>1. SubSeq(m, Len(s) + 1, Len(m)) = t
        BY <3>8, RestOfConcat
      <4>. QED BY <3>10, <4>1
    <3>. QED BY <3>4, <3>6, <3>7, <3>11
  <2>2. CASE ~FlyIn(db, e)
    <3>1. Len(db.log) = e.base
      BY <2>2 DEF Continues
    <3>2. db.log = Reach(p, c)
      BY <1>2, <1>4, <1>6, <3>1, PrefixAll DEF Behind
    <3>3. b.msgs = SubSeq(e.msgs, 0 + 1, Len(e.msgs))
      BY <2>2, RestIs
    <3>4. SubSeq(m, 1, Len(m)) = m
      BY <1>6, SubSeqFull
    <3>5. b.msgs = m
      BY <1>5, <3>3, <3>4
    <3>. QED BY <1>4, <1>6, <3>2, <3>5
  <2>. QED BY <2>1, <2>2
<1>. HIDE DEF b
<1>8. PICK g \in c..n : db.log = Reach(p, g) /\ b.msgs = ChangesIn(p, "talk", g, n)
  BY <1>7
<1>9. g \in Nat /\ g <= n
  BY <1>4
<1>10. /\ b.msgs \in Seq(Made) /\ Reach(p, n) = Reach(p, g) \o ChangesIn(p, "talk", g, n)
       /\ IsPrefix(Reach(p, g), Reach(p, n))
  BY <1>3, <1>4, <1>8, <1>9, ReachIs
<1>11. PICK w : w = Written(db, b)
  OBVIOUS
<1>12. b.id = e.id /\ b.side \in Seq(Made) /\ b.steps \in Seq(Made) /\ e.id \in Nat \X Nat
  <2>1. b.id = e.id /\ b.side \in Seq(Made) /\ b.steps \in Seq(Made)
    BY RestIs DEF b
  <2>2. e.id \in Procs \X Nat
    BY DEF Entries, EntryRecords
  <2>. QED BY <2>1, <2>2, ProcsNat DEF ProcsAreNat
<1>13. w \in Rows /\ w.flush = e.id /\ w.log = db.log \o b.msgs /\ IsPrefix(db.log, w.log)
  BY <1>4, <1>10, <1>11, <1>12, WrittenIs
<1>14. w.log = Reach(p, n)
  <2>1. PICK l : l = db.log
    OBVIOUS
  <2>2. PICK r : r = b.msgs
    OBVIOUS
  <2>3. w.log = l \o r
    BY <1>13, <2>1, <2>2
  <2>4. Reach(p, n) = l \o r
    BY <1>8, <1>10, <2>1, <2>2
  <2>. QED BY <2>3, <2>4
<1>15. RowTrue(w)
  <2>1. w.flush[1] = p /\ w.flush[2] = 0
    BY <1>1, <1>13
  <2>2. WriterGen(w.flush) = n
    BY <1>3, <2>1 DEF WriterGen
  <2>3. life[p] \notin Fresh
    BY <1>4 DEF Over, Fresh
  <2>. QED BY <1>3, <1>4, <1>14, <2>1, <2>2, <2>3 DEF RowTrue
<1>16. IsPrefix(db.log, Reach(e.id[1], Gen(e.id[1])))
  BY <1>1, <1>3, <1>8, <1>10
<1>. QED BY <1>10, <1>11, <1>13, <1>15, <1>16 DEF Lands, b

-----------------------------------------------------------------------------
(* What no step takes back *)

\* A process past its start keeps what it preloaded, changes are only appended, and one that has
\* ended makes and is told nothing more.
Grows ==
    \A q \in Procs :
        /\ life[q] \notin Fresh => start'[q] = start[q] /\ life'[q] \notin Fresh
        /\ Len(made[q]) <= Len(made'[q]) /\ \A i \in 1..Len(made[q]) : made'[q][i] = made[q][i]
        /\ life[q] \in Over => life'[q] \in Over /\ made'[q] = made[q] /\ cgen'[q] = cgen[q]

LEMMA ReachKept ==
    ASSUME MadeTrue, MadeTrue', Grows, NEW q \in Procs, NEW g \in 0..Gen(q)
    PROVE  /\ \A kind : ChangesIn(q, kind, 0, g)' = ChangesIn(q, kind, 0, g)
           /\ life[q] \notin Fresh => Reach(q, g)' = Reach(q, g) /\ LastSeq(q, g)' = LastSeq(q, g)
           /\ g \in 0..Len(made'[q])
<1>1. g \in Nat /\ g <= Gen(q) /\ Gen(q) \in Nat /\ Gen(q) = Len(made[q]) /\ Len(made'[q]) \in Nat
  <2>1. Gen(q) \in Nat /\ made[q] \in Seq(Changes) /\ made'[q] \in Seq(Changes)
    BY MadeIs DEF MadeTrue, Changes
  <2>. QED BY <2>1 DEF Gen
<1>2. Len(made[q]) <= Len(made'[q]) /\ \A i \in 1..g : made'[q][i] = made[q][i]
  <2>1. \A i \in 1..g : i \in 1..Len(made[q])
    BY <1>1
  <2>. QED BY <2>1 DEF Grows
<1>3. \A kind : ChangesIn(q, kind, 0, g)' = ChangesIn(q, kind, 0, g)
  <2>1. TAKE kind
  <2>2. 0 \in Nat
    OBVIOUS
  <2>. QED BY <1>1, <1>2, <2>2, ChangesInKept
<1>4. g \in 0..Len(made'[q])
  BY <1>1, <1>2
<1>5. ASSUME life[q] \notin Fresh PROVE Reach(q, g)' = Reach(q, g) /\ LastSeq(q, g)' = LastSeq(q, g)
  <2>1. start'[q] = start[q]
    BY <1>5 DEF Grows
  <2>2. ChangesIn(q, "talk", 0, g)' = ChangesIn(q, "talk", 0, g)
    BY <1>3
  <2>. QED BY <2>1, <2>2 DEF Reach, LastSeq
<1>. QED BY <1>3, <1>4, <1>5

LEMMA RowKept ==
    ASSUME MadeTrue, MadeTrue', Grows, NEW d \in Rows, RowTrue(d)
    PROVE  RowTrue(d)'
<1>1. PICK p : p = d.flush[1]
  OBVIOUS
<1>2. PICK n : n = d.flush[2]
  OBVIOUS
<1>3. PICK g : g = IF n = 0 THEN Gen(p) ELSE n
  OBVIOUS
<1>4. p \in Procs /\ life[p] \notin Fresh /\ n <= Gen(p) /\ (n = 0 => life[p] \in Over) /\ n \in Nat
      /\ d.log = Reach(p, g) /\ Gen(p) \in Nat /\ g \in 0..Gen(p)
  <2>1. p \in Procs /\ life[p] \notin Fresh /\ n <= Gen(p) /\ (n = 0 => life[p] \in Over)
        /\ d.log = Reach(p, g)
    BY <1>1, <1>2, <1>3 DEF RowTrue, WriterGen
  <2>2. n \in Nat
    BY <1>2 DEF Rows
  <2>3. Gen(p) \in Nat
    BY <2>1, MadeIs
  <2>. QED BY <1>3, <2>1, <2>2, <2>3
<1>5. Reach(p, g)' = Reach(p, g) /\ life'[p] \notin Fresh
  <2>1. Reach(p, g)' = Reach(p, g)
    BY <1>4, ReachKept
  <2>. QED BY <1>4, <2>1 DEF Grows
<1>6. n <= Gen(p)' /\ g = IF n = 0 THEN Gen(p)' ELSE n
  <2>1. Gen(p) <= Gen(p)' /\ Gen(p)' \in Nat
    <3>1. MadeTrue'
      OBVIOUS
    <3>2. made'[p] \in Seq(Changes)
      BY <1>4, <3>1 DEF MadeTrue, Changes, Procs
    <3>. QED BY <1>4, <3>2 DEF Grows, Gen
  <2>2. n = 0 => made'[p] = made[p]
    BY <1>4 DEF Grows
  <2>. QED BY <1>3, <1>4, <2>1, <2>2 DEF Gen
<1>7. n = 0 => life'[p] \in Over
  BY <1>4 DEF Grows
<1>8. WriterGen(d.flush)' = g
  BY <1>1, <1>2, <1>6 DEF WriterGen
<1>. QED BY <1>1, <1>2, <1>4, <1>5, <1>6, <1>7, <1>8 DEF RowTrue, Procs, Reach

LEMMA EntryKept ==
    ASSUME MadeTrue, MadeTrue', Grows, NEW e \in Entries, EntryTrue(e),
           \A p \in Procs : cgen[p] \in Nat /\ cgen[p] <= Gen(p)
    PROVE  EntryTrue(e)'
<1>1. PICK p : p = e.id[1]
  OBVIOUS
<1>2. PICK c : c = cgen[p]
  OBVIOUS
<1>3. PICK n : n = Gen(p)
  OBVIOUS
<1>4. p \in Procs /\ life[p] \in Over /\ e.id[2] = 0 /\ c \in Nat /\ c <= n /\ n \in Nat
      /\ e.base = LastSeq(p, c) /\ e.msgs = ChangesIn(p, "talk", c, n)
      /\ (e.fly # <<>> => FlyTrue(p, e.fly[1]))
  <2>1. p \in Procs
    BY <1>1 DEF Entries, EntryRecords
  <2>2. n \in Nat
    BY <1>3, <2>1, MadeIs
  <2>. QED BY <1>1, <1>2, <1>3, <2>1, <2>2 DEF EntryTrue
<1>5. life'[p] \in Over /\ made'[p] = made[p] /\ cgen'[p] = cgen[p] /\ start'[p] = start[p]
  BY <1>4 DEF Grows, Over, Fresh
<1>6. cgen'[p] = c /\ Gen(p)' = n
  BY <1>2, <1>3, <1>5 DEF Gen
<1>7. \A kind, a, b : ChangesIn(p, kind, a, b)' = ChangesIn(p, kind, a, b)
  BY <1>5 DEF ChangesIn, Those
<1>8. \A g : LastSeq(p, g)' = LastSeq(p, g)
  BY <1>5, <1>7 DEF LastSeq
<1>9. e.base = LastSeq(p, c)' /\ e.msgs = ChangesIn(p, "talk", c, n)'
  BY <1>4, <1>7, <1>8
<1>10. e.fly # <<>> => FlyTrue(p, e.fly[1])'
  <2>1. PICK f : f = e.fly[1]
    OBVIOUS
  <2>2. PICK h : h = f.id[2]
    OBVIOUS
  <2>3. FlyTrue(p, f) => FlyTrue(p, f)'
    <3>1. LastSeq(p, h)' = LastSeq(p, h)
      BY <1>8
    <3>. QED BY <1>5, <1>6, <1>3, <2>2, <3>1 DEF FlyTrue
  <2>. QED BY <1>4, <2>1, <2>3
<1>. QED BY <1>1, <1>4, <1>5, <1>6, <1>9, <1>10 DEF EntryTrue

\* The sets the types are made of only grow.
LEMMA SetsGrow ==
    ASSUME Made \subseteq Made'
    PROVE  /\ Seq(Made) \subseteq Seq(Made') /\ Rows \subseteq Rows' /\ Seq(Rows) \subseteq Seq(Rows')
           /\ Entries \subseteq Entries' /\ Seq(Entries) \subseteq Seq(Entries')
<1>1. Seq(Made) \subseteq Seq(Made')
  BY SeqMonotonic
<1>2. Rows \subseteq Rows' /\ Snaps \subseteq Snaps'
  <2>1. Rows \subseteq Rows'
    BY <1>1 DEF Rows
  <2>2. Snaps \subseteq Snaps'
    BY <1>1 DEF Snaps, Procs
  <2>. QED BY <2>1, <2>2
<1>3. Seq(Snaps) \subseteq Seq(Snaps') /\ Seq(Rows) \subseteq Seq(Rows')
  BY <1>2, SeqMonotonic
<1>4. EntryRecords \subseteq EntryRecords'
  BY <1>1, <1>3 DEF EntryRecords, Procs
<1>5. Entries \subseteq Entries'
  BY <1>4 DEF Entries
<1>. QED BY <1>1, <1>2, <1>3, <1>5, SeqMonotonic

LEMMA MadeGrows ==
    ASSUME StoreInv, [Next]_vars
    PROVE  /\ MadeTrue' /\ Made \subseteq Made'
           /\ \A q \in Procs : Len(made[q]) <= Len(made'[q]) /\ \A i \in 1..Len(made[q]) : made'[q][i] = made[q][i]
<1>1. MadeTrue /\ \A q \in Procs : made[q] \in Seq(Changes) /\ Len(made[q]) \in Nat
  BY MadeIs DEF StoreInv, MadeTrue, Gen
<1>2. CASE made' = made
  BY <1>1, <1>2 DEF MadeTrue, Changes, Made, ChangesOf, Procs
<1>3. ASSUME NEW p \in Procs, NEW kind \in left.kinds, Change(p, kind)
      PROVE  /\ MadeTrue' /\ Made \subseteq Made'
             /\ \A q \in Procs : Len(made[q]) <= Len(made'[q]) /\ \A i \in 1..Len(made[q]) : made'[q][i] = made[q][i]
  <2>1. PICK c : c \in Changes /\ made' = [made EXCEPT ![p] = Append(@, c)]
    <3>1. kind \in {"talk", "note", "step"}
      BY DEF StoreInv, FlagTypes, Budgets
    <3>2. PICK to \in 0..3 : made' = [made EXCEPT ![p] = Append(@, [kind |-> kind, to |-> to])]
      BY <1>3 DEF Change
    <3>3. [kind |-> kind, to |-> to] \in Changes
      BY <3>1 DEF Changes
    <3>. QED BY <3>2, <3>3
  <2>2. /\ Append(made[p], c) \in Seq(Changes) /\ Len(Append(made[p], c)) = Len(made[p]) + 1
        /\ \A i \in 1..Len(made[p]) : Append(made[p], c)[i] = made[p][i]
    BY <1>1, <2>1, AppendProperties
  <2>3. \A q \in Procs : made'[q] = IF q = p THEN Append(made[p], c) ELSE made[q]
    BY <1>1, <2>1 DEF MadeTrue
  <2>4. MadeTrue'
    <3>1. made' \in [Procs -> Seq(Changes)]
      BY <1>1, <2>1, <2>2 DEF MadeTrue
    <3>. QED BY <3>1 DEF MadeTrue, Changes, Procs
  <2>5. ASSUME NEW q \in Procs
        PROVE  Len(made[q]) <= Len(made'[q]) /\ \A i \in 1..Len(made[q]) : made'[q][i] = made[q][i]
    <3>1. PICK a : a = Append(made[p], c)
      OBVIOUS
    <3>2. Len(a) = Len(made[p]) + 1 /\ (\A i \in 1..Len(made[p]) : a[i] = made[p][i])
          /\ made'[q] = IF q = p THEN a ELSE made[q]
      BY <2>2, <2>3, <3>1
    <3>3. Len(made[q]) \in Nat
      BY <1>1
    <3>. QED BY <3>2, <3>3
  <2>6. Made \subseteq Made'
    <3>1. \A q \in Procs : made[q] \in Seq(Changes) /\ made'[q] \in Seq(Changes)
      BY <1>1, <2>4 DEF MadeTrue, Changes, Procs
    <3>2. \A q \in Procs : DOMAIN made[q] \subseteq DOMAIN made'[q]
      <4>1. TAKE q \in Procs
      <4>2. DOMAIN made[q] = 1..Len(made[q]) /\ DOMAIN made'[q] = 1..Len(made'[q]) /\ Len(made'[q]) \in Nat
        BY <3>1
      <4>. QED BY <1>1, <2>5, <4>2
    <3>3. \A q \in Procs : ChangesOf(q) \subseteq ChangesOf(q)'
      BY <3>2 DEF ChangesOf
    <3>. QED BY <3>3 DEF Made, Procs
  <2>. QED BY <2>4, <2>5, <2>6
<1>4. ASSUME NEW p \in Procs PROVE
        /\ Poison(p) \/ Kick(p) \/ Flush(p) \/ FlushFails(p) \/ Retry(p) \/ Channel(p) => made' = made
        /\ OnLockLost(p) \/ ReacquireOnce(p) \/ Close(p) \/ Exit(p) \/ Crash(p) => made' = made
        /\ Boot(p) \/ Replay(p) \/ ReplayFails(p) \/ FileDone(p) \/ Install(p) => made' = made
  <2>1. Poison(p) \/ Kick(p) \/ Flush(p) \/ FlushFails(p) \/ Retry(p) \/ Channel(p) => made' = made
    BY DEF Poison, Kick, Flush, FlushCommits, FlushKnown, FlushConflicts, AfterCommit, FlushFails, FlushCut,
           FlushRejected, Retry, Channel, PumpPoisoned, PoisonedWritten, PoisonedCut
  <2>2. OnLockLost(p) \/ ReacquireOnce(p) \/ Close(p) \/ Exit(p) \/ Crash(p) => made' = made
    BY DEF OnLockLost, ReacquireOnce, Close, Exit, Crash, Leave
  <2>3. Boot(p) \/ Replay(p) \/ ReplayFails(p) \/ FileDone(p) \/ Install(p) => made' = made
    BY DEF Boot, Replay, ReplayApplies, ReplaySkips, ReplayedTo, ReplayConflicts, ReplayFails, ReplayCut,
           ReplayRejected, Refuse, FileDone, Install
  <2>. QED BY <2>1, <2>2, <2>3
<1>5. LimboEnds \/ UNCHANGED vars => made' = made
  BY DEF LimboEnds, vars
<1>6. made' = made \/ \E p \in Procs : \E kind \in left.kinds : Change(p, kind)
  BY <1>4, <1>5 DEF Next
<1>. QED BY <1>2, <1>3, <1>6

\* What a step can do to the life, the preload and the knowledge of a process.
LEMMA NothingTakenBack == ASSUME StoreInv, [Next]_vars PROVE Grows
<1>. DEFINE Kept(q) == /\ life[q] \notin Fresh => start'[q] = start[q] /\ life'[q] \notin Fresh
                       /\ life[q] \in Over => life'[q] \in Over /\ made'[q] = made[q] /\ cgen'[q] = cgen[q]
<1>1. /\ life \in [Procs -> {"off", "boot", "up", "closed"} \cup Over] /\ made \in [Procs -> Seq(Changes)]
      /\ cgen \in [Procs -> Nat] /\ DOMAIN start = Procs /\ \A p \in Procs : life[p] \in Fresh => made[p] = <<>>
  BY DEF StoreInv, MadeTrue, DiskTypes, FlagTypes, Phase
<1>2. \A p \in Procs : Alive(p) => life[p] \in {"up", "closed"} /\ life[p] \notin Fresh /\ life[p] \notin Over
  BY DEF Alive, Fresh, Over
<1>3. ASSUME UNCHANGED <<life, start, made, cgen>> PROVE \A q \in Procs : Kept(q)
  BY <1>3
<1>4. ASSUME NEW p \in Procs, Alive(p), UNCHANGED <<life, start>>,
             \A q \in Procs : q # p => made'[q] = made[q] /\ cgen'[q] = cgen[q]
      PROVE  \A q \in Procs : Kept(q)
  BY <1>2, <1>4
<1>5. ASSUME NEW p \in Procs, life[p] \notin Over, UNCHANGED <<made, cgen>>, NEW l \in {"up", "closed"} \cup Over,
             life' = [life EXCEPT ![p] = l], \A q \in Procs : q # p \/ life[p] \notin Fresh => start'[q] = start[q]
      PROVE  \A q \in Procs : Kept(q)
  BY <1>1, <1>5 DEF Over, Fresh
<1>6. ASSUME NEW p \in Procs, life[p] = "off", UNCHANGED <<made, cgen>>, life' = [life EXCEPT ![p] = "boot"],
             \A q \in Procs : q # p => start'[q] = start[q]
      PROVE  \A q \in Procs : Kept(q)
  BY <1>1, <1>6 DEF Over, Fresh
<1>7. ASSUME NEW p \in Procs PROVE
        /\ (\E kind \in left.kinds : Change(p, kind)) => \A q \in Procs : Kept(q)
        /\ Poison(p) \/ Kick(p) \/ Retry(p) \/ Channel(p) \/ FlushFails(p) => \A q \in Procs : Kept(q)
        /\ Flush(p) => \A q \in Procs : Kept(q)
        /\ OnLockLost(p) \/ ReacquireOnce(p) => \A q \in Procs : Kept(q)
        /\ Replay(p) \/ ReplayFails(p) \/ FileDone(p) => \A q \in Procs : Kept(q)
        /\ Close(p) \/ Exit(p) \/ Crash(p) => \A q \in Procs : Kept(q)
        /\ Boot(p) \/ Install(p) => \A q \in Procs : Kept(q)
  <2>. HIDE DEF Kept
  <2>1. ASSUME NEW kind \in left.kinds, Change(p, kind) PROVE \A q \in Procs : Kept(q)
    <3>1. Alive(p) /\ UNCHANGED <<life, start, cgen>> /\ \A q \in Procs : q # p => made'[q] = made[q]
      BY <1>1, <2>1 DEF Change, flushVars, bootVars
    <3>. QED BY <1>4, <3>1
  <2>2. Poison(p) \/ Kick(p) \/ Retry(p) \/ Channel(p) \/ FlushFails(p) => \A q \in Procs : Kept(q)
    <3>1. Poison(p) \/ Kick(p) \/ Retry(p) \/ Channel(p) \/ FlushFails(p) => UNCHANGED <<life, start, made, cgen>>
      BY DEF Poison, Kick, Retry, Channel, PumpPoisoned, PoisonedWritten, PoisonedCut, FlushFails, FlushCut,
             FlushRejected, flushVars, bootVars
    <3>. QED BY <1>3, <3>1
  <2>3. Flush(p) => \A q \in Procs : Kept(q)
    <3>1. Flush(p) => /\ Alive(p) /\ UNCHANGED <<life, start, made>>
                      /\ \A q \in Procs : q # p => made'[q] = made[q] /\ cgen'[q] = cgen[q]
      BY <1>1 DEF Flush, FlushCommits, FlushKnown, FlushConflicts, AfterCommit, Attempted, bootVars
    <3>. QED BY <1>4, <3>1
  <2>4. OnLockLost(p) \/ ReacquireOnce(p) => \A q \in Procs : Kept(q)
    <3>1. OnLockLost(p) \/ ReacquireOnce(p) => UNCHANGED <<life, start, made, cgen>>
      BY DEF OnLockLost, ReacquireOnce, flushVars, bootVars
    <3>. QED BY <1>3, <3>1
  <2>5. Replay(p) \/ ReplayFails(p) \/ FileDone(p) => \A q \in Procs : Kept(q)
    <3>1. ReplayApplies(p) \/ ReplaySkips(p) \/ ReplayRejected(p) \/ FileDone(p) => UNCHANGED <<life, start, made, cgen>>
      BY DEF ReplayApplies, ReplaySkips, ReplayRejected, ReplayedTo, FileDone, flushVars, bootVars
    <3>2. ReplayConflicts(p) \/ ReplayCut(p) =>
            /\ life[p] \notin Over /\ UNCHANGED <<made, cgen, start>>
            /\ \E l \in {"up", "closed"} \cup Over : life' = [life EXCEPT ![p] = l]
      BY DEF ReplayConflicts, ReplayCut, Replaying, Refuse, flushVars, bootVars, Over
    <3>. QED BY <1>3, <1>5, <3>1, <3>2 DEF Replay, ReplayFails
  <2>6. Close(p) \/ Exit(p) \/ Crash(p) => \A q \in Procs : Kept(q)
    <3>1. Close(p) \/ Exit(p) \/ Crash(p) =>
            /\ life[p] \notin Over /\ UNCHANGED <<made, cgen, start>>
            /\ \E l \in {"up", "closed"} \cup Over : life' = [life EXCEPT ![p] = l]
      BY <1>2 DEF Close, Exit, Crash, Leave, flushVars, bootVars, Over
    <3>. QED BY <1>5, <3>1
  <2>7. Boot(p) \/ Install(p) => \A q \in Procs : Kept(q)
    <3>1. Boot(p) => /\ life[p] = "off" /\ UNCHANGED <<made, cgen>> /\ life' = [life EXCEPT ![p] = "boot"]
                     /\ \A q \in Procs : q # p => start'[q] = start[q]
      BY <1>1 DEF Boot, flushVars
    <3>2. Install(p) => /\ life[p] = "boot" /\ UNCHANGED <<made, cgen>> /\ life' = [life EXCEPT ![p] = "up"]
                        /\ \A q \in Procs : q # p => start'[q] = start[q]
      BY <1>1 DEF Install, flushVars
    <3>3. life[p] = "boot" => life[p] \notin Over /\ life[p] \in Fresh
      BY DEF Over, Fresh
    <3>. QED BY <1>5, <1>6, <3>1, <3>2, <3>3
  <2>. QED BY <2>1, <2>2, <2>3, <2>4, <2>5, <2>6, <2>7
<1>8. LimboEnds \/ UNCHANGED vars => \A q \in Procs : Kept(q)
  <2>1. LimboEnds \/ UNCHANGED vars => UNCHANGED <<life, start, made, cgen>>
    BY DEF LimboEnds, vars, flushVars, bootVars
  <2>. QED BY <1>3, <2>1
<1>9. \A q \in Procs : Kept(q)
  <2>. HIDE DEF Kept
  <2>. QED BY <1>7, <1>8 DEF Next
<1>. QED BY <1>9, MadeGrows DEF Grows

-----------------------------------------------------------------------------
(* The types and the phases stay *)

LEMMA SpendIs ==
    ASSUME left \in Budgets, NEW f \in FaultKinds, Spend(f)
    PROVE  left' \in Budgets
<1>1. /\ left.faults \in [FaultKinds -> Nat] /\ left.faults[f] > 0
      /\ left' = [left EXCEPT !.faults = [left.faults EXCEPT ![f] = left.faults[f] - 1]]
  BY DEF Budgets, Spend
<1>2. PICK g : g = [left.faults EXCEPT ![f] = left.faults[f] - 1]
  OBVIOUS
<1>3. g \in [FaultKinds -> Nat]
  <2>1. left.faults[f] \in Nat /\ left.faults[f] - 1 \in Nat
    BY <1>1
  <2>. QED BY <1>1, <1>2, <2>1
<1>4. left' = [left EXCEPT !.faults = g]
  BY <1>1, <1>2
<1>. QED BY <1>3, <1>4 DEF Budgets

LEMMA BudgetMoves ==
    ASSUME StoreInv, [Next]_vars
    PROVE  left' = left \/ \E f \in FaultKinds : Spend(f)
<1>1. {"cut", "replay", "reject", "crash", "break"} \subseteq FaultKinds
  BY DEF FaultKinds
<1>2. ASSUME NEW p \in Procs
      PROVE  (\E kind \in left.kinds : Change(p, kind)) \/ Kick(p) \/ Flush(p) \/ Retry(p) \/ PumpPoisoned(p) \/ PoisonedWritten(p)
               => left' = left
  BY DEF Change, Kick, Flush, FlushCommits, FlushKnown, FlushConflicts, AfterCommit, Retry, PumpPoisoned, PoisonedWritten
<1>3. ASSUME NEW p \in Procs
      PROVE  ReacquireOnce(p) \/ Close(p) \/ Exit(p) \/ Boot(p) \/ Replay(p) \/ FileDone(p) \/ Install(p) => left' = left
  BY DEF ReacquireOnce, Close, Exit, Boot, Replay, ReplayApplies, ReplaySkips, ReplayConflicts, FileDone, Install
<1>4. ASSUME NEW p \in Procs
      PROVE  /\ Poison(p) => Spend("reject")
             /\ FlushFails(p) => Spend("cut") \/ Spend("reject")
             /\ PoisonedCut(p) => Spend("cut")
             /\ OnLockLost(p) => Spend("break")
             /\ Crash(p) => Spend("crash")
             /\ ReplayFails(p) => Spend("replay") \/ Spend("reject")
  BY DEF Poison, FlushFails, FlushCut, FlushRejected, PoisonedCut, OnLockLost, Crash, ReplayFails, ReplayCut, ReplayRejected
<1>5. LimboEnds \/ UNCHANGED vars => left' = left
  BY DEF LimboEnds, vars
<1>. QED BY <1>1, <1>2, <1>3, <1>4, <1>5 DEF Next, Channel

LEMMA BudgetKept == ASSUME StoreInv, [Next]_vars PROVE left' \in Budgets
<1>1. left \in Budgets
  BY DEF StoreInv, FlagTypes
<1>. QED BY <1>1, BudgetMoves, SpendIs

\* How far every process has got, apart from the budgets.
Flags ==
    /\ lock \in 0..MaxBoots
    /\ life \in [Procs -> {"off", "boot", "up", "closed"} \cup Over]
    /\ taken \in [Procs -> BOOLEAN] /\ clash \in [Procs -> BOOLEAN] /\ dead \in [Procs -> BOOLEAN]
    /\ sick \in [Procs -> BOOLEAN] /\ reload \in [Procs -> BOOLEAN]
    /\ cgen \in [Procs -> Nat] /\ fly \in [Procs -> Nat] /\ todo \in [Procs -> Nat]
    /\ run \in [Procs -> {"idle", "sent", "backoff"}]
    /\ at \in [Procs -> {"read", "delete", "aside"}]

LEMMA FlagsKept == ASSUME StoreInv, [Next]_vars PROVE FlagTypes'
<1>1. Flags /\ Len(files) \in Nat /\ (\A p \in Procs : Gen(p) \in Nat /\ p \in 0..MaxBoots /\ (at[p] # "read" => todo[p] > 0))
      /\ 0 \in 0..MaxBoots /\ TRUE \in BOOLEAN /\ FALSE \in BOOLEAN
  <2>1. Flags
    BY DEF StoreInv, FlagTypes, Flags
  <2>2. Len(files) \in Nat /\ \A p \in Procs : at[p] # "read" => todo[p] > 0
    BY DEF StoreInv, DiskTypes, Phase
  <2>3. \A p \in Procs : Gen(p) \in Nat
    BY MadeIs DEF StoreInv
  <2>4. 0 \in 0..MaxBoots /\ \A p \in Procs : p \in 0..MaxBoots
    BY StoreAssumption DEF Procs
  <2>. QED BY <2>1, <2>2, <2>3, <2>4
<1>2. ASSUME NEW p \in Procs PROVE
        /\ (\E kind \in left.kinds : Change(p, kind)) => Flags'
        /\ Poison(p) => Flags'
        /\ Kick(p) => Flags'
        /\ FlushCommits(p) \/ FlushKnown(p) => Flags'
        /\ FlushConflicts(p) => Flags'
        /\ FlushCut(p) => Flags'
        /\ FlushRejected(p) => Flags'
        /\ Retry(p) => Flags'
        /\ Channel(p) => Flags'
        /\ OnLockLost(p) \/ ReacquireOnce(p) => Flags'
        /\ Close(p) => Flags'
        /\ Exit(p) \/ Crash(p) => Flags'
        /\ Boot(p) => Flags'
        /\ ReplayApplies(p) \/ ReplaySkips(p) \/ ReplayRejected(p) => Flags'
        /\ ReplayConflicts(p) \/ ReplayCut(p) => Flags'
        /\ FileDone(p) => Flags'
        /\ Install(p) => Flags'
  <2>1. (\E kind \in left.kinds : Change(p, kind)) => Flags'
    BY <1>1 DEF Flags, Change, lockVars, flushVars, bootVars
  <2>2. Poison(p) => Flags'
    BY <1>1 DEF Flags, Poison, lockVars, flushVars, bootVars
  <2>3. Kick(p) => Flags'
    BY <1>1 DEF Flags, Kick, lockVars, pcVars, bootVars
  <2>4. FlushCommits(p) \/ FlushKnown(p) => Flags'
    <3>1. ASSUME AfterCommit(p) PROVE cgen' \in [Procs -> Nat] /\ fly' \in [Procs -> Nat]
                                      /\ run' \in [Procs -> {"idle", "sent", "backoff"}]
      BY <1>1, <3>1 DEF Flags, AfterCommit
    <3>2. AfterCommit(p) => UNCHANGED <<lock, life, taken, clash, dead, sick, reload, todo, at>>
      BY DEF AfterCommit, lockVars, pcVars, bootVars
    <3>. QED BY <1>1, <3>1, <3>2 DEF Flags, FlushCommits, FlushKnown
  <2>5. FlushConflicts(p) => Flags'
    BY <1>1 DEF Flags, FlushConflicts, lockVars, pcVars, bootVars
  <2>6. FlushCut(p) => Flags'
    BY <1>1 DEF Flags, FlushCut, lockVars, pcVars, bootVars
  <2>7. FlushRejected(p) => Flags'
    BY <1>1 DEF Flags, FlushRejected, lockVars, bootVars
  <2>8. Retry(p) => Flags'
    BY <1>1 DEF Flags, Retry, lockVars, pcVars, bootVars
  <2>9. Channel(p) => Flags'
    BY <1>1 DEF Flags, Channel, PumpPoisoned, PoisonedWritten, PoisonedCut, lockVars, flushVars, bootVars
  <2>10. OnLockLost(p) \/ ReacquireOnce(p) => Flags'
    BY <1>1 DEF Flags, OnLockLost, ReacquireOnce, flushVars, pcVars, bootVars
  <2>11. Close(p) => Flags'
    BY <1>1 DEF Flags, Close, Unlocked, flushVars, pcVars, bootVars
  <2>12. Exit(p) \/ Crash(p) => Flags'
    <3>1. ASSUME NEW how \in Over, Leave(p, how)
          PROVE  /\ life' \in [Procs -> {"off", "boot", "up", "closed"} \cup Over] /\ lock' \in 0..MaxBoots
                 /\ taken' \in [Procs -> BOOLEAN] /\ dead' \in [Procs -> BOOLEAN] /\ sick' \in [Procs -> BOOLEAN]
                 /\ fly' \in [Procs -> Nat] /\ run' \in [Procs -> {"idle", "sent", "backoff"}]
                 /\ cgen' = cgen /\ clash' = clash
      <4>1. life' \in [Procs -> {"off", "boot", "up", "closed"} \cup Over]
        BY <1>1, <3>1 DEF Flags, Leave
      <4>2. lock' \in 0..MaxBoots
        BY <1>1, <3>1 DEF Flags, Leave, Unlocked
      <4>3. taken' \in [Procs -> BOOLEAN] /\ dead' \in [Procs -> BOOLEAN] /\ sick' \in [Procs -> BOOLEAN]
        BY <1>1, <3>1 DEF Flags, Leave
      <4>4. fly' \in [Procs -> Nat] /\ run' \in [Procs -> {"idle", "sent", "backoff"}]
        BY <1>1, <3>1 DEF Flags, Leave
      <4>. QED BY <3>1, <4>1, <4>2, <4>3, <4>4 DEF Leave
    <3>2. Exit(p) => Leave(p, "exited") /\ UNCHANGED <<reload, todo, at>>
      BY DEF Exit
    <3>3. Crash(p) => /\ Leave(p, "killed") /\ reload' \in [Procs -> BOOLEAN] /\ todo' \in [Procs -> Nat]
                      /\ at' \in [Procs -> {"read", "delete", "aside"}]
      BY <1>1 DEF Crash, Flags
    <3>4. "exited" \in Over /\ "killed" \in Over
      BY DEF Over
    <3>. QED BY <1>1, <3>1, <3>2, <3>3, <3>4 DEF Flags
  <2>13. Boot(p) => Flags'
    BY <1>1 DEF Flags, Boot, flushVars, pcVars
  <2>14. ReplayApplies(p) \/ ReplaySkips(p) \/ ReplayRejected(p) => Flags'
    BY <1>1 DEF Flags, ReplayApplies, ReplaySkips, ReplayRejected, ReplayedTo, lockVars, flushVars, pcVars
  <2>15. ReplayConflicts(p) \/ ReplayCut(p) => Flags'
    <3>1. ASSUME NEW how \in Over, Refuse(p, how)
          PROVE  /\ life' \in [Procs -> {"off", "boot", "up", "closed"} \cup Over] /\ lock' \in 0..MaxBoots
                 /\ reload' \in [Procs -> BOOLEAN] /\ todo' \in [Procs -> Nat]
      BY <1>1, <3>1 DEF Flags, Refuse, Unlocked
    <3>2. \A how : Refuse(p, how) => UNCHANGED <<taken, clash, dead, sick, cgen, fly, run, at>>
      BY DEF Refuse, flushVars, pcVars
    <3>3. ReplayConflicts(p) \/ ReplayCut(p) => \E how \in Over : Refuse(p, how)
      BY DEF ReplayConflicts, ReplayCut, Over
    <3>. QED BY <1>1, <3>1, <3>2, <3>3 DEF Flags
  <2>16. FileDone(p) => Flags'
    BY <1>1 DEF Flags, FileDone, lockVars, flushVars, pcVars
  <2>17. Install(p) => Flags'
    BY <1>1 DEF Flags, Install, lockVars, flushVars, pcVars
  <2>. QED BY <2>1, <2>2, <2>3, <2>4, <2>5, <2>6, <2>7, <2>8, <2>9, <2>10, <2>11, <2>12, <2>13, <2>14, <2>15,
              <2>16, <2>17
<1>3. LimboEnds \/ UNCHANGED vars => Flags'
  BY <1>1 DEF Flags, LimboEnds, vars, lockVars, flushVars, pcVars, bootVars
<1>4. Flags'
  BY <1>2, <1>3 DEF Next, Flush, FlushFails, Replay, ReplayFails
<1>. QED BY <1>4, BudgetKept DEF FlagTypes, Flags

-----------------------------------------------------------------------------
(* What a step writes into the conversation *)

\* Side rows and inbox states at most.
SameTail(d) == d \in Rows /\ d.log = db.log /\ d.flush = db.flush

DbSteps ==
    /\ SameTail(db') \/ Lands(db')
    /\ \/ limbo' = <<>>
       \/ SameTail(db') /\ limbo' = limbo
       \/ SameTail(db') /\ \E d : Lands(d) /\ limbo' = <<d>>

LEMMA EntryIs ==
    ASSUME StoreInv, NEW p \in Procs, todo[p] > 0
    PROVE  /\ Entry \in Entries /\ EntryTrue(Entry) /\ files # <<>>
           /\ \A d : RestOf(d, Entry).steps \in Seq(Made)
<1>1. files \in Seq(Entries) /\ todo[p] <= Len(files) /\ todo[p] \in Nat
      /\ \A i \in DOMAIN files : EntryTrue(files[i])
  BY DEF StoreInv, DiskTypes, FlagTypes, Phase, WritesTrue
<1>2. Len(files) \in Nat /\ DOMAIN files = 1..Len(files) /\ 1 \in 1..Len(files)
  BY <1>1
<1>3. files[1] \in Entries /\ EntryTrue(files[1]) /\ files # <<>>
  BY <1>1, <1>2
<1>. QED BY <1>3, RestIs DEF Entry

LEMMA SteppedStays ==
    ASSUME StoreInv, NEW steps \in Seq(Made)
    PROVE  SameTail(Stepped(db, steps))
<1>1. MadeTrue /\ db \in Rows
  BY DEF StoreInv, DiskTypes
<1>. QED BY <1>1, SteppedIs DEF SameTail

LEMMA DbStays == ASSUME StoreInv PROVE SameTail(db)
  BY DEF StoreInv, DiskTypes, SameTail

LEMMA FlushFitsLands ==
    ASSUME StoreInv, NEW p \in Procs, run[p] = "sent", Fits(db, Snap(p))
    PROVE  Lands(Written(db, Snap(p)))
<1>1. fly[p] # 0 /\ life[p] \notin Fresh
  BY DEF StoreInv, Phase
<1>. QED BY <1>1, FlushLands

LEMMA DbStepsAre == ASSUME StoreInv, [Next]_vars PROVE DbSteps
<1>1. SameTail(db) /\ (\A p \in Procs : pcRun[p] \in Seq(Made)) /\ Len(limbo) \in 0..1
      /\ \A i \in DOMAIN limbo : Lands(limbo[i])
  <2>1. \A p \in Procs : pcRun[p] \in Seq(Made)
    BY DEF StoreInv, DiskTypes
  <2>2. \A i \in DOMAIN limbo : Lands(limbo[i])
    <3>1. \A i \in DOMAIN limbo : limbo[i] \in Rows
      BY DEF StoreInv, DiskTypes
    <3>. QED BY <3>1 DEF StoreInv, WritesTrue, Lands
  <2>3. Len(limbo) \in 0..1
    BY DEF StoreInv, DiskTypes
  <2>. QED BY <2>1, <2>2, <2>3, DbStays
<1>2. UNCHANGED <<db, limbo>> => DbSteps
  BY <1>1 DEF DbSteps
<1>3. ASSUME NEW p \in Procs PROVE
        /\ FlushCommits(p) => DbSteps
        /\ FlushCut(p) => DbSteps
        /\ PoisonedWritten(p) \/ PoisonedCut(p) => DbSteps
        /\ Exit(p) \/ Crash(p) => DbSteps
        /\ ReplayApplies(p) => DbSteps
        /\ ReplaySkips(p) => DbSteps
        /\ ReplayRejected(p) => DbSteps
        /\ ReplayCut(p) => DbSteps
  <2>1. FlushCommits(p) => DbSteps
    <3>1. FlushCommits(p) => /\ run[p] = "sent" /\ Fits(db, Snap(p)) /\ db' = Written(db, Snap(p))
                             /\ limbo' = <<>>
      BY DEF FlushCommits, Attempted, AfterCommit
    <3>. QED BY <3>1, FlushFitsLands DEF DbSteps
  <2>2. FlushCut(p) => DbSteps
    <3>1. FlushCut(p) => /\ run[p] = "sent" /\ Fits(db, Snap(p)) /\ limbo' = <<Written(db, Snap(p))>>
                         /\ db' = db
      BY DEF FlushCut, Attempted
    <3>. QED BY <1>1, <3>1, FlushFitsLands DEF DbSteps
  <2>3. PoisonedWritten(p) \/ PoisonedCut(p) => DbSteps
    <3>1. PoisonedWritten(p) \/ PoisonedCut(p) => limbo' = limbo /\ db' \in {db, Stepped(db, pcRun[p])}
      BY DEF PoisonedWritten, PoisonedCut
    <3>2. SameTail(Stepped(db, pcRun[p]))
      BY <1>1, SteppedStays
    <3>. QED BY <1>1, <3>1, <3>2 DEF DbSteps
  <2>4. Exit(p) \/ Crash(p) => DbSteps
    <3>1. ASSUME NEW how, Leave(p, how) PROVE DbSteps
      <4>1. SameTail(db')
        <5>1. db' = db \/ db' = Stepped(db, pcRun[p])
          BY <3>1 DEF Leave
        <5>. QED BY <1>1, <5>1, SteppedStays
      <4>2. limbo' = limbo \/ (run[p] = "sent" /\ Fits(db, Snap(p)) /\ limbo' = <<Written(db, Snap(p))>>)
        <5>1. limbo' = IF run[p] = "sent" /\ limbo = <<>> /\ Fits(db, Snap(p))
                       THEN <<Written(db, Snap(p))>> ELSE limbo
          BY <3>1 DEF Leave
        <5>2. PICK w : w = <<Written(db, Snap(p))>>
          OBVIOUS
        <5>. QED BY <5>1, <5>2
      <4>. QED BY <4>1, <4>2, FlushFitsLands DEF DbSteps
    <3>. QED BY <3>1 DEF Exit, Crash
  <2>5. ReplayApplies(p) => DbSteps
    <3>1. ASSUME ReplayApplies(p)
          PROVE  /\ todo[p] > 0 /\ Continues(db, Entry) /\ db' = Written(db, RestOf(db, Entry)) /\ limbo' = <<>>
      BY <3>1 DEF ReplayApplies, ReplayedTo, Replaying
    <3>2. ASSUME todo[p] > 0, Continues(db, Entry) PROVE Lands(Written(db, RestOf(db, Entry)))
      BY <3>2, EntryIs, ReplayLands
    <3>. QED BY <3>1, <3>2 DEF DbSteps
  <2>6. ReplaySkips(p) => DbSteps
    <3>1. ReplaySkips(p) => /\ todo[p] > 0 /\ limbo' = limbo
                            /\ db' = db \/ db' = Stepped(db, RestOf(db, Entry).steps)
      BY DEF ReplaySkips, ReplayedTo, Replaying
    <3>2. todo[p] > 0 => RestOf(db, Entry).steps \in Seq(Made)
      BY EntryIs
    <3>3. todo[p] > 0 => SameTail(Stepped(db, RestOf(db, Entry).steps))
      BY <3>2, SteppedStays
    <3>. QED BY <1>1, <3>1, <3>3 DEF DbSteps
  <2>7. ReplayRejected(p) => DbSteps
    <3>1. ReplayRejected(p) => todo[p] > 0 /\ limbo' = limbo /\ db' = Stepped(db, RestOf(db, Entry).steps)
      BY DEF ReplayRejected, ReplayedTo, Replaying
    <3>2. todo[p] > 0 => RestOf(db, Entry).steps \in Seq(Made)
      BY EntryIs
    <3>3. todo[p] > 0 => SameTail(Stepped(db, RestOf(db, Entry).steps))
      BY <3>2, SteppedStays
    <3>. QED BY <1>1, <3>1, <3>3 DEF DbSteps
  <2>8. ReplayCut(p) => DbSteps
    <3>1. ASSUME ReplayCut(p)
          PROVE  /\ todo[p] > 0 /\ Continues(db, Entry) /\ limbo' = <<Written(db, RestOf(db, Entry))>> /\ db' = db
      BY <3>1 DEF ReplayCut, Refuse, Replaying
    <3>2. ASSUME todo[p] > 0, Continues(db, Entry) PROVE Lands(Written(db, RestOf(db, Entry)))
      BY <3>2, EntryIs, ReplayLands
    <3>. QED BY <1>1, <3>1, <3>2 DEF DbSteps
  <2>. QED BY <2>1, <2>2, <2>3, <2>4, <2>5, <2>6, <2>7, <2>8
<1>4. LimboEnds => DbSteps
  <2>1. ASSUME LimboEnds PROVE DbSteps
    <3>1. limbo # <<>> /\ db' \in {db, limbo[1]} /\ limbo' = <<>>
      BY <2>1 DEF LimboEnds
    <3>2. limbo \in Seq(Rows)
      BY DEF StoreInv, DiskTypes
    <3>3. 1 \in DOMAIN limbo
      BY <3>1, <3>2
    <3>. QED BY <1>1, <3>1, <3>3 DEF DbSteps
  <2>. QED BY <2>1
<1>5. ASSUME NEW p \in Procs PROVE
        /\ (\E kind \in left.kinds : Change(p, kind)) => UNCHANGED <<db, limbo>>
        /\ Poison(p) \/ Kick(p) \/ FlushKnown(p) \/ FlushConflicts(p) \/ FlushRejected(p) \/ Retry(p) \/ PumpPoisoned(p)
             => UNCHANGED <<db, limbo>>
        /\ OnLockLost(p) \/ ReacquireOnce(p) \/ Close(p) \/ Boot(p) \/ ReplayConflicts(p) \/ FileDone(p) \/ Install(p)
             => UNCHANGED <<db, limbo>>
  BY DEF Change, Poison, Kick, FlushKnown, AfterCommit, FlushConflicts, FlushRejected, Retry, PumpPoisoned, OnLockLost,
         ReacquireOnce, Close, Boot, ReplayConflicts, Refuse, FileDone, Install
<1>. QED BY <1>2, <1>3, <1>4, <1>5 DEF Next, vars, Flush, FlushFails, Channel, Replay, ReplayFails

LEMMA QueuedIs ==
    ASSUME StoreInv, NEW p \in Procs
    PROVE  /\ QueuedSteps(p) \in Seq(Made) /\ Queued(p) \in 0..Gen(p) /\ Gen(p) \in Nat
           /\ ChangesIn(p, "note", Queued(p), Gen(p)) \in Seq(Made)
           /\ cgen[p] \in 0..Gen(p)
<1>1. MadeTrue /\ cgen[p] \in Nat /\ cgen[p] <= Gen(p) /\ fly[p] \in Nat /\ (fly[p] # 0 => fly[p] <= Gen(p))
  BY DEF StoreInv, FlagTypes, Phase
<1>2. Gen(p) \in Nat /\ Gen(p) \in 0..Gen(p)
  BY <1>1, MadeIs
<1>3. Queued(p) \in 0..Gen(p) /\ cgen[p] \in 0..Gen(p)
  BY <1>1, <1>2 DEF Queued
<1>4. Queued(p) \in Nat
  BY <1>2, <1>3
<1>5. ChangesIn(p, "step", Queued(p), Gen(p)) \in Seq(Made) /\ ChangesIn(p, "note", Queued(p), Gen(p)) \in Seq(Made)
  BY <1>1, <1>2, <1>4, ChangesInAre
<1>6. <<>> \in Seq(Made)
  OBVIOUS
<1>. QED BY <1>2, <1>3, <1>5, <1>6 DEF QueuedSteps

LEMMA SpillIs ==
    ASSUME StoreInv, NEW p \in Procs
    PROVE  /\ SpillEntryOf(p) \in Entries
           /\ SpillEntryOf(p).id = <<p, 0>> /\ SpillEntryOf(p).base = LastSeq(p, cgen[p])
           /\ SpillEntryOf(p).msgs = ChangesIn(p, "talk", cgen[p], Gen(p))
           /\ SpillEntryOf(p).fly # <<>> => FlyTrue(p, SpillEntryOf(p).fly[1])
<1>1. MadeTrue /\ Logs /\ pc[p] \in Seq(Made) /\ pcRun[p] \in Seq(Made)
  BY DEF StoreInv, DiskTypes, Logs
<1>2. cgen[p] \in 0..Gen(p) /\ Gen(p) \in 0..Gen(p) /\ cgen[p] \in Nat /\ cgen[p] <= Gen(p)
  BY QueuedIs
<1>3. PICK m : m = ChangesIn(p, "talk", cgen[p], Gen(p))
  OBVIOUS
<1>4. PICK x : x = Reach(p, cgen[p])
  OBVIOUS
<1>5. PICK y : y = Reach(p, Gen(p))
  OBVIOUS
<1>6. m \in Seq(Made) /\ x \in Seq(Made) /\ y = x \o m /\ LastSeq(p, Gen(p)) = Len(y) /\ LastSeq(p, Gen(p)) \in Nat
  BY <1>1, <1>2, <1>3, <1>4, <1>5, ReachIs
<1>7. LastSeq(p, cgen[p]) = Len(x) /\ LastSeq(p, cgen[p]) \in Nat
  <2>1. cgen[p] <= cgen[p]
    BY <1>2
  <2>. QED BY <1>1, <1>2, <1>4, <2>1, ReachIs
<1>8. LastSeq(p, Gen(p)) = LastSeq(p, cgen[p]) + Len(m)
  BY <1>6, <1>7, ConcatAt
<1>9. PICK f : f = IF fly[p] = 0 THEN <<>> ELSE <<Snap(p)>>
  OBVIOUS
<1>10. f \in Seq(Snaps) /\ (f # <<>> => FlyTrue(p, f[1]))
  <2>1. CASE fly[p] = 0
    BY <1>9, <2>1
  <2>2. CASE fly[p] # 0
    <3>1. PICK s : s = Snap(p)
      OBVIOUS
    <3>2. f = <<s>>
      BY <1>9, <2>2, <3>1
    <3>3. s \in Snaps /\ FlyTrue(p, s)
      BY <2>2, <3>1, SnapIs
    <3>. QED BY <3>2, <3>3
  <2>. QED BY <2>1, <2>2
<1>11. PICK st : st = pcRun[p] \o pc[p] \o QueuedSteps(p)
  OBVIOUS
<1>12. st \in Seq(Made)
  <2>1. pcRun[p] \o pc[p] \in Seq(Made)
    BY <1>1, ConcatProperties
  <2>. QED BY <1>11, <2>1, QueuedIs, ConcatProperties
<1>13. PICK n : n = ChangesIn(p, "note", Queued(p), Gen(p))
  OBVIOUS
<1>14. PICK e : e = SpillEntryOf(p)
  OBVIOUS
<1>15. e = [id |-> <<p, 0>>, base |-> LastSeq(p, cgen[p]), fly |-> f, last |-> LastSeq(p, Gen(p)),
            msgs |-> m, side |-> n, steps |-> st]
  BY <1>3, <1>9, <1>11, <1>13, <1>14 DEF SpillEntryOf
<1>16. n \in Seq(Made) /\ <<p, 0>> \in Procs \X Nat
  BY <1>13, QueuedIs
<1>17. e \in EntryRecords
  BY <1>6, <1>7, <1>10, <1>12, <1>15, <1>16 DEF EntryRecords
<1>18. e.last = e.base + Len(e.msgs) /\ e.id = <<p, 0>> /\ e.base = LastSeq(p, cgen[p]) /\ e.msgs = m /\ e.fly = f
  BY <1>8, <1>15
<1>19. e \in Entries
  BY <1>17, <1>18 DEF Entries
<1>. QED BY <1>3, <1>10, <1>14, <1>18, <1>19

\* The types of what is written and queued, all but the number of the newest change.
DiskSteps ==
    /\ files' \in Seq(Entries) /\ aside' \in Seq(Entries)
    /\ start' \in [Procs -> [log: Seq(Made), stage: 0..3]]
    /\ pcRun' \in [Procs -> Seq(Made)]

LEMMA DiskStepsAre == ASSUME StoreInv, [Next]_vars PROVE DiskSteps
<1>1. /\ files \in Seq(Entries) /\ aside \in Seq(Entries) /\ start \in [Procs -> [log: Seq(Made), stage: 0..3]]
      /\ pc \in [Procs -> Seq(Made)] /\ pcRun \in [Procs -> Seq(Made)] /\ <<>> \in Seq(Made)
      /\ \A p \in Procs : at[p] # "read" => todo[p] > 0
  <2>1. <<>> \in Seq(Made)
    OBVIOUS
  <2>. QED BY <2>1 DEF StoreInv, DiskTypes, Phase
<1>2. UNCHANGED <<files, aside, start, pcRun>> => DiskSteps
  BY <1>1 DEF DiskSteps
<1>3. Preloaded \in [log: Seq(Made), stage: 0..3]
  BY DEF StoreInv, DiskTypes, Rows, Preloaded
<1>4. ASSUME NEW p \in Procs PROVE
        /\ PumpPoisoned(p) => DiskSteps
        /\ PoisonedWritten(p) \/ PoisonedCut(p) => DiskSteps
        /\ Crash(p) => DiskSteps
        /\ Exit(p) => DiskSteps
        /\ Boot(p) \/ Install(p) => DiskSteps
        /\ FileDone(p) => DiskSteps
  <2>1. PumpPoisoned(p) => DiskSteps
    BY <1>1 DEF PumpPoisoned, DiskSteps, diskVars, bootVars
  <2>2. PoisonedWritten(p) \/ PoisonedCut(p) => DiskSteps
    BY <1>1 DEF PoisonedWritten, PoisonedCut, DiskSteps, diskVars, bootVars
  <2>3. \A how : Leave(p, how) => aside' = aside /\ start' = start /\ pcRun' \in [Procs -> Seq(Made)]
    BY <1>1 DEF Leave
  <2>4. Crash(p) => DiskSteps
    BY <1>1, <2>3 DEF Crash, DiskSteps
  <2>5. Exit(p) => DiskSteps
    <3>1. PICK e : e = SpillEntryOf(p)
      OBVIOUS
    <3>2. e \in Entries
      BY <3>1, SpillIs
    <3>3. Append(files, e) \in Seq(Entries)
      BY <1>1, <3>2, AppendProperties
    <3>4. Exit(p) => files' = files \/ files' = Append(files, e)
      BY <3>1 DEF Exit, SpillSync
    <3>. QED BY <1>1, <2>3, <3>3, <3>4 DEF Exit, DiskSteps
  <2>6. Boot(p) \/ Install(p) => DiskSteps
    BY <1>1, <1>3 DEF Boot, Install, DiskSteps, diskVars, pcVars
  <2>7. FileDone(p) => DiskSteps
    <3>1. ASSUME FileDone(p) PROVE DiskSteps
      <4>1. todo[p] > 0 /\ files' = Tail(files) /\ (aside' = aside \/ aside' = Append(aside, Entry))
            /\ UNCHANGED <<start, pcRun>>
        BY <1>1, <3>1 DEF FileDone, pcVars
      <4>2. Entry \in Entries /\ files # <<>>
        BY <4>1, EntryIs
      <4>3. PICK e : e = Entry
        OBVIOUS
      <4>4. Tail(files) \in Seq(Entries) /\ Append(aside, e) \in Seq(Entries)
        <5>1. Append(aside, e) \in Seq(Entries)
          BY <1>1, <4>2, <4>3, AppendProperties
        <5>2. Tail(files) \in Seq(Entries)
          BY <1>1, <4>2, HeadTailProperties
        <5>. QED BY <5>1, <5>2
      <4>. QED BY <1>1, <4>1, <4>3, <4>4 DEF DiskSteps
    <3>. QED BY <3>1
  <2>. QED BY <2>1, <2>2, <2>4, <2>5, <2>6, <2>7
<1>5. ASSUME NEW p \in Procs PROVE
        /\ (\E kind \in left.kinds : Change(p, kind)) => UNCHANGED <<files, aside, start, pcRun>>
        /\ Poison(p) \/ Kick(p) \/ Flush(p) \/ FlushFails(p) \/ Retry(p) => UNCHANGED <<files, aside, start, pcRun>>
        /\ OnLockLost(p) \/ ReacquireOnce(p) \/ Close(p) \/ Replay(p) \/ ReplayFails(p)
             => UNCHANGED <<files, aside, start, pcRun>>
  BY DEF Change, Poison, Kick, Flush, FlushCommits, FlushKnown, AfterCommit, FlushConflicts, FlushFails, FlushCut,
         FlushRejected, Retry, OnLockLost, ReacquireOnce, Close, Replay, ReplayApplies, ReplaySkips, ReplayedTo,
         ReplayConflicts, ReplayFails, ReplayCut, ReplayRejected, Refuse, diskVars, pcVars, bootVars
<1>6. LimboEnds \/ UNCHANGED vars => UNCHANGED <<files, aside, start, pcRun>>
  BY DEF LimboEnds, vars, diskVars, pcVars, bootVars
<1>. QED BY <1>2, <1>4, <1>5, <1>6 DEF Next, Channel

LEMMA WaitingKept == ASSUME StoreInv, [Next]_vars PROVE pc' \in [Procs -> Seq(Made')]
<1>1. pc \in [Procs -> Seq(Made)] /\ pcRun \in [Procs -> Seq(Made)] /\ <<>> \in Seq(Made) /\ Seq(Made) \subseteq Seq(Made')
  <2>1. <<>> \in Seq(Made)
    OBVIOUS
  <2>2. Seq(Made) \subseteq Seq(Made')
    BY MadeGrows, SetsGrow
  <2>. QED BY <2>1, <2>2 DEF StoreInv, DiskTypes
<1>2. ASSUME NEW p \in Procs, NEW s \in Seq(Made'), pc' = [pc EXCEPT ![p] = s]
      PROVE  pc' \in [Procs -> Seq(Made')]
  <2>1. PICK T : T = Seq(Made')
    OBVIOUS
  <2>2. pc \in [Procs -> T] /\ s \in T
    BY <1>1, <2>1
  <2>3. pc' \in [Procs -> T]
    BY <1>2, <2>2
  <2>. QED BY <2>1, <2>3
<1>3. pc' = pc => pc' \in [Procs -> Seq(Made')]
  BY <1>1
<1>4. ASSUME NEW p \in Procs PROVE
        /\ (\E kind \in left.kinds : Change(p, kind)) => \E s \in Seq(Made') : pc' = pc \/ pc' = [pc EXCEPT ![p] = s]
        /\ Poison(p) \/ PumpPoisoned(p) \/ PoisonedCut(p) => \E s \in Seq(Made') : pc' = [pc EXCEPT ![p] = s]
        /\ FlushRejected(p) => \E s \in Seq(Made') : pc' = [pc EXCEPT ![p] = s]
        /\ Exit(p) \/ Crash(p) => \E s \in Seq(Made') : pc' = [pc EXCEPT ![p] = s]
  <2>1. ASSUME NEW kind \in left.kinds, Change(p, kind)
        PROVE  \E s \in Seq(Made') : pc' = pc \/ pc' = [pc EXCEPT ![p] = s]
    <3>1. PICK c : c = <<p, Gen(p) + 1>>
      OBVIOUS
    <3>2. c \in Made'
      <4>1. MadeTrue' /\ Gen(p) \in Nat
        BY MadeGrows, QueuedIs
      <4>2. made[p] \in Seq(Changes)
        BY DEF StoreInv, MadeTrue
      <4>3. PICK a \in Changes : made' = [made EXCEPT ![p] = Append(@, a)]
        <5>1. kind \in {"talk", "note", "step"}
          BY DEF StoreInv, FlagTypes, Budgets
        <5>2. PICK to \in 0..3 : made' = [made EXCEPT ![p] = Append(@, [kind |-> kind, to |-> to])]
          BY <2>1 DEF Change
        <5>3. [kind |-> kind, to |-> to] \in Changes
          BY <5>1 DEF Changes
        <5>. QED BY <5>2, <5>3
      <4>4. made'[p] = Append(made[p], a)
        BY <4>3 DEF StoreInv, MadeTrue
      <4>5. DOMAIN Append(made[p], a) = 1 .. Len(made[p]) + 1
        <5>1. Append(made[p], a) \in Seq(Changes) /\ Len(Append(made[p], a)) = Len(made[p]) + 1
          BY <4>2, AppendProperties
        <5>. QED BY <5>1
      <4>6. Gen(p) + 1 \in DOMAIN made'[p]
        BY <4>1, <4>4, <4>5 DEF Gen
      <4>7. c \in ChangesOf(p)'
        <5>1. PICK i : i = Gen(p) + 1
          OBVIOUS
        <5>2. i \in DOMAIN made'[p] /\ c = <<p, i>>
          BY <3>1, <4>6, <5>1
        <5>. QED BY <5>2 DEF ChangesOf
      <4>. QED BY <4>7 DEF Made, Procs
    <3>3. Append(pc[p], c) \in Seq(Made')
      <4>1. pc[p] \in Seq(Made')
        BY <1>1
      <4>. QED BY <3>2, <4>1, AppendProperties
    <3>4. pc' = pc \/ pc' = [pc EXCEPT ![p] = Append(pc[p], c)]
      BY <2>1, <3>1 DEF Change
    <3>. QED BY <3>3, <3>4
  <2>2. Poison(p) \/ PumpPoisoned(p) \/ PoisonedCut(p) => \E s \in Seq(Made') : pc' = [pc EXCEPT ![p] = s]
    <3>1. pc[p] \o QueuedSteps(p) \in Seq(Made') /\ pcRun[p] \o pc[p] \in Seq(Made') /\ <<>> \in Seq(Made')
      <4>1. pc[p] \in Seq(Made) /\ pcRun[p] \in Seq(Made)
        BY <1>1
      <4>2. pc[p] \o QueuedSteps(p) \in Seq(Made)
        BY <4>1, QueuedIs, ConcatProperties
      <4>3. pcRun[p] \o pc[p] \in Seq(Made)
        BY <4>1, ConcatProperties
      <4>. QED BY <1>1, <4>2, <4>3
    <3>. QED BY <3>1 DEF Poison, PumpPoisoned, PoisonedCut
  <2>3. FlushRejected(p) => \E s \in Seq(Made') : pc' = [pc EXCEPT ![p] = s]
    <3>1. ASSUME FlushRejected(p) PROVE \E s \in Seq(Made') : pc' = [pc EXCEPT ![p] = s]
      <4>1. fly[p] # 0
        BY <3>1 DEF FlushRejected, Attempted, StoreInv, Phase
      <4>2. Snap(p).steps \in Seq(Made) /\ pc[p] \in Seq(Made)
        BY <1>1, <4>1, SnapIs DEF Snaps
      <4>3. Snap(p).steps \o pc[p] \in Seq(Made)
        BY <4>2, ConcatProperties
      <4>4. Snap(p).steps \o pc[p] \o QueuedSteps(p) \in Seq(Made)
        BY <4>3, QueuedIs, ConcatProperties
      <4>5. pc' = [pc EXCEPT ![p] = Snap(p).steps \o pc[p] \o QueuedSteps(p)]
        BY <3>1 DEF FlushRejected
      <4>. QED BY <1>1, <4>4, <4>5
    <3>. QED BY <3>1
  <2>4. Exit(p) \/ Crash(p) => \E s \in Seq(Made') : pc' = [pc EXCEPT ![p] = s]
    BY <1>1 DEF Exit, Crash, Leave
  <2>. QED BY <2>1, <2>2, <2>3, <2>4
<1>5. ASSUME NEW p \in Procs PROVE
        /\ Kick(p) \/ Flush(p) \/ FlushCut(p) \/ Retry(p) \/ PoisonedWritten(p) => pc' = pc
        /\ OnLockLost(p) \/ ReacquireOnce(p) \/ Close(p) \/ Boot(p) \/ Replay(p) \/ ReplayFails(p) \/ FileDone(p) \/ Install(p)
             => pc' = pc
  BY DEF Kick, Flush, FlushCommits, FlushKnown, AfterCommit, FlushConflicts, FlushCut, Retry, PoisonedWritten,
         OnLockLost, ReacquireOnce, Close, Boot, Replay, ReplayApplies, ReplaySkips, ReplayedTo, ReplayConflicts,
         ReplayFails, ReplayCut, ReplayRejected, Refuse, FileDone, Install, pcVars
<1>6. LimboEnds \/ UNCHANGED vars => pc' = pc
  BY DEF LimboEnds, vars, pcVars
<1>. QED BY <1>2, <1>3, <1>4, <1>5, <1>6 DEF Next, FlushFails, Channel

LEMMA DiskKept == ASSUME StoreInv, [Next]_vars PROVE DiskTypes'
<1>1. DiskSteps /\ DbSteps /\ pc' \in [Procs -> Seq(Made')]
  BY DiskStepsAre, DbStepsAre, WaitingKept
<1>2. /\ Seq(Made) \subseteq Seq(Made') /\ Rows \subseteq Rows' /\ Seq(Rows) \subseteq Seq(Rows')
      /\ Entries \subseteq Entries' /\ Seq(Entries) \subseteq Seq(Entries')
  BY MadeGrows, SetsGrow
<1>3. db' \in Rows
  BY <1>1 DEF DbSteps, SameTail, Lands
<1>4. limbo' \in Seq(Rows) /\ Len(limbo') \in 0..1
  <2>1. limbo \in Seq(Rows) /\ Len(limbo) \in 0..1
    BY DEF StoreInv, DiskTypes
  <2>2. \A d \in Rows : <<d>> \in Seq(Rows) /\ Len(<<d>>) = 1
    OBVIOUS
  <2>3. <<>> \in Seq(Rows) /\ Len(<<>>) = 0
    OBVIOUS
  <2>4. \A d : Lands(d) => d \in Rows
    BY DEF Lands
  <2>5. CASE limbo' = <<>>
    BY <2>3, <2>5
  <2>6. CASE limbo' = limbo
    BY <2>1, <2>6
  <2>7. CASE \E d : Lands(d) /\ limbo' = <<d>>
    BY <2>2, <2>4, <2>7
  <2>. QED BY <1>1, <2>5, <2>6, <2>7 DEF DbSteps
<1>5. files' \in Seq(Entries') /\ aside' \in Seq(Entries') /\ pcRun' \in [Procs -> Seq(Made')]
  <2>1. files' \in Seq(Entries') /\ aside' \in Seq(Entries')
    BY <1>1, <1>2 DEF DiskSteps
  <2>2. pcRun' \in [Procs -> Seq(Made')]
    BY <1>1, <1>2 DEF DiskSteps
  <2>. QED BY <2>1, <2>2
<1>6. start' \in [Procs -> [log: Seq(Made'), stage: 0..3]]
  <2>1. [log: Seq(Made), stage: 0..3] \subseteq [log: Seq(Made'), stage: 0..3]
    BY <1>2
  <2>. QED BY <1>1, <2>1 DEF DiskSteps
<1>7. db' \in Rows' /\ limbo' \in Seq(Rows')
  BY <1>2, <1>3, <1>4
<1>. QED BY <1>1, <1>4, <1>5, <1>6, <1>7 DEF DiskTypes, Procs

LEMMA PhaseKept == ASSUME StoreInv, [Next]_vars PROVE \A q \in Procs : Phase(q)'
<1>. DEFINE Far(q, k, f, r, n) == k <= n /\ (f # 0 => k < f /\ f <= n) /\ (r # "idle" => f # 0)
            Begun(q, l, m, f, b) == (l \in Fresh => m = <<>> /\ f = 0) /\ (l = "boot" => b = q)
            Files(l, t, a, n) == (t > 0 => l = "boot") /\ (a # "read" => t > 0) /\ t <= n
<1>1. \A q \in Procs : /\ Far(q, cgen[q], fly[q], run[q], Len(made[q])) /\ Begun(q, life[q], made[q], fly[q], lock)
                       /\ Files(life[q], todo[q], at[q], Len(files))
  BY DEF StoreInv, Phase, Gen
<1>8. \A q \in Procs : Far(q, cgen[q], fly[q], run[q], Len(made[q]))
  BY <1>1
<1>9. \A q \in Procs : Begun(q, life[q], made[q], fly[q], lock)
  BY <1>1
<1>10. \A q \in Procs : Files(life[q], todo[q], at[q], Len(files))
  BY <1>1
<1>2. \A q \in Procs : /\ Far(q, cgen'[q], fly'[q], run'[q], Len(made'[q]))
                       /\ Begun(q, life'[q], made'[q], fly'[q], lock')
                       /\ Files(life'[q], todo'[q], at'[q], Len(files'))
                       => Phase(q)'
  BY DEF Phase, Gen, Fresh
<1>3. /\ life \in [Procs -> {"off", "boot", "up", "closed"} \cup Over] /\ made \in [Procs -> Seq(Changes)]
      /\ cgen \in [Procs -> Nat] /\ fly \in [Procs -> Nat] /\ todo \in [Procs -> Nat]
      /\ run \in [Procs -> {"idle", "sent", "backoff"}] /\ at \in [Procs -> {"read", "delete", "aside"}]
      /\ files \in Seq(Entries) /\ Len(files) \in Nat /\ (\A q \in Procs : Len(made[q]) \in Nat) /\ 0 \notin Procs
  <2>1. files \in Seq(Entries) /\ made \in [Procs -> Seq(Changes)]
    BY DEF StoreInv, DiskTypes, MadeTrue
  <2>2. Len(files) \in Nat /\ \A q \in Procs : Len(made[q]) \in Nat
    BY <2>1
  <2>3. 0 \notin Procs
    BY DEF Procs
  <2>. QED BY <2>1, <2>2, <2>3 DEF StoreInv, FlagTypes
<1>4. \A q \in Procs : Len(made[q]) <= Len(made'[q]) /\ Len(made'[q]) \in Nat
  <2>1. made' \in [Procs -> Seq(Changes)]
    <3>1. MadeTrue'
      BY MadeGrows
    <3>. QED BY <3>1 DEF MadeTrue, Changes, Procs
  <2>2. \A q \in Procs : Len(made'[q]) \in Nat
    BY <2>1
  <2>. QED BY <2>2, MadeGrows
\* The flushes.
<1>5. \A q \in Procs : Far(q, cgen'[q], fly'[q], run'[q], Len(made'[q]))
  <2>1. UNCHANGED <<cgen, fly, run>> => \A q \in Procs : Far(q, cgen'[q], fly'[q], run'[q], Len(made'[q]))
    BY <1>1, <1>3, <1>4
  <2>2. ASSUME NEW p \in Procs PROVE
          /\ Kick(p) => \A q \in Procs : Far(q, cgen'[q], fly'[q], run'[q], Len(made'[q]))
          /\ AfterCommit(p) /\ fly[p] # 0 => \A q \in Procs : Far(q, cgen'[q], fly'[q], run'[q], Len(made'[q]))
          /\ FlushConflicts(p) \/ FlushCut(p) \/ FlushRejected(p) \/ Retry(p)
               => \A q \in Procs : Far(q, cgen'[q], fly'[q], run'[q], Len(made'[q]))
          /\ Exit(p) \/ Crash(p) => \A q \in Procs : Far(q, cgen'[q], fly'[q], run'[q], Len(made'[q]))
    <3>1. Kick(p) => \A q \in Procs : Far(q, cgen'[q], fly'[q], run'[q], Len(made'[q]))
      <4>1. ASSUME Kick(p)
            PROVE  /\ UNCHANGED <<made, cgen>> /\ fly' = [fly EXCEPT ![p] = Len(made[p])]
                   /\ run' = [run EXCEPT ![p] = "sent"] /\ Len(made[p]) # cgen[p]
        BY <4>1 DEF Kick, Dirty, Gen
      <4>2. ASSUME Kick(p), NEW q \in Procs PROVE Far(q, cgen'[q], fly'[q], run'[q], Len(made'[q]))
        <5>1. q # p => cgen'[q] = cgen[q] /\ fly'[q] = fly[q] /\ run'[q] = run[q] /\ made'[q] = made[q]
          BY <1>3, <4>1, <4>2
        <5>2. cgen'[p] = cgen[p] /\ fly'[p] = Len(made[p]) /\ run'[p] = "sent" /\ made'[p] = made[p]
              /\ Len(made[p]) # cgen[p] /\ cgen[p] \in Nat /\ Len(made[p]) \in Nat
          BY <1>3, <4>1, <4>2
        <5>. QED BY <1>8, <5>1, <5>2
      <4>. QED BY <4>2
    <3>2. AfterCommit(p) /\ fly[p] # 0 => \A q \in Procs : Far(q, cgen'[q], fly'[q], run'[q], Len(made'[q]))
      <4>1. AfterCommit(p) => /\ UNCHANGED made /\ cgen' = [cgen EXCEPT ![p] = fly[p]]
                              /\ fly' = [fly EXCEPT ![p] = 0] /\ run' = [run EXCEPT ![p] = "idle"]
        BY DEF AfterCommit
      <4>2. ASSUME AfterCommit(p), fly[p] # 0, NEW q \in Procs PROVE Far(q, cgen'[q], fly'[q], run'[q], Len(made'[q]))
        <5>1. q # p => cgen'[q] = cgen[q] /\ fly'[q] = fly[q] /\ run'[q] = run[q] /\ made'[q] = made[q]
          BY <1>3, <4>1, <4>2
        <5>2. cgen'[p] = fly[p] /\ fly'[p] = 0 /\ run'[p] = "idle" /\ made'[p] = made[p] /\ fly[p] <= Len(made[p])
          BY <1>3, <1>8, <4>1, <4>2
        <5>. QED BY <1>8, <5>1, <5>2
      <4>. QED BY <4>2
    <3>3. FlushConflicts(p) \/ FlushCut(p) \/ FlushRejected(p) \/ Retry(p)
            => \A q \in Procs : Far(q, cgen'[q], fly'[q], run'[q], Len(made'[q]))
      <4>1. FlushConflicts(p) \/ FlushCut(p) \/ FlushRejected(p) \/ Retry(p)
              => /\ UNCHANGED <<made, cgen, fly>> /\ run[p] # "idle"
                 /\ \E r \in {"idle", "sent", "backoff"} : run' = [run EXCEPT ![p] = r]
        BY DEF FlushConflicts, FlushCut, FlushRejected, Retry, Attempted
      <4>. QED BY <1>1, <1>3, <4>1
    <3>4. Exit(p) \/ Crash(p) => \A q \in Procs : Far(q, cgen'[q], fly'[q], run'[q], Len(made'[q]))
      <4>1. Exit(p) \/ Crash(p) => /\ UNCHANGED <<made, cgen>> /\ fly' = [fly EXCEPT ![p] = 0]
                                   /\ run' = [run EXCEPT ![p] = "idle"]
        BY DEF Exit, Crash, Leave
      <4>2. ASSUME Exit(p) \/ Crash(p), NEW q \in Procs PROVE Far(q, cgen'[q], fly'[q], run'[q], Len(made'[q]))
        <5>1. q # p => cgen'[q] = cgen[q] /\ fly'[q] = fly[q] /\ run'[q] = run[q] /\ made'[q] = made[q]
          BY <1>3, <4>1, <4>2
        <5>2. cgen'[p] = cgen[p] /\ fly'[p] = 0 /\ run'[p] = "idle" /\ made'[p] = made[p]
          BY <1>3, <4>1, <4>2
        <5>. QED BY <1>8, <5>1, <5>2
      <4>. QED BY <4>2
    <3>. QED BY <3>1, <3>2, <3>3, <3>4
  <2>3. ASSUME NEW p \in Procs PROVE FlushCommits(p) \/ FlushKnown(p) => AfterCommit(p) /\ fly[p] # 0
    BY <1>1 DEF FlushCommits, FlushKnown, Attempted
  <2>4. ASSUME NEW p \in Procs PROVE
          /\ (\E kind \in left.kinds : Change(p, kind)) => UNCHANGED <<cgen, fly, run>>
          /\ Poison(p) \/ Channel(p) \/ OnLockLost(p) \/ ReacquireOnce(p) \/ Close(p) \/ Boot(p)
               => UNCHANGED <<cgen, fly, run>>
          /\ Replay(p) \/ ReplayFails(p) \/ FileDone(p) \/ Install(p) => UNCHANGED <<cgen, fly, run>>
    BY DEF Change, Poison, Channel, PumpPoisoned, PoisonedWritten, PoisonedCut, OnLockLost, ReacquireOnce, Close, Boot,
           Replay, ReplayApplies, ReplaySkips, ReplayedTo, ReplayConflicts, ReplayFails, ReplayCut, ReplayRejected,
           Refuse, FileDone, Install, flushVars
  <2>5. LimboEnds \/ UNCHANGED vars => UNCHANGED <<cgen, fly, run>>
    BY DEF LimboEnds, vars, flushVars
  <2>. HIDE DEF Far
  <2>. QED BY <2>1, <2>2, <2>3, <2>4, <2>5 DEF Next, Flush, FlushFails
\* Starts: one process at most is at its start, and it holds the lock.
<1>6. \A q \in Procs : Begun(q, life'[q], made'[q], fly'[q], lock')
  <2>1. UNCHANGED <<life, made, fly, lock>> => \A q \in Procs : Begun(q, life'[q], made'[q], fly'[q], lock')
    BY <1>1
  <2>2. ASSUME NEW p \in Procs, Alive(p), UNCHANGED <<life, lock>>,
               \A q \in Procs : q # p => made'[q] = made[q] /\ fly'[q] = fly[q]
        PROVE  \A q \in Procs : Begun(q, life'[q], made'[q], fly'[q], lock')
    BY <1>1, <2>2 DEF Alive, Fresh
  <2>3. ASSUME NEW p \in Procs PROVE
          /\ (\E kind \in left.kinds : Change(p, kind)) \/ Kick(p) \/ Flush(p)
               => /\ Alive(p) /\ UNCHANGED <<life, lock>>
                  /\ \A q \in Procs : q # p => made'[q] = made[q] /\ fly'[q] = fly[q]
    BY <1>3 DEF Change, Kick, MayWrite, Flush, FlushCommits, FlushKnown, AfterCommit, FlushConflicts, Attempted, Alive,
           lockVars, flushVars
  <2>4. ASSUME NEW p \in Procs PROVE
          /\ OnLockLost(p) \/ ReacquireOnce(p) => \A q \in Procs : Begun(q, life'[q], made'[q], fly'[q], lock')
          /\ Close(p) => \A q \in Procs : Begun(q, life'[q], made'[q], fly'[q], lock')
          /\ Exit(p) \/ Crash(p) => \A q \in Procs : Begun(q, life'[q], made'[q], fly'[q], lock')
          /\ Boot(p) => \A q \in Procs : Begun(q, life'[q], made'[q], fly'[q], lock')
          /\ ReplayConflicts(p) \/ ReplayCut(p) => \A q \in Procs : Begun(q, life'[q], made'[q], fly'[q], lock')
          /\ Install(p) => \A q \in Procs : Begun(q, life'[q], made'[q], fly'[q], lock')
    <3>1. OnLockLost(p) \/ ReacquireOnce(p) => \A q \in Procs : Begun(q, life'[q], made'[q], fly'[q], lock')
      <4>1. OnLockLost(p) \/ ReacquireOnce(p) =>
              /\ UNCHANGED <<life, made, fly>> /\ life[p] = "up"
              /\ lock' = lock \/ (lock = p /\ lock' = 0) \/ (lock = 0 /\ lock' = p)
        BY DEF OnLockLost, ReacquireOnce, flushVars
      <4>. QED BY <1>1, <1>3, <4>1
    <3>2. Close(p) => \A q \in Procs : Begun(q, life'[q], made'[q], fly'[q], lock')
      <4>1. Close(p) => /\ UNCHANGED <<made, fly>> /\ life[p] = "up" /\ life' = [life EXCEPT ![p] = "closed"]
                        /\ lock' = IF lock = p THEN 0 ELSE lock
        BY DEF Close, Unlocked, flushVars
      <4>. QED BY <1>1, <1>3, <4>1 DEF Fresh
    <3>3. Exit(p) \/ Crash(p) => \A q \in Procs : Begun(q, life'[q], made'[q], fly'[q], lock')
      <4>1. Exit(p) \/ Crash(p) =>
              /\ UNCHANGED made /\ fly' = [fly EXCEPT ![p] = 0] /\ lock' = IF lock = p THEN 0 ELSE lock
              /\ life' = [life EXCEPT ![p] = "exited"] \/ life' = [life EXCEPT ![p] = "killed"]
        BY DEF Exit, Crash, Leave, Unlocked
      <4>2. ASSUME Exit(p) \/ Crash(p), NEW q \in Procs PROVE Begun(q, life'[q], made'[q], fly'[q], lock')
        <5>1. q # p => life'[q] = life[q] /\ fly'[q] = fly[q] /\ made'[q] = made[q] /\ (lock = q => lock' = q)
          BY <1>3, <4>1, <4>2
        <5>2. life'[p] \in {"exited", "killed"}
          BY <1>3, <4>1, <4>2
        <5>. QED BY <1>9, <5>1, <5>2 DEF Fresh
      <4>. QED BY <4>2
    <3>4. Boot(p) => \A q \in Procs : Begun(q, life'[q], made'[q], fly'[q], lock')
      <4>1. Boot(p) => /\ UNCHANGED <<made, fly>> /\ life[p] = "off" /\ lock = 0 /\ lock' = p
                       /\ life' = [life EXCEPT ![p] = "boot"]
        BY DEF Boot, flushVars
      <4>. QED BY <1>1, <1>3, <4>1 DEF Fresh
    <3>5. ReplayConflicts(p) \/ ReplayCut(p) => \A q \in Procs : Begun(q, life'[q], made'[q], fly'[q], lock')
      <4>1. ReplayConflicts(p) \/ ReplayCut(p) =>
              /\ UNCHANGED <<made, fly>> /\ lock' = IF lock = p THEN 0 ELSE lock
              /\ life' = [life EXCEPT ![p] = "refused"] \/ life' = [life EXCEPT ![p] = "blocked"]
        BY DEF ReplayConflicts, ReplayCut, Refuse, Unlocked, flushVars
      <4>2. ASSUME ReplayConflicts(p) \/ ReplayCut(p), NEW q \in Procs PROVE Begun(q, life'[q], made'[q], fly'[q], lock')
        <5>1. q # p => life'[q] = life[q] /\ fly'[q] = fly[q] /\ made'[q] = made[q] /\ (lock = q => lock' = q)
          BY <1>3, <4>1, <4>2
        <5>2. life'[p] \in {"refused", "blocked"}
          BY <1>3, <4>1, <4>2
        <5>. QED BY <1>9, <5>1, <5>2 DEF Fresh
      <4>. QED BY <4>2
    <3>6. Install(p) => \A q \in Procs : Begun(q, life'[q], made'[q], fly'[q], lock')
      <4>1. Install(p) => UNCHANGED <<made, fly, lock>> /\ life' = [life EXCEPT ![p] = "up"]
        BY DEF Install, lockVars, flushVars
      <4>. QED BY <1>1, <1>3, <4>1 DEF Fresh
    <3>. QED BY <3>1, <3>2, <3>3, <3>4, <3>5, <3>6
  <2>5. ASSUME NEW p \in Procs PROVE
          /\ Poison(p) \/ FlushFails(p) \/ Retry(p) \/ Channel(p) => UNCHANGED <<life, made, fly, lock>>
          /\ ReplayApplies(p) \/ ReplaySkips(p) \/ ReplayRejected(p) \/ FileDone(p) => UNCHANGED <<life, made, fly, lock>>
    BY DEF Poison, FlushFails, FlushCut, FlushRejected, Retry, Channel, PumpPoisoned, PoisonedWritten, PoisonedCut,
           ReplayApplies, ReplaySkips, ReplayedTo, ReplayRejected, FileDone, lockVars, flushVars
  <2>6. LimboEnds \/ UNCHANGED vars => UNCHANGED <<life, made, fly, lock>>
    BY DEF LimboEnds, vars, lockVars, flushVars
  <2>. HIDE DEF Begun
  <2>. QED BY <2>1, <2>2, <2>3, <2>4, <2>5, <2>6 DEF Next, Replay, ReplayFails

\* The spill files a start has still to do.
<1>7. \A q \in Procs : Files(life'[q], todo'[q], at'[q], Len(files'))
  <2>1. UNCHANGED <<life, todo, at, files>> => \A q \in Procs : Files(life'[q], todo'[q], at'[q], Len(files'))
    BY <1>1
  <2>2. ASSUME NEW p \in Procs PROVE
          /\ Close(p) => \A q \in Procs : Files(life'[q], todo'[q], at'[q], Len(files'))
          /\ Exit(p) => \A q \in Procs : Files(life'[q], todo'[q], at'[q], Len(files'))
          /\ Crash(p) => \A q \in Procs : Files(life'[q], todo'[q], at'[q], Len(files'))
          /\ Boot(p) => \A q \in Procs : Files(life'[q], todo'[q], at'[q], Len(files'))
          /\ ReplayConflicts(p) \/ ReplayCut(p) => \A q \in Procs : Files(life'[q], todo'[q], at'[q], Len(files'))
          /\ ReplayApplies(p) \/ ReplaySkips(p) \/ ReplayRejected(p)
               => \A q \in Procs : Files(life'[q], todo'[q], at'[q], Len(files'))
          /\ FileDone(p) => \A q \in Procs : Files(life'[q], todo'[q], at'[q], Len(files'))
          /\ Install(p) => \A q \in Procs : Files(life'[q], todo'[q], at'[q], Len(files'))
    <3>1. Close(p) => \A q \in Procs : Files(life'[q], todo'[q], at'[q], Len(files'))
      <4>1. Close(p) => life[p] = "up" /\ life' = [life EXCEPT ![p] = "closed"] /\ UNCHANGED <<todo, at, files>>
        BY DEF Close, diskVars, bootVars
      <4>. QED BY <1>1, <1>3, <4>1
    <3>2. Exit(p) => \A q \in Procs : Files(life'[q], todo'[q], at'[q], Len(files'))
      <4>1. Exit(p) => /\ life[p] # "boot" /\ life' = [life EXCEPT ![p] = "exited"] /\ UNCHANGED <<todo, at>>
                       /\ \E e : files' = files \/ files' = Append(files, e)
        BY DEF Exit, Alive, Leave, SpillSync
      <4>2. \A e : Len(Append(files, e)) = Len(files) + 1
        BY <1>3
      <4>3. ASSUME Exit(p) PROVE Len(files') \in Nat /\ Len(files) <= Len(files')
        BY <1>3, <4>1, <4>2, <4>3
      <4>. QED BY <1>1, <1>3, <4>1, <4>3
    <3>3. Crash(p) => \A q \in Procs : Files(life'[q], todo'[q], at'[q], Len(files'))
      <4>1. Crash(p) => /\ life' = [life EXCEPT ![p] = "killed"] /\ todo' = [todo EXCEPT ![p] = 0]
                        /\ at' = [at EXCEPT ![p] = "read"] /\ UNCHANGED files
        BY DEF Crash, Leave
      <4>2. ASSUME Crash(p), NEW q \in Procs PROVE Files(life'[q], todo'[q], at'[q], Len(files'))
        <5>1. q # p => life'[q] = life[q] /\ todo'[q] = todo[q] /\ at'[q] = at[q]
          BY <1>3, <4>1, <4>2
        <5>2. todo'[p] = 0 /\ at'[p] = "read" /\ Len(files') = Len(files) /\ Len(files) \in Nat
          BY <1>3, <4>1, <4>2
        <5>. QED BY <1>10, <5>1, <5>2
      <4>. QED BY <4>2
    <3>4. Boot(p) => \A q \in Procs : Files(life'[q], todo'[q], at'[q], Len(files'))
      <4>1. Boot(p) => /\ life[p] = "off" /\ life' = [life EXCEPT ![p] = "boot"]
                       /\ todo' = [todo EXCEPT ![p] = Len(files)] /\ UNCHANGED <<at, files>>
        BY DEF Boot, diskVars
      <4>2. ASSUME Boot(p), NEW q \in Procs PROVE Files(life'[q], todo'[q], at'[q], Len(files'))
        <5>1. q # p => life'[q] = life[q] /\ todo'[q] = todo[q] /\ at'[q] = at[q]
          BY <1>3, <4>1, <4>2
        <5>2. life[p] = "off" /\ life'[p] = "boot" /\ todo'[p] = Len(files) /\ at'[p] = at[p] /\ Len(files') = Len(files)
              /\ Len(files) \in Nat
          BY <1>3, <4>1, <4>2
        <5>3. ~(todo[p] > 0) /\ at[p] = "read"
          BY <1>10, <5>2
        <5>. QED BY <1>10, <5>1, <5>2, <5>3
      <4>. QED BY <4>2
    <3>5. ReplayConflicts(p) \/ ReplayCut(p) => \A q \in Procs : Files(life'[q], todo'[q], at'[q], Len(files'))
      <4>1. ReplayConflicts(p) \/ ReplayCut(p) =>
              /\ at[p] = "read" /\ todo' = [todo EXCEPT ![p] = 0] /\ UNCHANGED <<at, files>>
              /\ life' = [life EXCEPT ![p] = "refused"] \/ life' = [life EXCEPT ![p] = "blocked"]
        BY DEF ReplayConflicts, ReplayCut, Replaying, Refuse, diskVars
      <4>. QED BY <1>1, <1>3, <4>1
    <3>6. ReplayApplies(p) \/ ReplaySkips(p) \/ ReplayRejected(p)
            => \A q \in Procs : Files(life'[q], todo'[q], at'[q], Len(files'))
      <4>1. ReplayApplies(p) \/ ReplaySkips(p) \/ ReplayRejected(p) =>
              /\ todo[p] > 0 /\ UNCHANGED <<life, todo, files>>
              /\ \E a \in {"read", "delete", "aside"} : at' = [at EXCEPT ![p] = a]
        BY DEF ReplayApplies, ReplaySkips, ReplayRejected, ReplayedTo, Replaying, diskVars
      <4>. QED BY <1>1, <1>3, <4>1
    <3>7. FileDone(p) => \A q \in Procs : Files(life'[q], todo'[q], at'[q], Len(files'))
      <4>1. ASSUME FileDone(p)
            PROVE  /\ life[p] = "boot" /\ at[p] # "read" /\ files' = Tail(files) /\ UNCHANGED life
                   /\ todo' = [todo EXCEPT ![p] = @ - 1] /\ at' = [at EXCEPT ![p] = "read"] /\ todo[p] > 0
        BY <1>1, <4>1 DEF FileDone
      <4>2. ASSUME FileDone(p) PROVE files # <<>>
        BY <4>1, <4>2, EntryIs
      <4>3. ASSUME FileDone(p) PROVE Len(files') = Len(files) - 1
        BY <1>3, <4>1, <4>2, <4>3
      <4>4. \A q \in Procs : life[p] = "boot" /\ todo[q] > 0 => q = p
        BY <1>1
      <4>. QED BY <1>1, <1>3, <4>1, <4>3, <4>4
    <3>8. Install(p) => \A q \in Procs : Files(life'[q], todo'[q], at'[q], Len(files'))
      <4>1. Install(p) => /\ todo[p] = 0 /\ life' = [life EXCEPT ![p] = "up"] /\ UNCHANGED <<todo, at, files>>
        BY DEF Install, diskVars
      <4>. QED BY <1>1, <1>3, <4>1
    <3>. QED BY <3>1, <3>2, <3>3, <3>4, <3>5, <3>6, <3>7, <3>8
  <2>3. ASSUME NEW p \in Procs PROVE
          /\ (\E kind \in left.kinds : Change(p, kind)) => UNCHANGED <<life, todo, at, files>>
          /\ Poison(p) \/ Kick(p) \/ Flush(p) \/ FlushFails(p) \/ Retry(p) => UNCHANGED <<life, todo, at, files>>
          /\ Channel(p) \/ OnLockLost(p) \/ ReacquireOnce(p) => UNCHANGED <<life, todo, at, files>>
    BY DEF Change, Poison, Kick, Flush, FlushCommits, FlushKnown, AfterCommit, FlushConflicts, FlushFails, FlushCut,
           FlushRejected, Retry, Channel, PumpPoisoned, PoisonedWritten, PoisonedCut, OnLockLost, ReacquireOnce,
           diskVars, bootVars
  <2>4. LimboEnds \/ UNCHANGED vars => UNCHANGED <<life, todo, at, files>>
    BY DEF LimboEnds, vars, diskVars, bootVars
  <2>. HIDE DEF Files
  <2>. QED BY <2>1, <2>2, <2>3, <2>4 DEF Next, Replay, ReplayFails
<1>. QED BY <1>2, <1>5, <1>6, <1>7

-----------------------------------------------------------------------------
(* Rows, files and promises stay true *)

LEMMA RowsStayTrue ==
    ASSUME StoreInv, [Next]_vars
    PROVE  /\ (RowTrue(db) \/ Blank(db))'
           /\ IsPrefix(db.log, db'.log) /\ db.log \in Seq(Made) /\ db'.log \in Seq(Made)
           /\ \A i \in DOMAIN limbo' : RowTrue(limbo[i])' /\ IsPrefix(db'.log, limbo'[i].log)
<1>1. MadeTrue /\ MadeTrue' /\ Grows /\ DbSteps
  BY MadeGrows, NothingTakenBack, DbStepsAre DEF StoreInv
<1>2. /\ db \in Rows /\ db.log \in Seq(Made) /\ (RowTrue(db) \/ Blank(db))
      /\ \A i \in DOMAIN limbo : limbo[i] \in Rows /\ RowTrue(limbo[i]) /\ IsPrefix(db.log, limbo[i].log)
  <2>1. db \in Rows /\ limbo \in Seq(Rows)
    BY DEF StoreInv, DiskTypes
  <2>2. \A i \in DOMAIN limbo : limbo[i] \in Rows
    BY <2>1
  <2>3. db.log \in Seq(Made)
    BY <2>1 DEF Rows
  <2>. QED BY <2>1, <2>2, <2>3 DEF StoreInv, WritesTrue
<1>3. \A d \in Rows : RowTrue(d) => RowTrue(d)'
  BY <1>1, RowKept
<1>4. PICK e : e = db'
  OBVIOUS
<1>5. /\ e \in Rows /\ IsPrefix(db.log, e.log) /\ (RowTrue(e) \/ Blank(e))
      /\ (SameTail(e) => e.log = db.log)
  <2>1. CASE SameTail(e)
    <3>1. e \in Rows /\ e.log = db.log /\ e.flush = db.flush
      BY <2>1 DEF SameTail
    <3>2. RowTrue(e) \/ Blank(e)
      BY <1>2, <3>1 DEF RowTrue, Blank
    <3>3. IsPrefix(db.log, db.log)
      BY <1>2, PrefixSelf
    <3>. QED BY <3>1, <3>2, <3>3
  <2>2. CASE Lands(e)
    BY <2>2 DEF Lands, SameTail
  <2>. QED BY <1>1, <1>4, <2>1, <2>2 DEF DbSteps
<1>6. (RowTrue(db) \/ Blank(db))'
  <2>1. CASE RowTrue(e)
    <3>1. RowTrue(e)'
      BY <1>3, <1>5, <2>1
    <3>. QED BY <1>4, <3>1 DEF RowTrue, WriterGen, Gen, Reach
  <2>2. CASE Blank(e)
    BY <1>4, <2>2 DEF Blank
  <2>. QED BY <1>5, <2>1, <2>2
<1>7. ASSUME NEW i \in DOMAIN limbo' PROVE RowTrue(limbo[i])' /\ IsPrefix(db'.log, limbo'[i].log)
  <2>1. PICK d : d = limbo'[i]
    OBVIOUS
  <2>2. d \in Rows /\ RowTrue(d) /\ IsPrefix(db.log, d.log) /\ SameTail(db')
    <3>1. CASE limbo' = <<>>
      BY <3>1
    <3>2. CASE SameTail(db') /\ limbo' = limbo
      BY <1>2, <2>1, <3>2
    <3>3. CASE SameTail(db') /\ \E x : Lands(x) /\ limbo' = <<x>>
      <4>1. PICK x : Lands(x) /\ limbo' = <<x>>
        BY <3>3
      <4>2. d = x
        BY <2>1, <4>1
      <4>. QED BY <3>3, <4>1, <4>2 DEF Lands
    <3>. QED BY <1>1, <3>1, <3>2, <3>3 DEF DbSteps
  <2>3. RowTrue(d)'
    BY <1>3, <2>2
  <2>4. IsPrefix(db'.log, d.log)
    BY <2>2 DEF SameTail
  <2>5. RowTrue(limbo[i])'
    BY <2>1, <2>3 DEF RowTrue, WriterGen, Gen, Reach
  <2>. QED BY <2>1, <2>4, <2>5
<1>. QED BY <1>2, <1>4, <1>5, <1>6, <1>7 DEF Rows

LEMMA FilesStayTrue ==
    ASSUME StoreInv, [Next]_vars
    PROVE  \A i \in DOMAIN files' : EntryTrue(files[i])'
<1>1. MadeTrue /\ MadeTrue' /\ Grows /\ \A p \in Procs : cgen[p] \in Nat /\ cgen[p] <= Gen(p)
  BY MadeGrows, NothingTakenBack DEF StoreInv, FlagTypes, Phase
<1>2. files \in Seq(Entries) /\ DOMAIN files = 1..Len(files) /\ Len(files) \in Nat
      /\ \A i \in DOMAIN files : files[i] \in Entries /\ EntryTrue(files[i])
  <2>1. files \in Seq(Entries) /\ \A i \in DOMAIN files : EntryTrue(files[i])
    BY DEF StoreInv, DiskTypes, WritesTrue
  <2>. QED BY <2>1
<1>3. \A e \in Entries : EntryTrue(e) => EntryTrue(e)'
  BY <1>1, EntryKept
<1>4. \A i \in DOMAIN files : EntryTrue(files[i]) /\ files[i] \in Entries
  BY <1>2
<1>5. \A i, e : e = files'[i] /\ EntryTrue(e)' => EntryTrue(files[i])'
  BY DEF EntryTrue, FlyTrue, LastSeq, Gen
<1>6. ASSUME \A i \in DOMAIN files' : \E j \in DOMAIN files : files'[i] = files[j]
      PROVE  \A i \in DOMAIN files' : EntryTrue(files[i])'
  <2>1. TAKE i \in DOMAIN files'
  <2>2. PICK e : e = files'[i]
    OBVIOUS
  <2>3. e \in Entries /\ EntryTrue(e)
    BY <1>4, <1>6, <2>2
  <2>4. EntryTrue(e)'
    BY <1>3, <2>3
  <2>. QED BY <1>5, <2>2, <2>4
<1>7. ASSUME NEW p \in Procs, Exit(p) PROVE \A i \in DOMAIN files' : EntryTrue(files[i])'
  <2>1. PICK e : e = SpillEntryOf(p)
    OBVIOUS
  <2>2. /\ e.id = <<p, 0>> /\ e.base = LastSeq(p, cgen[p]) /\ e.msgs = ChangesIn(p, "talk", cgen[p], Gen(p))
        /\ e.fly # <<>> => FlyTrue(p, e.fly[1])
    BY <2>1, SpillIs
  <2>3. UNCHANGED <<made, cgen, start>> /\ life'[p] = "exited"
    BY <1>7 DEF Exit, Leave, StoreInv, FlagTypes
  <2>4. EntryTrue(e)'
    <3>1. \A kind, a, b : ChangesIn(p, kind, a, b)' = ChangesIn(p, kind, a, b)
      BY <2>3 DEF ChangesIn, Those
    <3>2. \A g : LastSeq(p, g)' = LastSeq(p, g)
      BY <2>3, <3>1 DEF LastSeq
    <3>3. PICK c : c = cgen[p]
      OBVIOUS
    <3>4. PICK n : n = Gen(p)
      OBVIOUS
    <3>5. cgen'[p] = c /\ Gen(p)' = n
      BY <2>3, <3>3, <3>4 DEF Gen
    <3>6. e.base = LastSeq(p, c)' /\ e.msgs = ChangesIn(p, "talk", c, n)'
      BY <2>2, <3>1, <3>2, <3>3, <3>4
    <3>7. e.fly # <<>> => FlyTrue(p, e.fly[1])'
      <4>1. PICK f : f = e.fly[1]
        OBVIOUS
      <4>2. PICK h : h = f.id[2]
        OBVIOUS
      <4>3. FlyTrue(p, f) => FlyTrue(p, f)'
        <5>1. LastSeq(p, h)' = LastSeq(p, h)
          BY <3>2
        <5>. QED BY <3>3, <3>4, <3>5, <4>2, <5>1 DEF FlyTrue
      <4>. QED BY <2>2, <4>1, <4>3
    <3>8. e.id[1] = p /\ e.id[2] = 0 /\ life'[p] \in Over
      BY <2>2, <2>3 DEF Over
    <3>. QED BY <3>5, <3>6, <3>7, <3>8 DEF EntryTrue
  <2>5. CASE files' = files
    BY <1>6, <2>5
  <2>6. CASE files' = Append(files, e)
    <3>1. TAKE i \in DOMAIN files'
    <3>2. i \in 1 .. Len(files) + 1
      <4>1. DOMAIN Append(files, e) = 1 .. Len(files) + 1
        BY <1>2
      <4>. QED BY <2>6, <4>1
    <3>3. CASE i = Len(files) + 1
      <4>1. e = files'[i]
        BY <1>2, <2>6, <3>3
      <4>. QED BY <1>5, <2>4, <4>1
    <3>4. CASE i # Len(files) + 1
      <4>1. i \in DOMAIN files
        BY <1>2, <3>2, <3>4
      <4>2. files'[i] = files[i]
        BY <1>2, <2>6, <4>1
      <4>3. PICK x : x = files'[i]
        OBVIOUS
      <4>4. EntryTrue(x)'
        BY <1>2, <1>3, <4>1, <4>2, <4>3
      <4>. QED BY <1>5, <4>3, <4>4
    <3>. QED BY <3>3, <3>4
  <2>. QED BY <1>7, <2>1, <2>5, <2>6 DEF Exit, SpillSync
<1>8. ASSUME NEW p \in Procs, FileDone(p) PROVE \A i \in DOMAIN files' : EntryTrue(files[i])'
  <2>1. files' = Tail(files) /\ files # <<>>
    BY <1>8, EntryIs DEF FileDone, StoreInv, Phase
  <2>2. ASSUME NEW i \in DOMAIN files' PROVE i + 1 \in DOMAIN files /\ files'[i] = files[i + 1]
    <3>1. PICK n : n = Len(files)
      OBVIOUS
    <3>2. n \in Nat /\ n # 0 /\ DOMAIN files = 1..n
      BY <1>2, <2>1, <3>1
    <3>3. DOMAIN Tail(files) = 1..(n - 1) /\ \A j \in 1..(n - 1) : Tail(files)[j] = files[j + 1]
      BY <1>2, <2>1, <3>1
    <3>. QED BY <2>1, <3>2, <3>3
  <2>. QED BY <1>6, <2>2
<1>9. ASSUME NEW p \in Procs PROVE
        /\ (\E kind \in left.kinds : Change(p, kind)) => UNCHANGED files
        /\ Poison(p) \/ Kick(p) \/ Flush(p) \/ FlushFails(p) \/ Retry(p) \/ Channel(p) => UNCHANGED files
        /\ OnLockLost(p) \/ ReacquireOnce(p) \/ Close(p) \/ Crash(p) \/ Boot(p) \/ Replay(p) \/ ReplayFails(p) \/ Install(p)
             => UNCHANGED files
  BY DEF Change, Poison, Kick, Flush, FlushCommits, FlushKnown, AfterCommit, FlushConflicts, FlushFails, FlushCut,
         FlushRejected, Retry, Channel, PumpPoisoned, PoisonedWritten, PoisonedCut, OnLockLost, ReacquireOnce, Close,
         Crash, Boot, Replay, ReplayApplies, ReplaySkips, ReplayedTo, ReplayConflicts, ReplayFails, ReplayCut,
         ReplayRejected, Refuse, Install, diskVars
<1>10. LimboEnds \/ UNCHANGED vars => UNCHANGED files
  BY DEF LimboEnds, vars, diskVars
<1>11. UNCHANGED files => \A i \in DOMAIN files' : EntryTrue(files[i])'
  BY <1>6
<1>. QED BY <1>7, <1>8, <1>9, <1>10, <1>11 DEF Next

\* A process was told of nothing the database does not hold.
LEMMA PromisesKept == ASSUME StoreInv, [Next]_vars PROVE \A p \in Procs : Behind(p)'
<1>1. /\ MadeTrue /\ MadeTrue' /\ Grows /\ Logs /\ Logs'
      /\ \A p \in Procs : Behind(p) /\ cgen[p] \in 0..Gen(p) /\ cgen[p] \in Nat
                          /\ (life[p] \in Fresh => cgen[p] = 0)
  <2>1. Logs /\ Logs'
    <3>1. DiskTypes /\ DiskTypes'
      BY DiskKept DEF StoreInv
    <3>. QED BY <3>1 DEF DiskTypes, Logs, Procs
  <2>2. \A p \in Procs : Behind(p) /\ cgen[p] \in Nat /\ cgen[p] <= Gen(p) /\ (life[p] \in Fresh => made[p] = <<>>)
    BY DEF StoreInv, WritesTrue, FlagTypes, Phase
  <2>3. \A p \in Procs : cgen[p] \in 0..Gen(p) /\ (life[p] \in Fresh => cgen[p] = 0)
    <3>1. TAKE p \in Procs
    <3>2. Gen(p) \in Nat /\ (life[p] \in Fresh => Gen(p) = 0)
      <4>1. Gen(p) \in Nat
        BY QueuedIs
      <4>2. Len(<<>>) = 0
        OBVIOUS
      <4>. QED BY <2>2, <4>1, <4>2 DEF Gen
    <3>. QED BY <2>2, <3>2
  <2>. QED BY <2>1, <2>2, <2>3, MadeGrows, NothingTakenBack DEF StoreInv
<1>2. /\ IsPrefix(db.log, db'.log) /\ db.log \in Seq(Made) /\ db'.log \in Seq(Made) /\ (RowTrue(db) \/ Blank(db))
  BY RowsStayTrue DEF StoreInv, WritesTrue
\* What p knew stays a prefix of what the database holds.
<1>3. ASSUME NEW p \in Procs, start'[p] = start[p], cgen'[p] = cgen[p] PROVE Behind(p)'
  <2>1. PICK c : c = cgen[p]
    OBVIOUS
  <2>2. c \in 0..Gen(p) /\ c \in Nat /\ cgen'[p] = c
    BY <1>1, <1>3, <2>1
  <2>3. ChangesIn(p, "talk", 0, c)' = ChangesIn(p, "talk", 0, c)
    BY <1>1, <2>2, ReachKept
  <2>4. Reach(p, c)' = Reach(p, c)
    BY <1>3, <2>3 DEF Reach
  <2>5. Reach(p, c) \in Seq(Made) /\ IsPrefix(Reach(p, c), db.log)
    <3>1. c <= c
      BY <2>2
    <3>2. Reach(p, c) \in Seq(Made)
      BY <1>1, <2>2, <3>1, ReachIs
    <3>3. IsPrefix(Reach(p, c), db.log)
      BY <1>1, <2>1 DEF Behind
    <3>. QED BY <3>2, <3>3
  <2>6. IsPrefix(Reach(p, c), db'.log)
    BY <1>2, <2>5, PrefixTrans
  <2>. QED BY <2>2, <2>4, <2>6 DEF Behind, Reach
\* A preload.
<1>4. ASSUME NEW p \in Procs, start'[p].log = db.log, db' = db, cgen'[p] = cgen[p], life[p] \in Fresh PROVE Behind(p)'
  <2>1. cgen'[p] = 0
    BY <1>1, <1>4
  <2>2. ChangesIn(p, "talk", 0, 0)' = <<>>
    <3>1. ChangesIn(p, "talk", 0, 0) = <<>>
      BY ChangesInNone
    <3>2. 0 \in 0..Gen(p)
      BY <1>1, <1>4
    <3>. QED BY <1>1, <3>1, <3>2, ReachKept
  <2>3. PICK l : l = db.log
    OBVIOUS
  <2>4. l \o <<>> = l /\ IsPrefix(l, l)
    BY <1>2, <2>3, PrefixSelf, ConcatEmptySeq
  <2>5. Reach(p, 0)' = l
    <3>1. Reach(p, 0)' = l \o <<>>
      BY <1>4, <2>2, <2>3 DEF Reach
    <3>. QED BY <2>4, <3>1
  <2>6. Behind(p)' <=> IsPrefix(Reach(p, 0)', db'.log)
    BY <2>1 DEF Behind, Reach
  <2>. QED BY <1>4, <2>3, <2>4, <2>5, <2>6
\* A flush that was answered.
<1>5. ASSUME NEW p \in Procs, FlushCommits(p) \/ FlushKnown(p) PROVE Behind(p)'
  <2>1. run[p] = "sent" /\ cgen'[p] = fly[p] /\ fly[p] # 0 /\ life[p] \notin Fresh
        /\ fly[p] \in 0..Gen(p) /\ fly[p] \in Nat /\ p # 0
    <3>1. run[p] = "sent" /\ cgen' = [cgen EXCEPT ![p] = fly[p]]
      BY <1>5 DEF FlushCommits, FlushKnown, Attempted, AfterCommit
    <3>2. fly[p] # 0 /\ life[p] \notin Fresh /\ fly[p] \in Nat /\ fly[p] <= Gen(p) /\ cgen \in [Procs -> Nat]
      BY <3>1 DEF StoreInv, Phase, FlagTypes
    <3>3. Gen(p) \in Nat /\ p # 0
      BY QueuedIs, ProcsNat DEF ProcsAreNat
    <3>. QED BY <3>1, <3>2, <3>3
  <2>2. PICK f : f = fly[p]
    OBVIOUS
  <2>3. Reach(p, f)' = Reach(p, f)
    BY <1>1, <2>1, <2>2, ReachKept
  <2>4. db'.log = Reach(p, f)
    <3>1. CASE FlushCommits(p)
      <4>1. Fits(db, Snap(p)) /\ db' = Written(db, Snap(p))
        BY <3>1 DEF FlushCommits
      <4>. QED BY <2>1, <2>2, <4>1, FlushLands
    <3>2. CASE FlushKnown(p)
      <4>1. Known(db, Snap(p)) /\ db' = db
        BY <3>2 DEF FlushKnown
      <4>2. db.flush = <<p, f>>
        BY <2>1, <2>2, <4>1, SnapIs DEF Known
      <4>3. ~Blank(db)
        BY <2>1, <4>2 DEF Blank
      <4>4. WriterGen(db.flush) = f /\ db.flush[1] = p
        BY <2>1, <2>2, <4>2 DEF WriterGen
      <4>. QED BY <1>2, <4>1, <4>3, <4>4 DEF RowTrue
    <3>. QED BY <1>5, <3>1, <3>2
  <2>5. IsPrefix(Reach(p, f)', db'.log)
    BY <1>2, <2>3, <2>4, PrefixSelf
  <2>6. cgen'[p] = f
    BY <2>1, <2>2
  <2>. QED BY <2>5, <2>6 DEF Behind, Reach
<1>6. UNCHANGED <<start, cgen>> => \A q \in Procs : Behind(q)'
  BY <1>3
<1>7. ASSUME NEW p \in Procs PROVE
        /\ FlushCommits(p) \/ FlushKnown(p) => \A q \in Procs : Behind(q)'
        /\ Boot(p) => \A q \in Procs : Behind(q)'
        /\ Install(p) => \A q \in Procs : Behind(q)'
  <2>1. ASSUME FlushCommits(p) \/ FlushKnown(p), NEW q \in Procs PROVE Behind(q)'
    <3>1. start' = start /\ cgen' = [cgen EXCEPT ![p] = fly[p]]
      BY <2>1 DEF FlushCommits, FlushKnown, AfterCommit, bootVars
    <3>2. q # p => cgen'[q] = cgen[q]
      BY <3>1 DEF StoreInv, FlagTypes
    <3>. QED BY <1>3, <1>5, <2>1, <3>1, <3>2
  <2>2. ASSUME Boot(p) \/ Install(p), NEW q \in Procs PROVE Behind(q)'
    <3>1. /\ life[p] \in Fresh /\ db' = db /\ cgen' = cgen
          /\ start' = start \/ start' = [start EXCEPT ![p] = Preloaded]
      BY <2>2 DEF Boot, Install, flushVars, Fresh
    <3>2. start'[q] = start[q] \/ (q = p /\ start'[q] = Preloaded)
      BY <1>1, <3>1 DEF Logs
    <3>3. Preloaded.log = db.log
      BY DEF Preloaded
    <3>. QED BY <1>3, <1>4, <3>1, <3>2, <3>3
  <2>. QED BY <2>1, <2>2
<1>8. ASSUME NEW p \in Procs PROVE
        /\ (\E kind \in left.kinds : Change(p, kind)) => UNCHANGED <<start, cgen>>
        /\ Poison(p) \/ Kick(p) \/ FlushConflicts(p) \/ FlushFails(p) \/ Retry(p) \/ Channel(p) => UNCHANGED <<start, cgen>>
        /\ OnLockLost(p) \/ ReacquireOnce(p) \/ Close(p) \/ Exit(p) \/ Crash(p) => UNCHANGED <<start, cgen>>
        /\ Replay(p) \/ ReplayFails(p) \/ FileDone(p) => UNCHANGED <<start, cgen>>
  BY DEF Change, Poison, Kick, FlushConflicts, FlushFails, FlushCut, FlushRejected, Retry, Channel, PumpPoisoned,
         PoisonedWritten, PoisonedCut, OnLockLost, ReacquireOnce, Close, Exit, Crash, Leave, Replay, ReplayApplies,
         ReplaySkips, ReplayedTo, ReplayConflicts, ReplayFails, ReplayCut, ReplayRejected, Refuse, FileDone,
         flushVars, bootVars
<1>9. LimboEnds \/ UNCHANGED vars => UNCHANGED <<start, cgen>>
  BY DEF LimboEnds, vars, flushVars, bootVars
<1>10. ASSUME Next \/ UNCHANGED vars PROVE \A q \in Procs : Behind(q)'
  <2>1. CASE UNCHANGED <<start, cgen>>
    BY <1>6, <2>1
  <2>2. CASE \E p \in Procs : FlushCommits(p) \/ FlushKnown(p) \/ Boot(p) \/ Install(p)
    <3>1. PICK p \in Procs : FlushCommits(p) \/ FlushKnown(p) \/ Boot(p) \/ Install(p)
      BY <2>2
    <3>. QED BY <1>7, <3>1
  <2>3. UNCHANGED <<start, cgen>> \/ \E p \in Procs : FlushCommits(p) \/ FlushKnown(p) \/ Boot(p) \/ Install(p)
    BY <1>8, <1>9, <1>10 DEF Next, Flush
  <2>. QED BY <2>1, <2>2, <2>3
<1>. QED BY <1>10

-----------------------------------------------------------------------------
(* The theorems *)

LEMMA StoreInit == Init => StoreInv
<1>. SUFFICES ASSUME Init PROVE StoreInv
  OBVIOUS
<1>1. /\ \A T : <<>> \in Seq(T)
      /\ Len(<<>>) = 0 /\ DOMAIN <<>> = {} /\ 0 \in Nat /\ 0 \in 0..3 /\ 0 \in 0..1
      /\ 0 \in 0..MaxBoots
  BY StoreAssumption
<1>2. MadeTrue
  BY <1>1 DEF Init, MadeTrue
<1>3. DiskTypes
  <2>1. db \in Rows
    BY <1>1 DEF Init, Rows
  <2>2. limbo \in Seq(Rows) /\ Len(limbo) \in 0..1 /\ files \in Seq(Entries) /\ aside \in Seq(Entries)
    BY <1>1 DEF Init
  <2>3. /\ start \in [Procs -> [log: Seq(Made), stage: 0..3]]
        /\ pc \in [Procs -> Seq(Made)] /\ pcRun \in [Procs -> Seq(Made)]
    BY <1>1 DEF Init
  <2>. QED BY <2>1, <2>2, <2>3 DEF DiskTypes
<1>4. FlagTypes
  <2>1. left \in Budgets
    BY StoreAssumption DEF Init, Budgets
  <2>. QED BY <1>1, <2>1 DEF Init, FlagTypes
<1>5. ASSUME NEW p \in Procs PROVE Phase(p)
  BY <1>1 DEF Init, Phase, Gen
<1>6. WritesTrue
  <2>1. Blank(db) /\ DOMAIN limbo = {} /\ DOMAIN files = {}
    BY <1>1 DEF Init, Blank
  <2>2. ASSUME NEW p \in Procs PROVE Behind(p)
    <3>1. ChangesIn(p, "talk", 0, 0) = <<>>
      BY <1>1, ChangesInNone
    <3>2. <<>> \o <<>> = <<>>
      BY <1>1, ConcatEmptySeq
    <3>3. Reach(p, cgen[p]) = <<>> /\ db.log = <<>>
      BY <3>1, <3>2 DEF Init, Reach
    <3>4. <<>> \in Seq(Nat)
      OBVIOUS
    <3>5. IsPrefix(<<>>, <<>>)
      BY <3>4, PrefixSelf
    <3>. QED BY <3>3, <3>5 DEF Behind
  <2>. QED BY <2>1, <2>2 DEF WritesTrue
<1>. QED BY <1>2, <1>3, <1>4, <1>5, <1>6 DEF StoreInv

LEMMA StoreStep == ASSUME StoreInv, [Next]_vars PROVE StoreInv'
<1>1. MadeTrue' /\ DiskTypes' /\ FlagTypes'
  BY MadeGrows, DiskKept, FlagsKept
<1>2. (\A p \in Procs : Phase(p))'
  BY PhaseKept DEF Procs
<1>3. WritesTrue'
  <2>1. /\ (RowTrue(db) \/ Blank(db))'
        /\ \A i \in DOMAIN limbo' : RowTrue(limbo[i])' /\ IsPrefix(db'.log, limbo'[i].log)
    BY RowsStayTrue
  <2>2. \A i \in DOMAIN files' : EntryTrue(files[i])'
    BY FilesStayTrue
  <2>3. \A p \in Procs : Behind(p)'
    BY PromisesKept
  <2>. QED BY <2>1, <2>2, <2>3 DEF WritesTrue, Procs
<1>. QED BY <1>1, <1>2, <1>3 DEF StoreInv

\* A row of the database holds what its last writer knew, a spill file what its process had left,
\* and what a process was told is committed is a prefix of the database: in every state of the write
\* queue, of any number of processes (doFlush, readSpill, replaySpillChannel).
THEOREM RowsAreTrue == Spec => []StoreInv
<1>. QED BY StoreInit, StoreStep, PTL DEF Spec

\* Every variable keeps to its type, the batches, the rows and the spill files included.
THEOREM TypesHold == Spec => []TypeOK
<1>1. StoreInv => TypeOK
  <2>. SUFFICES ASSUME StoreInv PROVE TypeOK
    OBVIOUS
  <2>1. \A s \in Seq(Made) : ChangeSeq(s)
    <3>1. Made \subseteq Procs \X Nat
      BY MadeIs DEF StoreInv
    <3>2. Seq(Made) \subseteq Seq(Procs \X Nat)
      BY <3>1, SeqMonotonic
    <3>. QED BY <3>2 DEF ChangeSeq
  <2>2. \A d \in Rows : DbOK(d)
    BY <2>1 DEF Rows, DbOK
  <2>3. \A e \in Entries : EntryOK(e)
    BY <2>1 DEF Entries, EntryRecords, EntryOK
  <2>4. DbOK(db) /\ Len(limbo) \in 0..1 /\ \A i \in DOMAIN limbo : DbOK(limbo[i])
    <3>1. db \in Rows /\ limbo \in Seq(Rows) /\ Len(limbo) \in 0..1
      BY DEF StoreInv, DiskTypes
    <3>2. \A i \in DOMAIN limbo : limbo[i] \in Rows
      BY <3>1
    <3>. QED BY <2>2, <3>1, <3>2
  <2>5. \A e \in Range(files) \cup Range(aside) : EntryOK(e)
    <3>1. files \in Seq(Entries) /\ aside \in Seq(Entries)
      BY DEF StoreInv, DiskTypes
    <3>2. (\A i \in DOMAIN files : files[i] \in Entries) /\ \A i \in DOMAIN aside : aside[i] \in Entries
      BY <3>1
    <3>. QED BY <2>3, <3>2 DEF Range
  <2>6. ASSUME NEW p \in Procs
        PROVE  /\ ChangeSeq(start[p].log) /\ start[p].stage \in 0..3
               /\ cgen[p] \in 0..Gen(p) /\ fly[p] \in {0} \cup (cgen[p] + 1)..Gen(p)
               /\ ChangeSeq(pc[p]) /\ ChangeSeq(pcRun[p]) /\ todo[p] \in 0..Len(files)
    <3>1. ChangeSeq(start[p].log) /\ start[p].stage \in 0..3 /\ ChangeSeq(pc[p]) /\ ChangeSeq(pcRun[p])
      BY <2>1 DEF StoreInv, DiskTypes
    <3>2. cgen[p] \in Nat /\ fly[p] \in Nat /\ todo[p] \in Nat /\ Gen(p) \in Nat
      BY QueuedIs DEF StoreInv, FlagTypes
    <3>3. /\ cgen[p] <= Gen(p) /\ (fly[p] # 0 => cgen[p] < fly[p] /\ fly[p] <= Gen(p)) /\ todo[p] <= Len(files)
      BY DEF StoreInv, Phase
    <3>4. Len(files) \in Nat
      BY DEF StoreInv, DiskTypes
    <3>. QED BY <3>1, <3>2, <3>3, <3>4
  <2>7. left.faults \in [FaultKinds -> Nat]
    BY DEF StoreInv, FlagTypes, Budgets
  <2>8. /\ lock \in 0..MaxBoots /\ life \in [Procs -> {"off", "boot", "up", "closed"} \cup Over]
        /\ {taken, clash, dead, sick, reload} \subseteq [Procs -> BOOLEAN]
        /\ run \in [Procs -> {"idle", "sent", "backoff"}] /\ at \in [Procs -> {"read", "delete", "aside"}]
    BY DEF StoreInv, FlagTypes
  <2>. QED BY <2>4, <2>5, <2>6, <2>7, <2>8 DEF TypeOK
<1>. QED BY <1>1, RowsAreTrue, PTL

\* What a row that lands holds beyond the database was written by a process that knew all of the
\* database's messages.
LEMMA LandsBehind ==
    ASSUME StoreInv, NEW d, Lands(d)
    PROVE  IsPrefix(db.log, Reach(d.flush[1], Gen(d.flush[1])))
<1>1. PICK p : p = d.flush[1]
  OBVIOUS
<1>2. PICK n : n = d.flush[2]
  OBVIOUS
<1>3. PICK g : g = IF n = 0 THEN Gen(p) ELSE n
  OBVIOUS
<1>4. /\ p \in Procs /\ n <= Gen(p) /\ n \in Nat /\ d.log = Reach(p, g) /\ IsPrefix(db.log, d.log)
      /\ d.log \in Seq(Made) /\ db.log \in Seq(Made)
  BY <1>1, <1>2, <1>3 DEF Lands, RowTrue, WriterGen, Rows, StoreInv, DiskTypes
<1>5. MadeTrue /\ Logs /\ Gen(p) \in Nat /\ Gen(p) \in 0..Gen(p) /\ g \in Nat /\ g <= Gen(p)
  <2>1. MadeTrue /\ Logs
    BY DEF StoreInv, DiskTypes, Logs
  <2>2. Gen(p) \in Nat
    BY <1>4, <2>1, MadeIs
  <2>. QED BY <1>3, <1>4, <2>1, <2>2
<1>6. Reach(p, Gen(p)) \in Seq(Made) /\ IsPrefix(Reach(p, g), Reach(p, Gen(p)))
  BY <1>4, <1>5, ReachIs
<1>7. IsPrefix(db.log, Reach(p, Gen(p)))
  BY <1>4, <1>6, PrefixTrans
<1>. QED BY <1>1, <1>7

\* A process appends only behind messages it knows: no answer lands after one its writer never saw,
\* whatever COMMIT is cut, file replayed or second process writes (StoreConflictError and the check of
\* last_seq in doFlush; replaySpillChannel's).
THEOREM NoForeignTailHolds == Spec => NoForeignTail
<1>. DEFINE Tail1 == db'.log # db.log =>
                     LET p == db'.flush[1] IN IsPrefix(db.log, start[p].log \o ChangesIn(p, "talk", 0, Gen(p)))
<1>1. StoreInv /\ [Next]_vars => Tail1
  <2>. SUFFICES ASSUME StoreInv, [Next]_vars, db'.log # db.log PROVE Tail1
    OBVIOUS
  <2>1. PICK e : e = db'
    OBVIOUS
  <2>2. Lands(e)
    BY <2>1, DbStepsAre DEF DbSteps, SameTail
  <2>3. IsPrefix(db.log, Reach(e.flush[1], Gen(e.flush[1])))
    BY <2>2, LandsBehind
  <2>. QED BY <2>1, <2>3 DEF Reach
<1>2. StoreInv /\ [Next]_vars => [Tail1]_vars
  BY <1>1
<1>. QED BY <1>2, RowsAreTrue, PTL DEF Spec, NoForeignTail

-----------------------------------------------------------------------------
(* The messages of a conversation are one log *)

\* What a process preloads is of others, and nothing is in it twice.
Preloads ==
    \A p \in Procs : IsInjective(start[p].log) /\ \A i \in DOMAIN start[p].log : start[p].log[i][1] # p

LEMMA ChangesInOnce ==
    ASSUME NEW p, NEW kind, NEW a \in Nat, NEW b \in Nat, NEW C, C = ChangesIn(p, kind, a, b)
    PROVE  /\ IsInjective(C) /\ \A i \in DOMAIN C : C[i][1] = p
           /\ \A i \in Those(p, kind, a, b) : \E j \in DOMAIN C : C[j] = <<p, i>>
<1>1. PICK S : S = Those(p, kind, a, b)
  OBVIOUS
<1>2. PICK I : I = InSequence(S)
  OBVIOUS
<1>3. I \in Seq(S) /\ IsInjective(I) /\ Range(I) = S
  <2>1. S \subseteq Nat /\ IsFiniteSet(S)
    BY <1>1, ThoseAre
  <2>. QED BY <1>2, <2>1, InSequenceAll
<1>4. C = [j \in DOMAIN I |-> <<p, I[j]>>]
  BY <1>1, <1>2 DEF ChangesIn
<1>5. DOMAIN C = DOMAIN I /\ \A j \in DOMAIN I : C[j] = <<p, I[j]>>
  BY <1>4
<1>6. IsInjective(C) /\ \A i \in DOMAIN C : C[i][1] = p
  BY <1>3, <1>5 DEF IsInjective
<1>7. \A i \in S : \E j \in DOMAIN I : I[j] = i
  BY <1>3 DEF Range
<1>. QED BY <1>1, <1>5, <1>6, <1>7

LEMMA ConcatOnce ==
    ASSUME NEW T, NEW s \in Seq(T), NEW t \in Seq(T), NEW r, r = s \o t, IsInjective(s), IsInjective(t),
           \A i \in DOMAIN s : \A j \in DOMAIN t : s[i] # t[j]
    PROVE  IsInjective(r)
<1>1. /\ r \in Seq(T) /\ Len(r) = Len(s) + Len(t) /\ Len(s) \in Nat /\ Len(t) \in Nat
      /\ (\A i \in 1..Len(s) : r[i] = s[i]) /\ \A i \in 1..Len(t) : r[Len(s) + i] = t[i]
  BY ConcatAt
<1>2. DOMAIN s = 1..Len(s) /\ DOMAIN t = 1..Len(t) /\ DOMAIN r = 1 .. Len(s) + Len(t)
  BY <1>1
<1>3. \A i \in DOMAIN r : i \in 1..Len(s) \/ (i - Len(s) \in 1..Len(t) /\ Len(s) + (i - Len(s)) = i)
  BY <1>1, <1>2
<1>4. ASSUME NEW i \in DOMAIN r, NEW j \in DOMAIN r, r[i] = r[j] PROVE i = j
  <2>1. CASE i \in 1..Len(s) /\ j \in 1..Len(s)
    BY <1>1, <1>2, <1>4, <2>1 DEF IsInjective
  <2>2. CASE i \in 1..Len(s) /\ j \notin 1..Len(s)
    <3>1. r[i] = s[i] /\ j - Len(s) \in 1..Len(t) /\ r[j] = t[j - Len(s)]
      BY <1>1, <1>3, <2>2
    <3>. QED BY <1>2, <1>4, <2>2, <3>1
  <2>3. CASE i \notin 1..Len(s) /\ j \in 1..Len(s)
    <3>1. r[j] = s[j] /\ i - Len(s) \in 1..Len(t) /\ r[i] = t[i - Len(s)]
      BY <1>1, <1>3, <2>3
    <3>. QED BY <1>2, <1>4, <2>3, <3>1
  <2>4. CASE i \notin 1..Len(s) /\ j \notin 1..Len(s)
    <3>1. /\ i - Len(s) \in 1..Len(t) /\ r[i] = t[i - Len(s)] /\ j - Len(s) \in 1..Len(t) /\ r[j] = t[j - Len(s)]
      BY <1>1, <1>3, <2>4
    <3>2. i - Len(s) = j - Len(s)
      BY <1>2, <1>4, <3>1 DEF IsInjective
    <3>3. i \in Int /\ j \in Int
      BY <1>1, <1>2
    <3>. QED BY <1>1, <3>2, <3>3
  <2>. QED BY <2>1, <2>2, <2>3, <2>4
<1>. QED BY <1>4 DEF IsInjective

\* Nothing is in the conversation twice.
LEMMA RowOnce ==
    ASSUME StoreInv, Preloads, NEW d \in Rows, RowTrue(d) \/ Blank(d)
    PROVE  IsInjective(d.log)
<1>1. CASE Blank(d)
  <2>1. d.log = <<>> /\ DOMAIN <<>> = {}
    BY <1>1 DEF Blank
  <2>. QED BY <2>1 DEF IsInjective
<1>2. CASE RowTrue(d)
  <2>1. PICK p : p = d.flush[1]
    OBVIOUS
  <2>2. PICK g : g = WriterGen(d.flush)
    OBVIOUS
  <2>3. p \in Procs /\ d.log = Reach(p, g) /\ g \in 0..Gen(p) /\ g \in Nat /\ MadeTrue
    <3>1. p \in Procs /\ d.log = Reach(p, g) /\ d.flush[2] <= Gen(p)
      BY <1>2, <2>1, <2>2 DEF RowTrue
    <3>2. d.flush[2] \in Nat /\ MadeTrue
      BY DEF Rows, StoreInv
    <3>3. Gen(p) \in Nat
      BY <3>1, QueuedIs
    <3>. QED BY <2>1, <2>2, <3>1, <3>2, <3>3 DEF WriterGen
  <2>4. PICK s : s = start[p].log
    OBVIOUS
  <2>5. PICK c : c = ChangesIn(p, "talk", 0, g)
    OBVIOUS
  <2>6. s \in Seq(Made) /\ IsInjective(s) /\ \A i \in DOMAIN s : s[i][1] # p
    BY <2>3, <2>4 DEF Preloads, StoreInv, DiskTypes
  <2>7. c \in Seq(Made) /\ IsInjective(c) /\ \A i \in DOMAIN c : c[i][1] = p
    <3>1. c \in Seq(Made)
      BY <2>3, <2>5, ChangesInAre
    <3>. QED BY <2>3, <2>5, <3>1, ChangesInOnce
  <2>8. PICK r : r = s \o c
    OBVIOUS
  <2>9. \A i \in DOMAIN s : \A j \in DOMAIN c : s[i] # c[j]
    BY <2>6, <2>7
  <2>10. IsInjective(r)
    BY <2>6, <2>7, <2>8, <2>9, ConcatOnce
  <2>11. d.log = r
    BY <2>3, <2>4, <2>5, <2>8 DEF Reach
  <2>. QED BY <2>10, <2>11
<1>. QED BY <1>1, <1>2

LEMMA PreloadsKept == ASSUME StoreInv, Preloads, [Next]_vars PROVE Preloads'
<1>1. /\ DOMAIN start = Procs /\ MadeTrue /\ db.log \in Seq(Made) /\ IsInjective(db.log)
      /\ \A p \in Procs : life[p] \in Fresh => made[p] = <<>>
  <2>1. db \in Rows /\ (RowTrue(db) \/ Blank(db))
    BY DEF StoreInv, DiskTypes, WritesTrue
  <2>2. IsInjective(db.log)
    BY <2>1, RowOnce
  <2>. QED BY <2>1, <2>2 DEF StoreInv, DiskTypes, Phase, Rows
<1>2. ASSUME NEW p \in Procs, life[p] \in Fresh PROVE \A i \in DOMAIN db.log : db.log[i][1] # p
  <2>1. \A i \in DOMAIN db.log : db.log[i] \in Made
    BY <1>1
  <2>2. \A c \in Made : c[1] # p
    <3>1. SUFFICES ASSUME NEW c \in Made, c[1] = p PROVE FALSE
      OBVIOUS
    <3>2. PICK q \in Procs : \E i \in DOMAIN made[q] : c = <<q, i>>
      BY DEF Made, ChangesOf
    <3>3. PICK i \in DOMAIN made[p] : c = <<p, i>>
      BY <3>1, <3>2
    <3>4. DOMAIN made[p] = {}
      BY <1>1, <1>2
    <3>. QED BY <3>3, <3>4
  <2>. QED BY <2>1, <2>2
<1>3. start' = start => Preloads'
  BY DEF Preloads, Procs
<1>4. ASSUME NEW p \in Procs, Boot(p) \/ Install(p) PROVE Preloads'
  <2>1. life[p] \in Fresh /\ (start' = start \/ start' = [start EXCEPT ![p] = Preloaded])
    BY <1>4 DEF Boot, Install, Fresh
  <2>2. CASE start' = [start EXCEPT ![p] = Preloaded]
    <3>1. \A q \in Procs : start'[q].log = IF q = p THEN db.log ELSE start[q].log
      BY <1>1, <2>2 DEF Preloaded
    <3>2. \A q \in Procs : IsInjective(start'[q].log) /\ \A i \in DOMAIN start'[q].log : start'[q].log[i][1] # q
      <4>1. TAKE q \in Procs
      <4>2. CASE q = p
        BY <1>1, <1>2, <2>1, <3>1, <4>2
      <4>3. CASE q # p
        <5>1. start'[q].log = start[q].log
          BY <3>1, <4>3
        <5>. QED BY <5>1 DEF Preloads
      <4>. QED BY <4>2, <4>3
    <3>. QED BY <3>2 DEF Preloads, Procs
  <2>. QED BY <1>3, <2>1, <2>2
<1>5. ASSUME NEW p \in Procs PROVE
        /\ (\E kind \in left.kinds : Change(p, kind)) => start' = start
        /\ Poison(p) \/ Kick(p) \/ Flush(p) \/ FlushFails(p) \/ Retry(p) \/ Channel(p) => start' = start
        /\ OnLockLost(p) \/ ReacquireOnce(p) \/ Close(p) \/ Exit(p) \/ Crash(p) => start' = start
        /\ Replay(p) \/ ReplayFails(p) \/ FileDone(p) => start' = start
  BY DEF Change, Poison, Kick, Flush, FlushCommits, FlushKnown, AfterCommit, FlushConflicts, FlushFails, FlushCut,
         FlushRejected, Retry, Channel, PumpPoisoned, PoisonedWritten, PoisonedCut, OnLockLost, ReacquireOnce, Close,
         Exit, Crash, Leave, Replay, ReplayApplies, ReplaySkips, ReplayedTo, ReplayConflicts, ReplayFails, ReplayCut,
         ReplayRejected, Refuse, FileDone, bootVars
<1>6. LimboEnds \/ UNCHANGED vars => start' = start
  BY DEF LimboEnds, vars, bootVars
<1>. QED BY <1>3, <1>4, <1>5, <1>6 DEF Next

\* What processes were told of only grows.
LEMMA TellsGrow == ASSUME StoreInv, [Next]_vars PROVE \A q \in Procs : cgen[q] <= cgen'[q]
<1>1. cgen \in [Procs -> Nat] /\ fly \in [Procs -> Nat]
      /\ \A p \in Procs : (fly[p] # 0 => cgen[p] < fly[p]) /\ (run[p] = "sent" => fly[p] # 0)
  BY DEF StoreInv, FlagTypes, Phase
<1>2. cgen' = cgen => \A q \in Procs : cgen[q] <= cgen'[q]
  BY <1>1
<1>3. ASSUME NEW p \in Procs, FlushCommits(p) \/ FlushKnown(p), NEW q \in Procs PROVE cgen[q] <= cgen'[q]
  <2>1. run[p] = "sent" /\ cgen' = [cgen EXCEPT ![p] = fly[p]]
    BY <1>3 DEF FlushCommits, FlushKnown, Attempted, AfterCommit
  <2>. QED BY <1>1, <2>1
<1>4. ASSUME NEW p \in Procs PROVE
        /\ (\E kind \in left.kinds : Change(p, kind)) => cgen' = cgen
        /\ Poison(p) \/ Kick(p) \/ FlushConflicts(p) \/ FlushFails(p) \/ Retry(p) \/ Channel(p) => cgen' = cgen
        /\ OnLockLost(p) \/ ReacquireOnce(p) \/ Close(p) \/ Exit(p) \/ Crash(p) => cgen' = cgen
        /\ Boot(p) \/ Replay(p) \/ ReplayFails(p) \/ FileDone(p) \/ Install(p) => cgen' = cgen
  BY DEF Change, Poison, Kick, FlushConflicts, FlushFails, FlushCut, FlushRejected, Retry, Channel, PumpPoisoned,
         PoisonedWritten, PoisonedCut, OnLockLost, ReacquireOnce, Close, Exit, Crash, Leave, Boot, Replay,
         ReplayApplies, ReplaySkips, ReplayedTo, ReplayConflicts, ReplayFails, ReplayCut, ReplayRejected, Refuse,
         FileDone, Install, flushVars
<1>5. LimboEnds \/ UNCHANGED vars => cgen' = cgen
  BY DEF LimboEnds, vars, flushVars
<1>. QED BY <1>2, <1>3, <1>4, <1>5 DEF Next, Flush

\* The messages of the conversation, and those a process was told are committed.
toldTalk == {c \in Made : KindOf(c) = "talk" /\ c[2] <= cgen[c[1]]}
Messages == INSTANCE DurableLog WITH log <- db.log, side <- <<>>, told <- toldTalk

LEMMA LogOnce == StoreInv /\ Preloads => IsInjective(db.log)
<1>. SUFFICES ASSUME StoreInv, Preloads PROVE IsInjective(db.log)
  OBVIOUS
<1>1. db \in Rows /\ (RowTrue(db) \/ Blank(db))
  BY DEF StoreInv, DiskTypes, WritesTrue
<1>. QED BY <1>1, RowOnce

LEMMA ToldIsThere == StoreInv => toldTalk \subseteq Range(db.log)
<1>. SUFFICES ASSUME StoreInv, NEW c \in toldTalk PROVE c \in Range(db.log)
  OBVIOUS
<1>1. PICK p \in Procs : \E i \in DOMAIN made[p] : c = <<p, i>>
  BY DEF toldTalk, Made, ChangesOf
<1>2. PICK i \in DOMAIN made[p] : c = <<p, i>>
  BY <1>1
<1>3. PICK g : g = cgen[p]
  OBVIOUS
<1>4. /\ MadeTrue /\ i \in Nat \ {0} /\ i <= g /\ made[p][i].kind = "talk" /\ g \in 0..Gen(p) /\ g \in Nat
      /\ Behind(p) /\ start[p].log \in Seq(Made) /\ db.log \in Seq(Made)
  <2>1. MadeTrue /\ Behind(p) /\ start[p].log \in Seq(Made) /\ db.log \in Seq(Made)
    BY DEF StoreInv, WritesTrue, DiskTypes, Rows
  <2>2. g \in 0..Gen(p) /\ g \in Nat
    BY <1>3, QueuedIs
  <2>3. i \in Nat \ {0}
    <3>1. DOMAIN made[p] = 1..Gen(p) /\ Gen(p) \in Nat
      BY <2>1, MadeIs
    <3>. QED BY <3>1
  <2>4. i <= g /\ made[p][i].kind = "talk"
    BY <1>2, <1>3 DEF toldTalk, KindOf
  <2>. QED BY <2>1, <2>2, <2>3, <2>4
<1>5. PICK s : s = start[p].log
  OBVIOUS
<1>6. PICK t : t = ChangesIn(p, "talk", 0, g)
  OBVIOUS
<1>7. t \in Seq(Made) /\ s \in Seq(Made)
  BY <1>4, <1>5, <1>6, ChangesInAre
<1>8. i \in Those(p, "talk", 0, g)
  BY <1>4 DEF Those
<1>9. PICK j \in DOMAIN t : t[j] = c
  <2>1. 0 \in Nat /\ g \in Nat
    BY <1>4
  <2>2. PICK T : T = Those(p, "talk", 0, g)
    OBVIOUS
  <2>3. \A k \in T : \E j \in DOMAIN t : t[j] = <<p, k>>
    BY ONLY <1>6, <2>1, <2>2, ChangesInOnce
  <2>4. i \in T
    BY <1>8, <2>2
  <2>. QED BY ONLY <1>2, <2>3, <2>4
<1>10. PICK r : r = s \o t
  OBVIOUS
<1>11. IsPrefix(r, db.log) /\ r \in Seq(Made) /\ Len(r) = Len(s) + Len(t) /\ Len(s) \in Nat /\ Len(t) \in Nat
       /\ r[Len(s) + j] = c /\ j \in 1..Len(t)
  <2>1. j \in 1..Len(t)
    BY <1>7
  <2>2. /\ r \in Seq(Made) /\ Len(r) = Len(s) + Len(t) /\ Len(s) \in Nat /\ Len(t) \in Nat
        /\ \A k \in 1..Len(t) : r[Len(s) + k] = t[k]
    BY <1>7, <1>10, ConcatAt
  <2>3. IsPrefix(r, db.log)
    BY <1>3, <1>4, <1>5, <1>6, <1>10 DEF Behind, Reach
  <2>. QED BY <1>9, <2>1, <2>2, <2>3
<1>12. Len(s) + j \in 1..Len(r)
  BY <1>11
<1>13. Len(r) <= Len(db.log) /\ \A k \in 1..Len(r) : r[k] = db.log[k]
  <2>1. PICK l : l = db.log
    OBVIOUS
  <2>2. l \in Seq(Made) /\ r \in Seq(Made) /\ IsPrefix(r, l)
    BY <1>4, <1>11, <2>1
  <2>3. Len(r) <= Len(l) /\ \A k \in 1..Len(r) : r[k] = l[k]
    BY ONLY <2>2, Prefixes1
  <2>. QED BY <2>1, <2>3
<1>14. Len(s) + j \in DOMAIN db.log /\ db.log[Len(s) + j] = c
  <2>1. DOMAIN db.log = 1..Len(db.log) /\ Len(db.log) \in Nat
    BY <1>4
  <2>. QED BY <1>11, <1>12, <1>13, <2>1
<1>. QED BY <1>14 DEF Range

LEMMA ToldGrows == ASSUME StoreInv, [Next]_vars PROVE toldTalk \subseteq toldTalk'
<1>. SUFFICES ASSUME NEW c \in toldTalk PROVE c \in toldTalk'
  OBVIOUS
<1>1. PICK p \in Procs : \E i \in DOMAIN made[p] : c = <<p, i>>
  BY DEF toldTalk, Made, ChangesOf
<1>2. PICK i \in DOMAIN made[p] : c = <<p, i>>
  BY <1>1
<1>3. i \in 1..Len(made[p]) /\ i \in Nat
  <2>1. MadeTrue
    BY DEF StoreInv
  <2>2. DOMAIN made[p] = 1..Gen(p) /\ Gen(p) \in Nat
    BY <2>1, MadeIs
  <2>. QED BY <2>2 DEF Gen
<1>4. made'[p][i] = made[p][i] /\ c \in Made' /\ cgen[p] <= cgen'[p]
  BY <1>3, MadeGrows, TellsGrow DEF toldTalk
<1>5. made[p][i].kind = "talk" /\ i <= cgen[p]
  BY <1>2 DEF toldTalk, KindOf
<1>6. cgen[p] \in Nat /\ cgen'[p] \in Nat
  <2>1. FlagTypes /\ FlagTypes'
    BY FlagsKept DEF StoreInv
  <2>. QED BY <2>1 DEF FlagTypes, Procs
<1>7. i <= cgen'[p]
  BY <1>3, <1>4, <1>5, <1>6
<1>8. c[1] = p /\ c[2] = i
  BY <1>2
<1>9. KindOf(c)' = "talk" /\ c[2] <= cgen'[c[1]]
  BY <1>4, <1>5, <1>7, <1>8 DEF KindOf
<1>. QED BY <1>4, <1>9 DEF toldTalk

\* The messages of the conversation implement the abstract log, with any number of writers, cuts,
\* crashes and replays: only appended to, none twice, and those a process was told of stay.
THEOREM MessagesAreOneLog == Spec => Messages!Spec
<1>1. Init => Preloads /\ Messages!Init
  <2>. SUFFICES ASSUME Init PROVE Preloads /\ Messages!Init
    OBVIOUS
  <2>1. Preloads
    <3>1. DOMAIN <<>> = {}
      OBVIOUS
    <3>. QED BY <3>1 DEF Init, Preloads, IsInjective
  <2>2. toldTalk = {}
    <3>1. DOMAIN <<>> = {}
      OBVIOUS
    <3>. QED BY <3>1 DEF Init, toldTalk, Made, ChangesOf
  <2>. QED BY <2>1, <2>2 DEF Init, Messages!Init
<1>2. StoreInv /\ Preloads /\ [Next]_vars => Preloads' /\ [Messages!Next]_<<db.log, <<>>, toldTalk>>
  <2>. SUFFICES ASSUME StoreInv, Preloads, [Next]_vars PROVE Preloads' /\ Messages!Next
    OBVIOUS
  <2>1. Preloads' /\ StoreInv'
    BY PreloadsKept, StoreStep
  <2>2. IsPrefix(db.log, db'.log)
    BY RowsStayTrue
  <2>3. PICK l : l = db'.log
    OBVIOUS
  <2>4. l \in Seq(Made)
    BY <2>3, RowsStayTrue
  <2>5. l \o <<>> = l
    BY <2>4, ConcatEmptySeq
  <2>6. IsInjective(db.log)' /\ (toldTalk \subseteq Range(db.log))'
    BY <2>1, LogOnce, ToldIsThere, PTL
  <2>7. IsPrefix(<<>>, <<>>)
    <3>1. <<>> \in Seq(Nat)
      OBVIOUS
    <3>. QED BY <3>1, PrefixSelf
  <2>8. toldTalk \subseteq toldTalk'
    BY ToldGrows
  <2>9. Messages!Rows(l, <<>>) = Range(l)
    <3>1. DOMAIN <<>> = {}
      OBVIOUS
    <3>2. Range(<<>>) = {}
      BY <3>1 DEF Range
    <3>. QED BY <3>2 DEF Messages!Rows, Messages!Range, Range
  <2>10. IsInjective(l) /\ toldTalk' \subseteq Range(l)
    BY <2>3, <2>6 DEF IsInjective, Range
  <2>11. /\ \A s, t : Messages!IsPrefix(s, t) <=> IsPrefix(s, t)
         /\ \A s : Messages!IsInjective(s) <=> IsInjective(s)
    BY DEF Messages!IsPrefix, IsPrefix, Messages!IsInjective, IsInjective
  <2>12. Messages!Next
    <3>1. Messages!IsPrefix(db.log, db'.log) /\ Messages!IsPrefix(<<>>, <<>>) /\ Messages!IsInjective(l \o <<>>)
      BY <2>2, <2>5, <2>7, <2>10, <2>11
    <3>2. toldTalk' \subseteq Messages!Rows(db'.log, <<>>)
      BY <2>3, <2>9, <2>10
    <3>. QED BY <2>3, <2>8, <3>1, <3>2 DEF Messages!Next
  <2>. QED BY <2>1, <2>12
<1>. QED BY <1>1, <1>2, RowsAreTrue, PTL DEF Spec, Messages!Spec
=============================================================================
