----------------------------- MODULE StoreKept -----------------------------
(***************************************************************************)
(* Theorems about what SessionStore keeps: nothing a process recorded      *)
(* vanishes; messages and side rows are one log; what a process that       *)
(* stopped in order knew, the next ones know; and processes that stop in   *)
(* order never come to disagree with the database.  For any number of      *)
(* processes and changes, under hypotheses on the plan each theorem names. *)
(***************************************************************************)
EXTENDS StoreProofs

-----------------------------------------------------------------------------
(* What inbox states make of a stage *)

\* Changes that agree make the same of a stage.
LEMMA StagesAgree ==
    ASSUME NEW m, NEW k, NEW T, NEW stage \in 0..3, NEW steps \in Seq(T),
           \A c \in T : ToOf(m, c) \in 0..3 /\ ToOf(k, c) = ToOf(m, c)
    PROVE  Applied(k, stage, steps) = Applied(m, stage, steps)
<1>1. PICK f : Stages(m, f, stage, steps)
  BY StagesAre
<1>2. PICK g : Stages(k, g, stage, steps)
  BY StagesAre
<1>3. PICK L \in Nat : L = Len(steps) /\ \A n \in 1..L : steps[n] \in T
  OBVIOUS
<1>. DEFINE S == {n \in 0..L : f[n] = g[n]}
<1>4. 0 \in S
  BY <1>1, <1>2, <1>3 DEF Stages
<1>5. ASSUME NEW n \in 1..L, n - 1 \in S PROVE n \in S
  <2>1. ToOf(k, steps[n]) = ToOf(m, steps[n])
    BY <1>3
  <2>2. f[n] = InboxMoved(f[n - 1], ToOf(m, steps[n])) /\ g[n] = InboxMoved(g[n - 1], ToOf(k, steps[n]))
    BY <1>1, <1>2, <1>3 DEF Stages
  <2>. QED BY <1>3, <1>5, <2>1, <2>2
<1>. HIDE DEF S
<1>6. \A n \in 0..L : n \in S
  BY <1>3, <1>4, <1>5, OneToNext
<1>7. L \in S
  BY <1>3, <1>6
<1>. QED BY <1>1, <1>2, <1>3, <1>7 DEF S, Stages

\* Inbox states never lower a stage, and make no less of a later one.
LEMMA StagesRise ==
    ASSUME MadeTrue, NEW low \in 0..3, NEW high \in 0..3, low <= high, NEW steps \in Seq(Made)
    PROVE  /\ ApplyInboxStates(low, steps) <= ApplyInboxStates(high, steps)
           /\ high <= ApplyInboxStates(high, steps)
<1>1. PICK f : Stages(made, f, low, steps)
  BY StageTables
<1>2. PICK g : Stages(made, g, high, steps)
  BY StageTables
<1>3. PICK L \in Nat : L = Len(steps) /\ \A n \in 1..L : ToOf(made, steps[n]) \in 0..3
  BY StageTables
<1>. DEFINE S == {n \in 0..L : f[n] <= g[n] /\ high <= g[n]}
<1>4. 0 \in S
  BY <1>1, <1>2, <1>3 DEF Stages
<1>5. ASSUME NEW n \in 1..L, n - 1 \in S PROVE n \in S
  <2>1. PICK t \in 0..3 : t = ToOf(made, steps[n])
    BY <1>3
  <2>2. f[n] = InboxMoved(f[n - 1], t) /\ g[n] = InboxMoved(g[n - 1], t)
    BY <1>1, <1>2, <1>3, <2>1 DEF Stages
  <2>3. n - 1 \in 0..L /\ f[n - 1] <= g[n - 1] /\ high <= g[n - 1]
    BY <1>5
  <2>4. f[n - 1] \in 0..3 /\ g[n - 1] \in 0..3
    BY <1>1, <1>2, <1>3, <2>3 DEF Stages
  <2>5. f[n] <= g[n] /\ high <= g[n]
    BY <2>1, <2>2, <2>3, <2>4 DEF InboxMoved
  <2>. QED BY <1>3, <2>5
<1>. HIDE DEF S
<1>6. \A n \in 0..L : n \in S
  BY <1>3, <1>4, <1>5, OneToNext
<1>7. L \in S
  BY <1>3, <1>6
<1>8. f[L] <= g[L] /\ high <= g[L]
  BY <1>7 DEF S
<1>9. ApplyInboxStates(low, steps) = f[L] /\ ApplyInboxStates(high, steps) = g[L]
  BY <1>1, <1>2, <1>3, StageTables DEF Stages
<1>. QED BY <1>8, <1>9

\* Inbox states one after the other, or in two batches.
LEMMA StagesJoin ==
    ASSUME MadeTrue, NEW stage \in 0..3, NEW s \in Seq(Made), NEW t \in Seq(Made)
    PROVE  ApplyInboxStates(stage, s \o t) = ApplyInboxStates(ApplyInboxStates(stage, s), t)
<1>0. PICK r : r = s \o t
  OBVIOUS
<1>1. /\ r \in Seq(Made) /\ Len(r) = Len(s) + Len(t)
      /\ \A i \in 1..Len(s) : r[i] = s[i]
      /\ \A i \in 1..Len(t) : r[Len(s) + i] = t[i]
  BY <1>0, ConcatAt
<1>2. PICK f : Stages(made, f, stage, r)
  BY <1>1, StageTables
<1>3. PICK g : Stages(made, g, stage, s)
  BY StageTables
<1>4. PICK mid \in 0..3 : mid = ApplyInboxStates(stage, s)
  BY StageIn
<1>5. PICK h : Stages(made, h, mid, t)
  BY StageTables
<1>6. PICK L \in Nat : L = Len(s)
  BY StageTables
<1>7. PICK M \in Nat : M = Len(t)
  BY StageTables
<1>8. \A n \in 0..L : f[n] = g[n]
  <2>. DEFINE S == {n \in 0..L : f[n] = g[n]}
  <2>1. 0 \in S
    BY <1>2, <1>3, <1>6 DEF Stages
  <2>2. ASSUME NEW n \in 1..L, n - 1 \in S PROVE n \in S
    <3>1. n \in 1..Len(r) /\ r[n] = s[n]
      BY <1>1, <1>6, <1>7
    <3>2. f[n] = InboxMoved(f[n - 1], ToOf(made, r[n])) /\ g[n] = InboxMoved(g[n - 1], ToOf(made, s[n]))
      BY <1>2, <1>3, <1>6, <3>1 DEF Stages
    <3>. QED BY <2>2, <3>1, <3>2
  <2>. HIDE DEF S
  <2>3. \A n \in 0..L : n \in S
    BY <1>6, <2>1, <2>2, OneToNext
  <2>. QED BY <2>3 DEF S
<1>9. f[L] = mid
  <2>1. ApplyInboxStates(stage, s) = g[L]
    BY <1>3, <1>6, StageTables DEF Stages
  <2>. QED BY <1>4, <1>6, <1>8, <2>1
<1>10. \A n \in 0..M : f[L + n] = h[n]
  <2>. DEFINE S == {n \in 0..M : f[L + n] = h[n]}
  <2>1. 0 \in S
    BY <1>5, <1>6, <1>7, <1>9 DEF Stages
  <2>2. ASSUME NEW n \in 1..M, n - 1 \in S PROVE n \in S
    <3>1. L + n \in 1..Len(r) /\ r[L + n] = t[n] /\ (L + n) - 1 = L + (n - 1)
      BY <1>1, <1>6, <1>7
    <3>2. f[L + n] = InboxMoved(f[(L + n) - 1], ToOf(made, r[L + n])) /\ h[n] = InboxMoved(h[n - 1], ToOf(made, t[n]))
      BY <1>2, <1>5, <1>7, <3>1 DEF Stages
    <3>. QED BY <2>2, <3>1, <3>2
  <2>. HIDE DEF S
  <2>3. \A n \in 0..M : n \in S
    BY <1>7, <2>1, <2>2, OneToNext
  <2>. QED BY <2>3 DEF S
<1>11. f[L + M] = h[M]
  BY <1>7, <1>10
<1>12. ApplyInboxStates(stage, r) = f[Len(r)] /\ Len(r) = L + M
  BY <1>1, <1>2, <1>6, <1>7, StageTables DEF Stages
<1>13. ApplyInboxStates(mid, t) = h[M]
  BY <1>5, <1>7, StageTables DEF Stages
<1>. QED BY <1>0, <1>4, <1>11, <1>12, <1>13

To(c) == made[c[1]][c[2]].to

LEMMA StageOne ==
    ASSUME MadeTrue, NEW stage \in 0..3, NEW c \in Made
    PROVE  ApplyInboxStates(stage, <<c>>) = InboxMoved(stage, To(c))
<1>0. <<c>> \in Seq(Made) /\ Len(<<c>>) = 1 /\ <<c>>[1] = c
  OBVIOUS
<1>1. PICK s : s \in Seq(Made) /\ s = <<c>> /\ Len(s) = 1 /\ s[1] = c
  BY <1>0
<1>2. PICK f : Stages(made, f, stage, s)
  BY <1>1, StageTables
<1>3. f[1] = InboxMoved(f[0], To(c)) /\ f[0] = stage
  <2>1. 1 \in 1..Len(s) /\ 1 - 1 = 0
    BY <1>1
  <2>2. f[1] = InboxMoved(f[1 - 1], ToOf(made, s[1])) /\ f[0] = stage
    BY <1>2, <2>1 DEF Stages
  <2>. QED BY <1>1, <2>1, <2>2 DEF To, ToOf
<1>4. ApplyInboxStates(stage, s) = f[1]
  <2>1. ApplyInboxStates(stage, s) = f[Len(s)]
    BY <1>1, <1>2, StageTables DEF Stages
  <2>. QED BY <1>1, <2>1
<1>. QED BY <1>1, <1>3, <1>4

LEMMA StageNone ==
    ASSUME MadeTrue, NEW stage \in 0..3
    PROVE  ApplyInboxStates(stage, <<>>) = stage
<1>0. <<>> \in Seq(Made) /\ Len(<<>>) = 0
  OBVIOUS
<1>1. PICK s : s \in Seq(Made) /\ s = <<>> /\ Len(s) = 0
  BY <1>0
<1>2. PICK f : Stages(made, f, stage, s)
  BY <1>1, StageTables
<1>3. ApplyInboxStates(stage, s) = f[0]
  <2>1. ApplyInboxStates(stage, s) = f[Len(s)]
    BY <1>1, <1>2, StageTables DEF Stages
  <2>. QED BY <1>1, <2>1
<1>. QED BY <1>1, <1>2, <1>3 DEF Stages

-----------------------------------------------------------------------------
(* The stage a process holds in memory *)

LEMMA ChangesInHas ==
    ASSUME NEW p, NEW kind, NEW a \in Nat, NEW b \in Nat, NEW c
    PROVE  c \in Range(ChangesIn(p, kind, a, b)) <=>
               \E i \in (a + 1)..b : c = <<p, i>> /\ made[p][i].kind = kind
<1>1. PICK S : S = Those(p, kind, a, b)
  OBVIOUS
<1>2. PICK I : I = InSequence(S)
  OBVIOUS
<1>3. PICK C : C = ChangesIn(p, kind, a, b)
  OBVIOUS
<1>4. I \in Seq(S) /\ C = Marked(p, I)
  BY <1>1, <1>2, <1>3, ThoseAre
<1>5. \A i \in S : \E j \in DOMAIN C : C[j] = <<p, i>>
  BY <1>1, <1>3, ChangesInOnce
<1>6. DOMAIN C = 1..Len(I) /\ \A j \in 1..Len(I) : C[j] = <<p, I[j]>> /\ I[j] \in S
  BY <1>4 DEF Marked
<1>7. c \in Range(C) <=> \E i \in S : c = <<p, i>>
  BY <1>5, <1>6 DEF Range
<1>. QED BY <1>1, <1>3, <1>7 DEF Those

\* One change more.
LEMMA ChangesInLast ==
    ASSUME NEW p, NEW kind, NEW g \in Nat
    PROVE  /\ made[p][g + 1].kind = kind => ChangesIn(p, kind, g, g + 1) = << <<p, g + 1>> >>
           /\ made[p][g + 1].kind # kind => ChangesIn(p, kind, g, g + 1) = <<>>
<1>0. PICK h \in Nat : h = g + 1
  OBVIOUS
<1>1. PICK S : S = Those(p, kind, g, h)
  OBVIOUS
<1>2. PICK I : I = InSequence(S)
  OBVIOUS
<1>3. PICK C : C = ChangesIn(p, kind, g, h)
  OBVIOUS
<1>4. I \in Seq(S) /\ C = Marked(p, I)
  BY <1>1, <1>2, <1>3, ThoseAre
<1>5. /\ \A i \in S : \E j \in DOMAIN C : C[j] = <<p, i>>
      /\ IsInjective(C)
  <2>1. \A i \in Those(p, kind, g, h) : \E j \in DOMAIN C : C[j] = <<p, i>>
    BY ONLY g \in Nat, h \in Nat, <1>3, ChangesInOnce
  <2>2. IsInjective(C)
    BY ONLY g \in Nat, h \in Nat, <1>3, ChangesInOnce
  <2>. QED BY <1>1, <2>1, <2>2
<1>6. C = [j \in 1..Len(I) |-> <<p, I[j]>>] /\ Len(I) \in Nat /\ \A j \in 1..Len(I) : I[j] \in S
  BY <1>4 DEF Marked
<1>7. (g + 1)..(g + 1) = {g + 1}
  OBVIOUS
<1>8. CASE made[p][g + 1].kind = kind
  <2>1. S = {g + 1}
    BY <1>0, <1>1, <1>7, <1>8 DEF Those
  <2>2. \A j \in 1..Len(I) : C[j] = <<p, g + 1>>
    BY <1>6, <2>1
  <2>3. DOMAIN C = 1..Len(I)
    BY <1>6
  <2>4. \A j, k \in 1..Len(I) : j = k
    BY <1>5, <2>2, <2>3 DEF IsInjective
  <2>5. Len(I) # 0
    BY <1>5, <2>1, <2>3
  <2>6. Len(I) = 1
    <3>1. 1 \in 1..Len(I) /\ Len(I) \in 1..Len(I)
      BY <1>6, <2>5
    <3>. QED BY <2>4, <3>1
  <2>7. C = [j \in 1..1 |-> <<p, g + 1>>]
    BY <1>6, <2>1, <2>6
  <2>8. C = << <<p, g + 1>> >>
    BY <2>7
  <2>. QED BY <1>0, <1>3, <1>8, <2>8
<1>9. CASE made[p][g + 1].kind # kind
  <2>1. S = {}
    BY <1>0, <1>1, <1>7, <1>9 DEF Those
  <2>2. Len(I) = 0
    BY <1>6, <2>1
  <2>3. C = <<>>
    BY <1>6, <2>2
  <2>. QED BY <1>0, <1>3, <1>9, <2>3
<1>. QED BY <1>8, <1>9

\* The stage p holds after its change g.
StageAt(p, g) == ApplyInboxStates(start[p].stage, ChangesIn(p, "step", 0, g))

LEMMA StageAtIs ==
    ASSUME MadeTrue, Logs, NEW p \in Procs, NEW a \in Nat, NEW b \in 0..Gen(p), a <= b
    PROVE  /\ StageAt(p, a) \in 0..3 /\ StageAt(p, b) \in 0..3 /\ StageAt(p, a) <= StageAt(p, b)
           /\ ChangesIn(p, "step", a, b) \in Seq(Made)
           /\ StageAt(p, b) = ApplyInboxStates(StageAt(p, a), ChangesIn(p, "step", a, b))
           /\ StageAt(p, 0) = start[p].stage
<1>1. Gen(p) \in Nat /\ a \in 0..Gen(p) /\ 0 \in Nat /\ b \in Nat /\ 0 <= a /\ start[p].stage \in 0..3
  BY MadeIs DEF Logs
<1>2. PICK s : s = ChangesIn(p, "step", 0, a)
  OBVIOUS
<1>3. PICK t : t = ChangesIn(p, "step", a, b)
  OBVIOUS
<1>4. PICK r : r = ChangesIn(p, "step", 0, b)
  OBVIOUS
<1>5. s \in Seq(Made) /\ t \in Seq(Made) /\ r \in Seq(Made)
  BY <1>1, <1>2, <1>3, <1>4, ChangesInAre
<1>6. r = s \o t
  BY <1>1, <1>2, <1>3, <1>4, ChangesInJoin
<1>7. PICK m \in 0..3 : m = ApplyInboxStates(start[p].stage, s)
  BY <1>1, <1>5, StageIn
<1>8. ApplyInboxStates(start[p].stage, r) = ApplyInboxStates(m, t)
  <2>1. PICK f : f \in 0..3 /\ f = start[p].stage
    BY <1>1
  <2>2. m = ApplyInboxStates(f, s)
    BY <1>7, <2>1
  <2>3. ApplyInboxStates(f, r) = ApplyInboxStates(m, t)
    BY ONLY MadeTrue, <1>5, <1>6, <2>1, <2>2, StagesJoin
  <2>. QED BY <2>1, <2>3
<1>9. ApplyInboxStates(m, t) \in 0..3 /\ m <= ApplyInboxStates(m, t)
  BY <1>5, StageIn, StagesRise
<1>10. ApplyInboxStates(start[p].stage, <<>>) = start[p].stage /\ ChangesIn(p, "step", 0, 0) = <<>>
  BY <1>1, StageNone, ChangesInNone
<1>. QED BY <1>2, <1>3, <1>4, <1>5, <1>7, <1>8, <1>9, <1>10 DEF StageAt

\* Changes that are queued get a stage that is no less than theirs was to theirs.
LEMMA StepsLand ==
    ASSUME MadeTrue, Logs, NEW p \in Procs, NEW a \in Nat, NEW b \in 0..Gen(p), a <= b,
           NEW d \in 0..3, StageAt(p, a) <= d
    PROVE  StageAt(p, b) <= ApplyInboxStates(d, ChangesIn(p, "step", a, b))
<1>1. PICK t : t = ChangesIn(p, "step", a, b)
  OBVIOUS
<1>2. PICK m \in 0..3 : m = StageAt(p, a)
  BY StageAtIs
<1>3. t \in Seq(Made) /\ StageAt(p, b) = ApplyInboxStates(m, t)
  BY <1>1, <1>2, StageAtIs
<1>4. ApplyInboxStates(m, t) <= ApplyInboxStates(d, t)
  BY <1>2, <1>3, StagesRise
<1>. QED BY <1>1, <1>3, <1>4

LEMMA StageNext ==
    ASSUME MadeTrue, Logs, NEW p \in Procs, NEW g \in 1..Gen(p), made[p][g].kind = "step"
    PROVE  StageAt(p, g) = InboxMoved(StageAt(p, g - 1), made[p][g].to)
<1>1. Gen(p) \in Nat /\ g - 1 \in Nat /\ g \in 0..Gen(p) /\ g - 1 <= g /\ (g - 1) + 1 = g /\ <<p, g>> \in Made
  BY MadeIs
<1>2. PICK m \in 0..3 : m = StageAt(p, g - 1)
  BY <1>1, StageAtIs
<1>3. StageAt(p, g) = ApplyInboxStates(m, ChangesIn(p, "step", g - 1, g))
  BY <1>1, <1>2, StageAtIs
<1>4. ChangesIn(p, "step", g - 1, g) = << <<p, g>> >>
  BY <1>1, ChangesInLast
<1>5. ApplyInboxStates(m, << <<p, g>> >>) = InboxMoved(m, To(<<p, g>>))
  BY <1>1, StageOne
<1>. QED BY <1>2, <1>3, <1>4, <1>5 DEF To

\* What a process held after its change g is settled.
LEMMA StageAtKept ==
    ASSUME MadeTrue, MadeTrue', Grows, Logs, NEW q \in Procs, life[q] \notin Fresh, NEW g \in 0..Gen(q)
    PROVE  StageAt(q, g)' = StageAt(q, g)
<1>1. PICK s : s = ChangesIn(q, "step", 0, g)
  OBVIOUS
<1>2. s \in Seq(Made) /\ Gen(q) \in Nat
  BY <1>1, MadeIs, ChangesInAre
<1>3. ChangesIn(q, "step", 0, g)' = s
  BY <1>1, ReachKept
<1>4. start'[q].stage = start[q].stage /\ start[q].stage \in 0..3
  BY DEF Grows, Logs
<1>5. \A c \in Made : ToOf(made, c) \in 0..3 /\ ToOf(made', c) = ToOf(made, c)
  <2>1. TAKE c \in Made
  <2>2. PICK r \in Procs : \E i \in DOMAIN made[r] : c = <<r, i>>
    BY DEF Made, ChangesOf
  <2>3. PICK i \in DOMAIN made[r] : c = <<r, i>>
    BY <2>2
  <2>4. i \in 1..Len(made[r]) /\ made[r][i] \in Changes
    BY <2>3, MadeIs DEF Gen
  <2>5. made'[r][i] = made[r][i]
    BY <2>4 DEF Grows
  <2>. QED BY <2>3, <2>4, <2>5 DEF ToOf, Changes
<1>6. Applied(made', start[q].stage, s) = Applied(made, start[q].stage, s)
  BY <1>2, <1>4, <1>5, StagesAgree
<1>7. StageAt(q, g) = Applied(made, start[q].stage, s)
  BY <1>1 DEF StageAt, ApplyInboxStates, Applied
<1>8. StageAt(q, g)' = Applied(made', start'[q].stage, s)
  BY <1>3 DEF StageAt, ApplyInboxStates, Applied
<1>. QED BY <1>4, <1>6, <1>7, <1>8

-----------------------------------------------------------------------------
(* Nothing vanishes: the invariant *)

\* An inbox state is the stage its process held with it.
StepsTrue ==
    \A p \in Procs : \A i \in 1..Gen(p) : made[p][i].kind = "step" => made[p][i].to = StageAt(p, i)

\* A row with the side rows of the first g changes of p, and a stage no less than p held then.
Carries(d, p, g) ==
    /\ \A i \in 1..g : made[p][i].kind = "note" => <<p, i>> \in Range(d.side)
    /\ StageAt(p, g) <= d.stage
Wider(d, r) == IsPrefix(d.side, r.side) /\ d.stage <= r.stage

\* What cannot go on at the same time in a process.
Idle(p) ==
    /\ ~Alive(p) => fly[p] = 0 /\ run[p] = "idle" /\ ~sick[p]
    /\ life[p] \in {"refused", "blocked"} => made[p] = <<>>
    /\ run[p] # "idle" => ~dead[p]
    /\ dead[p] => sick[p]
    /\ ~sick[p] => pc[p] = <<>> /\ pcRun[p] = <<>>
    /\ pcRun[p] # <<>> => fly[p] = 0 \/ dead[p]

\* The inbox states that wait in a poisoned conversation are the last ones of its process, all behind
\* the snapshot in flight, or all the database is behind with.
FromOn(p, x, steps) == steps = ChangesIn(p, "step", x, Gen(p))
Spread(p, s, t) ==
    \E x \in 0..Gen(p), y \in 0..Gen(p) :
        x <= y /\ StageAt(p, x) <= db.stage /\ s = ChangesIn(p, "step", x, y) /\ FromOn(p, y, t)
Waits(p) ==
    sick[p] => /\ fly[p] # 0 /\ ~dead[p] => FromOn(p, fly[p], pc[p])
               /\ fly[p] = 0 \/ dead[p] => Spread(p, pcRun[p], pc[p])

RowCarries(d) == Carries(d, d.flush[1], WriterGen(d.flush))
RowsCarry ==
    /\ RowTrue(db) => RowCarries(db)
    /\ \A i \in DOMAIN limbo : RowCarries(limbo[i]) /\ Wider(db, limbo[i])
    /\ \A p \in Procs : Carries(db, p, cgen[p])

\* A spill file holds, of all kinds, what its process had not got into the database.
Filed == Range(files) \cup Range(aside)
FlyGen(e) == IF e.fly = <<>> THEN cgen[e.id[1]] ELSE e.fly[1].id[2]
EntrySteps(e) ==
    LET p == e.id[1] IN
    \/ \E x \in 0..Gen(p) : StageAt(p, x) <= db.stage /\ FromOn(p, x, e.steps)
    \/ /\ e.fly # <<>> /\ e.fly[1].steps = ChangesIn(p, "step", cgen[p], FlyGen(e))
       /\ FromOn(p, FlyGen(e), e.steps)
EntryNotes(e) ==
    LET p == e.id[1] IN
    /\ e.side = ChangesIn(p, "note", FlyGen(e), Gen(p))
    /\ e.fly # <<>> => e.fly[1].side = ChangesIn(p, "note", cgen[p], FlyGen(e))
EntriesTrue ==
    \A e \in Filed : e \in Entries /\ life[e.id[1]] = "exited" /\ EntryTrue(e) /\ EntrySteps(e) /\ EntryNotes(e)

\* Of a process that runs or left a spill file, the database holds its snapshot in flight at most
\* besides what it was told of.
Flushed(d, p, f) == d.flush[1] = p => (d.flush[2] = 0 \/ d.flush[2] <= cgen[p] \/ d.flush[2] = f)
FlownTrue(d) ==
    /\ \A p \in Procs : Alive(p) => Flushed(d, p, fly[p])
    /\ \A e \in Filed : Flushed(d, e.id[1], FlyGen(e))
FliesTrue == FlownTrue(db) /\ \A i \in DOMAIN limbo : FlownTrue(limbo[i])

\* Where processes run one after the other; where they overlap, no side row is made.
Alone ==
    /\ \A p \in Procs : life[p] # "off" => \A q \in 1..(p - 1) : life[q] \in Over
    /\ Len(files) <= 1
    /\ \A p \in Procs : life[p] = "boot" => todo[p] = Len(files)
    /\ \A p \in Procs : Alive(p) => files = <<>>
    /\ \A i \in DOMAIN files : /\ db.flush[1] <= files[i].id[1]
                              /\ \A j \in DOMAIN limbo : limbo[j].flush[1] <= files[i].id[1]
    /\ \A p \in Procs : \A c \in Range(start[p].log) : c[1] < p
NoNotes == "note" \notin left.kinds /\ \A c \in Made : KindOf(c) # "note"
OneByOne == IF left.overlap THEN NoNotes ELSE Alone

\* Everything a process made is recorded.
RecordedIn(d, c) ==
    \/ c \in Range(d.log) \cup Range(d.side)
    \/ KindOf(c) = "step" /\ d.stage >= To(c)
Landed(d, p) == \A c \in ChangesOf(p) : RecordedIn(d, c)
EndsTrue ==
    /\ \A p \in Procs : life[p] = "exited" => Landed(db, p) \/ \E e \in Filed : e.id[1] = p
    /\ \A p \in Procs : at[p] = "delete" => Landed(db, Entry.id[1])

QueuesInv == StepsTrue /\ (\A p \in Procs : Idle(p)) /\ (\A p \in Procs : Waits(p)) /\ RowsCarry
KeptInv == StoreInv /\ QueuesInv /\ EntriesTrue /\ FliesTrue /\ OneByOne /\ EndsTrue

-----------------------------------------------------------------------------
(* What cannot go on at the same time stays so *)

\* The variables of a process.
Mine(q) == <<life[q], made[q], cgen[q], fly[q], run[q], dead[q], sick[q], pc[q], pcRun[q]>>

LEMMA MineTypes ==
    ASSUME StoreInv
    PROVE  /\ life \in [Procs -> {"off", "boot", "up", "closed"} \cup Over] /\ made \in [Procs -> Seq(Changes)]
           /\ cgen \in [Procs -> Nat] /\ fly \in [Procs -> Nat] /\ run \in [Procs -> {"idle", "sent", "backoff"}]
           /\ dead \in [Procs -> BOOLEAN] /\ sick \in [Procs -> BOOLEAN]
           /\ pc \in [Procs -> Seq(Made)] /\ pcRun \in [Procs -> Seq(Made)]
  BY DEF StoreInv, MadeTrue, DiskTypes, FlagTypes

LEMMA IdleKept ==
    ASSUME StoreInv, \A p \in Procs : Idle(p), [Next]_vars
    PROVE  \A q \in Procs : Idle(q)'
<1>. DEFINE Free(l, m, f, r, d, s, w, x) ==
               /\ l \notin {"up", "closed"} => f = 0 /\ r = "idle" /\ ~s
               /\ l \in {"refused", "blocked"} => m = <<>>
               /\ r # "idle" => ~d
               /\ d => s
               /\ ~s => w = <<>> /\ x = <<>>
               /\ x # <<>> => f = 0 \/ d
            Now(q) == Free(life[q], made[q], fly[q], run[q], dead[q], sick[q], pc[q], pcRun[q])
            Then(q) == Free(life'[q], made'[q], fly'[q], run'[q], dead'[q], sick'[q], pc'[q], pcRun'[q])
<1>1. \A q \in Procs : Now(q)
  BY DEF Idle, Alive
<1>2. \A q \in Procs : Then(q) => Idle(q)'
  BY DEF Idle, Alive
<1>3. /\ life \in [Procs -> {"off", "boot", "up", "closed"} \cup Over] /\ made \in [Procs -> Seq(Changes)]
      /\ fly \in [Procs -> Nat] /\ run \in [Procs -> {"idle", "sent", "backoff"}]
      /\ dead \in [Procs -> BOOLEAN] /\ sick \in [Procs -> BOOLEAN]
      /\ pc \in [Procs -> Seq(Made)] /\ pcRun \in [Procs -> Seq(Made)]
  BY MineTypes
<1>4. \A q \in Procs : life[q] \in Fresh => made[q] = <<>>
  BY DEF StoreInv, Phase
<1>5. UNCHANGED <<life, made, fly, run, dead, sick, pc, pcRun>> => \A q \in Procs : Then(q)
  BY <1>1
<1>6. ASSUME NEW p \in Procs PROVE (\E kind \in left.kinds : Change(p, kind)) => \A q \in Procs : Then(q)
  <2>1. ASSUME NEW kind \in left.kinds, Change(p, kind) PROVE \A q \in Procs : Then(q)
    <3>1. UNCHANGED <<life, fly, run, dead, sick, pcRun>> /\ life[p] \in {"up", "closed"}
          /\ (\A q \in Procs : q # p => made'[q] = made[q])
          /\ \A q \in Procs : pc'[q] = pc[q] \/ sick[q]
      BY <1>3, <2>1 DEF Change, Alive, flushVars
    <3>. QED BY <1>1, <3>1
  <2>. QED BY <2>1
<1>7. ASSUME NEW p \in Procs PROVE Poison(p) \/ Kick(p) \/ Flush(p) => \A q \in Procs : Then(q)
  <2>1. Poison(p) => \A q \in Procs : Then(q)
    <3>1. Poison(p) => /\ UNCHANGED <<life, made, fly, run, dead, pcRun>> /\ life[p] \in {"up", "closed"}
                       /\ \A q \in Procs : IF q = p THEN sick'[q] ELSE sick'[q] = sick[q] /\ pc'[q] = pc[q]
      BY <1>3 DEF Poison, Alive, flushVars
    <3>. QED BY <1>1, <3>1
  <2>2. Kick(p) => \A q \in Procs : Then(q)
    <3>1. Kick(p) => /\ UNCHANGED <<life, made, sick, pc, pcRun>> /\ life[p] = "up" /\ ~sick[p]
                     /\ \A q \in Procs : IF q = p THEN run'[q] = "sent" /\ ~dead'[q]
                                         ELSE fly'[q] = fly[q] /\ run'[q] = run[q] /\ dead'[q] = dead[q]
      BY <1>3 DEF Kick, MayWrite, pcVars
    <3>. QED BY <1>1, <3>1
  <2>3. Flush(p) => \A q \in Procs : Then(q)
    <3>1. Flush(p) => /\ UNCHANGED <<life, made, dead, sick, pc, pcRun>> /\ life[p] \in {"up", "closed"}
                      /\ \A q \in Procs : IF q = p THEN run'[q] = "idle" /\ fly'[q] \in {0, fly[q]}
                                          ELSE fly'[q] = fly[q] /\ run'[q] = run[q]
      BY <1>3 DEF Flush, FlushCommits, FlushKnown, FlushConflicts, AfterCommit, Attempted, Alive, pcVars
    <3>. QED BY <1>1, <3>1
  <2>. QED BY <2>1, <2>2, <2>3
<1>8. ASSUME NEW p \in Procs PROVE FlushFails(p) \/ Retry(p) \/ Channel(p) => \A q \in Procs : Then(q)
  <2>1. FlushCut(p) \/ Retry(p) => \A q \in Procs : Then(q)
    <3>1. FlushCut(p) \/ Retry(p) => /\ UNCHANGED <<life, made, fly, dead, sick, pc, pcRun>>
                                     /\ life[p] \in {"up", "closed"} /\ run[p] # "idle"
                                     /\ \A q \in Procs : q # p => run'[q] = run[q]
      BY <1>3 DEF FlushCut, Retry, Attempted, Alive, MayWrite, pcVars
    <3>. QED BY <1>1, <3>1
  <2>2. FlushRejected(p) => \A q \in Procs : Then(q)
    <3>1. FlushRejected(p) => /\ UNCHANGED <<life, made, fly, pcRun>> /\ life[p] \in {"up", "closed"}
                              /\ \A q \in Procs : IF q = p THEN run'[q] = "idle" /\ dead'[q] /\ sick'[q]
                                                  ELSE /\ run'[q] = run[q] /\ dead'[q] = dead[q]
                                                       /\ sick'[q] = sick[q] /\ pc'[q] = pc[q]
      BY <1>3 DEF FlushRejected, Attempted, Alive
    <3>. QED BY <1>1, <3>1
  <2>3. Channel(p) => \A q \in Procs : Then(q)
    <3>1. PumpPoisoned(p) => /\ UNCHANGED <<life, made, fly, run, dead, sick>> /\ sick[p] /\ (fly[p] = 0 \/ dead[p])
                             /\ \A q \in Procs : q # p => pc'[q] = pc[q] /\ pcRun'[q] = pcRun[q]
      BY <1>3 DEF PumpPoisoned, flushVars
    <3>2. PoisonedWritten(p) \/ PoisonedCut(p) =>
             /\ UNCHANGED <<life, made, fly, run, dead, sick>> /\ pcRun[p] # <<>>
             /\ \A q \in Procs : IF q = p THEN pcRun'[q] = <<>> ELSE pc'[q] = pc[q] /\ pcRun'[q] = pcRun[q]
      BY <1>3 DEF PoisonedWritten, PoisonedCut, flushVars
    <3>. QED BY <1>1, <3>1, <3>2 DEF Channel
  <2>. QED BY <2>1, <2>2, <2>3 DEF FlushFails
<1>9. ASSUME NEW p \in Procs PROVE
        OnLockLost(p) \/ ReacquireOnce(p) \/ Close(p) \/ Exit(p) \/ Crash(p) \/ Boot(p) => \A q \in Procs : Then(q)
  <2>1. OnLockLost(p) \/ ReacquireOnce(p) => UNCHANGED <<life, made, fly, run, dead, sick, pc, pcRun>>
    BY DEF OnLockLost, ReacquireOnce, flushVars, pcVars
  <2>2. Close(p) \/ Boot(p) => \A q \in Procs : Then(q)
    <3>1. Close(p) => /\ UNCHANGED <<made, fly, run, dead, sick, pc, pcRun>> /\ life[p] = "up"
                      /\ \A q \in Procs : life'[q] = IF q = p THEN "closed" ELSE life[q]
      BY <1>3 DEF Close, flushVars, pcVars
    <3>2. Boot(p) => /\ UNCHANGED <<made, fly, run, dead, sick, pc, pcRun>> /\ life[p] = "off"
                     /\ \A q \in Procs : life'[q] = IF q = p THEN "boot" ELSE life[q]
      BY <1>3 DEF Boot, flushVars, pcVars
    <3>3. Close(p) => \A q \in Procs : Then(q)
      BY <1>1, <3>1
    <3>4. Boot(p) => \A q \in Procs : Then(q)
      BY <1>1, <3>2
    <3>. QED BY <3>3, <3>4
  <2>3. Exit(p) \/ Crash(p) => \A q \in Procs : Then(q)
    <3>1. Exit(p) \/ Crash(p) =>
             /\ made' = made
             /\ \A q \in Procs : IF q = p THEN /\ life'[q] \in {"exited", "killed"} /\ fly'[q] = 0 /\ run'[q] = "idle"
                                              /\ ~dead'[q] /\ ~sick'[q] /\ pc'[q] = <<>> /\ pcRun'[q] = <<>>
                                 ELSE /\ life'[q] = life[q] /\ fly'[q] = fly[q] /\ run'[q] = run[q]
                                      /\ dead'[q] = dead[q] /\ sick'[q] = sick[q] /\ pc'[q] = pc[q]
                                      /\ pcRun'[q] = pcRun[q]
      BY <1>3 DEF Exit, Crash, Leave
    <3>. QED BY <1>1, <3>1
  <2>. QED BY <1>5, <2>1, <2>2, <2>3
<1>10. ASSUME NEW p \in Procs PROVE
        Replay(p) \/ ReplayFails(p) \/ FileDone(p) \/ Install(p) => \A q \in Procs : Then(q)
  <2>1. ReplayApplies(p) \/ ReplaySkips(p) \/ ReplayRejected(p) \/ FileDone(p)
          => UNCHANGED <<life, made, fly, run, dead, sick, pc, pcRun>>
    BY DEF ReplayApplies, ReplaySkips, ReplayRejected, ReplayedTo, FileDone, flushVars, pcVars
  <2>2. ReplayConflicts(p) \/ ReplayCut(p) \/ Install(p) =>
           /\ UNCHANGED <<made, fly, run, dead, sick, pc, pcRun>> /\ life[p] = "boot"
           /\ \A q \in Procs : IF q = p THEN life'[q] \in {"up", "refused", "blocked"} ELSE life'[q] = life[q]
    BY <1>3 DEF ReplayConflicts, ReplayCut, Replaying, Refuse, Install, flushVars, pcVars
  <2>3. ReplayConflicts(p) \/ ReplayCut(p) \/ Install(p) => \A q \in Procs : Then(q)
    BY <1>1, <1>4, <2>2 DEF Fresh
  <2>. QED BY <1>5, <2>1, <2>3 DEF Replay, ReplayFails
<1>11. LimboEnds \/ UNCHANGED vars => \A q \in Procs : Then(q)
  <2>1. LimboEnds \/ UNCHANGED vars => UNCHANGED <<life, made, fly, run, dead, sick, pc, pcRun>>
    BY DEF LimboEnds, vars, flushVars, pcVars
  <2>. QED BY <1>5, <2>1
<1>12. \A q \in Procs : Then(q)
  <2>. HIDE DEF Then
  <2>. QED BY <1>6, <1>7, <1>8, <1>9, <1>10, <1>11 DEF Next
<1>. QED BY <1>2, <1>12

-----------------------------------------------------------------------------
(* Inbox states are the stages of their process *)

StepMoves ==
    \A p \in Procs : \A g \in 1..Gen(p) :
        made[p][g].kind = "step" => StageAt(p, g) = InboxMoved(StageAt(p, g - 1), made[p][g].to)
LEMMA StepsMove == MadeTrue /\ Logs => StepMoves
  BY StageNext DEF StepMoves

LEMMA LogsThen == ASSUME StoreInv PROVE MadeTrue /\ Logs
  BY DEF StoreInv, DiskTypes, Logs

LEMMA MadeChanges ==
    ASSUME [Next]_vars, NEW p \in Procs, made'[p] # made[p], DOMAIN made = Procs
    PROVE  \E kind \in left.kinds : Change(p, kind)
<1>1. ASSUME NEW q \in Procs PROVE
        /\ Poison(q) \/ Kick(q) \/ Flush(q) \/ FlushFails(q) \/ Retry(q) \/ Channel(q) => made' = made
        /\ OnLockLost(q) \/ ReacquireOnce(q) \/ Close(q) \/ Exit(q) \/ Crash(q) => made' = made
        /\ Boot(q) \/ Replay(q) \/ ReplayFails(q) \/ FileDone(q) \/ Install(q) => made' = made
  <2>1. Poison(q) \/ Kick(q) \/ Flush(q) \/ FlushFails(q) \/ Retry(q) \/ Channel(q) => made' = made
    BY DEF Poison, Kick, Flush, FlushCommits, FlushKnown, FlushConflicts, AfterCommit, FlushFails, FlushCut,
           FlushRejected, Retry, Channel, PumpPoisoned, PoisonedWritten, PoisonedCut
  <2>2. OnLockLost(q) \/ ReacquireOnce(q) \/ Close(q) \/ Exit(q) \/ Crash(q) => made' = made
    BY DEF OnLockLost, ReacquireOnce, Close, Exit, Crash, Leave
  <2>3. Boot(q) \/ Replay(q) \/ ReplayFails(q) \/ FileDone(q) \/ Install(q) => made' = made
    BY DEF Boot, Replay, ReplayApplies, ReplaySkips, ReplayedTo, ReplayConflicts, ReplayFails, ReplayCut,
           ReplayRejected, Refuse, FileDone, Install
  <2>. QED BY <2>1, <2>2, <2>3
<1>2. LimboEnds \/ UNCHANGED vars => made' = made
  BY DEF LimboEnds, vars
<1>3. PICK q \in Procs : \E kind \in left.kinds : Change(q, kind)
  BY <1>1, <1>2 DEF Next
<1>4. q = p
  BY <1>3 DEF Change
<1>. QED BY <1>3, <1>4

LEMMA StepsTrueKept == ASSUME StoreInv, StepsTrue, [Next]_vars PROVE StepsTrue'
<1>1. MadeTrue /\ Logs /\ MadeTrue' /\ Logs' /\ Grows
  <2>1. StoreInv'
    BY StoreStep
  <2>2. MadeTrue' /\ Logs'
    BY <2>1 DEF StoreInv, DiskTypes, Logs
  <2>. QED BY <2>2, LogsThen, NothingTakenBack
<1>2. StepMoves'
  <2>1. (MadeTrue /\ Logs => StepMoves)'
    BY StepsMove, PTL
  <2>. QED BY <1>1, <2>1
<1>. SUFFICES ASSUME NEW p \in Procs, NEW i \in 1..Len(made'[p]), made'[p][i].kind = "step"
             PROVE  made'[p][i].to = StageAt(p, i)'
  BY DEF StepsTrue, Gen
<1>3. Gen(p) \in Nat /\ Gen(p) = Len(made[p]) /\ DOMAIN made = Procs /\ Len(made[p]) \in Nat /\ made[p] \in Seq(Changes)
  BY <1>1, MadeIs DEF MadeTrue, Gen
<1>4. CASE i <= Gen(p)
  <2>1. i \in 1..Gen(p) /\ i \in 0..Gen(p) /\ made'[p][i] = made[p][i]
    BY <1>1, <1>3, <1>4 DEF Grows
  <2>2. life[p] \notin Fresh
    <3>1. made[p] # <<>>
      BY <1>3, <2>1
    <3>. QED BY <3>1 DEF StoreInv, Phase
  <2>3. StageAt(p, i)' = StageAt(p, i)
    BY <1>1, <2>1, <2>2, StageAtKept
  <2>. QED BY <2>1, <2>3 DEF StepsTrue
<1>5. CASE i > Gen(p)
  <2>1. made'[p] # made[p]
    BY <1>3, <1>5
  <2>2. PICK kind \in left.kinds : Change(p, kind)
    BY <1>3, <2>1, MadeChanges
  <2>3. PICK to \in 0..3 : /\ kind = "step" => InboxMoved(Stage(p), to) # Stage(p)
                           /\ made' = [made EXCEPT ![p] = Append(@, [kind |-> kind, to |-> to])]
    BY <2>2 DEF Change
  <2>4. made'[p] = Append(made[p], [kind |-> kind, to |-> to])
    BY <1>3, <2>3
  <2>5. Len(made'[p]) = Gen(p) + 1 /\ made'[p][Gen(p) + 1] = [kind |-> kind, to |-> to]
    BY <1>3, <2>4
  <2>6. i = Gen(p) + 1 /\ i \in 1..Len(made'[p]) /\ i - 1 = Gen(p) /\ kind = "step" /\ made'[p][i].to = to
    BY <1>3, <1>5, <2>5
  <2>7. PICK g : g = Gen(p)
    OBVIOUS
  <2>8. StageAt(p, i)' = InboxMoved(StageAt(p, g)', to)
    <3>1. StageAt(p, i)' = InboxMoved(StageAt(p, i - 1)', made'[p][i].to)
      BY <1>2, <2>6 DEF StepMoves, Gen
    <3>2. i - 1 = g
      BY <2>6, <2>7
    <3>. QED BY <2>6, <3>1, <3>2
  <2>9. StageAt(p, g)' = Stage(p)
    <3>1. life[p] \notin Fresh /\ g \in 0..Gen(p)
      BY <1>3, <2>2, <2>7 DEF Change, Alive, Fresh
    <3>2. StageAt(p, g)' = StageAt(p, g)
      BY <1>1, <3>1, StageAtKept
    <3>. QED BY <2>7, <3>2 DEF StageAt, Stage
  <2>10. InboxMoved(Stage(p), to) # Stage(p)
    BY <2>3, <2>6
  <2>. QED BY <2>6, <2>8, <2>9, <2>10 DEF InboxMoved
<1>. QED BY <1>3, <1>4, <1>5

-----------------------------------------------------------------------------
(* The side rows and the stage of the database only grow *)

\* A transaction that writes messages: a flush, or a replay.
Writes(r) ==
    \/ \E p \in Procs : Alive(p) /\ run[p] = "sent" /\ Fits(db, Snap(p)) /\ r = Written(db, Snap(p))
    \/ \E p \in Procs : Replaying(p) /\ Continues(db, Entry) /\ r = Written(db, RestOf(db, Entry))
DbMoves ==
    \/ UNCHANGED <<db, limbo>>
    \/ limbo # <<>> /\ limbo' = <<>> /\ db' \in {db, limbo[1]}
    \/ limbo = <<>> /\ limbo' = <<>> /\ \E s \in Seq(Made) : db' = Stepped(db, s)
    \/ limbo = <<>> /\ limbo' = <<>> /\ Writes(db')
    \/ limbo = <<>> /\ db' = db /\ \E r : Writes(r) /\ limbo' = <<r>>

LEMMA DbMovesAre == ASSUME StoreInv, \A p \in Procs : Idle(p), [Next]_vars PROVE DbMoves
<1>1. \A p \in Procs : pcRun[p] \in Seq(Made)
  BY DEF StoreInv, DiskTypes
<1>2. ASSUME NEW p \in Procs PROVE
        /\ (\E kind \in left.kinds : Change(p, kind)) \/ Poison(p) \/ Kick(p) \/ FlushKnown(p) => DbMoves
        /\ FlushConflicts(p) \/ FlushRejected(p) \/ Retry(p) \/ PumpPoisoned(p) \/ OnLockLost(p) => DbMoves
        /\ ReacquireOnce(p) \/ Close(p) \/ Boot(p) \/ ReplayConflicts(p) \/ FileDone(p) \/ Install(p) => DbMoves
  <2>1. (\E kind \in left.kinds : Change(p, kind)) \/ Poison(p) \/ Kick(p) \/ FlushKnown(p) => UNCHANGED <<db, limbo>>
    BY DEF Change, Poison, Kick, FlushKnown, AfterCommit
  <2>2. FlushConflicts(p) \/ FlushRejected(p) \/ Retry(p) \/ PumpPoisoned(p) \/ OnLockLost(p) => UNCHANGED <<db, limbo>>
    BY DEF FlushConflicts, FlushRejected, Retry, PumpPoisoned, OnLockLost
  <2>3. ReacquireOnce(p) \/ Close(p) \/ Boot(p) \/ ReplayConflicts(p) \/ FileDone(p) \/ Install(p) => UNCHANGED <<db, limbo>>
    BY DEF ReacquireOnce, Close, Boot, ReplayConflicts, Refuse, FileDone, Install
  <2>4. UNCHANGED <<db, limbo>> => DbMoves
    BY DEF DbMoves
  <2>. QED BY <2>1, <2>2, <2>3, <2>4
<1>3. ASSUME NEW p \in Procs PROVE FlushCommits(p) \/ FlushCut(p) => DbMoves
  <2>1. FlushCommits(p) \/ FlushCut(p) => Alive(p) /\ run[p] = "sent" /\ Fits(db, Snap(p)) /\ limbo = <<>>
    BY DEF FlushCommits, FlushCut, Attempted
  <2>2. FlushCommits(p) => db' = Written(db, Snap(p)) /\ limbo' = limbo
    BY DEF FlushCommits, AfterCommit
  <2>3. FlushCut(p) => limbo' = <<Written(db, Snap(p))>> /\ db' = db
    BY DEF FlushCut
  <2>. QED BY <2>1, <2>2, <2>3 DEF DbMoves, Writes
<1>4. ASSUME NEW p \in Procs PROVE PoisonedWritten(p) \/ PoisonedCut(p) => DbMoves
  <2>1. PoisonedWritten(p) \/ PoisonedCut(p) =>
           limbo = <<>> /\ limbo' = limbo /\ db' \in {db, Stepped(db, pcRun[p])}
    BY DEF PoisonedWritten, PoisonedCut
  <2>. QED BY <1>1, <2>1 DEF DbMoves
<1>5. ASSUME NEW p \in Procs, Exit(p) \/ Crash(p) PROVE DbMoves
  <2>1. /\ limbo' = IF run[p] = "sent" /\ limbo = <<>> /\ Fits(db, Snap(p)) THEN <<Written(db, Snap(p))>> ELSE limbo
        /\ (db' = db \/ (pcRun[p] # <<>> /\ limbo = <<>> /\ db' = Stepped(db, pcRun[p])))
    BY <1>5 DEF Exit, Crash, Leave
  <2>2. run[p] = "sent" => Alive(p) /\ pcRun[p] = <<>>
    BY DEF Idle, StoreInv, Phase
  <2>3. CASE run[p] = "sent" /\ limbo = <<>> /\ Fits(db, Snap(p))
    BY <2>1, <2>2, <2>3 DEF DbMoves, Writes
  <2>4. CASE ~(run[p] = "sent" /\ limbo = <<>> /\ Fits(db, Snap(p)))
    BY <1>1, <2>1, <2>4 DEF DbMoves
  <2>. QED BY <2>3, <2>4
<1>6. ASSUME NEW p \in Procs PROVE ReplayApplies(p) \/ ReplaySkips(p) \/ ReplayRejected(p) \/ ReplayCut(p) => DbMoves
  <2>1. Replaying(p) => limbo = <<>> /\ \A d : RestOf(d, Entry).steps \in Seq(Made)
    BY EntryIs DEF Replaying, StoreInv, FlagTypes
  <2>2. ReplayApplies(p) => /\ Replaying(p) /\ Continues(db, Entry)
                            /\ db' = Written(db, RestOf(db, Entry)) /\ limbo' = limbo
    BY DEF ReplayApplies, ReplayedTo
  <2>3. ReplayCut(p) => /\ Replaying(p) /\ Continues(db, Entry)
                        /\ limbo' = <<Written(db, RestOf(db, Entry))>> /\ db' = db
    BY DEF ReplayCut, Refuse
  <2>4. ReplaySkips(p) \/ ReplayRejected(p) =>
           /\ Replaying(p) /\ limbo' = limbo
           /\ (db' = db \/ db' = Stepped(db, RestOf(db, Entry).steps))
    BY DEF ReplaySkips, ReplayRejected, ReplayedTo
  <2>5. ReplayApplies(p) \/ ReplayCut(p) => DbMoves
    BY <2>1, <2>2, <2>3 DEF DbMoves, Writes
  <2>6. ReplaySkips(p) \/ ReplayRejected(p) => DbMoves
    BY <2>1, <2>4 DEF DbMoves
  <2>. QED BY <2>5, <2>6
<1>7. LimboEnds \/ UNCHANGED vars => DbMoves
  BY DEF LimboEnds, vars, DbMoves
<1>. QED BY <1>2, <1>3, <1>4, <1>5, <1>6, <1>7 DEF Next, Flush, FlushFails, Channel, Replay, ReplayFails

LEMMA WidenedIs ==
    ASSUME MadeTrue, NEW d \in Rows, NEW b, b.id \in Nat \X Nat, b.msgs \in Seq(Made),
           b.side \in Seq(Made), b.steps \in Seq(Made)
    PROVE  /\ Wider(d, Written(d, b)) /\ Written(d, b).side = d.side \o b.side
           /\ Written(d, b).stage = ApplyInboxStates(d.stage, b.steps)
<1>1. d.side \in Seq(Made) /\ d.stage \in 0..3
  BY DEF Rows
<1>2. Written(d, b).side = d.side \o b.side /\ Written(d, b).stage = ApplyInboxStates(d.stage, b.steps)
  BY DEF Written
<1>3. IsPrefix(d.side, d.side \o b.side)
  BY <1>1, PrefixOfConcat
<1>4. d.stage <= ApplyInboxStates(d.stage, b.steps)
  BY <1>1, StagesRise
<1>. QED BY <1>2, <1>3, <1>4 DEF Wider

LEMMA SteppedWider ==
    ASSUME MadeTrue, NEW d \in Rows, NEW steps \in Seq(Made)
    PROVE  Wider(d, Stepped(d, steps)) /\ Stepped(d, steps).stage = ApplyInboxStates(d.stage, steps)
           /\ Stepped(d, steps).side = d.side
<1>1. d.side \in Seq(Made) /\ d.stage \in 0..3
  BY DEF Rows
<1>2. Stepped(d, steps).side = d.side /\ Stepped(d, steps).stage = ApplyInboxStates(d.stage, steps)
  BY DEF Stepped, Rows
<1>3. IsPrefix(d.side, d.side)
  BY <1>1, PrefixSelf
<1>4. d.stage <= ApplyInboxStates(d.stage, steps)
  BY <1>1, StagesRise
<1>. QED BY <1>2, <1>3, <1>4 DEF Wider

LEMMA WritesAre ==
    ASSUME StoreInv, NEW r, Writes(r)
    PROVE  Lands(r) /\ Wider(db, r)
<1>1. MadeTrue /\ db \in Rows
  BY DEF StoreInv, DiskTypes
<1>2. ASSUME NEW p \in Procs, Alive(p), run[p] = "sent", Fits(db, Snap(p)), r = Written(db, Snap(p))
      PROVE  Lands(r) /\ Wider(db, r)
  <2>1. fly[p] # 0
    BY <1>2 DEF StoreInv, Phase
  <2>2. PICK b : b = Snap(p)
    OBVIOUS
  <2>3. b \in Snaps /\ b.id \in Nat \X Nat
    BY <2>1, <2>2, SnapIs
  <2>4. Wider(db, Written(db, b))
    BY <1>1, <2>3, WidenedIs DEF Snaps
  <2>. QED BY <1>2, <2>2, <2>4, FlushFitsLands
<1>3. ASSUME NEW p \in Procs, Replaying(p), Continues(db, Entry), r = Written(db, RestOf(db, Entry))
      PROVE  Lands(r) /\ Wider(db, r)
  <2>1. PICK e : e = Entry
    OBVIOUS
  <2>2. e \in Entries /\ EntryTrue(e)
    BY <1>3, <2>1, EntryIs DEF Replaying
  <2>3. Lands(r)
    BY <1>3, <2>1, <2>2, ReplayLands
  <2>4. PICK b : b = RestOf(db, e)
    OBVIOUS
  <2>5. b.id \in Nat \X Nat /\ b.side \in Seq(Made) /\ b.steps \in Seq(Made) /\ b.msgs \in Seq(Made)
    <3>1. b.id = e.id /\ b.side \in Seq(Made) /\ b.steps \in Seq(Made)
      BY <2>2, <2>4, RestIs
    <3>2. e.id \in Procs \X Nat
      BY <2>2 DEF Entries, EntryRecords
    <3>3. b.msgs \in Seq(Made)
      BY <1>3, <2>1, <2>2, <2>4, ReplayLands
    <3>. QED BY <3>1, <3>2, <3>3, ProcsNat DEF ProcsAreNat
  <2>6. Wider(db, Written(db, b))
    BY <1>1, <2>5, WidenedIs
  <2>. QED BY <1>3, <2>1, <2>3, <2>4, <2>6
<1>. QED BY <1>2, <1>3 DEF Writes

\* What is in the database stays, side rows and stage too.
LEMMA DbWidens == ASSUME StoreInv, \A p \in Procs : Idle(p), RowsCarry, [Next]_vars PROVE Wider(db, db')
<1>1. MadeTrue /\ db \in Rows /\ limbo \in Seq(Rows)
  BY DEF StoreInv, DiskTypes
<1>2. DbMoves
  BY DbMovesAre
<1>3. Wider(db, db)
  <2>1. db.side \in Seq(Made) /\ db.stage \in 0..3
    BY <1>1 DEF Rows
  <2>. QED BY <2>1, PrefixSelf DEF Wider
<1>4. limbo # <<>> => Wider(db, limbo[1])
  <2>1. limbo # <<>> => 1 \in DOMAIN limbo
    BY <1>1
  <2>. QED BY <2>1 DEF RowsCarry
<1>. QED BY <1>1, <1>2, <1>3, <1>4, SteppedWider, WritesAre DEF DbMoves

-----------------------------------------------------------------------------
(* What a row carries it goes on carrying *)

LEMMA StepBasics ==
    ASSUME StoreInv, [Next]_vars
    PROVE  MadeTrue /\ Logs /\ MadeTrue' /\ Logs' /\ Grows /\ StoreInv'
<1>1. StoreInv'
  BY StoreStep
<1>2. MadeTrue' /\ Logs'
  BY <1>1 DEF StoreInv, DiskTypes, Logs
<1>. QED BY <1>1, <1>2, LogsThen, NothingTakenBack

LEMMA RangeOfConcat ==
    ASSUME NEW T, NEW s \in Seq(T), NEW t \in Seq(T), NEW r, r = s \o t, NEW c
    PROVE  c \in Range(r) <=> c \in Range(s) \/ c \in Range(t)
<1>1. /\ r \in Seq(T) /\ Len(r) = Len(s) + Len(t) /\ Len(s) \in Nat /\ Len(t) \in Nat
      /\ (\A i \in 1..Len(s) : r[i] = s[i]) /\ \A i \in 1..Len(t) : r[Len(s) + i] = t[i]
  BY ConcatAt
<1>2. DOMAIN s = 1..Len(s) /\ DOMAIN t = 1..Len(t) /\ DOMAIN r = 1 .. Len(s) + Len(t)
  BY <1>1
<1>3. ASSUME NEW i \in DOMAIN s, s[i] = c PROVE c \in Range(r)
  <2>1. i \in DOMAIN r /\ r[i] = c
    BY <1>1, <1>2, <1>3
  <2>. QED BY <2>1 DEF Range
<1>4. ASSUME NEW i \in DOMAIN t, t[i] = c PROVE c \in Range(r)
  <2>1. Len(s) + i \in DOMAIN r /\ r[Len(s) + i] = c
    BY <1>1, <1>2, <1>4
  <2>. QED BY <2>1 DEF Range
<1>5. ASSUME NEW i \in DOMAIN r, r[i] = c PROVE c \in Range(s) \/ c \in Range(t)
  <2>1. i \in 1..Len(s) \/ (i - Len(s) \in 1..Len(t) /\ Len(s) + (i - Len(s)) = i)
    BY <1>1, <1>2
  <2>2. CASE i \in 1..Len(s)
    BY <1>1, <1>2, <1>5, <2>2 DEF Range
  <2>3. CASE i - Len(s) \in 1..Len(t) /\ Len(s) + (i - Len(s)) = i
    <3>1. t[i - Len(s)] = c
      BY <1>1, <1>5, <2>3
    <3>. QED BY <1>2, <2>3, <3>1 DEF Range
  <2>. QED BY <2>1, <2>2, <2>3
<1>. QED BY <1>3, <1>4, <1>5 DEF Range

LEMMA RangesJoin ==
    ASSUME NEW T, NEW s \in Seq(T), NEW t \in Seq(T)
    PROVE  Range(s \o t) = Range(s) \cup Range(t)
<1>1. PICK r : r = s \o t
  OBVIOUS
<1>2. \A c : c \in Range(r) <=> c \in Range(s) \/ c \in Range(t)
  BY <1>1, RangeOfConcat
<1>. QED BY <1>1, <1>2

LEMMA RangeOfPrefix ==
    ASSUME NEW T, NEW s \in Seq(T), NEW t \in Seq(T), IsPrefix(s, t)
    PROVE  Range(s) \subseteq Range(t)
<1>1. Len(s) <= Len(t) /\ \A i \in 1..Len(s) : s[i] = t[i]
  BY Prefixes1
<1>2. DOMAIN s = 1..Len(s) /\ DOMAIN t = 1..Len(t) /\ Len(s) \in Nat /\ Len(t) \in Nat
  OBVIOUS
<1>3. \A i \in DOMAIN s : i \in DOMAIN t /\ s[i] = t[i]
  BY <1>1, <1>2
<1>. QED BY <1>3 DEF Range

\* What a row carries of a process past its start, a wider one carries too, and after a step as well.
LEMMA CarriesKept ==
    ASSUME MadeTrue, MadeTrue', Grows, Logs, NEW T, NEW q \in Procs, life[q] \notin Fresh, NEW g \in 0..Gen(q),
           NEW d, NEW r, d.side \in Seq(T), r.side \in Seq(T), d.stage \in 0..3, r.stage \in 0..3,
           Wider(d, r), Carries(d, q, g)
    PROVE  Carries(r, q, g)'
<1>1. StageAt(q, g)' = StageAt(q, g)
  BY StageAtKept
<1>2. StageAt(q, g) \in 0..3
  <2>1. g \in Nat /\ g <= g
    BY MadeIs
  <2>. QED BY <2>1, StageAtIs
<1>3. StageAt(q, g) <= r.stage
  BY <1>2 DEF Carries, Wider
<1>4. Range(d.side) \subseteq Range(r.side)
  BY RangeOfPrefix DEF Wider
<1>5. \A i \in 1..g : made'[q][i] = made[q][i]
  <2>1. \A i \in 1..g : i \in 1..Len(made[q])
    BY MadeIs DEF Gen
  <2>. QED BY <2>1 DEF Grows
<1>6. \A i \in 1..g : made'[q][i].kind = "note" => <<q, i>> \in Range(r.side)
  BY <1>4, <1>5 DEF Carries
<1>. QED BY <1>1, <1>3, <1>6 DEF Carries, Range

\* A transaction that adds the side rows and inbox states of changes a+1 to b.
LEMMA CarryOn ==
    ASSUME MadeTrue, NEW p \in Procs, NEW a \in Nat, NEW b \in Nat, NEW d \in Rows, NEW s \in Seq(Made),
           NEW r, r.side = d.side \o s, Carries(d, p, a), StageAt(p, b) <= r.stage,
           \A i \in (a + 1)..b : made[p][i].kind = "note" => <<p, i>> \in Range(s)
    PROVE  Carries(r, p, b)
<1>1. d.side \in Seq(Made)
  BY DEF Rows
<1>2. \A c : c \in Range(r.side) <=> c \in Range(d.side) \/ c \in Range(s)
  BY <1>1, RangeOfConcat
<1>3. ASSUME NEW i \in 1..b, made[p][i].kind = "note" PROVE <<p, i>> \in Range(r.side)
  <2>1. i \in 1..a \/ i \in (a + 1)..b
    OBVIOUS
  <2>. QED BY <1>2, <1>3, <2>1 DEF Carries
<1>. QED BY <1>3 DEF Carries

\* A spill entry and the row it is replayed into.
Fetches(e) ==
    LET p == e.id[1] IN
    /\ e \in Entries /\ EntryTrue(e) /\ EntrySteps(e) /\ EntryNotes(e)
    /\ Carries(db, p, cgen[p]) /\ (FlyIn(db, e) => Carries(db, p, FlyGen(e)))

LEMMA FetchesAre ==
    ASSUME StoreInv, NEW e, Fetches(e), NEW p, p = e.id[1], NEW c, c = cgen[p], NEW x, x = FlyGen(e), NEW n, n = Gen(p)
    PROVE  /\ MadeTrue /\ Logs /\ p \in Procs /\ c \in Nat /\ x \in Nat /\ n \in Nat /\ c <= x /\ x <= n
           /\ c \in 0..n /\ x \in 0..n /\ n \in 0..n /\ db \in Rows
           /\ e.id = <<p, 0>> /\ e.id \in Nat \X Nat /\ (e.fly = <<>> => x = c)
           /\ (e.fly # <<>> => e.fly[1] \in Snaps /\ FlyTrue(p, e.fly[1]) /\ x = e.fly[1].id[2] /\ c < x)
           /\ e.steps \in Seq(Made) /\ e.side \in Seq(Made)
<1>1. MadeTrue /\ Logs /\ db \in Rows
  BY DEF StoreInv, DiskTypes, Logs
<1>2. e \in Entries /\ EntryTrue(e)
  BY DEF Fetches
<1>3. e.id \in Procs \X Nat /\ e.fly \in Seq(Snaps) /\ e.steps \in Seq(Made) /\ e.side \in Seq(Made)
  BY <1>2 DEF Entries, EntryRecords
<1>4. e.id = <<p, 0>> /\ p \in Procs /\ e.id \in Nat \X Nat
  <2>1. e.id[2] = 0
    BY <1>2 DEF EntryTrue
  <2>2. e.id = <<e.id[1], e.id[2]>> /\ e.id[1] \in Procs
    BY <1>3
  <2>3. p \in Nat
    BY <2>2, ProcsNat DEF ProcsAreNat
  <2>4. e.id = <<p, 0>> /\ p \in Procs
    BY <2>1, <2>2
  <2>5. <<p, 0>> \in Nat \X Nat
    BY <2>3
  <2>. QED BY <2>4, <2>5
<1>5. c \in 0..n /\ n \in Nat /\ c \in Nat
  BY <1>4, QueuedIs
<1>6. ASSUME e.fly # <<>>
      PROVE  e.fly[1] \in Snaps /\ FlyTrue(p, e.fly[1]) /\ x = e.fly[1].id[2] /\ x \in Nat /\ c < x /\ x <= n
  <2>1. e.fly[1] \in Snaps
    BY <1>3, <1>6
  <2>2. FlyTrue(p, e.fly[1])
    BY <1>2, <1>6 DEF EntryTrue
  <2>3. x = e.fly[1].id[2]
    BY <1>6 DEF FlyGen
  <2>4. x \in Nat
    BY <2>1, <2>3 DEF Snaps
  <2>. QED BY <2>1, <2>2, <2>3, <2>4 DEF FlyTrue
<1>7. e.fly = <<>> => x = c
  BY DEF FlyGen
<1>. QED BY <1>1, <1>3, <1>4, <1>5, <1>6, <1>7

\* The inbox states of a spill entry bring any row that carries the rest to the last stage.
LEMMA RestSteps ==
    ASSUME StoreInv, NEW e, Fetches(e)
    PROVE  StageAt(e.id[1], Gen(e.id[1])) <= ApplyInboxStates(db.stage, RestOf(db, e).steps)
<1>1. PICK p : p = e.id[1]
  OBVIOUS
<1>2. PICK c : c = cgen[p]
  OBVIOUS
<1>3. PICK x : x = FlyGen(e)
  OBVIOUS
<1>4. PICK n : n = Gen(p)
  OBVIOUS
<1>5. /\ MadeTrue /\ Logs /\ p \in Procs /\ c \in Nat /\ x \in Nat /\ n \in Nat /\ c <= x /\ x <= n
      /\ c \in 0..n /\ x \in 0..n /\ n \in 0..n /\ db \in Rows /\ (e.fly = <<>> => x = c)
      /\ (e.fly # <<>> => e.fly[1] \in Snaps)
      /\ e.steps \in Seq(Made)
  BY <1>1, <1>2, <1>3, <1>4, FetchesAre
<1>6. PICK f : f = IF e.fly = <<>> \/ FlyIn(db, e) THEN [side |-> <<>>, steps |-> <<>>] ELSE e.fly[1]
  OBVIOUS
<1>7. PICK s : s = f.steps
  OBVIOUS
<1>8. PICK t : t = e.steps
  OBVIOUS
<1>9. RestOf(db, e).steps = s \o t
  BY <1>6, <1>7, <1>8 DEF RestOf
<1>10. s \in Seq(Made) /\ t \in Seq(Made)
  <2>1. <<>> \in Seq(Made)
    OBVIOUS
  <2>. QED BY <1>5, <1>6, <1>7, <1>8, <2>1 DEF Snaps
<1>11. PICK d : d \in 0..3 /\ d = db.stage
  BY <1>5 DEF Rows
<1>12. PICK m \in 0..3 : m = ApplyInboxStates(d, s)
  BY <1>5, <1>10, <1>11, StageIn
<1>13. d <= m
  BY <1>5, <1>10, <1>11, <1>12, StagesRise
<1>14. ApplyInboxStates(d, s \o t) = ApplyInboxStates(m, t)
  BY ONLY <1>5, <1>10, <1>11, <1>12, StagesJoin
<1>15. ASSUME NEW y \in 0..n, StageAt(p, y) <= m, t = ChangesIn(p, "step", y, n)
       PROVE  StageAt(p, n) <= ApplyInboxStates(m, t)
  <2>1. y \in Nat /\ y <= n /\ n \in 0..Gen(p)
    BY <1>4, <1>5
  <2>. QED BY <1>5, <1>12, <1>15, <2>1, StepsLand
<1>16. StageAt(p, n) <= ApplyInboxStates(m, t)
  <2>0. EntrySteps(e)
    BY DEF Fetches
  <2>1. CASE \E y \in 0..Gen(p) : StageAt(p, y) <= db.stage /\ FromOn(p, y, e.steps)
    <3>1. PICK y \in 0..n : StageAt(p, y) <= d /\ t = ChangesIn(p, "step", y, n)
      BY <1>4, <1>8, <1>11, <2>1 DEF FromOn
    <3>2. StageAt(p, y) \in 0..3
      <4>1. y \in Nat /\ y \in 0..Gen(p) /\ y <= y
        BY <1>4, <1>5
      <4>. QED BY <1>5, <4>1, StageAtIs
    <3>3. StageAt(p, y) <= m
      BY <1>11, <1>12, <1>13, <3>1, <3>2
    <3>. QED BY <1>15, <3>1, <3>3
  <2>2. CASE /\ e.fly # <<>> /\ e.fly[1].steps = ChangesIn(p, "step", cgen[p], FlyGen(e))
             /\ FromOn(p, FlyGen(e), e.steps)
    <3>1. t = ChangesIn(p, "step", x, n)
      BY <1>3, <1>4, <1>8, <2>2 DEF FromOn
    <3>2. StageAt(p, x) <= m
      <4>1. CASE FlyIn(db, e)
        <5>1. StageAt(p, x) <= d
          BY <1>1, <1>3, <1>11, <4>1 DEF Fetches, Carries
        <5>2. s = <<>>
          BY <1>6, <1>7, <4>1
        <5>3. ApplyInboxStates(d, <<>>) = d
          BY <1>5, <1>11, StageNone
        <5>. QED BY <1>12, <5>1, <5>2, <5>3
      <4>2. CASE ~FlyIn(db, e)
        <5>1. StageAt(p, c) <= d
          BY <1>1, <1>2, <1>11 DEF Fetches, Carries
        <5>2. s = ChangesIn(p, "step", c, x)
          BY <1>2, <1>3, <1>6, <1>7, <2>2, <4>2
        <5>3. x \in 0..Gen(p)
          BY <1>4, <1>5
        <5>4. StageAt(p, x) <= ApplyInboxStates(d, ChangesIn(p, "step", c, x))
          BY <1>5, <1>11, <5>1, <5>3, StepsLand
        <5>. QED BY <1>12, <5>2, <5>4
      <4>. QED BY <4>1, <4>2
    <3>. QED BY <1>5, <1>15, <3>1, <3>2
  <2>. QED BY <1>1, <2>0, <2>1, <2>2 DEF EntrySteps
<1>. QED BY <1>1, <1>4, <1>9, <1>11, <1>14, <1>16

\* What a process flushes, or what is replayed of it, carries all its changes so far.
LEMMA FlushCarries ==
    ASSUME StoreInv, NEW p \in Procs, Idle(p), run[p] = "sent", Carries(db, p, cgen[p]), NEW r, r = Written(db, Snap(p))
    PROVE  r.flush = <<p, fly[p]>> /\ Carries(r, p, fly[p])
<1>1. fly[p] # 0 /\ ~dead[p] /\ MadeTrue /\ Logs /\ db \in Rows
  BY DEF StoreInv, Phase, Idle, DiskTypes, Logs
<1>2. PICK b : b = Snap(p)
  OBVIOUS
<1>3. PICK c : c = cgen[p]
  OBVIOUS
<1>4. PICK f : f = fly[p]
  OBVIOUS
<1>5. /\ b \in Snaps /\ b.id = <<p, f>> /\ b.id \in Nat \X Nat
      /\ b.side = ChangesIn(p, "note", c, f) /\ b.steps = ChangesIn(p, "step", c, f)
  <2>1. b.side = ChangesIn(p, "note", c, f) /\ b.steps = ChangesIn(p, "step", c, f)
    BY <1>1, <1>2, <1>3, <1>4 DEF Snap
  <2>. QED BY <1>1, <1>2, <1>4, <2>1, SnapIs
<1>6. c \in Nat /\ f \in Nat /\ c <= f /\ f \in 0..Gen(p)
  BY <1>1, <1>3, <1>4, MadeIs DEF StoreInv, FlagTypes, Phase
<1>7. /\ r.side = db.side \o b.side /\ r.stage = ApplyInboxStates(db.stage, b.steps) /\ r.flush = b.id
  BY <1>2 DEF Written
<1>8. db.stage \in 0..3 /\ StageAt(p, c) <= db.stage
  BY <1>1, <1>3 DEF Rows, Carries
<1>9. StageAt(p, f) <= ApplyInboxStates(db.stage, ChangesIn(p, "step", c, f))
  BY <1>1, <1>6, <1>8, StepsLand
<1>10. StageAt(p, f) <= r.stage
  BY <1>5, <1>7, <1>9
<1>11. b.side \in Seq(Made)
  BY <1>5 DEF Snaps
<1>12. \A i \in (c + 1)..f : made[p][i].kind = "note" => <<p, i>> \in Range(b.side)
  BY <1>5, <1>6, ChangesInHas
<1>13. Carries(r, p, f)
  BY <1>1, <1>3, <1>6, <1>7, <1>10, <1>11, <1>12, CarryOn
<1>. QED BY <1>4, <1>5, <1>7, <1>13

LEMMA ReplayCarries ==
    ASSUME StoreInv, NEW e, Fetches(e), NEW r, r = Written(db, RestOf(db, e))
    PROVE  r.flush = e.id /\ Carries(r, e.id[1], Gen(e.id[1]))
<1>1. PICK p : p = e.id[1]
  OBVIOUS
<1>2. PICK c : c = cgen[p]
  OBVIOUS
<1>3. PICK x : x = FlyGen(e)
  OBVIOUS
<1>4. PICK n : n = Gen(p)
  OBVIOUS
<1>5. /\ MadeTrue /\ Logs /\ p \in Procs /\ c \in Nat /\ x \in Nat /\ n \in Nat /\ c <= x /\ x <= n
      /\ db \in Rows /\ (e.fly = <<>> => x = c) /\ (e.fly # <<>> => e.fly[1] \in Snaps)
      /\ e.side \in Seq(Made)
  BY <1>1, <1>2, <1>3, <1>4, FetchesAre
<1>6. PICK f : f = IF e.fly = <<>> \/ FlyIn(db, e) THEN [side |-> <<>>, steps |-> <<>>] ELSE e.fly[1]
  OBVIOUS
<1>7. PICK s : s = f.side
  OBVIOUS
<1>8. PICK t : t = e.side
  OBVIOUS
<1>9. PICK u : u = s \o t
  OBVIOUS
<1>10. s \in Seq(Made) /\ t \in Seq(Made)
  <2>1. <<>> \in Seq(Made)
    OBVIOUS
  <2>. QED BY <1>5, <1>6, <1>7, <1>8, <2>1 DEF Snaps
<1>11. u \in Seq(Made) /\ \A i : i \in Range(u) <=> i \in Range(s) \/ i \in Range(t)
  BY <1>9, <1>10, ConcatAt, RangeOfConcat
<1>12. r.flush = e.id /\ r.side = db.side \o u /\ r.stage = ApplyInboxStates(db.stage, RestOf(db, e).steps)
  BY <1>6, <1>7, <1>8, <1>9 DEF Written, RestOf
<1>13. StageAt(p, n) <= r.stage
  BY <1>1, <1>4, <1>12, RestSteps
<1>14. t = ChangesIn(p, "note", x, n) /\ (e.fly # <<>> => e.fly[1].side = ChangesIn(p, "note", c, x))
  BY <1>1, <1>2, <1>3, <1>4, <1>8 DEF Fetches, EntryNotes
<1>15. \A i \in (x + 1)..n : made[p][i].kind = "note" => <<p, i>> \in Range(u)
  BY <1>5, <1>11, <1>14, ChangesInHas
<1>16. CASE e.fly = <<>> \/ FlyIn(db, e)
  <2>1. Carries(db, p, x)
    BY <1>1, <1>2, <1>3, <1>5, <1>16 DEF Fetches
  <2>2. Carries(r, p, n)
    BY <1>5, <1>11, <1>12, <1>13, <1>15, <2>1, CarryOn
  <2>. QED BY <1>1, <1>4, <1>12, <2>2
<1>17. CASE ~(e.fly = <<>> \/ FlyIn(db, e))
  <2>1. s = ChangesIn(p, "note", c, x)
    BY <1>6, <1>7, <1>14, <1>17
  <2>2. \A i \in (c + 1)..x : made[p][i].kind = "note" => <<p, i>> \in Range(s)
    BY <1>5, <2>1, ChangesInHas
  <2>3. \A i \in (c + 1)..n : i \in (c + 1)..x \/ i \in (x + 1)..n
    BY <1>5
  <2>4. \A i \in (c + 1)..n : made[p][i].kind = "note" => <<p, i>> \in Range(u)
    BY <1>11, <1>15, <2>2, <2>3
  <2>5. Carries(db, p, c)
    BY <1>1, <1>2 DEF Fetches
  <2>6. Carries(r, p, n)
    BY <1>5, <1>11, <1>12, <1>13, <2>4, <2>5, CarryOn
  <2>. QED BY <1>1, <1>4, <1>12, <2>6
<1>. QED BY <1>16, <1>17

-----------------------------------------------------------------------------
(* What the database carries *)

\* What is promised of the rows and the spill files while nothing moves.
LEMMA FetchesNow ==
    ASSUME StoreInv, RowsCarry, EntriesTrue, NEW e \in Filed
    PROVE  Fetches(e)
<1>1. e \in Entries /\ EntryTrue(e) /\ EntrySteps(e) /\ EntryNotes(e)
  BY DEF EntriesTrue
<1>2. PICK p : p = e.id[1]
  OBVIOUS
<1>3. p \in Procs
  BY <1>1, <1>2 DEF Entries, EntryRecords
<1>4. Carries(db, p, cgen[p])
  BY <1>3 DEF RowsCarry
<1>5. ASSUME FlyIn(db, e) PROVE Carries(db, p, FlyGen(e))
  <2>1. PICK f : f = e.fly[1]
    OBVIOUS
  <2>2. e.fly # <<>> /\ db.flush = f.id
    BY <1>5, <2>1 DEF FlyIn, Known
  <2>3. FlyTrue(p, f) /\ f.id \in Procs \X Nat
    <3>1. e.fly \in Seq(Snaps)
      BY <1>1 DEF Entries, EntryRecords
    <3>2. f \in Snaps
      BY <2>1, <2>2, <3>1
    <3>. QED BY <1>1, <1>2, <2>1, <2>2, <3>2 DEF EntryTrue, Snaps
  <2>4. cgen[p] \in Nat /\ cgen[p] < f.id[2] /\ f.id[1] = p /\ f.id[2] # 0
    <3>1. cgen[p] \in Nat
      BY <1>3 DEF StoreInv, FlagTypes
    <3>. QED BY <2>3, <3>1 DEF FlyTrue
  <2>5. ~Blank(db)
    BY <2>2, <2>4 DEF Blank
  <2>6. RowCarries(db)
    BY <2>5 DEF StoreInv, WritesTrue, RowsCarry
  <2>7. WriterGen(db.flush) = f.id[2] /\ db.flush[1] = p
    BY <2>2, <2>4 DEF WriterGen
  <2>8. FlyGen(e) = f.id[2]
    BY <2>1, <2>2 DEF FlyGen
  <2>. QED BY <2>6, <2>7, <2>8 DEF RowCarries
<1>. QED BY <1>1, <1>2, <1>4, <1>5 DEF Fetches

LEMMA EntryFiled ==
    ASSUME StoreInv, NEW p \in Procs, todo[p] > 0
    PROVE  Entry \in Filed /\ 1 \in DOMAIN files
<1>1. files \in Seq(Entries) /\ files # <<>>
  BY EntryIs DEF StoreInv, DiskTypes
<1>2. 1 \in DOMAIN files
  BY <1>1
<1>. QED BY <1>2 DEF Filed, Range, Entry

LEMMA WritesCarry ==
    ASSUME StoreInv, \A p \in Procs : Idle(p), RowsCarry, EntriesTrue, NEW r, Writes(r)
    PROVE  RowCarries(r)
<1>1. ASSUME NEW p \in Procs, run[p] = "sent", r = Written(db, Snap(p)) PROVE RowCarries(r)
  <2>1. r.flush = <<p, fly[p]>> /\ Carries(r, p, fly[p])
    BY <1>1, FlushCarries DEF RowsCarry
  <2>2. fly[p] # 0
    BY <1>1 DEF StoreInv, Phase
  <2>3. WriterGen(r.flush) = fly[p] /\ r.flush[1] = p
    BY <2>1, <2>2 DEF WriterGen
  <2>. QED BY <2>1, <2>3 DEF RowCarries
<1>2. ASSUME NEW p \in Procs, todo[p] > 0, r = Written(db, RestOf(db, Entry)) PROVE RowCarries(r)
  <2>1. PICK e : e = Entry
    OBVIOUS
  <2>2. e \in Filed
    BY <1>2, <2>1, EntryFiled
  <2>3. Fetches(e)
    BY <2>2, FetchesNow
  <2>4. r.flush = e.id /\ Carries(r, e.id[1], Gen(e.id[1]))
    BY <1>2, <2>1, <2>3, ReplayCarries
  <2>5. e.id[2] = 0
    BY <2>3 DEF Fetches, EntryTrue
  <2>6. WriterGen(r.flush) = Gen(e.id[1]) /\ r.flush[1] = e.id[1]
    BY <2>4, <2>5 DEF WriterGen
  <2>. QED BY <2>4, <2>6 DEF RowCarries
<1>. QED BY <1>1, <1>2 DEF Writes, Replaying

\* A row that carries what its writer had goes on to, and so does a wider one of the same writer.
LEMMA RowCarriesKept ==
    ASSUME MadeTrue, MadeTrue', Grows, Logs, NEW d \in Rows, RowTrue(d), RowCarries(d),
           NEW r, r.side \in Seq(Made), r.stage \in 0..3, r.flush = d.flush, Wider(d, r)
    PROVE  RowCarries(r)'
<1>1. PICK p : p = d.flush[1]
  OBVIOUS
<1>2. PICK g : g = WriterGen(d.flush)
  OBVIOUS
<1>3. p \in Procs /\ life[p] \notin Fresh /\ (d.flush[2] = 0 => life[p] \in Over) /\ d.flush[2] <= Gen(p)
      /\ d.flush[2] \in Nat /\ d.side \in Seq(Made) /\ d.stage \in 0..3
  BY <1>1 DEF RowTrue, Rows
<1>4. g \in 0..Gen(p)
  BY <1>1, <1>2, <1>3, MadeIs DEF WriterGen
<1>5. Carries(r, p, g)'
  <2>1. Carries(d, p, g)
    BY <1>1, <1>2 DEF RowCarries
  <2>. QED BY <1>3, <1>4, <2>1, CarriesKept
<1>6. WriterGen(r.flush)' = g
  <2>1. d.flush[2] = 0 => made'[p] = made[p]
    BY <1>3 DEF Grows
  <2>. QED BY <1>1, <1>2, <2>1 DEF WriterGen, Gen
<1>7. RowCarries(r)' <=> Carries(r, p, g)'
  BY <1>1, <1>6 DEF RowCarries, Carries
<1>. QED BY <1>5, <1>7

\* A preload is the only thing that changes what a process started from.
LEMMA StartMoves ==
    ASSUME StoreInv, [Next]_vars
    PROVE  \A q \in Procs : start'[q] = start[q] \/ (life[q] \in Fresh /\ start'[q] = Preloaded /\ db' = db)
<1>1. DOMAIN start = Procs
  BY DEF StoreInv, DiskTypes
<1>2. ASSUME NEW p \in Procs PROVE
        /\ (\E kind \in left.kinds : Change(p, kind)) => start' = start
        /\ Poison(p) \/ Kick(p) \/ Flush(p) \/ FlushFails(p) \/ Retry(p) \/ Channel(p) => start' = start
        /\ OnLockLost(p) \/ ReacquireOnce(p) \/ Close(p) \/ Exit(p) \/ Crash(p) => start' = start
        /\ Replay(p) \/ ReplayFails(p) \/ FileDone(p) => start' = start
  BY DEF Change, Poison, Kick, Flush, FlushCommits, FlushKnown, AfterCommit, FlushConflicts, FlushFails, FlushCut,
         FlushRejected, Retry, Channel, PumpPoisoned, PoisonedWritten, PoisonedCut, OnLockLost, ReacquireOnce, Close,
         Exit, Crash, Leave, Replay, ReplayApplies, ReplaySkips, ReplayedTo, ReplayConflicts, ReplayFails, ReplayCut,
         ReplayRejected, Refuse, FileDone, bootVars
<1>3. LimboEnds \/ UNCHANGED vars => start' = start
  BY DEF LimboEnds, vars, bootVars
<1>4. ASSUME NEW p \in Procs, Boot(p) \/ Install(p), NEW q \in Procs
      PROVE  start'[q] = start[q] \/ (life[q] \in Fresh /\ start'[q] = Preloaded /\ db' = db)
  <2>1. life[p] \in Fresh /\ db' = db /\ (start' = start \/ start' = [start EXCEPT ![p] = Preloaded])
    BY <1>4 DEF Boot, Install, Fresh
  <2>2. CASE start' = [start EXCEPT ![p] = Preloaded]
    BY <1>1, <2>1, <2>2
  <2>. QED BY <2>1, <2>2
<1>. QED BY <1>2, <1>3, <1>4 DEF Next

LEMMA TellsMove ==
    ASSUME StoreInv, [Next]_vars
    PROVE  \A q \in Procs : cgen'[q] = cgen[q] \/ FlushCommits(q) \/ FlushKnown(q)
<1>1. DOMAIN cgen = Procs
  BY DEF StoreInv, FlagTypes
<1>2. ASSUME NEW p \in Procs, FlushCommits(p) \/ FlushKnown(p), NEW q \in Procs
      PROVE  cgen'[q] = cgen[q] \/ FlushCommits(q) \/ FlushKnown(q)
  <2>1. cgen' = [cgen EXCEPT ![p] = fly[p]]
    BY <1>2 DEF FlushCommits, FlushKnown, AfterCommit
  <2>. QED BY <1>1, <1>2, <2>1
<1>3. ASSUME NEW p \in Procs PROVE
        /\ (\E kind \in left.kinds : Change(p, kind)) => cgen' = cgen
        /\ Poison(p) \/ Kick(p) \/ FlushConflicts(p) \/ FlushFails(p) \/ Retry(p) \/ Channel(p) => cgen' = cgen
        /\ OnLockLost(p) \/ ReacquireOnce(p) \/ Close(p) \/ Exit(p) \/ Crash(p) => cgen' = cgen
        /\ Boot(p) \/ Replay(p) \/ ReplayFails(p) \/ FileDone(p) \/ Install(p) => cgen' = cgen
  BY DEF Change, Poison, Kick, FlushConflicts, FlushFails, FlushCut, FlushRejected, Retry, Channel, PumpPoisoned,
         PoisonedWritten, PoisonedCut, OnLockLost, ReacquireOnce, Close, Exit, Crash, Leave, Boot, Replay,
         ReplayApplies, ReplaySkips, ReplayedTo, ReplayConflicts, ReplayFails, ReplayCut, ReplayRejected, Refuse,
         FileDone, Install, flushVars
<1>4. LimboEnds \/ UNCHANGED vars => cgen' = cgen
  BY DEF LimboEnds, vars, flushVars
<1>. QED BY <1>2, <1>3, <1>4 DEF Next, Flush

Starts == \A q \in Procs : StageAt(q, 0) = start[q].stage /\ start[q].stage \in 0..3
LEMMA StartsAre == MadeTrue /\ Logs => Starts
<1>. SUFFICES ASSUME MadeTrue, Logs, NEW q \in Procs PROVE StageAt(q, 0) = start[q].stage /\ start[q].stage \in 0..3
  BY DEF Starts
<1>1. 0 \in Nat /\ 0 \in 0..Gen(q) /\ 0 <= 0
  BY MadeIs
<1>. QED BY <1>1, StageAtIs DEF Logs

LEMMA DbRows ==
    ASSUME StoreInv, [Next]_vars
    PROVE  /\ db \in Rows /\ db'.side \in Seq(Made) /\ db'.stage \in 0..3
           /\ db.side \in Seq(Made) /\ db.stage \in 0..3
           /\ (SameTail(db') \/ Lands(db')) /\ db' \in Rows
<1>1. DbSteps
  BY DbStepsAre
<1>2. db' \in Rows /\ db \in Rows
  BY <1>1 DEF DbSteps, SameTail, Lands, StoreInv, DiskTypes
<1>. QED BY <1>1, <1>2 DEF DbSteps, Rows

\* The database holds the side rows and the stage of all a process was told is committed.
LEMMA PromisesCarried ==
    ASSUME StoreInv, \A p \in Procs : Idle(p), RowsCarry, [Next]_vars, NEW q \in Procs
    PROVE  Carries(db, q, cgen[q])'
<1>1. MadeTrue /\ Logs /\ MadeTrue' /\ Logs' /\ Grows /\ Wider(db, db')
  BY StepBasics, DbWidens
<1>2. db \in Rows /\ db'.side \in Seq(Made) /\ db'.stage \in 0..3 /\ db.side \in Seq(Made) /\ db.stage \in 0..3
  BY DbRows
<1>3. PICK g : g = cgen'[q]
  OBVIOUS
<1>4. PICK r : r = db'
  OBVIOUS
<1>5. Carries(r, q, g)' => Carries(db, q, cgen[q])'
  BY <1>3, <1>4 DEF Carries
<1>6. cgen[q] \in 0..Gen(q) /\ cgen[q] \in Nat
  BY QueuedIs
<1>7. ASSUME NEW d, d \in Rows, Wider(d, r), Carries(d, q, g), life[q] \notin Fresh, g \in 0..Gen(q)
      PROVE  Carries(r, q, g)'
  <2>1. d.side \in Seq(Made) /\ d.stage \in 0..3 /\ r.side \in Seq(Made) /\ r.stage \in 0..3
    BY <1>2, <1>4, <1>7 DEF Rows
  <2>. QED BY <1>1, <1>7, <2>1, CarriesKept
<1>8. CASE life[q] \in Fresh
  <2>1. made[q] = <<>> /\ fly[q] = 0
    BY <1>8 DEF StoreInv, Phase
  <2>2. Gen(q) = 0
    BY <2>1 DEF Gen
  <2>3. ~FlushCommits(q) /\ ~FlushKnown(q)
    BY <1>8 DEF FlushCommits, FlushKnown, Attempted, Alive, Fresh
  <2>4. g = 0
    BY <1>3, <1>6, <2>2, <2>3, TellsMove
  <2>5. StageAt(q, 0)' = start'[q].stage /\ start'[q].stage \in 0..3
    <3>1. (MadeTrue /\ Logs => Starts)'
      BY StartsAre, PTL
    <3>. QED BY <1>1, <3>1 DEF Starts
  <2>6. start'[q].stage <= r.stage
    <3>1. CASE start'[q] = start[q]
      <4>1. StageAt(q, 0) = start[q].stage
        BY <1>1, StartsAre DEF Starts
      <4>2. StageAt(q, 0) <= db.stage
        BY <1>6, <2>2 DEF RowsCarry, Carries
      <4>. QED BY <1>1, <1>2, <1>4, <2>5, <3>1, <4>1, <4>2 DEF Wider
    <3>2. CASE start'[q] = Preloaded /\ db' = db
      BY <1>2, <1>4, <3>2 DEF Preloaded
    <3>. QED BY <3>1, <3>2, StartMoves
  <2>7. StageAt(q, 0)' <= r.stage
    BY <2>5, <2>6
  <2>8. Carries(r, q, 0)'
    BY <2>7 DEF Carries
  <2>. QED BY <1>5, <2>4, <2>8
<1>9. CASE life[q] \notin Fresh /\ cgen'[q] = cgen[q]
  <2>1. Carries(db, q, g)
    BY <1>3, <1>9 DEF RowsCarry
  <2>. QED BY <1>1, <1>2, <1>3, <1>4, <1>5, <1>6, <1>7, <1>9, <2>1
<1>10. ASSUME life[q] \notin Fresh, FlushCommits(q) \/ FlushKnown(q) PROVE Carries(r, q, g)'
  <2>1. run[q] = "sent" /\ fly[q] # 0 /\ g = fly[q] /\ g \in 0..Gen(q)
    <3>1. run[q] = "sent" /\ cgen' = [cgen EXCEPT ![q] = fly[q]]
      BY <1>10 DEF FlushCommits, FlushKnown, Attempted, AfterCommit
    <3>2. fly[q] # 0 /\ fly[q] \in Nat /\ fly[q] <= Gen(q) /\ cgen \in [Procs -> Nat] /\ Gen(q) \in Nat
      BY <1>1, <3>1, MadeIs DEF StoreInv, Phase, FlagTypes
    <3>. QED BY <1>3, <3>1, <3>2
  <2>2. CASE FlushCommits(q)
    <3>1. r = Written(db, Snap(q)) /\ Alive(q) /\ Fits(db, Snap(q))
      BY <1>4, <2>2 DEF FlushCommits, Attempted
    <3>2. Carries(r, q, g)
      BY <2>1, <3>1, FlushCarries DEF RowsCarry
    <3>3. r \in Rows
      BY <2>1, <3>1, FlushFitsLands DEF Lands
    <3>4. Wider(r, r)
      <4>1. r.side \in Seq(Made) /\ r.stage \in 0..3
        BY <3>3 DEF Rows
      <4>. QED BY <4>1, PrefixSelf DEF Wider
    <3>. QED BY <1>7, <1>10, <2>1, <3>2, <3>3, <3>4
  <2>3. CASE FlushKnown(q)
    <3>1. r = db /\ Known(db, Snap(q))
      BY <1>4, <2>3 DEF FlushKnown
    <3>2. db.flush = <<q, g>> /\ g # 0
      BY <2>1, <3>1, SnapIs DEF Known
    <3>3. RowCarries(db)
      <4>1. ~Blank(db)
        BY <3>2 DEF Blank
      <4>. QED BY <4>1 DEF StoreInv, WritesTrue, RowsCarry
    <3>4. Carries(db, q, g)
      BY <3>2, <3>3 DEF RowCarries, WriterGen
    <3>. QED BY <1>1, <1>2, <1>4, <1>7, <1>10, <2>1, <3>1, <3>4
  <2>. QED BY <1>10, <2>2, <2>3
<1>. QED BY <1>5, <1>8, <1>9, <1>10, TellsMove

LEMMA RowsCarryKept ==
    ASSUME StoreInv, \A p \in Procs : Idle(p), RowsCarry, EntriesTrue, [Next]_vars
    PROVE  RowsCarry'
<1>1. MadeTrue /\ Logs /\ MadeTrue' /\ Logs' /\ Grows /\ Wider(db, db')
  BY StepBasics, DbWidens
<1>2. DbMoves
  BY DbMovesAre
<1>3. db \in Rows /\ db'.side \in Seq(Made) /\ db'.stage \in 0..3 /\ db' \in Rows
  BY DbRows
<1>4. limbo \in Seq(Rows) /\ \A i \in DOMAIN limbo : limbo[i] \in Rows /\ RowTrue(limbo[i]) /\ RowCarries(limbo[i])
  <2>1. limbo \in Seq(Rows)
    BY DEF StoreInv, DiskTypes
  <2>2. \A i \in DOMAIN limbo : limbo[i] \in Rows
    BY <2>1
  <2>. QED BY <2>1, <2>2 DEF StoreInv, WritesTrue, RowsCarry
<1>5. \A r : Writes(r) => r \in Rows /\ RowTrue(r) /\ RowCarries(r) /\ Wider(db, r)
  BY WritesAre, WritesCarry DEF Lands
<1>6. ASSUME NEW d \in Rows, RowTrue(d), RowCarries(d) PROVE RowCarries(d)'
  <2>1. d.side \in Seq(Made) /\ d.stage \in 0..3
    BY DEF Rows
  <2>2. Wider(d, d)
    BY <2>1, PrefixSelf DEF Wider
  <2>. QED BY <1>1, <1>6, <2>1, <2>2, RowCarriesKept
<1>7. PICK r : r = db'
  OBVIOUS
<1>8. RowTrue(db)' => RowCarries(r)'
  <2>1. CASE r.flush = db.flush
    <3>1. CASE Blank(db)
      <4>1. db'.flush[1] = 0
        BY <1>7, <2>1, <3>1 DEF Blank
      <4>2. 0 \notin Procs
        BY ProcsNat DEF ProcsAreNat
      <4>. QED BY <4>1, <4>2 DEF RowTrue, Procs
    <3>2. CASE RowTrue(db)
      <4>1. RowCarries(db) /\ r.side \in Seq(Made) /\ r.stage \in 0..3
        BY <1>3, <1>7, <3>2 DEF RowsCarry
      <4>. QED BY <1>1, <1>3, <1>7, <2>1, <3>2, <4>1, RowCarriesKept
    <3>. QED BY <3>1, <3>2 DEF StoreInv, WritesTrue
  <2>2. CASE limbo # <<>> /\ r = limbo[1]
    <3>1. 1 \in DOMAIN limbo
      BY <1>4, <2>2
    <3>. QED BY <1>4, <1>6, <2>2, <3>1
  <2>3. CASE Writes(r)
    BY <1>5, <1>6, <2>3
  <2>4. \A s \in Seq(Made) : Stepped(db, s).flush = db.flush
    BY <1>1, <1>3, SteppedIs
  <2>. QED BY <1>2, <1>7, <2>1, <2>2, <2>3, <2>4 DEF DbMoves
<1>9. RowTrue(db)' => RowCarries(db)'
  BY <1>7, <1>8 DEF RowCarries, Carries, WriterGen
<1>10. ASSUME NEW i \in DOMAIN limbo' PROVE RowCarries(limbo[i])' /\ Wider(db', limbo'[i])
  <2>1. PICK d : d = limbo'[i]
    OBVIOUS
  <2>2. d \in Rows /\ RowTrue(d) /\ RowCarries(d) /\ Wider(db', d)
    <3>1. CASE UNCHANGED <<db, limbo>>
      BY <1>4, <2>1, <3>1 DEF RowsCarry
    <3>2. CASE limbo' = <<>>
      BY <3>2
    <3>3. CASE limbo = <<>> /\ db' = db /\ \E x : Writes(x) /\ limbo' = <<x>>
      <4>1. PICK x : Writes(x) /\ limbo' = <<x>>
        BY <3>3
      <4>2. d = x
        BY <2>1, <4>1
      <4>. QED BY <1>5, <3>3, <4>1, <4>2
    <3>. QED BY <1>2, <3>1, <3>2, <3>3 DEF DbMoves
  <2>3. RowCarries(d)'
    BY <1>6, <2>2
  <2>4. RowCarries(limbo[i])'
    BY <2>1, <2>3 DEF RowCarries, Carries, WriterGen
  <2>. QED BY <2>1, <2>2, <2>4
<1>11. \A q \in Procs : Carries(db, q, cgen[q])'
  BY PromisesCarried
<1>. QED BY <1>9, <1>10, <1>11 DEF RowsCarry, Wider, Procs

-----------------------------------------------------------------------------
(* Inbox states that wait in a poisoned conversation *)

\* Nothing of what p has queued changes.
Still(p) ==
    /\ made'[p] = made[p] /\ fly'[p] = fly[p] /\ dead'[p] = dead[p] /\ sick'[p] = sick[p]
    /\ pc'[p] = pc[p] /\ pcRun'[p] = pcRun[p]

LEMMA QueuesMove ==
    ASSUME StoreInv, [Next]_vars, NEW q \in Procs
    PROVE  \/ Still(q) \/ ~sick'[q]
           \/ \E kind \in left.kinds : Change(q, kind)
           \/ Poison(q) \/ FlushCommits(q) \/ FlushKnown(q) \/ FlushRejected(q) \/ Channel(q)
<1>. DEFINE Goal == \/ Still(q) \/ ~sick'[q]
                    \/ \E kind \in left.kinds : Change(q, kind)
                    \/ Poison(q) \/ FlushCommits(q) \/ FlushKnown(q) \/ FlushRejected(q) \/ Channel(q)
<1>1. /\ DOMAIN made = Procs /\ DOMAIN fly = Procs /\ DOMAIN dead = Procs /\ DOMAIN sick = Procs
      /\ DOMAIN pc = Procs /\ DOMAIN pcRun = Procs
  BY MineTypes
<1>2. UNCHANGED <<made, fly, dead, sick, pc, pcRun>> => Still(q)
  BY DEF Still
<1>3. ASSUME NEW p \in Procs PROVE
        /\ (\E kind \in left.kinds : Change(p, kind)) \/ Poison(p) => p = q \/ Still(q)
        /\ FlushCommits(p) \/ FlushKnown(p) \/ FlushRejected(p) \/ Channel(p) => p = q \/ Still(q)
        /\ Kick(p) => Still(q) \/ ~sick'[q]
        /\ Exit(p) \/ Crash(p) => Still(q) \/ ~sick'[q]
  <2>1. (\E kind \in left.kinds : Change(p, kind)) \/ Poison(p) => p = q \/ Still(q)
    BY <1>1 DEF Change, Poison, Still, flushVars
  <2>2. FlushCommits(p) \/ FlushKnown(p) \/ FlushRejected(p) => p = q \/ Still(q)
    BY <1>1 DEF FlushCommits, FlushKnown, FlushRejected, AfterCommit, Still, pcVars
  <2>3. Channel(p) => p = q \/ Still(q)
    BY <1>1 DEF Channel, PumpPoisoned, PoisonedWritten, PoisonedCut, Still, flushVars
  <2>4. Kick(p) => Still(q) \/ ~sick'[q]
    BY <1>1 DEF Kick, Still, pcVars
  <2>5. Exit(p) \/ Crash(p) => Still(q) \/ ~sick'[q]
    BY <1>1 DEF Exit, Crash, Leave, Still
  <2>. QED BY <2>1, <2>2, <2>3, <2>4, <2>5
<1>4. ASSUME NEW p \in Procs PROVE
        /\ FlushConflicts(p) \/ FlushCut(p) \/ Retry(p) => UNCHANGED <<made, fly, dead, sick, pc, pcRun>>
        /\ OnLockLost(p) \/ ReacquireOnce(p) \/ Close(p) \/ Boot(p) => UNCHANGED <<made, fly, dead, sick, pc, pcRun>>
        /\ Replay(p) \/ ReplayFails(p) \/ FileDone(p) \/ Install(p) => UNCHANGED <<made, fly, dead, sick, pc, pcRun>>
  BY DEF FlushConflicts, FlushCut, Retry, OnLockLost, ReacquireOnce, Close, Boot, Replay, ReplayApplies, ReplaySkips,
         ReplayedTo, ReplayConflicts, ReplayFails, ReplayCut, ReplayRejected, Refuse, FileDone, Install, pcVars, flushVars
<1>5. LimboEnds \/ UNCHANGED vars => UNCHANGED <<made, fly, dead, sick, pc, pcRun>>
  BY DEF LimboEnds, vars, pcVars, flushVars
<1>6. Goal
  <2>1. ASSUME NEW p \in Procs, (\E kind \in left.kinds : Change(p, kind)) \/ Poison(p) \/ FlushCommits(p) \/ FlushKnown(p)
                                \/ FlushRejected(p) \/ Channel(p)
        PROVE  Goal
    BY <1>3, <2>1
  <2>2. ASSUME NEW p \in Procs, Kick(p) \/ Exit(p) \/ Crash(p) PROVE Goal
    BY <1>3, <2>2
  <2>. HIDE DEF Goal
  <2>3. UNCHANGED <<made, fly, dead, sick, pc, pcRun>> => Goal
    BY <1>2 DEF Goal
  <2>. QED BY <1>4, <1>5, <2>1, <2>2, <2>3 DEF Next, Flush, FlushFails
<1>. QED BY <1>6

\* The steps of a process that has one change more.
Joins ==
    \A p \in Procs, kind \in {"talk", "note", "step"}, a \in Nat, g \in Nat : a <= g =>
        ChangesIn(p, kind, a, g + 1) = ChangesIn(p, kind, a, g) \o ChangesIn(p, kind, g, g + 1)
LEMMA JoinsAre == Joins
<1>. SUFFICES ASSUME NEW p \in Procs, NEW kind \in {"talk", "note", "step"}, NEW a \in Nat, NEW g \in Nat, a <= g
             PROVE  ChangesIn(p, kind, a, g + 1) = ChangesIn(p, kind, a, g) \o ChangesIn(p, kind, g, g + 1)
  BY DEF Joins
<1>1. PICK h \in Nat : h = g + 1
  OBVIOUS
<1>2. g <= h
  BY <1>1
<1>3. ChangesIn(p, kind, a, h) = ChangesIn(p, kind, a, g) \o ChangesIn(p, kind, g, h)
  BY ONLY <1>2, ChangesInJoin, a \in Nat, g \in Nat, h \in Nat, a <= g
<1>. QED BY <1>1, <1>3

Lasts ==
    \A p \in Procs, kind \in {"talk", "note", "step"}, g \in Nat :
        /\ made[p][g + 1].kind = kind => ChangesIn(p, kind, g, g + 1) = << <<p, g + 1>> >>
        /\ made[p][g + 1].kind # kind => ChangesIn(p, kind, g, g + 1) = <<>>
LEMMA LastsAre == Lasts
  BY ChangesInLast DEF Lasts

Queueing(p, m, a, g, s) ==
    /\ Len(made'[p]) = g + 1
    /\ m.kind = "step" => ChangesIn(p, "step", a, g + 1)' = Append(s, <<p, g + 1>>)
    /\ m.kind # "step" => ChangesIn(p, "step", a, g + 1)' = s

LEMMA QueueGrows ==
    ASSUME MadeTrue, NEW p \in Procs, NEW m \in Changes, made' = [made EXCEPT ![p] = Append(@, m)], NEW a \in 0..Gen(p),
           NEW g, g = Gen(p), NEW s, s = ChangesIn(p, "step", a, g)
    PROVE  Queueing(p, m, a, g, s)
<1>1. g \in Nat /\ g \in 0..Gen(p) /\ a \in Nat /\ a <= g /\ made[p] \in Seq(Changes) /\ g = Len(made[p]) /\ DOMAIN made = Procs
  BY MadeIs DEF MadeTrue, Gen
<1>2. /\ made'[p] = Append(made[p], m) /\ Len(made'[p]) = g + 1 /\ made'[p][g + 1] = m
      /\ \A i \in 1..g : made'[p][i] = made[p][i]
  <2>1. made'[p] = Append(made[p], m)
    BY <1>1
  <2>2. PICK o : o = made[p] /\ o \in Seq(Changes) /\ Len(o) = g
    BY <1>1
  <2>3. PICK n : n = Append(o, m)
    OBVIOUS
  <2>4. Len(n) = g + 1 /\ n[g + 1] = m /\ \A i \in 1..g : n[i] = o[i]
    BY <2>2, <2>3, AppendProperties
  <2>5. made'[p] = n
    BY <2>1, <2>2, <2>3
  <2>6. Len(made'[p]) = g + 1 /\ made'[p][g + 1] = m /\ \A i \in 1..g : made'[p][i] = made[p][i]
    BY <2>2, <2>4, <2>5
  <2>. QED BY <2>1, <2>6
<1>3. s \in Seq(Made)
  BY <1>1, ChangesInAre
<1>4. ChangesIn(p, "step", a, g)' = s
  BY <1>1, <1>2, ChangesInKept
<1>5. ChangesIn(p, "step", a, g + 1)' = s \o ChangesIn(p, "step", g, g + 1)'
  <2>1. Joins'
    BY JoinsAre, PTL
  <2>. QED BY <1>1, <1>4, <2>1 DEF Joins, Procs
<1>6. /\ m.kind = "step" => ChangesIn(p, "step", g, g + 1)' = << <<p, g + 1>> >>
      /\ m.kind # "step" => ChangesIn(p, "step", g, g + 1)' = <<>>
  <2>1. Lasts'
    BY LastsAre, PTL
  <2>. QED BY <1>1, <1>2, <2>1 DEF Lasts, Procs
<1>7. s \o <<>> = s
  BY <1>3, ConcatEmptySeq
<1>8. s \o << <<p, g + 1>> >> = Append(s, <<p, g + 1>>)
  <2>1. s \in Seq(Procs \X Nat)
    BY <1>3, MadeIs, SeqMonotonic
  <2>2. <<p, g + 1>> \in Procs \X Nat
    BY <1>1
  <2>. QED BY <2>1, <2>2, AppendIsConcat
<1>. QED BY <1>2, <1>5, <1>6, <1>7, <1>8 DEF Queueing

LEMMA SpreadKept ==
    ASSUME MadeTrue, MadeTrue', Grows, Logs, NEW q \in Procs, life[q] \notin Fresh, made'[q] = made[q],
           db.stage \in 0..3, db'.stage \in 0..3, db.stage <= db'.stage, NEW s, NEW t, Spread(q, s, t)
    PROVE  Spread(q, s, t)'
<1>1. PICK x \in 0..Gen(q), y \in 0..Gen(q) :
        x <= y /\ StageAt(q, x) <= db.stage /\ s = ChangesIn(q, "step", x, y) /\ FromOn(q, y, t)
  BY DEF Spread
<1>2. PICK g : g = Gen(q)
  OBVIOUS
<1>3. x \in 0..g /\ y \in 0..g /\ Gen(q)' = g /\ g \in Nat
  BY <1>1, <1>2, MadeIs DEF Gen
<1>4. StageAt(q, x)' = StageAt(q, x) /\ StageAt(q, x) \in 0..3
  <2>1. x \in Nat /\ x <= x
    BY <1>3
  <2>. QED BY <2>1, StageAtKept, StageAtIs
<1>5. \A a, b : ChangesIn(q, "step", a, b)' = ChangesIn(q, "step", a, b)
  BY DEF ChangesIn, Those
<1>6. FromOn(q, y, t)'
  <2>1. t = ChangesIn(q, "step", y, g)
    BY <1>1, <1>2 DEF FromOn
  <2>2. ChangesIn(q, "step", y, g)' = t
    BY <1>5, <2>1
  <2>. QED BY <1>3, <2>2 DEF FromOn
<1>7. StageAt(q, x)' <= db'.stage
  BY <1>1, <1>4
<1>8. s = ChangesIn(q, "step", x, y)'
  BY <1>1, <1>5
<1>. QED BY <1>1, <1>3, <1>6, <1>7, <1>8 DEF Spread

LEMMA StillWaits ==
    ASSUME StoreInv, \A p \in Procs : Idle(p), RowsCarry, [Next]_vars, NEW q \in Procs, Waits(q), Still(q)
    PROVE  Waits(q)'
<1>1. SUFFICES ASSUME sick[q] PROVE Waits(q)'
  BY DEF Waits, Still
<1>2. MadeTrue /\ Logs /\ MadeTrue' /\ Grows /\ Wider(db, db')
  BY StepBasics, DbWidens
<1>3. life[q] \notin Fresh
  BY <1>1 DEF Idle, Alive, Fresh
<1>4. db.stage \in 0..3 /\ db'.stage \in 0..3 /\ db.stage <= db'.stage
  BY <1>2, DbRows DEF Wider
<1>5. made'[q] = made[q] /\ fly'[q] = fly[q] /\ dead'[q] = dead[q] /\ pc'[q] = pc[q] /\ pcRun'[q] = pcRun[q]
  BY DEF Still
<1>6. ASSUME fly[q] # 0, ~dead[q] PROVE FromOn(q, fly[q], pc[q])'
  <2>1. \A a, b : ChangesIn(q, "step", a, b)' = ChangesIn(q, "step", a, b)
    BY <1>5 DEF ChangesIn, Those
  <2>2. PICK g : g = Gen(q)
    OBVIOUS
  <2>3. PICK f : f = fly[q]
    OBVIOUS
  <2>4. pc[q] = ChangesIn(q, "step", f, g)
    BY <1>1, <1>6, <2>2, <2>3 DEF Waits, FromOn
  <2>5. Gen(q)' = g
    BY <1>5, <2>2 DEF Gen
  <2>6. ChangesIn(q, "step", f, g)' = pc'[q]
    BY <1>5, <2>1, <2>4
  <2>. QED BY <1>5, <2>3, <2>5, <2>6 DEF FromOn
<1>7. ASSUME fly[q] = 0 \/ dead[q] PROVE Spread(q, pcRun[q], pc[q])'
  <2>1. PICK s : s = pcRun[q]
    OBVIOUS
  <2>2. PICK t : t = pc[q]
    OBVIOUS
  <2>3. Spread(q, s, t)
    BY <1>1, <1>7, <2>1, <2>2 DEF Waits
  <2>4. Spread(q, s, t)'
    BY <1>2, <1>3, <1>4, <1>5, <2>3, SpreadKept
  <2>5. Spread(q, s, t)' => Spread(q, pcRun[q], pc[q])'
    BY <1>5, <2>1, <2>2 DEF Spread, FromOn
  <2>. QED BY <2>4, <2>5
<1>. QED BY <1>5, <1>6, <1>7 DEF Waits

LEMMA ChangeWaits ==
    ASSUME StoreInv, \A p \in Procs : Idle(p), RowsCarry, [Next]_vars, NEW q \in Procs, Waits(q), sick[q],
           NEW kind \in left.kinds, Change(q, kind)
    PROVE  Waits(q)'
<1>1. MadeTrue /\ Logs /\ MadeTrue' /\ Grows /\ life[q] \notin Fresh
  BY StepBasics DEF Change, Alive, Fresh
<1>2. PICK to \in 0..3 : made' = [made EXCEPT ![q] = Append(@, [kind |-> kind, to |-> to])]
  BY DEF Change
<1>3. PICK m \in Changes : m = [kind |-> kind, to |-> to]
  <2>1. kind \in {"talk", "note", "step"}
    BY DEF StoreInv, FlagTypes, Budgets
  <2>. QED BY <2>1 DEF Changes
<1>4. PICK g \in Nat : g = Gen(q)
  BY <1>1, MadeIs
<1>5. /\ UNCHANGED <<db, fly, dead, sick, pcRun>>
      /\ pc'[q] = IF kind = "step" THEN Append(pc[q], <<q, g + 1>>) ELSE pc[q]
  <2>1. DOMAIN pc = Procs
    BY MineTypes
  <2>. QED BY <1>4, <2>1 DEF Change, flushVars
<1>0. made' = [made EXCEPT ![q] = Append(@, m)]
  BY <1>2, <1>3
<1>6. Gen(q)' = g + 1
  <2>1. PICK a \in 0..Gen(q) : a = 0
    BY <1>4
  <2>2. PICK s : s = ChangesIn(q, "step", a, g)
    OBVIOUS
  <2>3. Queueing(q, m, a, g, s)
    BY <1>0, <1>1, <1>4, <2>1, <2>2, QueueGrows
  <2>. QED BY <2>3 DEF Queueing, Gen
<1>7. ASSUME NEW y \in 0..Gen(q), FromOn(q, y, pc[q]) PROVE FromOn(q, y, pc[q])'
  <2>1. pc[q] = ChangesIn(q, "step", y, g)
    BY <1>4, <1>7 DEF FromOn
  <2>2. /\ m.kind = "step" => ChangesIn(q, "step", y, g + 1)' = Append(pc[q], <<q, g + 1>>)
        /\ m.kind # "step" => ChangesIn(q, "step", y, g + 1)' = pc[q]
    <3>1. PICK s : s = pc[q]
      OBVIOUS
    <3>2. s = ChangesIn(q, "step", y, g)
      BY <2>1, <3>1
    <3>3. Queueing(q, m, y, g, s)
      BY <1>0, <1>1, <1>4, <3>2, QueueGrows
    <3>. QED BY <3>1, <3>3 DEF Queueing
  <2>3. ChangesIn(q, "step", y, g + 1)' = pc'[q]
    BY <1>3, <1>5, <2>2
  <2>. QED BY <1>6, <2>3 DEF FromOn
<1>8. ASSUME fly[q] # 0, ~dead[q] PROVE FromOn(q, fly[q], pc[q])'
  <2>1. PICK f : f = fly[q]
    OBVIOUS
  <2>2. f \in 0..Gen(q) /\ FromOn(q, f, pc[q])
    BY <1>4, <1>8, <2>1 DEF StoreInv, FlagTypes, Phase, Waits
  <2>3. FromOn(q, f, pc[q])'
    BY <1>7, <2>2
  <2>. QED BY <1>5, <2>1, <2>3 DEF FromOn
<1>9. ASSUME fly[q] = 0 \/ dead[q] PROVE Spread(q, pcRun[q], pc[q])'
  <2>1. PICK x \in 0..Gen(q), y \in 0..Gen(q) : /\ x <= y /\ StageAt(q, x) <= db.stage
                                               /\ pcRun[q] = ChangesIn(q, "step", x, y) /\ FromOn(q, y, pc[q])
    BY <1>9 DEF Waits, Spread
  <2>2. FromOn(q, y, pc[q])'
    BY <1>7, <2>1
  <2>3. StageAt(q, x)' = StageAt(q, x)
    BY <1>1, StageAtKept
  <2>4. ChangesIn(q, "step", x, y)' = ChangesIn(q, "step", x, y)
    <3>1. x \in Nat /\ y \in Nat /\ \A i \in 1..y : i \in 1..Len(made[q])
      BY <1>4 DEF Gen
    <3>2. \A i \in 1..y : made'[q][i] = made[q][i]
      BY <1>1, <3>1 DEF Grows
    <3>. QED BY <3>1, <3>2, ChangesInKept
  <2>5. x \in 0..(g + 1) /\ y \in 0..(g + 1)
    BY <1>4
  <2>6. StageAt(q, x)' <= db'.stage /\ pcRun'[q] = ChangesIn(q, "step", x, y)'
    BY <1>5, <2>1, <2>3, <2>4
  <2>. QED BY <1>6, <2>1, <2>2, <2>5, <2>6 DEF Spread
<1>. QED BY <1>5, <1>8, <1>9 DEF Waits

LEMMA PoisonWaits ==
    ASSUME StoreInv, \A p \in Procs : Idle(p), RowsCarry, [Next]_vars, NEW q \in Procs, Poison(q)
    PROVE  Waits(q)'
<1>1. MadeTrue /\ Logs /\ MadeTrue' /\ Grows /\ life[q] \notin Fresh
  BY StepBasics DEF Poison, Alive, Fresh
<1>2. ~sick[q] /\ ~dead[q] /\ pc[q] = <<>> /\ pcRun[q] = <<>>
  BY DEF Poison, Idle
<1>3. PICK g \in Nat : g = Gen(q)
  BY <1>1, MadeIs
<1>4. PICK c : c = cgen[q]
  OBVIOUS
<1>5. PICK f : f = fly[q]
  OBVIOUS
<1>6. c \in Nat /\ f \in Nat /\ c \in 0..g /\ f \in 0..g
  BY <1>3, <1>4, <1>5 DEF StoreInv, FlagTypes, Phase
<1>7. /\ UNCHANGED <<db, made, start, fly, dead, pcRun>> /\ sick'[q]
      /\ pc'[q] = pc[q] \o QueuedSteps(q)
  <2>1. DOMAIN pc = Procs /\ DOMAIN sick = Procs
    BY MineTypes
  <2>. QED BY <2>1 DEF Poison, flushVars, bootVars
<1>8. pc'[q] = ChangesIn(q, "step", IF f = 0 THEN c ELSE f, g)
  <2>1. QueuedSteps(q) = ChangesIn(q, "step", IF f = 0 THEN c ELSE f, g)
    BY <1>2, <1>3, <1>4, <1>5 DEF QueuedSteps, Queued
  <2>2. QueuedSteps(q) \in Seq(Made)
    BY QueuedIs
  <2>3. PICK s : s = QueuedSteps(q)
    OBVIOUS
  <2>4. <<>> \o s = s
    BY <2>2, <2>3, ConcatEmptySeq
  <2>. QED BY <1>2, <1>7, <2>1, <2>3, <2>4
<1>9. /\ \A a, b : ChangesIn(q, "step", a, b)' = ChangesIn(q, "step", a, b)
      /\ \A a : StageAt(q, a)' = StageAt(q, a) /\ Gen(q)' = g
  BY <1>3, <1>7 DEF ChangesIn, Those, StageAt, ApplyInboxStates, Gen
<1>10. ASSUME f # 0 PROVE FromOn(q, fly[q], pc[q])'
  <2>1. ChangesIn(q, "step", f, g)' = pc'[q]
    BY <1>8, <1>9, <1>10
  <2>2. fly'[q] = f
    BY <1>5, <1>7
  <2>. QED BY <1>9, <2>1, <2>2 DEF FromOn
<1>11. ASSUME f = 0 PROVE Spread(q, pcRun[q], pc[q])'
  <2>1. ChangesIn(q, "step", c, g)' = pc'[q]
    BY <1>8, <1>9, <1>11
  <2>2. FromOn(q, c, pc[q])'
    BY <1>9, <2>1 DEF FromOn
  <2>3. ChangesIn(q, "step", c, c)' = pcRun'[q]
    <3>1. ChangesIn(q, "step", c, c) = <<>>
      BY <1>6, ChangesInNone
    <3>. QED BY <1>2, <1>7, <1>9, <3>1
  <2>4. StageAt(q, c)' <= db'.stage
    <3>1. StageAt(q, c) <= db.stage
      BY <1>4 DEF RowsCarry, Carries
    <3>. QED BY <1>7, <1>9, <3>1
  <2>5. c <= c
    BY <1>6
  <2>. QED BY <1>6, <1>9, <2>2, <2>3, <2>4, <2>5 DEF Spread
<1>. QED BY <1>2, <1>5, <1>7, <1>10, <1>11 DEF Waits

\* The flush that was in flight is in the database; what waited behind it is all that is left.
LEMMA FlushWaits ==
    ASSUME StoreInv, \A p \in Procs : Idle(p), RowsCarry, [Next]_vars, NEW q \in Procs, Waits(q), sick[q],
           FlushCommits(q) \/ FlushKnown(q)
    PROVE  Waits(q)'
<1>1. Alive(q) /\ run[q] = "sent" /\ AfterCommit(q)
  BY DEF FlushCommits, FlushKnown, Attempted
<1>2. ~dead[q] /\ fly[q] # 0 /\ pcRun[q] = <<>> /\ MadeTrue /\ Logs
  BY <1>1, LogsThen DEF Idle, StoreInv, Phase
<1>3. PICK f : f = fly[q]
  OBVIOUS
<1>4. PICK g \in Nat : g = Gen(q)
  BY <1>2, MadeIs
<1>5. f \in Nat /\ f \in 0..g
  BY <1>2, <1>3, <1>4 DEF StoreInv, FlagTypes, Phase
<1>6. UNCHANGED <<made, start, dead, sick, pc, pcRun>> /\ fly'[q] = 0 /\ cgen'[q] = f
  <2>1. DOMAIN fly = Procs /\ DOMAIN cgen = Procs
    BY MineTypes
  <2>. QED BY <1>1, <1>3, <2>1 DEF AfterCommit, pcVars, bootVars
<1>7. /\ \A a, b : ChangesIn(q, "step", a, b)' = ChangesIn(q, "step", a, b)
      /\ \A a : StageAt(q, a)' = StageAt(q, a) /\ Gen(q)' = g
  BY <1>4, <1>6 DEF ChangesIn, Those, StageAt, ApplyInboxStates, Gen
<1>8. FromOn(q, f, pc[q])'
  <2>1. pc[q] = ChangesIn(q, "step", f, g)
    BY <1>2, <1>3, <1>4 DEF Waits, FromOn
  <2>2. ChangesIn(q, "step", f, g)' = pc'[q]
    BY <1>6, <1>7, <2>1
  <2>. QED BY <1>7, <2>2 DEF FromOn
<1>9. StageAt(q, f)' <= db'.stage
  <2>1. Carries(db, q, cgen[q])'
    BY PromisesCarried
  <2>. QED BY <1>6, <2>1 DEF Carries
<1>10. ChangesIn(q, "step", f, f)' = pcRun'[q]
  <2>1. ChangesIn(q, "step", f, f) = <<>>
    BY <1>5, ChangesInNone
  <2>. QED BY <1>2, <1>6, <1>7, <2>1
<1>11. f <= f
  BY <1>5
<1>12. Spread(q, pcRun[q], pc[q])'
  BY <1>5, <1>7, <1>8, <1>9, <1>10, <1>11 DEF Spread
<1>. QED BY <1>6, <1>12 DEF Waits

\* A snapshot that is dead leaves its inbox states before the ones that wait.
LEMMA RejectWaits ==
    ASSUME StoreInv, \A p \in Procs : Idle(p), RowsCarry, [Next]_vars, NEW q \in Procs, Waits(q), FlushRejected(q)
    PROVE  Waits(q)'
<1>1. Alive(q) /\ run[q] = "sent"
  BY DEF FlushRejected, Attempted
<1>2. ~dead[q] /\ fly[q] # 0 /\ pcRun[q] = <<>> /\ MadeTrue /\ Logs /\ (~sick[q] => pc[q] = <<>>)
  BY <1>1, LogsThen DEF Idle, StoreInv, Phase
<1>3. PICK f : f = fly[q]
  OBVIOUS
<1>4. PICK g \in Nat : g = Gen(q)
  BY <1>2, MadeIs
<1>5. PICK c : c = cgen[q]
  OBVIOUS
<1>6. f \in Nat /\ f \in 0..g /\ c \in Nat /\ c \in 0..g /\ c <= f /\ f <= g
  BY <1>2, <1>3, <1>4, <1>5 DEF StoreInv, FlagTypes, Phase
<1>7. /\ UNCHANGED <<db, made, start, fly, pcRun>> /\ dead'[q] /\ sick'[q]
      /\ pc'[q] = Snap(q).steps \o pc[q] \o QueuedSteps(q)
  <2>1. DOMAIN pc = Procs /\ DOMAIN sick = Procs /\ DOMAIN dead = Procs
    BY MineTypes
  <2>. QED BY <2>1 DEF FlushRejected, bootVars
<1>8. PICK s : s = ChangesIn(q, "step", c, f)
  OBVIOUS
<1>9. PICK t : t = ChangesIn(q, "step", f, g)
  OBVIOUS
<1>10. Snap(q).steps = s
  BY <1>2, <1>3, <1>5, <1>8 DEF Snap
<1>11. s \in Seq(Made) /\ t \in Seq(Made) /\ s \o t = ChangesIn(q, "step", c, g)
  <2>1. s \in Seq(Made) /\ t \in Seq(Made)
    BY <1>2, <1>4, <1>6, <1>8, <1>9, ChangesInAre
  <2>2. ChangesIn(q, "step", c, g) = ChangesIn(q, "step", c, f) \o ChangesIn(q, "step", f, g)
    BY ONLY <1>6, g \in Nat, ChangesInJoin
  <2>. QED BY <1>8, <1>9, <2>1, <2>2
<1>12. pc'[q] = s \o t
  <2>1. <<>> \o t = t /\ s \o <<>> = s /\ (s \o t) \o <<>> = s \o t
    BY <1>11, ConcatEmptySeq, ConcatProperties
  <2>2. CASE sick[q]
    <3>1. pc[q] = t
      BY <1>2, <1>3, <1>4, <1>9, <2>2 DEF Waits, FromOn
    <3>2. QueuedSteps(q) = <<>>
      BY <2>2 DEF QueuedSteps
    <3>3. pc'[q] = (s \o t) \o <<>>
      BY <1>7, <1>10, <3>1, <3>2
    <3>. QED BY <2>1, <3>3
  <2>3. CASE ~sick[q]
    <3>1. QueuedSteps(q) = t
      BY <1>2, <1>3, <1>4, <1>9, <2>3 DEF QueuedSteps, Queued
    <3>2. pc'[q] = (s \o <<>>) \o t
      BY <1>2, <1>7, <1>10, <2>3, <3>1
    <3>. QED BY <2>1, <3>2
  <2>. QED BY <2>2, <2>3
<1>13. /\ \A a, b : ChangesIn(q, "step", a, b)' = ChangesIn(q, "step", a, b)
       /\ \A a : StageAt(q, a)' = StageAt(q, a) /\ Gen(q)' = g
  BY <1>4, <1>7 DEF ChangesIn, Those, StageAt, ApplyInboxStates, Gen
<1>14. FromOn(q, c, pc[q])'
  <2>1. ChangesIn(q, "step", c, g)' = pc'[q]
    BY <1>11, <1>12, <1>13
  <2>. QED BY <1>13, <2>1 DEF FromOn
<1>15. ChangesIn(q, "step", c, c)' = pcRun'[q]
  <2>1. ChangesIn(q, "step", c, c) = <<>>
    BY <1>6, ChangesInNone
  <2>. QED BY <1>2, <1>7, <1>13, <2>1
<1>16. StageAt(q, c)' <= db'.stage
  <2>1. StageAt(q, c) <= db.stage
    BY <1>5 DEF RowsCarry, Carries
  <2>. QED BY <1>7, <1>13, <2>1
<1>17. c <= c
  BY <1>6
<1>18. Spread(q, pcRun[q], pc[q])'
  BY <1>6, <1>13, <1>14, <1>15, <1>16, <1>17 DEF Spread
<1>. QED BY <1>7, <1>18 DEF Waits

\* A short transaction takes what waits, lands it or puts it back.
LEMMA ChannelWaits ==
    ASSUME StoreInv, \A p \in Procs : Idle(p), RowsCarry, [Next]_vars, NEW q \in Procs, Waits(q), Channel(q)
    PROVE  Waits(q)'
<1>1. MadeTrue /\ Logs /\ db \in Rows /\ db.stage \in 0..3
  BY StepBasics, DbRows
<1>2. /\ UNCHANGED <<made, start, fly, dead, sick>> /\ sick[q] /\ (fly[q] = 0 \/ dead[q])
      /\ DOMAIN pc = Procs /\ DOMAIN pcRun = Procs
  BY MineTypes DEF Channel, PumpPoisoned, PoisonedWritten, PoisonedCut, flushVars, bootVars, Idle
<1>3. PICK g \in Nat : g = Gen(q)
  BY <1>1, MadeIs
<1>4. PICK s : s = pcRun[q]
  OBVIOUS
<1>5. PICK t : t = pc[q]
  OBVIOUS
<1>6. PICK x \in 0..Gen(q), y \in 0..Gen(q) :
        x <= y /\ StageAt(q, x) <= db.stage /\ s = ChangesIn(q, "step", x, y) /\ FromOn(q, y, t)
  BY <1>2, <1>4, <1>5 DEF Waits, Spread
<1>7. /\ x \in Nat /\ y \in Nat /\ x <= y /\ y <= g /\ g <= g /\ x \in 0..g /\ y \in 0..g /\ g \in 0..g
      /\ t = ChangesIn(q, "step", y, g) /\ g \in 0..Gen(q)
  BY <1>3, <1>6 DEF FromOn
<1>8. /\ s \in Seq(Made) /\ t \in Seq(Made)
      /\ ChangesIn(q, "step", x, g) = s \o t
  <2>1. s \in Seq(Made) /\ t \in Seq(Made)
    BY <1>1, <1>6, <1>7, ChangesInAre
  <2>2. ChangesIn(q, "step", x, g) = ChangesIn(q, "step", x, y) \o ChangesIn(q, "step", y, g)
    BY ONLY <1>7, g \in Nat, ChangesInJoin
  <2>. QED BY <1>6, <1>7, <2>1, <2>2
<1>9. /\ \A a, b : ChangesIn(q, "step", a, b)' = ChangesIn(q, "step", a, b)
      /\ \A a : StageAt(q, a)' = StageAt(q, a) /\ Gen(q)' = g
  BY <1>2, <1>3 DEF ChangesIn, Those, StageAt, ApplyInboxStates, Gen
<1>10. \A b, c : c = ChangesIn(q, "step", b, g) => FromOn(q, b, c)'
  BY <1>9 DEF FromOn
<1>11. Stepped(db, s).stage = ApplyInboxStates(db.stage, s) /\ db.stage <= Stepped(db, s).stage
  BY <1>1, <1>8, SteppedWider DEF Wider
<1>12. CASE PumpPoisoned(q)
  <2>1. s = <<>> /\ pcRun'[q] = t /\ pc'[q] = <<>> /\ db' = db
    BY <1>2, <1>4, <1>5, <1>12 DEF PumpPoisoned
  <2>2. <<>> \o t = t
    BY <1>8, ConcatEmptySeq
  <2>3. ChangesIn(q, "step", x, g)' = pcRun'[q]
    BY <1>8, <1>9, <2>1, <2>2
  <2>4. FromOn(q, g, pc[q])'
    <3>1. <<>> = ChangesIn(q, "step", g, g)
      BY ChangesInNone
    <3>2. FromOn(q, g, <<>>)'
      BY <1>10, <3>1
    <3>. QED BY <2>1, <3>2 DEF FromOn
  <2>5. StageAt(q, x)' <= db'.stage
    BY <1>6, <1>9, <2>1
  <2>6. x <= g
    BY <1>7
  <2>. QED BY <1>2, <1>7, <1>9, <2>3, <2>4, <2>5, <2>6 DEF Waits, Spread
<1>13. CASE PoisonedWritten(q)
  <2>1. pcRun'[q] = <<>> /\ pc'[q] = t /\ db' = Stepped(db, s)
    BY <1>2, <1>4, <1>5, <1>13 DEF PoisonedWritten
  <2>2. StageAt(q, y) <= ApplyInboxStates(db.stage, s)
    <3>1. PICK d \in 0..3 : d = db.stage
      BY <1>1
    <3>2. StageAt(q, x) <= d
      BY <1>6, <3>1
    <3>3. StageAt(q, y) <= ApplyInboxStates(d, ChangesIn(q, "step", x, y))
      BY <1>1, <1>7, <3>2, StepsLand
    <3>. QED BY <1>6, <3>1, <3>3
  <2>3. StageAt(q, y)' <= db'.stage
    BY <1>9, <1>11, <2>1, <2>2
  <2>4. ChangesIn(q, "step", y, y)' = pcRun'[q]
    <3>1. <<>> = ChangesIn(q, "step", y, y)
      BY <1>7, ChangesInNone
    <3>. QED BY <1>9, <2>1, <3>1
  <2>5. FromOn(q, y, pc[q])'
    <3>1. FromOn(q, y, t)'
      BY <1>7, <1>10
    <3>. QED BY <2>1, <3>1 DEF FromOn
  <2>6. y <= y
    BY <1>7
  <2>. QED BY <1>2, <1>7, <1>9, <2>3, <2>4, <2>5, <2>6 DEF Waits, Spread
<1>14. CASE PoisonedCut(q)
  <2>1. pcRun'[q] = <<>> /\ pc'[q] = s \o t /\ db' \in {db, Stepped(db, s)}
    BY <1>2, <1>4, <1>5, <1>14 DEF PoisonedCut
  <2>2. StageAt(q, x)' <= db'.stage
    <3>1. PICK i : i = StageAt(q, x)
      OBVIOUS
    <3>2. i \in 0..3
      BY <1>1, <1>6, <1>7, <3>1, StageAtIs
    <3>3. ApplyInboxStates(db.stage, s) \in 0..3
      BY <1>1, <1>8, StageIn
    <3>4. db'.stage = db.stage \/ db'.stage = ApplyInboxStates(db.stage, s)
      BY <1>11, <2>1
    <3>5. i <= db'.stage
      BY <1>1, <1>6, <1>11, <3>1, <3>2, <3>3, <3>4
    <3>. QED BY <1>9, <3>1, <3>5
  <2>3. ChangesIn(q, "step", x, x)' = pcRun'[q]
    <3>1. <<>> = ChangesIn(q, "step", x, x)
      BY <1>7, ChangesInNone
    <3>. QED BY <1>9, <2>1, <3>1
  <2>4. FromOn(q, x, pc[q])'
    <3>1. s \o t = ChangesIn(q, "step", x, g)
      BY <1>8
    <3>2. FromOn(q, x, s \o t)'
      BY <1>9, <3>1 DEF FromOn
    <3>. QED BY <2>1, <3>2 DEF FromOn
  <2>5. x <= x
    BY <1>7
  <2>. QED BY <1>2, <1>7, <1>9, <2>2, <2>3, <2>4, <2>5 DEF Waits, Spread
<1>. QED BY <1>12, <1>13, <1>14 DEF Channel

LEMMA WaitsKept ==
    ASSUME StoreInv, QueuesInv, [Next]_vars
    PROVE  \A q \in Procs : Waits(q)'
<1>1. SUFFICES ASSUME NEW q \in Procs, sick'[q] PROVE Waits(q)'
  BY DEF Waits
<1>2. (\A p \in Procs : Idle(p)) /\ Waits(q) /\ RowsCarry
  BY DEF QueuesInv
<1>3. CASE Still(q)
  BY <1>2, <1>3, StillWaits
<1>4. CASE \E kind \in left.kinds : Change(q, kind)
  <2>1. PICK kind \in left.kinds : Change(q, kind)
    BY <1>4
  <2>2. sick' = sick
    BY <2>1 DEF Change
  <2>. QED BY <1>1, <1>2, <2>1, <2>2, ChangeWaits
<1>5. CASE FlushCommits(q) \/ FlushKnown(q)
  <2>1. sick' = sick
    BY <1>5 DEF FlushCommits, FlushKnown, AfterCommit, pcVars
  <2>. QED BY <1>1, <1>2, <1>5, <2>1, FlushWaits
<1>6. CASE Poison(q) \/ FlushRejected(q) \/ Channel(q)
  BY <1>2, <1>6, PoisonWaits, RejectWaits, ChannelWaits
<1>. QED BY <1>1, <1>3, <1>4, <1>5, <1>6, QueuesMove

-----------------------------------------------------------------------------
(* Spill files stay true *)

LifeMoves ==
    \A q \in Procs :
        \/ life'[q] = life[q]
        \/ Boot(q) /\ life[q] = "off" /\ life'[q] = "boot"
        \/ Install(q) /\ life[q] = "boot" /\ life'[q] = "up"
        \/ ReplayConflicts(q) /\ life[q] = "boot" /\ life'[q] = "blocked"
        \/ ReplayCut(q) /\ life[q] = "boot" /\ life'[q] = "refused"
        \/ Close(q) /\ life[q] = "up" /\ life'[q] = "closed"
        \/ Exit(q) /\ Alive(q) /\ life'[q] = "exited"
        \/ Crash(q) /\ (Alive(q) \/ life[q] = "boot") /\ life'[q] = "killed"

LEMMA LifeMovesAre == ASSUME StoreInv, [Next]_vars PROVE LifeMoves
<1>1. life \in [Procs -> {"off", "boot", "up", "closed"} \cup Over]
  BY MineTypes
<1>2. SUFFICES ASSUME NEW q \in Procs, life'[q] # life[q]
               PROVE  \/ Boot(q) /\ life[q] = "off" /\ life'[q] = "boot"
                      \/ Install(q) /\ life[q] = "boot" /\ life'[q] = "up"
                      \/ ReplayConflicts(q) /\ life[q] = "boot" /\ life'[q] = "blocked"
                      \/ ReplayCut(q) /\ life[q] = "boot" /\ life'[q] = "refused"
                      \/ Close(q) /\ life[q] = "up" /\ life'[q] = "closed"
                      \/ Exit(q) /\ Alive(q) /\ life'[q] = "exited"
                      \/ Crash(q) /\ (Alive(q) \/ life[q] = "boot") /\ life'[q] = "killed"
  BY DEF LifeMoves
<1>3. ASSUME NEW p \in Procs
      PROVE  /\ Boot(p) => life[p] = "off" /\ life' = [life EXCEPT ![p] = "boot"]
             /\ Install(p) => life[p] = "boot" /\ life' = [life EXCEPT ![p] = "up"]
             /\ ReplayConflicts(p) => life[p] = "boot" /\ life' = [life EXCEPT ![p] = "blocked"]
             /\ ReplayCut(p) => life[p] = "boot" /\ life' = [life EXCEPT ![p] = "refused"]
             /\ Close(p) => life[p] = "up" /\ life' = [life EXCEPT ![p] = "closed"]
             /\ Exit(p) => Alive(p) /\ life' = [life EXCEPT ![p] = "exited"]
             /\ Crash(p) => (Alive(p) \/ life[p] = "boot") /\ life' = [life EXCEPT ![p] = "killed"]
  BY DEF Boot, Install, ReplayConflicts, ReplayCut, Replaying, Refuse, Close, Exit, Crash, Leave
<1>4. ASSUME NEW p \in Procs
      PROVE  (\E kind \in left.kinds : Change(p, kind)) \/ Poison(p) \/ Kick(p) \/ Flush(p) \/ FlushFails(p) => life' = life
  BY DEF Change, Poison, Kick, Flush, FlushCommits, FlushKnown, FlushConflicts, AfterCommit, FlushFails, FlushCut, FlushRejected
<1>5. ASSUME NEW p \in Procs
      PROVE  Retry(p) \/ Channel(p) \/ OnLockLost(p) \/ ReacquireOnce(p) \/ FileDone(p) => life' = life
  BY DEF Retry, Channel, PumpPoisoned, PoisonedWritten, PoisonedCut, OnLockLost, ReacquireOnce, FileDone
<1>6. ASSUME NEW p \in Procs
      PROVE  ReplayApplies(p) \/ ReplaySkips(p) \/ ReplayRejected(p) => life' = life
  BY DEF ReplayApplies, ReplaySkips, ReplayRejected, ReplayedTo
<1>7. LimboEnds \/ UNCHANGED vars => life' = life
  BY DEF LimboEnds, vars
<1>8. PICK p \in Procs : Boot(p) \/ Install(p) \/ ReplayConflicts(p) \/ ReplayCut(p) \/ Close(p) \/ Exit(p) \/ Crash(p)
  BY <1>2, <1>4, <1>5, <1>6, <1>7 DEF Next, Replay, ReplayFails
<1>9. p = q
  BY <1>1, <1>2, <1>3, <1>8
<1>. QED BY <1>1, <1>3, <1>8, <1>9

LEMMA FiledMoves ==
    ASSUME StoreInv, [Next]_vars
    PROVE  /\ \A e \in Filed' : e \in Filed \/ \E p \in Procs : Exit(p) /\ e = SpillEntryOf(p) /\ files' = Append(files, e)
           /\ (\A p \in Procs : ~Exit(p)) => Range(files') \subseteq Range(files)
<1>1. files \in Seq(Entries) /\ aside \in Seq(Entries)
  BY DEF StoreInv, DiskTypes
<1>2. CASE UNCHANGED <<files, aside>>
  BY <1>2 DEF Filed, Range
<1>3. ASSUME NEW p \in Procs, FileDone(p)
      PROVE  Range(files') \subseteq Range(files) /\ Range(aside') \subseteq Range(aside) \cup Range(files)
  <2>1. todo[p] > 0
    BY <1>3 DEF FileDone, StoreInv, Phase
  <2>2. files # <<>> /\ 1 \in DOMAIN files
    BY <2>1, EntryFiled
  <2>3. files' = Tail(files)
    BY <1>3 DEF FileDone
  <2>4. Range(files') \subseteq Range(files)
    <3>1. \A i \in 1..Len(files') : files'[i] = files[i + 1] /\ i + 1 \in 1..Len(files)
      BY <1>1, <2>2, <2>3
    <3>2. DOMAIN files' = 1..Len(files') /\ DOMAIN files = 1..Len(files)
      BY <1>1, <2>2, <2>3
    <3>. QED BY <3>1, <3>2 DEF Range
  <2>5. Entry \in Range(files)
    BY <2>2 DEF Entry, Range
  <2>6. Range(aside') \subseteq Range(aside) \cup {Entry}
    <3>1. CASE aside' = aside
      BY <3>1
    <3>2. CASE aside' = Append(aside, Entry)
      <4>1. PICK o \in Seq(Entries) : o = aside
        BY <1>1
      <4>2. PICK m \in Entries : m = Entry
        BY <2>2, <1>1 DEF Entry
      <4>3. PICK n : n = Append(o, m)
        OBVIOUS
      <4>4. Len(n) = Len(o) + 1 /\ n[Len(o) + 1] = m /\ (\A i \in 1..Len(o) : n[i] = o[i]) /\ DOMAIN n = 1..(Len(o) + 1)
        BY <4>3, AppendProperties
      <4>5. DOMAIN o = 1..Len(o) /\ Len(o) \in Nat
        BY <4>1
      <4>6. Range(n) \subseteq Range(o) \cup {m}
        BY <4>4, <4>5 DEF Range
      <4>. QED BY <3>2, <4>1, <4>2, <4>3, <4>6
    <3>. QED BY <1>3, <3>1, <3>2 DEF FileDone
  <2>. QED BY <2>4, <2>5, <2>6
<1>4. ASSUME NEW p \in Procs, Exit(p)
      PROVE  aside' = aside /\ (files' = files \/ (files' = Append(files, SpillEntryOf(p))
                                                   /\ Range(files') \subseteq Range(files) \cup {SpillEntryOf(p)}))
  <2>1. aside' = aside /\ (files' = files \/ files' = Append(files, SpillEntryOf(p)))
    BY <1>4 DEF Exit, Leave, SpillSync
  <2>2. CASE files' = Append(files, SpillEntryOf(p))
    <3>1. PICK o \in Seq(Entries) : o = files
      BY <1>1
    <3>2. PICK m \in Entries : m = SpillEntryOf(p)
      BY SpillIs
    <3>3. PICK n : n = Append(o, m)
      OBVIOUS
    <3>4. Len(n) = Len(o) + 1 /\ n[Len(o) + 1] = m /\ (\A i \in 1..Len(o) : n[i] = o[i]) /\ DOMAIN n = 1..(Len(o) + 1)
      BY <3>3, AppendProperties
    <3>5. DOMAIN o = 1..Len(o) /\ Len(o) \in Nat
      BY <3>1
    <3>6. Range(n) \subseteq Range(o) \cup {m}
      BY <3>4, <3>5 DEF Range
    <3>. QED BY <2>1, <2>2, <3>1, <3>2, <3>3, <3>6
  <2>. QED BY <2>1, <2>2
<1>5. ASSUME NEW p \in Procs
      PROVE  (\E kind \in left.kinds : Change(p, kind)) \/ Poison(p) \/ Kick(p) \/ Flush(p) \/ FlushFails(p)
               => UNCHANGED <<files, aside>>
  BY DEF Change, Poison, Kick, Flush, FlushCommits, FlushKnown, FlushConflicts, AfterCommit, FlushFails, FlushCut, FlushRejected, diskVars
<1>6. ASSUME NEW p \in Procs
      PROVE  Retry(p) \/ Channel(p) \/ OnLockLost(p) \/ ReacquireOnce(p) \/ Close(p) \/ Crash(p) \/ Boot(p)
               => UNCHANGED <<files, aside>>
  BY DEF Retry, Channel, PumpPoisoned, PoisonedWritten, PoisonedCut, OnLockLost, ReacquireOnce, Close, Crash, Leave, Boot, diskVars
<1>7. ASSUME NEW p \in Procs
      PROVE  Replay(p) \/ ReplayFails(p) \/ Install(p) => UNCHANGED <<files, aside>>
  BY DEF Replay, ReplayFails, ReplayApplies, ReplaySkips, ReplayConflicts, ReplayCut, ReplayRejected, ReplayedTo, Refuse, Install, diskVars
<1>8. LimboEnds \/ UNCHANGED vars => UNCHANGED <<files, aside>>
  BY DEF LimboEnds, vars, diskVars
<1>9. CASE \E p \in Procs : FileDone(p)
  BY <1>3, <1>9 DEF Filed
<1>10. CASE \E p \in Procs : Exit(p)
  BY <1>4, <1>10 DEF Filed
<1>. QED BY <1>2, <1>5, <1>6, <1>7, <1>8, <1>9, <1>10 DEF Next

\* A spill file has the inbox states and the side rows that were not in the database.
LEMMA SpillHolds ==
    ASSUME StoreInv, QueuesInv, NEW p \in Procs, NEW e, e = SpillEntryOf(p)
    PROVE  e.id = <<p, 0>> /\ EntrySteps(e) /\ EntryNotes(e)
<1>1. MadeTrue /\ Logs /\ Idle(p) /\ Waits(p) /\ RowsCarry
  BY LogsThen DEF QueuesInv
<1>2. PICK g \in Nat : g = Gen(p)
  BY <1>1, MadeIs
<1>3. PICK c : c = cgen[p]
  OBVIOUS
<1>4. PICK f : f = fly[p]
  OBVIOUS
<1>5. c \in Nat /\ f \in Nat /\ c \in 0..g /\ f \in 0..g /\ Queued(p) = IF f = 0 THEN c ELSE f
  BY <1>2, <1>3, <1>4 DEF StoreInv, FlagTypes, Phase, Queued
<1>6. /\ e.id = <<p, 0>> /\ e.id[1] = p
      /\ (f = 0 => e.fly = <<>>) /\ (f # 0 => e.fly = <<Snap(p)>> /\ e.fly # <<>> /\ e.fly[1] = Snap(p))
      /\ e.side = ChangesIn(p, "note", Queued(p), g)
      /\ e.steps = pcRun[p] \o pc[p] \o QueuedSteps(p)
  BY <1>2, <1>4 DEF SpillEntryOf
<1>7. FlyGen(e) = Queued(p)
  <2>1. f # 0 => Snap(p).id[2] = f
    BY <1>4 DEF Snap
  <2>. QED BY <1>3, <1>5, <1>6, <2>1 DEF FlyGen
<1>8. EntryNotes(e)
  <2>1. f # 0 => Snap(p).side = ChangesIn(p, "note", c, f)
    BY <1>3, <1>4 DEF Snap
  <2>. QED BY <1>2, <1>3, <1>5, <1>6, <1>7, <2>1 DEF EntryNotes
<1>9. pcRun[p] \in Seq(Made) /\ pc[p] \in Seq(Made) /\ QueuedSteps(p) \in Seq(Made)
  BY QueuedIs, MineTypes
<1>10. CASE ~sick[p]
  <2>1. ~dead[p] /\ pcRun[p] = <<>> /\ pc[p] = <<>> /\ QueuedSteps(p) = ChangesIn(p, "step", Queued(p), g)
    BY <1>1, <1>2, <1>10 DEF Idle, QueuedSteps
  <2>2. e.steps = QueuedSteps(p)
    <3>1. <<>> \o <<>> \o QueuedSteps(p) = QueuedSteps(p)
      BY <1>9, ConcatEmptySeq
    <3>. QED BY <1>6, <2>1, <3>1
  <2>3. CASE f = 0
    <3>1. FromOn(p, c, e.steps)
      BY <1>2, <1>5, <2>1, <2>2, <2>3 DEF FromOn
    <3>2. StageAt(p, c) <= db.stage
      BY <1>1, <1>3 DEF RowsCarry, Carries
    <3>. QED BY <1>2, <1>5, <1>6, <1>8, <3>1, <3>2 DEF EntrySteps
  <2>4. CASE f # 0
    <3>1. Snap(p).steps = ChangesIn(p, "step", c, f)
      BY <1>3, <1>4, <2>1 DEF Snap
    <3>2. FromOn(p, FlyGen(e), e.steps)
      BY <1>2, <1>5, <1>7, <2>1, <2>2, <2>4 DEF FromOn
    <3>. QED BY <1>3, <1>5, <1>6, <1>7, <1>8, <2>4, <3>1, <3>2 DEF EntrySteps
  <2>. QED BY <2>3, <2>4
<1>11. CASE sick[p] /\ f # 0 /\ ~dead[p]
  <2>1. pcRun[p] = <<>> /\ FromOn(p, f, pc[p]) /\ QueuedSteps(p) = <<>>
    BY <1>1, <1>4, <1>11 DEF Idle, Waits, QueuedSteps
  <2>2. e.steps = pc[p]
    <3>1. <<>> \o pc[p] \o <<>> = pc[p]
      BY <1>9, ConcatEmptySeq
    <3>. QED BY <1>6, <2>1, <3>1
  <2>3. Snap(p).steps = ChangesIn(p, "step", c, f)
    BY <1>3, <1>4, <1>11 DEF Snap
  <2>4. FromOn(p, FlyGen(e), e.steps)
    BY <1>5, <1>7, <1>11, <2>1, <2>2
  <2>. QED BY <1>3, <1>5, <1>6, <1>7, <1>8, <1>11, <2>3, <2>4 DEF EntrySteps
<1>12. CASE sick[p] /\ (f = 0 \/ dead[p])
  <2>1. PICK s : s = pcRun[p]
    OBVIOUS
  <2>2. PICK t : t = pc[p]
    OBVIOUS
  <2>3. PICK x \in 0..Gen(p), y \in 0..Gen(p) :
          x <= y /\ StageAt(p, x) <= db.stage /\ s = ChangesIn(p, "step", x, y) /\ FromOn(p, y, t)
    BY <1>1, <1>4, <1>12, <2>1, <2>2 DEF Waits, Spread
  <2>4. x \in Nat /\ y \in Nat /\ y <= g /\ x <= y /\ t = ChangesIn(p, "step", y, g)
    BY <1>2, <2>3 DEF FromOn
  <2>5. ChangesIn(p, "step", x, g) = ChangesIn(p, "step", x, y) \o ChangesIn(p, "step", y, g)
    BY ONLY <2>4, g \in Nat, ChangesInJoin
  <2>6. e.steps = s \o t
    <3>1. (s \o t) \o <<>> = s \o t
      BY <1>9, <2>1, <2>2, ConcatEmptySeq, ConcatProperties
    <3>2. QueuedSteps(p) = <<>>
      BY <1>12 DEF QueuedSteps
    <3>. QED BY <1>6, <2>1, <2>2, <3>1, <3>2
  <2>7. FromOn(p, x, e.steps)
    BY <1>2, <2>3, <2>4, <2>5, <2>6 DEF FromOn
  <2>. QED BY <1>6, <1>8, <2>3, <2>7 DEF EntrySteps
<1>. QED BY <1>10, <1>11, <1>12

LEMMA EntryPartsKept ==
    ASSUME MadeTrue, MadeTrue', Grows, Logs, NEW q \in Procs, life[q] \notin Fresh, made'[q] = made[q], cgen'[q] = cgen[q],
           db.stage \in 0..3, db'.stage \in 0..3, db.stage <= db'.stage,
           NEW e, e.id[1] = q, EntrySteps(e), EntryNotes(e)
    PROVE  EntrySteps(e)' /\ EntryNotes(e)' /\ FlyGen(e)' = FlyGen(e)
<1>1. PICK g \in Nat : g = Gen(q)
  BY MadeIs
<1>2. \A kind, a, b : ChangesIn(q, kind, a, b)' = ChangesIn(q, kind, a, b)
  BY DEF ChangesIn, Those
<1>3. PICK x : x = FlyGen(e)
  OBVIOUS
<1>4. PICK c : c = cgen[q]
  OBVIOUS
<1>5. Gen(q)' = g /\ FlyGen(e)' = x /\ cgen'[q] = c
  BY <1>1, <1>3, <1>4 DEF Gen, FlyGen
<1>6. EntryNotes(e)'
  <2>1. e.side = ChangesIn(q, "note", x, g) /\ (e.fly # <<>> => e.fly[1].side = ChangesIn(q, "note", c, x))
    BY <1>1, <1>3, <1>4 DEF EntryNotes
  <2>2. e.side = ChangesIn(q, "note", x, g)' /\ (e.fly # <<>> => e.fly[1].side = ChangesIn(q, "note", c, x)')
    BY <1>2, <2>1
  <2>. QED BY <1>5, <2>2 DEF EntryNotes
<1>7. CASE \E y \in 0..Gen(q) : StageAt(q, y) <= db.stage /\ FromOn(q, y, e.steps)
  <2>1. PICK y \in 0..Gen(q) : StageAt(q, y) <= db.stage /\ FromOn(q, y, e.steps)
    BY <1>7
  <2>2. StageAt(q, y)' = StageAt(q, y) /\ StageAt(q, y) \in 0..3
    <3>1. y \in Nat /\ y <= y
      BY <1>1, <2>1
    <3>. QED BY <2>1, <3>1, StageAtKept, StageAtIs
  <2>3. StageAt(q, y)' <= db'.stage
    BY <2>1, <2>2
  <2>4. FromOn(q, y, e.steps)'
    <3>1. e.steps = ChangesIn(q, "step", y, g)
      BY <1>1, <2>1 DEF FromOn
    <3>2. e.steps = ChangesIn(q, "step", y, g)'
      BY <1>2, <3>1
    <3>. QED BY <1>5, <3>2 DEF FromOn
  <2>5. y \in 0..Gen(q)'
    BY <1>1, <1>5, <2>1
  <2>. QED BY <1>5, <1>6, <1>3, <2>3, <2>4, <2>5 DEF EntrySteps
<1>8. CASE /\ e.fly # <<>> /\ e.fly[1].steps = ChangesIn(q, "step", cgen[q], FlyGen(e))
           /\ FromOn(q, FlyGen(e), e.steps)
  <2>1. e.fly[1].steps = ChangesIn(q, "step", c, x) /\ e.steps = ChangesIn(q, "step", x, g)
    BY <1>1, <1>3, <1>4, <1>8 DEF FromOn
  <2>2. e.fly[1].steps = ChangesIn(q, "step", c, x)' /\ e.steps = ChangesIn(q, "step", x, g)'
    BY <1>2, <2>1
  <2>3. FromOn(q, x, e.steps)'
    BY <1>5, <2>2 DEF FromOn
  <2>. QED BY <1>3, <1>5, <1>6, <1>8, <2>2, <2>3 DEF EntrySteps
<1>. QED BY <1>7, <1>8 DEF EntrySteps

LEMMA EntriesTrueKept ==
    ASSUME StoreInv, QueuesInv, EntriesTrue, [Next]_vars
    PROVE  EntriesTrue'
<1>1. MadeTrue /\ Logs /\ MadeTrue' /\ Grows /\ StoreInv' /\ LifeMoves /\ (\A p \in Procs : Idle(p)) /\ RowsCarry
  BY StepBasics, LifeMovesAre DEF QueuesInv
<1>2. db.stage \in 0..3 /\ db'.stage \in 0..3 /\ db.stage <= db'.stage
  BY <1>1, DbRows, DbWidens DEF Wider
<1>3. SUFFICES ASSUME NEW e \in Filed'
               PROVE  e \in Entries' /\ life'[e.id[1]] = "exited" /\ EntryTrue(e)' /\ EntrySteps(e)' /\ EntryNotes(e)'
  BY DEF EntriesTrue
<1>4. CASE e \in Filed
  <2>1. PICK q : q = e.id[1]
    OBVIOUS
  <2>2. e \in Entries /\ life[q] = "exited" /\ EntryTrue(e) /\ EntrySteps(e) /\ EntryNotes(e)
    BY <1>4, <2>1 DEF EntriesTrue
  <2>3. q \in Procs
    BY <2>1, <2>2 DEF Entries, EntryRecords
  <2>4. life[q] \notin Fresh /\ made'[q] = made[q] /\ cgen'[q] = cgen[q]
    BY <1>1, <2>2, <2>3 DEF Grows, Fresh, Over
  <2>5. EntrySteps(e)' /\ EntryNotes(e)'
    BY <1>1, <1>2, <2>1, <2>2, <2>3, <2>4, EntryPartsKept
  <2>6. EntryTrue(e)'
    <3>1. \A p \in Procs : cgen[p] \in Nat /\ cgen[p] <= Gen(p)
      BY DEF StoreInv, FlagTypes, Phase
    <3>. QED BY <1>1, <2>2, <3>1, EntryKept
  <2>7. e \in Entries'
    BY <2>2, MadeGrows, SetsGrow
  <2>8. life'[q] = "exited"
    BY <1>1, <2>2, <2>3 DEF LifeMoves, Alive
  <2>. QED BY <2>1, <2>5, <2>6, <2>7, <2>8
<1>5. CASE e \notin Filed
  <2>1. PICK p \in Procs : Exit(p) /\ e = SpillEntryOf(p) /\ files' = Append(files, e)
    BY <1>3, <1>5, FiledMoves
  <2>2. e.id = <<p, 0>> /\ e.id[1] = p /\ EntrySteps(e) /\ EntryNotes(e)
    BY <2>1, SpillHolds
  <2>3. Alive(p) /\ life'[p] = "exited" /\ made' = made /\ cgen' = cgen
    BY <2>1, MineTypes DEF Exit, Leave
  <2>4. EntrySteps(e)' /\ EntryNotes(e)'
    BY <1>1, <1>2, <2>2, <2>3, EntryPartsKept DEF Alive, Fresh
  <2>5. e \in Entries
    BY <2>1, SpillIs
  <2>6. EntryTrue(e)'
    <3>1. PICK o : o = files
      OBVIOUS
    <3>2. o \in Seq(Entries)
      BY <3>1 DEF StoreInv, DiskTypes
    <3>3. PICK n : n = Append(o, e)
      OBVIOUS
    <3>4. Len(n) = Len(o) + 1 /\ n[Len(o) + 1] = e /\ DOMAIN n = 1..(Len(o) + 1)
      BY <2>5, <3>2, <3>3, AppendProperties
    <3>5. Len(o) + 1 \in DOMAIN n
      BY <3>2, <3>4
    <3>6. PICK i : i = Len(o) + 1
      OBVIOUS
    <3>7. files' = n /\ i \in DOMAIN files' /\ files'[i] = e
      BY <2>1, <3>1, <3>3, <3>4, <3>5, <3>6
    <3>8. EntryTrue(files[i])'
      BY <1>1, <3>7 DEF StoreInv, WritesTrue
    <3>. QED BY <3>7, <3>8 DEF EntryTrue
  <2>7. e \in Entries'
    BY <2>5, MadeGrows, SetsGrow
  <2>. QED BY <2>2, <2>3, <2>4, <2>6, <2>7
<1>. QED BY <1>4, <1>5

-----------------------------------------------------------------------------
(* Whose flush a row can be *)

FliesMove ==
    \A q \in Procs :
        \/ fly'[q] = fly[q] /\ cgen'[q] = cgen[q]
        \/ fly'[q] = 0 /\ cgen'[q] = fly[q] /\ cgen[q] < fly[q] /\ Alive(q) /\ run[q] = "sent"
        \/ fly[q] = 0 /\ cgen'[q] = cgen[q] /\ life[q] = "up"
        \/ life'[q] \in {"exited", "killed"}

LEMMA FliesMoveAre == ASSUME StoreInv, [Next]_vars PROVE FliesMove
<1>1. DOMAIN fly = Procs /\ DOMAIN cgen = Procs /\ DOMAIN life = Procs /\ fly \in [Procs -> Nat] /\ cgen \in [Procs -> Nat]
  BY MineTypes
<1>2. \A q \in Procs : run[q] = "sent" => cgen[q] < fly[q]
  BY <1>1 DEF StoreInv, Phase
<1>3. CASE UNCHANGED <<fly, cgen>>
  BY <1>3 DEF FliesMove
<1>4. ASSUME NEW p \in Procs
      PROVE  (\E kind \in left.kinds : Change(p, kind)) \/ Poison(p) \/ Retry(p) \/ Channel(p) \/ OnLockLost(p) \/ ReacquireOnce(p)
               => UNCHANGED <<fly, cgen>>
  BY DEF Change, Poison, Retry, Channel, PumpPoisoned, PoisonedWritten, PoisonedCut, OnLockLost, ReacquireOnce, flushVars
<1>5. ASSUME NEW p \in Procs
      PROVE  FlushConflicts(p) \/ FlushFails(p) \/ Close(p) \/ Boot(p) \/ FileDone(p) \/ Install(p) => UNCHANGED <<fly, cgen>>
  BY DEF FlushConflicts, FlushFails, FlushCut, FlushRejected, Close, Boot, FileDone, Install, flushVars
<1>6. ASSUME NEW p \in Procs
      PROVE  Replay(p) \/ ReplayFails(p) => UNCHANGED <<fly, cgen>>
  BY DEF Replay, ReplayFails, ReplayApplies, ReplaySkips, ReplayConflicts, ReplayCut, ReplayRejected, ReplayedTo, Refuse, flushVars
<1>7. LimboEnds \/ UNCHANGED vars => UNCHANGED <<fly, cgen>>
  BY DEF LimboEnds, vars, flushVars
<1>8. ASSUME NEW p \in Procs, Kick(p) PROVE FliesMove
  <2>1. fly[p] = 0 /\ cgen' = cgen /\ life[p] = "up" /\ \A q \in Procs : q # p => fly'[q] = fly[q]
    BY <1>1, <1>8 DEF Kick, MayWrite
  <2>. QED BY <2>1 DEF FliesMove
<1>9. ASSUME NEW p \in Procs, FlushCommits(p) \/ FlushKnown(p) PROVE FliesMove
  <2>1. Alive(p) /\ run[p] = "sent" /\ fly' = [fly EXCEPT ![p] = 0] /\ cgen' = [cgen EXCEPT ![p] = fly[p]]
    BY <1>9 DEF FlushCommits, FlushKnown, Attempted, AfterCommit
  <2>. QED BY <1>1, <1>2, <2>1 DEF FliesMove
<1>10. ASSUME NEW p \in Procs, Exit(p) \/ Crash(p) PROVE FliesMove
  <2>1. fly' = [fly EXCEPT ![p] = 0] /\ cgen' = cgen /\ life'[p] \in {"exited", "killed"}
    BY <1>1, <1>10 DEF Exit, Crash, Leave
  <2>. QED BY <1>1, <2>1 DEF FliesMove
<1>. QED BY <1>3, <1>4, <1>5, <1>6, <1>7, <1>8, <1>9, <1>10 DEF Next, Flush

OldRow(d) == (RowTrue(d) \/ Blank(d)) /\ FlownTrue(d)

LEMMA NewRowsAreOld ==
    ASSUME StoreInv, QueuesInv, EntriesTrue, FliesTrue, [Next]_vars
    PROVE  OldRow(db') /\ \A i \in DOMAIN limbo' : OldRow(limbo'[i])
<1>1. DbMoves /\ db \in Rows /\ MadeTrue /\ limbo \in Seq(Rows) /\ Len(limbo) \in 0..1
  BY DbMovesAre, LogsThen DEF QueuesInv, StoreInv, DiskTypes
<1>2. OldRow(db) /\ \A i \in DOMAIN limbo : OldRow(limbo[i])
  BY DEF StoreInv, WritesTrue, FliesTrue, OldRow
<1>3. ASSUME NEW s \in Seq(Made) PROVE OldRow(Stepped(db, s))
  <2>1. Stepped(db, s).log = db.log /\ Stepped(db, s).flush = db.flush
    BY <1>1, SteppedIs
  <2>. QED BY <1>2, <2>1 DEF OldRow, RowTrue, Blank, FlownTrue, Flushed
<1>4. ASSUME NEW r, Writes(r) PROVE OldRow(r)
  <2>1. RowTrue(r)
    BY <1>4, WritesAre DEF Lands
  <2>2. CASE \E p \in Procs : Alive(p) /\ run[p] = "sent" /\ Fits(db, Snap(p)) /\ r = Written(db, Snap(p))
    <3>1. PICK p \in Procs : Alive(p) /\ run[p] = "sent" /\ r = Written(db, Snap(p))
      BY <2>2
    <3>2. r.flush = <<p, fly[p]>>
      BY <3>1 DEF Written, Snap
    <3>3. r.flush[1] = p /\ r.flush[2] = fly[p]
      BY <3>2
    <3>4. \A e \in Filed : e.id[1] # p
      BY <3>1 DEF EntriesTrue, Alive
    <3>. QED BY <2>1, <3>3, <3>4 DEF OldRow, FlownTrue, Flushed
  <2>3. CASE \E p \in Procs : Replaying(p) /\ Continues(db, Entry) /\ r = Written(db, RestOf(db, Entry))
    <3>1. PICK p \in Procs : todo[p] > 0 /\ r = Written(db, RestOf(db, Entry))
      BY <2>3 DEF Replaying
    <3>2. EntryTrue(Entry)
      BY <3>1, EntryIs
    <3>3. r.flush = Entry.id
      BY <3>1 DEF Written, RestOf
    <3>4. r.flush[2] = 0
      BY <3>2, <3>3 DEF EntryTrue
    <3>. QED BY <2>1, <3>4 DEF OldRow, FlownTrue, Flushed
  <2>. QED BY <1>4, <2>2, <2>3 DEF Writes
<1>5. CASE UNCHANGED <<db, limbo>>
  BY <1>2, <1>5
<1>6. CASE limbo # <<>> /\ limbo' = <<>> /\ db' \in {db, limbo[1]}
  <2>1. 1 \in DOMAIN limbo
    BY <1>1, <1>6
  <2>. QED BY <1>2, <1>6, <2>1
<1>7. CASE limbo = <<>> /\ limbo' = <<>> /\ \E s \in Seq(Made) : db' = Stepped(db, s)
  BY <1>3, <1>7
<1>8. CASE limbo = <<>> /\ limbo' = <<>> /\ Writes(db')
  BY <1>4, <1>8
<1>9. CASE limbo = <<>> /\ db' = db /\ \E r : Writes(r) /\ limbo' = <<r>>
  <2>1. PICK r : Writes(r) /\ limbo' = <<r>>
    BY <1>9
  <2>2. DOMAIN limbo' = {1} /\ limbo'[1] = r
    BY <2>1
  <2>. QED BY <1>2, <1>4, <1>9, <2>1, <2>2
<1>. QED BY <1>1, <1>5, <1>6, <1>7, <1>8, <1>9 DEF DbMoves

LEMMA FlownKept ==
    ASSUME StoreInv, QueuesInv, EntriesTrue, [Next]_vars, NEW d, OldRow(d), d.flush[2] \in Nat
    PROVE  FlownTrue(d)'
<1>1. LifeMoves /\ FliesMove /\ Grows /\ MadeTrue /\ Logs /\ MadeTrue' /\ fly \in [Procs -> Nat] /\ cgen \in [Procs -> Nat]
  BY LifeMovesAre, FliesMoveAre, StepBasics, MineTypes
<1>2. 0 \notin Procs
  BY ProcsNat DEF ProcsAreNat
<1>3. \A q \in Procs : d.flush[1] = q => life[q] \notin Fresh
  BY <1>2 DEF OldRow, RowTrue, Blank
<1>4. ASSUME NEW q \in Procs, Alive(q)', d.flush[1] = q
      PROVE  d.flush[2] = 0 \/ d.flush[2] <= cgen'[q] \/ d.flush[2] = fly'[q]
  <2>1. Alive(q)
    BY <1>1, <1>3, <1>4 DEF LifeMoves, Alive, Fresh
  <2>2. d.flush[2] = 0 \/ d.flush[2] <= cgen[q] \/ d.flush[2] = fly[q]
    BY <1>4, <2>1 DEF OldRow, FlownTrue, Flushed
  <2>3. life'[q] \notin {"exited", "killed"}
    BY <1>4 DEF Alive
  <2>. QED BY <1>1, <2>2, <2>3 DEF FliesMove
<1>5. ASSUME NEW e \in Filed', d.flush[1] = e.id[1]
      PROVE  d.flush[2] = 0 \/ d.flush[2] <= cgen'[e.id[1]] \/ d.flush[2] = FlyGen(e)'
  <2>1. CASE e \in Filed
    <3>1. PICK q : q = e.id[1]
      OBVIOUS
    <3>2. q \in Procs /\ life[q] = "exited"
      BY <2>1, <3>1 DEF EntriesTrue, Entries, EntryRecords
    <3>3. cgen'[q] = cgen[q]
      BY <1>1, <3>2 DEF Grows, Over
    <3>4. FlyGen(e)' = FlyGen(e)
      BY <3>1, <3>3 DEF FlyGen
    <3>. QED BY <1>5, <2>1, <3>1, <3>3, <3>4 DEF OldRow, FlownTrue, Flushed
  <2>2. CASE e \notin Filed
    <3>1. PICK p \in Procs : Exit(p) /\ e = SpillEntryOf(p)
      BY <1>5, <2>2, FiledMoves
    <3>2. Alive(p) /\ cgen' = cgen
      BY <3>1 DEF Exit, Leave
    <3>3. /\ e.id[1] = p /\ (fly[p] = 0 => e.fly = <<>>)
          /\ (fly[p] # 0 => e.fly # <<>> /\ e.fly[1] = Snap(p) /\ Snap(p).id[2] = fly[p])
      BY <3>1 DEF SpillEntryOf, Snap
    <3>4. fly[p] # 0 => FlyGen(e)' = fly[p]
      BY <3>3 DEF FlyGen
    <3>5. d.flush[2] = 0 \/ d.flush[2] <= cgen[p] \/ d.flush[2] = fly[p]
      BY <1>5, <3>2, <3>3 DEF OldRow, FlownTrue, Flushed
    <3>. QED BY <3>2, <3>3, <3>4, <3>5
  <2>. QED BY <2>1, <2>2
<1>. QED BY <1>4, <1>5 DEF FlownTrue, Flushed

LEMMA FliesTrueKept ==
    ASSUME StoreInv, QueuesInv, EntriesTrue, FliesTrue, [Next]_vars
    PROVE  FliesTrue'
<1>1. OldRow(db') /\ \A i \in DOMAIN limbo' : OldRow(limbo'[i])
  BY NewRowsAreOld
<1>2. db' \in Rows' /\ limbo' \in Seq(Rows')
  BY DiskKept DEF DiskTypes
<1>3. db'.flush[2] \in Nat /\ \A i \in DOMAIN limbo' : limbo'[i].flush[2] \in Nat
  <2>1. \A d \in Rows' : d.flush[2] \in Nat
    BY DEF Rows
  <2>2. \A i \in DOMAIN limbo' : limbo'[i] \in Rows'
    BY <1>2
  <2>. QED BY <1>2, <2>1, <2>2
<1>4. PICK d : d = db'
  OBVIOUS
<1>5. FlownTrue(d)'
  BY <1>1, <1>3, <1>4, FlownKept
<1>6. ASSUME NEW i \in DOMAIN limbo' PROVE FlownTrue(limbo[i])'
  <2>1. PICK r : r = limbo'[i]
    OBVIOUS
  <2>2. FlownTrue(r)'
    BY <1>1, <1>3, <1>6, <2>1, FlownKept
  <2>. QED BY <2>1, <2>2 DEF FlownTrue, Flushed
<1>7. FlownTrue(db)'
  BY <1>4, <1>5 DEF FlownTrue, Flushed
<1>. QED BY <1>6, <1>7 DEF FliesTrue

-----------------------------------------------------------------------------
(* Processes one after the other *)

LEMMA SpendLeaves ==
    ASSUME left \in Budgets, NEW f \in FaultKinds, Spend(f)
    PROVE  left'.kinds = left.kinds /\ left'.overlap = left.overlap
  BY DEF Spend, Budgets

LEMMA LeftKept ==
    ASSUME StoreInv, [Next]_vars
    PROVE  left'.kinds = left.kinds /\ left'.overlap = left.overlap
<1>1. left \in Budgets
  BY DEF StoreInv, FlagTypes
<1>. QED BY <1>1, BudgetMoves, SpendLeaves

LEMMA NoNotesKept ==
    ASSUME StoreInv, NoNotes, [Next]_vars
    PROVE  NoNotes'
<1>1. left'.kinds = left.kinds /\ MadeTrue /\ MadeTrue'
  BY LeftKept, StepBasics
<1>2. SUFFICES ASSUME NEW p \in Procs, NEW i \in DOMAIN made'[p] PROVE made'[p][i].kind # "note"
  BY <1>1 DEF NoNotes, Made, ChangesOf, KindOf
<1>3. CASE made'[p] = made[p]
  <2>1. <<p, i>> \in Made
    BY <1>2, <1>3 DEF Made, ChangesOf
  <2>. QED BY <1>3, <2>1 DEF NoNotes, KindOf
<1>4. CASE made'[p] # made[p]
  <2>1. PICK kind \in left.kinds : Change(p, kind)
    BY <1>1, <1>4, MadeChanges DEF MadeTrue
  <2>2. PICK to \in 0..3 : made' = [made EXCEPT ![p] = Append(@, [kind |-> kind, to |-> to])]
    BY <2>1 DEF Change
  <2>3. kind \in {"talk", "note", "step"} /\ kind # "note"
    BY DEF StoreInv, FlagTypes, Budgets, NoNotes
  <2>4. PICK m \in Changes : m = [kind |-> kind, to |-> to]
    BY <2>3 DEF Changes
  <2>5. PICK o \in Seq(Changes) : o = made[p]
    BY <1>1 DEF MadeTrue
  <2>6. PICK n : n = Append(o, m)
    OBVIOUS
  <2>7. made'[p] = n
    BY <1>1, <2>2, <2>4, <2>5, <2>6 DEF MadeTrue
  <2>8. Len(n) = Len(o) + 1 /\ n[Len(o) + 1] = m /\ (\A j \in 1..Len(o) : n[j] = o[j]) /\ DOMAIN n = 1..(Len(o) + 1)
    BY <2>6, AppendProperties
  <2>9. \A j \in DOMAIN o : o[j].kind # "note"
    <3>1. \A j \in DOMAIN o : <<p, j>> \in Made
      BY <2>5 DEF Made, ChangesOf
    <3>. QED BY <2>5, <3>1 DEF NoNotes, KindOf
  <2>10. DOMAIN o = 1..Len(o) /\ Len(o) \in Nat /\ m.kind # "note"
    BY <2>3, <2>4
  <2>. QED BY <1>2, <2>7, <2>8, <2>9, <2>10
<1>. QED BY <1>3, <1>4

Running(p) == life[p] \notin Over /\ life[p] # "off"

LEMMA OneRunning ==
    ASSUME StoreInv, Alone, NEW p \in Procs, NEW q \in Procs, Running(p), Running(q)
    PROVE  p = q
<1>1. p \in Nat \ {0} /\ q \in Nat \ {0}
  BY ProcsNat DEF ProcsAreNat
<1>2. ~(q \in 1..(p - 1)) /\ ~(p \in 1..(q - 1))
  BY DEF Alone, Running
<1>. QED BY <1>1, <1>2

\* No row is of a process that starts later than one that runs.
LEMMA RowOfRunning ==
    ASSUME StoreInv, Alone, NEW p \in Procs, life[p] \notin Over, NEW d, RowTrue(d) \/ Blank(d)
    PROVE  d.flush[1] \in Nat /\ d.flush[1] <= p /\ (life[p] \in Fresh => d.flush[1] < p)
<1>1. p \in Nat \ {0}
  BY ProcsNat DEF ProcsAreNat
<1>2. CASE RowTrue(d)
  <2>1. PICK w \in Procs : w = d.flush[1] /\ life[w] \notin Fresh
    BY <1>2 DEF RowTrue
  <2>2. w \in Nat \ {0}
    BY <2>1, ProcsNat DEF ProcsAreNat
  <2>3. ~(p \in 1..(w - 1))
    BY <2>1 DEF Alone, Fresh
  <2>. QED BY <1>1, <2>1, <2>2, <2>3
<1>3. CASE Blank(d)
  <2>1. d.flush[1] = 0
    BY <1>3 DEF Blank
  <2>. QED BY <1>1, <2>1
<1>. QED BY <1>2, <1>3

FlushMoved(d) ==
    \/ d.flush = db.flush
    \/ \E j \in DOMAIN limbo : d.flush = limbo[j].flush
    \/ \E p \in Procs : Alive(p) /\ d.flush = <<p, fly[p]>>
    \/ \E p \in Procs : Replaying(p) /\ d.flush = Entry.id

LEMMA FlushMoves ==
    ASSUME StoreInv, QueuesInv, [Next]_vars
    PROVE  FlushMoved(db') /\ \A i \in DOMAIN limbo' : FlushMoved(limbo'[i])
<1>1. DbMoves /\ db \in Rows /\ MadeTrue /\ limbo \in Seq(Rows) /\ Len(limbo) \in 0..1
  BY DbMovesAre, LogsThen DEF QueuesInv, StoreInv, DiskTypes
<1>2. FlushMoved(db) /\ \A i \in DOMAIN limbo : FlushMoved(limbo[i])
  BY DEF FlushMoved
<1>3. ASSUME NEW s \in Seq(Made) PROVE FlushMoved(Stepped(db, s))
  <2>1. Stepped(db, s).flush = db.flush
    BY <1>1, SteppedIs
  <2>. QED BY <2>1 DEF FlushMoved
<1>4. ASSUME NEW r, Writes(r) PROVE FlushMoved(r)
  <2>1. CASE \E p \in Procs : Alive(p) /\ run[p] = "sent" /\ Fits(db, Snap(p)) /\ r = Written(db, Snap(p))
    <3>1. PICK p \in Procs : Alive(p) /\ r = Written(db, Snap(p))
      BY <2>1
    <3>2. r.flush = <<p, fly[p]>>
      BY <3>1 DEF Written, Snap
    <3>. QED BY <3>1, <3>2 DEF FlushMoved
  <2>2. CASE \E p \in Procs : Replaying(p) /\ Continues(db, Entry) /\ r = Written(db, RestOf(db, Entry))
    <3>1. PICK p \in Procs : Replaying(p) /\ r = Written(db, RestOf(db, Entry))
      BY <2>2
    <3>2. r.flush = Entry.id
      BY <3>1 DEF Written, RestOf
    <3>. QED BY <3>1, <3>2 DEF FlushMoved
  <2>. QED BY <1>4, <2>1, <2>2 DEF Writes
<1>5. CASE UNCHANGED <<db, limbo>>
  BY <1>2, <1>5
<1>6. CASE limbo # <<>> /\ limbo' = <<>> /\ db' \in {db, limbo[1]}
  <2>1. 1 \in DOMAIN limbo
    BY <1>1, <1>6
  <2>. QED BY <1>2, <1>6, <2>1
<1>7. CASE limbo = <<>> /\ limbo' = <<>> /\ \E s \in Seq(Made) : db' = Stepped(db, s)
  BY <1>3, <1>7
<1>8. CASE limbo = <<>> /\ limbo' = <<>> /\ Writes(db')
  BY <1>4, <1>8
<1>9. CASE limbo = <<>> /\ db' = db /\ \E r : Writes(r) /\ limbo' = <<r>>
  <2>1. PICK r : Writes(r) /\ limbo' = <<r>>
    BY <1>9
  <2>2. DOMAIN limbo' = {1} /\ limbo'[1] = r
    BY <2>1
  <2>. QED BY <1>2, <1>4, <1>9, <2>1, <2>2
<1>. QED BY <1>1, <1>5, <1>6, <1>7, <1>8, <1>9 DEF DbMoves

\* What happens to the spill files, and to the replay of a process.
FilesMove ==
    \/ files' = files
    \/ \E p \in Procs : FileDone(p) /\ life[p] = "boot" /\ files' = Tail(files)
    \/ \E p \in Procs : Exit(p) /\ Alive(p) /\ files' = Append(files, SpillEntryOf(p))
TodoMove ==
    \A q \in Procs :
        \/ todo'[q] = todo[q] /\ ~FileDone(q) /\ ~Boot(q)
        \/ Boot(q) /\ todo'[q] = Len(files) /\ files' = files
        \/ FileDone(q) /\ life[q] = "boot" /\ todo'[q] = todo[q] - 1 /\ files' = Tail(files) /\ life' = life
        \/ life'[q] \in {"killed", "refused", "blocked"}

LEMMA FilesMoveAre == ASSUME StoreInv, [Next]_vars PROVE FilesMove /\ TodoMove
<1>1. DOMAIN todo = Procs /\ DOMAIN life = Procs /\ todo \in [Procs -> Nat]
  BY MineTypes DEF StoreInv, FlagTypes
<1>2. CASE \E p \in Procs : FileDone(p)
  <2>1. PICK p \in Procs : FileDone(p)
    BY <1>2
  <2>2. /\ life[p] = "boot" /\ files' = Tail(files) /\ todo' = [todo EXCEPT ![p] = @ - 1] /\ life' = life
        /\ at' = [at EXCEPT ![p] = "read"] /\ at[p] # "read"
    BY <2>1 DEF FileDone
  <2>3. \A q \in Procs : q # p => at'[q] = at[q] /\ todo'[q] = todo[q]
    BY <2>2 DEF StoreInv, FlagTypes
  <2>4. at'[p] # at[p]
    BY <2>2 DEF StoreInv, FlagTypes
  <2>5. \A q \in Procs : q # p => ~FileDone(q)
    <3>1. \A q \in Procs : FileDone(q) => at' = [at EXCEPT ![q] = "read"]
      BY DEF FileDone
    <3>. QED BY <2>4, <3>1 DEF StoreInv, FlagTypes
  <2>6. \A q \in Procs : ~Boot(q)
    <3>1. \A q \in Procs : Boot(q) => at' = at
      BY DEF Boot
    <3>. QED BY <2>4, <3>1
  <2>. QED BY <1>1, <2>1, <2>2, <2>3, <2>5, <2>6 DEF FilesMove, TodoMove
<1>3. CASE \E p \in Procs : Boot(p)
  <2>1. PICK p \in Procs : Boot(p)
    BY <1>3
  <2>2. /\ files' = files /\ todo' = [todo EXCEPT ![p] = Len(files)] /\ life[p] = "off"
        /\ life' = [life EXCEPT ![p] = "boot"] /\ at' = at
    BY <2>1 DEF Boot, diskVars
  <2>3. \A q \in Procs : q # p => ~Boot(q) /\ todo'[q] = todo[q]
    <3>1. \A q \in Procs : Boot(q) => life[q] = "off" /\ life' = [life EXCEPT ![q] = "boot"]
      BY DEF Boot
    <3>. QED BY <1>1, <2>2, <3>1
  <2>4. \A q \in Procs : ~FileDone(q)
    <3>1. \A q \in Procs : FileDone(q) => life' = life
      BY DEF FileDone
    <3>. QED BY <1>1, <2>2, <3>1
  <2>. QED BY <1>1, <2>1, <2>2, <2>3, <2>4 DEF FilesMove, TodoMove
<1>4. SUFFICES ASSUME \A p \in Procs : ~FileDone(p) /\ ~Boot(p)
               PROVE  FilesMove /\ \A q \in Procs : todo'[q] = todo[q] \/ life'[q] \in {"killed", "refused", "blocked"}
  BY <1>2, <1>3 DEF TodoMove
<1>5. ASSUME NEW p \in Procs
      PROVE  (\E kind \in left.kinds : Change(p, kind)) \/ Poison(p) \/ Kick(p) \/ Flush(p) \/ FlushFails(p)
               => UNCHANGED <<files, todo>>
  BY DEF Change, Poison, Kick, Flush, FlushCommits, FlushKnown, FlushConflicts, AfterCommit, FlushFails, FlushCut, FlushRejected,
         diskVars, bootVars
<1>6. ASSUME NEW p \in Procs
      PROVE  Retry(p) \/ Channel(p) \/ OnLockLost(p) \/ ReacquireOnce(p) \/ Close(p) => UNCHANGED <<files, todo>>
  BY DEF Retry, Channel, PumpPoisoned, PoisonedWritten, PoisonedCut, OnLockLost, ReacquireOnce, Close, diskVars, bootVars
<1>7. ASSUME NEW p \in Procs
      PROVE  ReplayApplies(p) \/ ReplaySkips(p) \/ ReplayRejected(p) \/ Install(p) => UNCHANGED <<files, todo>>
  BY DEF ReplayApplies, ReplaySkips, ReplayRejected, ReplayedTo, Install, diskVars, bootVars
<1>8. LimboEnds \/ UNCHANGED vars => UNCHANGED <<files, todo>>
  BY DEF LimboEnds, vars, diskVars, bootVars
<1>9. ASSUME NEW p \in Procs, Crash(p) \/ ReplayConflicts(p) \/ ReplayCut(p)
      PROVE  FilesMove /\ \A q \in Procs : todo'[q] = todo[q] \/ life'[q] \in {"killed", "refused", "blocked"}
  <2>1. /\ files' = files /\ todo' = [todo EXCEPT ![p] = 0]
        /\ life'[p] \in {"killed", "refused", "blocked"}
    BY <1>1, <1>9 DEF Crash, Leave, ReplayConflicts, ReplayCut, Refuse, diskVars
  <2>. QED BY <1>1, <2>1 DEF FilesMove
<1>10. ASSUME NEW p \in Procs, Exit(p)
      PROVE  FilesMove /\ todo' = todo
  BY <1>10 DEF Exit, SpillSync, FilesMove
<1>11. UNCHANGED <<files, todo>> => FilesMove /\ \A q \in Procs : todo'[q] = todo[q]
  BY DEF FilesMove
<1>. QED BY <1>4, <1>5, <1>6, <1>7, <1>8, <1>9, <1>10, <1>11 DEF Next, Replay, ReplayFails

LEMMA AloneRuns ==
    ASSUME StoreInv, Alone, ~left.overlap, [Next]_vars, NEW p \in Procs, life'[p] # "off", NEW q \in 1..(p - 1)
    PROVE  life'[q] \in Over
<1>1. LifeMoves /\ Grows
  BY LifeMovesAre, StepBasics
<1>2. q \in Procs
  <2>1. p \in Nat \ {0} /\ MaxBoots \in Nat
    BY ProcsNat, StoreAssumption DEF ProcsAreNat
  <2>. QED BY <2>1 DEF Procs
<1>3. life[q] \in Over => life'[q] \in Over
  BY <1>1, <1>2 DEF Grows
<1>4. CASE life[p] # "off"
  BY <1>3, <1>4 DEF Alone
<1>5. CASE life[p] = "off"
  <2>1. Boot(p)
    BY <1>1, <1>5 DEF LifeMoves, Alive
  <2>. QED BY <1>3, <2>1 DEF Boot
<1>. QED BY <1>4, <1>5

LEMMA AloneFiles ==
    ASSUME StoreInv, Alone, ~left.overlap, [Next]_vars
    PROVE  /\ Len(files') <= 1
           /\ \A p \in Procs : life'[p] = "boot" => todo'[p] = Len(files')
           /\ \A p \in Procs : Alive(p)' => files' = <<>>
<1>1. LifeMoves /\ FilesMove /\ TodoMove /\ files \in Seq(Entries) /\ Len(files) \in Nat /\ Len(files) <= 1
  BY LifeMovesAre, FilesMoveAre DEF StoreInv, DiskTypes, Alone
<1>2. ASSUME NEW p \in Procs, Exit(p), Alive(p), files' = Append(files, SpillEntryOf(p))
      PROVE  Len(files') = 1 /\ (\A q \in Procs : q # p => ~Running(q))
  <2>1. files = <<>>
    BY <1>2 DEF Alone
  <2>2. Len(Append(<<>>, SpillEntryOf(p))) = 1
    OBVIOUS
  <2>3. Running(p)
    BY <1>2 DEF Running, Alive, Over
  <2>. QED BY <1>2, <2>1, <2>2, <2>3, OneRunning
<1>3. ASSUME NEW p \in Procs, FileDone(p), life[p] = "boot", files' = Tail(files)
      PROVE  files' = <<>> /\ Len(files) = 1 /\ (\A q \in Procs : q # p => ~Running(q))
  <2>1. todo[p] > 0 /\ files # <<>>
    <3>1. todo[p] > 0
      BY <1>3 DEF FileDone, StoreInv, Phase
    <3>. QED BY <3>1, EntryIs
  <2>2. Len(files) = 1
    <3>1. PICK o \in Seq(Entries) : o = files
      BY <1>1
    <3>2. Len(o) # 0
      BY <2>1, <3>1, EmptySeq
    <3>3. PICK n \in Nat : n = Len(files)
      BY <1>1
    <3>4. n # 0 /\ n <= 1
      BY <1>1, <3>1, <3>2, <3>3
    <3>. QED BY <3>3, <3>4
  <2>3. Tail(files) = <<>>
    <3>1. PICK o \in Seq(Entries) : o = files /\ Len(o) = 1 /\ o # <<>>
      BY <1>1, <2>1, <2>2
    <3>2. Tail(o) \in Seq(Entries) /\ Len(Tail(o)) = 0
      BY <3>1, HeadTailProperties
    <3>3. Tail(o) = <<>>
      BY <3>2, EmptySeq
    <3>. QED BY <3>1, <3>3
  <2>4. Running(p)
    BY <1>3 DEF Running, Over
  <2>. QED BY <1>3, <2>2, <2>3, <2>4, OneRunning
<1>4. Len(files') <= 1
  <2>1. Len(<<>>) = 0
    OBVIOUS
  <2>. QED BY <1>1, <1>2, <1>3, <2>1 DEF FilesMove
<1>5. ASSUME NEW q \in Procs, life'[q] = "boot" PROVE todo'[q] = Len(files')
  <2>1. CASE life[q] = "boot"
    <3>1. todo[q] = Len(files) /\ Running(q)
      BY <2>1 DEF Alone, Running, Over
    <3>2. CASE FileDone(q)
      <4>1. todo'[q] = todo[q] - 1 /\ files' = Tail(files)
        <5>1. ~Boot(q)
          BY <2>1 DEF Boot
        <5>. QED BY <1>1, <1>5, <3>2, <5>1 DEF TodoMove
      <4>2. files' = <<>> /\ Len(files) = 1
        BY <1>3, <2>1, <3>2, <4>1
      <4>3. Len(<<>>) = 0
        OBVIOUS
      <4>. QED BY <3>1, <4>1, <4>2, <4>3
    <3>3. CASE ~FileDone(q)
      <4>1. todo'[q] = todo[q]
        <5>1. ~Boot(q)
          BY <2>1 DEF Boot
        <5>. QED BY <1>1, <1>5, <3>3, <5>1 DEF TodoMove
      <4>2. ASSUME NEW p \in Procs, Running(p) PROVE p = q
        BY <3>1, <4>2, OneRunning
      <4>3. files' = files
        <5>1. ASSUME NEW p \in Procs, Exit(p), Alive(p) PROVE FALSE
          <6>1. Running(p)
            BY <5>1 DEF Running, Alive, Over
          <6>2. p = q
            BY <4>2, <6>1
          <6>. QED BY <2>1, <5>1, <6>2 DEF Alive
        <5>2. ASSUME NEW p \in Procs, FileDone(p), life[p] = "boot" PROVE FALSE
          <6>1. Running(p)
            BY <5>2 DEF Running, Over
          <6>. QED BY <3>3, <4>2, <5>2, <6>1
        <5>. QED BY <1>1, <5>1, <5>2 DEF FilesMove
      <4>. QED BY <3>1, <4>1, <4>3
    <3>. QED BY <3>2, <3>3
  <2>2. CASE life[q] # "boot"
    <3>1. Boot(q)
      BY <1>1, <1>5, <2>2 DEF LifeMoves
    <3>2. ~FileDone(q)
      BY <2>2 DEF FileDone
    <3>3. todo'[q] = Len(files) /\ files' = files
      BY <1>1, <1>5, <3>1, <3>2 DEF TodoMove
    <3>. QED BY <3>3
  <2>. QED BY <2>1, <2>2
<1>6. ASSUME NEW q \in Procs, Alive(q)' PROVE files' = <<>>
  <2>1. life'[q] \in {"up", "closed"}
    BY <1>6 DEF Alive
  <2>2. CASE Alive(q)
    <3>1. files = <<>> /\ Running(q)
      BY <2>2 DEF Alone, Running, Alive, Over
    <3>2. ASSUME NEW p \in Procs, Exit(p), Alive(p) PROVE FALSE
      <4>1. Running(p)
        BY <3>2 DEF Running, Alive, Over
      <4>2. p = q
        BY <3>1, <4>1, OneRunning
      <4>3. life'[p] = "exited"
        BY <3>2, MineTypes DEF Exit, Leave
      <4>. QED BY <2>1, <4>2, <4>3
    <3>3. ASSUME NEW p \in Procs, FileDone(p), life[p] = "boot" PROVE FALSE
      <4>1. Running(p)
        BY <3>3 DEF Running, Over
      <4>2. p = q
        BY <3>1, <4>1, OneRunning
      <4>. QED BY <2>2, <3>3, <4>2 DEF Alive
    <3>. QED BY <1>1, <3>1, <3>2, <3>3 DEF FilesMove
  <2>3. CASE ~Alive(q)
    <3>1. Install(q) /\ life[q] = "boot"
      BY <1>1, <2>1, <2>3 DEF LifeMoves, Alive
    <3>2. todo[q] = 0 /\ files' = files /\ todo[q] = Len(files)
      BY <3>1 DEF Install, diskVars, Alone
    <3>3. files = <<>>
      BY <1>1, <3>2
    <3>. QED BY <3>2, <3>3
  <2>. QED BY <2>2, <2>3
<1>. QED BY <1>4, <1>5, <1>6

LEMMA AloneRows ==
    ASSUME StoreInv, QueuesInv, Alone, ~left.overlap, [Next]_vars, NEW i \in DOMAIN files', NEW d, FlushMoved(d)
    PROVE  d.flush[1] <= files'[i].id[1]
<1>1. /\ FilesMove /\ files \in Seq(Entries) /\ Len(files) \in Nat /\ Len(files) <= 1
      /\ RowTrue(db) \/ Blank(db)
  BY FilesMoveAre DEF StoreInv, DiskTypes, Alone, WritesTrue
<1>2. CASE \E p \in Procs : Exit(p) /\ Alive(p) /\ files' = Append(files, SpillEntryOf(p))
  <2>1. PICK p \in Procs : Exit(p) /\ Alive(p) /\ files' = Append(files, SpillEntryOf(p))
    BY <1>2
  <2>2. files = <<>> /\ Running(p)
    BY <2>1 DEF Alone, Running, Alive, Over
  <2>3. files'[i].id = <<p, 0>>
    <3>1. files' = <<SpillEntryOf(p)>>
      BY <2>1, <2>2
    <3>2. i = 1 /\ files'[i] = SpillEntryOf(p)
      BY <3>1
    <3>. QED BY <3>2, SpillIs
  <2>4. p \in Nat
    BY ProcsNat DEF ProcsAreNat
  <2>5. \A r : RowTrue(r) \/ Blank(r) => r.flush[1] <= p
    <3>1. life[p] \notin Over
      BY <2>2 DEF Running
    <3>. QED BY <3>1, RowOfRunning
  <2>6. CASE d.flush = db.flush
    BY <1>1, <2>3, <2>5, <2>6
  <2>7. CASE \E j \in DOMAIN limbo : d.flush = limbo[j].flush
    BY <2>3, <2>5, <2>7 DEF StoreInv, WritesTrue
  <2>8. CASE \E q \in Procs : Alive(q) /\ d.flush = <<q, fly[q]>>
    <3>1. PICK q \in Procs : Alive(q) /\ d.flush = <<q, fly[q]>>
      BY <2>8
    <3>2. Running(q)
      BY <3>1 DEF Running, Alive, Over
    <3>3. q = p
      BY <2>2, <3>2, OneRunning
    <3>. QED BY <2>3, <2>4, <3>1, <3>3
  <2>9. CASE \E q \in Procs : Replaying(q) /\ d.flush = Entry.id
    <3>1. PICK q \in Procs : life[q] = "boot"
      BY <2>9 DEF Replaying
    <3>2. Running(q)
      BY <3>1 DEF Running, Over
    <3>3. q = p
      BY <2>2, <3>2, OneRunning
    <3>. QED BY <2>1, <3>1, <3>3 DEF Alive
  <2>. QED BY <2>6, <2>7, <2>8, <2>9 DEF FlushMoved
<1>3. CASE \E p \in Procs : FileDone(p) /\ life[p] = "boot" /\ files' = Tail(files)
  <2>1. files # <<>>
    <3>1. PICK p \in Procs : todo[p] > 0
      BY <1>3 DEF FileDone, StoreInv, Phase
    <3>. QED BY <3>1, EntryIs
  <2>2. PICK o \in Seq(Entries) : o = files /\ o # <<>>
    BY <1>1, <2>1
  <2>3. Tail(o) \in Seq(Entries) /\ Len(Tail(o)) = Len(o) - 1
    BY <2>2, HeadTailProperties
  <2>4. DOMAIN files' = 1..0
    BY <1>1, <1>3, <2>2, <2>3
  <2>. QED BY <2>4
<1>4. CASE files' = files
  <2>1. i \in DOMAIN files /\ files'[i] = files[i]
    BY <1>4
  <2>2. i = 1 /\ files # <<>>
    BY <1>1, <2>1
  <2>3. \A q \in Procs : ~Alive(q)
    BY <2>2 DEF Alone
  <2>4. CASE d.flush = db.flush
    BY <2>1, <2>4 DEF Alone
  <2>5. CASE \E j \in DOMAIN limbo : d.flush = limbo[j].flush
    BY <2>1, <2>5 DEF Alone
  <2>6. CASE d.flush = Entry.id
    <3>1. files[i] \in Entries
      BY <1>1, <2>1
    <3>2. Entry.id[1] \in Nat
      BY <2>2, <3>1, ProcsNat DEF Entry, Entries, EntryRecords, ProcsAreNat
    <3>. QED BY <2>1, <2>2, <2>6, <3>2 DEF Entry
  <2>. QED BY <2>3, <2>4, <2>5, <2>6 DEF FlushMoved
<1>. QED BY <1>1, <1>2, <1>3, <1>4 DEF FilesMove

\* A process preloads messages of processes before it.
LEMMA AlonePreloads ==
    ASSUME StoreInv, Alone, [Next]_vars, NEW q \in Procs, NEW c \in Range(start'[q].log)
    PROVE  c[1] < q
<1>1. MadeTrue /\ Logs
  BY LogsThen
<1>2. CASE start'[q] = start[q]
  BY <1>2 DEF Alone
<1>3. CASE life[q] \in Fresh /\ start'[q] = Preloaded
  <2>1. c \in Range(db.log)
    BY <1>3 DEF Preloaded
  <2>2. RowTrue(db) \/ Blank(db)
    BY DEF StoreInv, WritesTrue
  <2>3. db.flush[1] < q
    <3>1. life[q] \notin Over
      BY <1>3 DEF Fresh, Over
    <3>. QED BY <1>3, <2>2, <3>1, RowOfRunning
  <2>4. CASE RowTrue(db)
    <3>1. PICK w \in Procs : w = db.flush[1] /\ life[w] \notin Fresh /\ w < q
      BY <2>3, <2>4 DEF RowTrue
    <3>2. PICK g : g = WriterGen(db.flush)
      OBVIOUS
    <3>3. g \in 0..Gen(w) /\ g \in Nat
      <4>1. db.flush \in Nat \X Nat /\ Gen(w) \in Nat
        BY <1>1, MadeIs DEF StoreInv, DiskTypes, Rows
      <4>. QED BY <2>4, <3>1, <3>2, <4>1 DEF RowTrue, WriterGen
    <3>4. PICK s : s = ChangesIn(w, "talk", 0, g)
      OBVIOUS
    <3>5. s \in Seq(Made) /\ \A j \in DOMAIN s : s[j][1] = w
      BY <1>1, <3>3, <3>4, ChangesInAre, ChangesInOnce
    <3>6. start[w].log \in Seq(Made) /\ \A b \in Range(start[w].log) : b[1] < w
      BY <1>1 DEF Logs, Alone
    <3>7. db.log = start[w].log \o s
      BY <2>4, <3>1, <3>2, <3>4 DEF RowTrue, Reach
    <3>8. c \in Range(start[w].log) \/ c \in Range(s)
      <4>1. PICK l \in Seq(Made) : l = start[w].log
        BY <3>6
      <4>2. PICK r : r = db.log
        OBVIOUS
      <4>3. r = l \o s /\ c \in Range(r) /\ s \in Seq(Made)
        BY <2>1, <3>5, <3>7, <4>1, <4>2
      <4>4. Range(l \o s) = Range(l) \cup Range(s)
        BY ONLY <4>1, <4>3, RangesJoin
      <4>. QED BY <4>1, <4>3, <4>4
    <3>9. CASE c \in Range(start[w].log)
      <4>1. c[1] < w /\ w \in Nat /\ q \in Nat
        BY <3>6, <3>9, ProcsNat DEF ProcsAreNat
      <4>2. c[1] \in Nat
        <5>1. c \in Made
          <6>1. \A j \in DOMAIN start[w].log : start[w].log[j] \in Made
            BY <3>6
          <6>. QED BY <3>9, <6>1 DEF Range
        <5>. QED BY <1>1, <5>1, MadeIs, ProcsNat DEF ProcsAreNat
      <4>. QED BY <3>1, <4>1, <4>2
    <3>10. CASE c \in Range(s)
      BY <3>1, <3>5, <3>10 DEF Range
    <3>. QED BY <3>8, <3>9, <3>10
  <2>5. CASE Blank(db)
    BY <2>1, <2>5 DEF Blank, Range
  <2>. QED BY <2>2, <2>4, <2>5
<1>. QED BY <1>2, <1>3, StartMoves

LEMMA OneByOneKept ==
    ASSUME StoreInv, QueuesInv, OneByOne, [Next]_vars
    PROVE  OneByOne'
<1>1. left'.overlap = left.overlap
  BY LeftKept
<1>2. CASE left.overlap
  BY <1>1, <1>2, NoNotesKept DEF OneByOne
<1>3. CASE ~left.overlap
  <2>1. Alone
    BY <1>3 DEF OneByOne
  <2>2. \A i \in DOMAIN files' : /\ db'.flush[1] <= files'[i].id[1]
                                 /\ \A j \in DOMAIN limbo' : limbo'[j].flush[1] <= files'[i].id[1]
    BY <1>3, <2>1, FlushMoves, AloneRows
  <2>3. \A p \in Procs : life'[p] # "off" => \A q \in 1..(p - 1) : life'[q] \in Over
    BY <1>3, <2>1, AloneRuns
  <2>4. \A p \in Procs : \A c \in Range(start'[p].log) : c[1] < p
    BY <2>1, AlonePreloads
  <2>5. Alone'
    BY <1>3, <2>1, <2>2, <2>3, <2>4, AloneFiles DEF Alone
  <2>. QED BY <1>1, <1>3, <2>5 DEF OneByOne
<1>. QED BY <1>2, <1>3

-----------------------------------------------------------------------------
(* What a process made is recorded when it has ended and left no file *)

LEMMA RowLands ==
    ASSUME MadeTrue, Logs, StepsTrue, NEW p \in Procs, NEW d, d.log \in Seq(Made), d.stage \in 0..3,
           IsPrefix(Reach(p, Gen(p)), d.log), Carries(d, p, Gen(p))
    PROVE  Landed(d, p)
<1>1. PICK g \in Nat : g = Gen(p)
  BY MadeIs
<1>2. SUFFICES ASSUME NEW i \in 1..g PROVE RecordedIn(d, <<p, i>>)
  BY <1>1 DEF Landed, ChangesOf, Gen
<1>3. made[p][i].kind \in {"talk", "note", "step"} /\ g \in 0..Gen(p) /\ i \in 0..Gen(p) /\ i \in Nat /\ i <= g
  <2>1. made[p][i] \in Changes
    BY <1>1, <1>2, MadeIs
  <2>2. made[p][i].kind \in {"talk", "note", "step"}
    BY <2>1 DEF Changes
  <2>. QED BY <1>1, <1>2, <2>2
<1>4. CASE made[p][i].kind = "talk"
  <2>1. PICK s : s = ChangesIn(p, "talk", 0, g)
    OBVIOUS
  <2>2. <<p, i>> \in Range(s)
    <3>1. i \in (0 + 1)..g
      BY <1>2
    <3>. QED BY <1>4, <2>1, <3>1, ChangesInHas
  <2>3. s \in Seq(Made) /\ start[p].log \in Seq(Made)
    BY <1>3, <2>1, ChangesInAre DEF Logs
  <2>4. Range(start[p].log \o s) = Range(start[p].log) \cup Range(s)
    BY <2>3, RangesJoin
  <2>5. Reach(p, g) = start[p].log \o s /\ Reach(p, g) \in Seq(Made)
    BY <1>3, <2>1, ReachIs DEF Reach
  <2>6. Range(Reach(p, g)) \subseteq Range(d.log)
    BY <1>1, <2>5, RangeOfPrefix
  <2>. QED BY <2>2, <2>4, <2>5, <2>6 DEF RecordedIn
<1>5. CASE made[p][i].kind = "note"
  BY <1>1, <1>2, <1>5 DEF Carries, RecordedIn
<1>6. CASE made[p][i].kind = "step"
  <2>1. made[p][i].to = StageAt(p, i)
    BY <1>1, <1>2, <1>6 DEF StepsTrue
  <2>2. StageAt(p, i) <= StageAt(p, g) /\ StageAt(p, i) \in 0..3 /\ StageAt(p, g) \in 0..3
    BY <1>3, StageAtIs
  <2>3. StageAt(p, g) <= d.stage
    BY <1>1 DEF Carries
  <2>. QED BY <1>6, <2>1, <2>2, <2>3 DEF RecordedIn, KindOf, To
<1>. QED BY <1>3, <1>4, <1>5, <1>6

LEMMA LandedKept ==
    ASSUME MadeTrue, NEW p \in Procs, made'[p] = made[p], NEW T, NEW d, NEW r, d.log \in Seq(T), r.log \in Seq(T),
           d.side \in Seq(T), r.side \in Seq(T), d.stage \in 0..3, r.stage \in 0..3,
           IsPrefix(d.log, r.log), Wider(d, r), Landed(d, p)
    PROVE  Landed(r, p)'
<1>1. SUFFICES ASSUME NEW i \in DOMAIN made[p] PROVE RecordedIn(r, <<p, i>>)'
  BY DEF Landed, ChangesOf
<1>2. RecordedIn(d, <<p, i>>)
  BY <1>1 DEF Landed, ChangesOf
<1>3. Range(d.log) \subseteq Range(r.log) /\ Range(d.side) \subseteq Range(r.side)
  BY RangeOfPrefix DEF Wider
<1>4. made[p][i].to \in 0..3 /\ made'[p][i] = made[p][i]
  <2>1. made[p][i] \in Changes
    BY <1>1, MadeIs
  <2>. QED BY <2>1 DEF Changes
<1>5. CASE <<p, i>> \in Range(d.log) \cup Range(d.side)
  <2>1. <<p, i>> \in Range(r.log) \cup Range(r.side)
    BY <1>3, <1>5
  <2>. QED BY <2>1 DEF RecordedIn, Range
<1>6. CASE KindOf(<<p, i>>) = "step" /\ d.stage >= To(<<p, i>>)
  <2>1. made'[p][i].kind = "step" /\ d.stage >= made'[p][i].to /\ made'[p][i].to \in 0..3
    BY <1>4, <1>6 DEF KindOf, To
  <2>2. r.stage >= made'[p][i].to
    BY <2>1 DEF Wider
  <2>. QED BY <2>1, <2>2 DEF RecordedIn, KindOf, To
<1>. QED BY <1>2, <1>5, <1>6 DEF RecordedIn

\* The messages of a spill file are all there.
LEMMA SameIs ==
    ASSUME StoreInv, NEW e \in Entries, EntryTrue(e), Same(db, e), NEW q, q = e.id[1]
    PROVE  db.log = Reach(q, Gen(q)) /\ Len(db.log) = e.base + Len(e.msgs) /\ Len(e.msgs) \in Nat /\ Len(e.msgs) # 0
           /\ e.base = Len(Reach(q, cgen[q])) /\ e.base \in Nat
<1>1. MadeTrue /\ Logs /\ q \in Procs
  BY LogsThen DEF Entries, EntryRecords
<1>2. PICK g \in Nat : g = Gen(q)
  BY <1>1, MadeIs
<1>3. PICK c : c = cgen[q]
  OBVIOUS
<1>4. c \in Nat /\ c \in 0..Gen(q) /\ g \in 0..Gen(q) /\ c <= g
  BY <1>1, <1>2, <1>3 DEF StoreInv, FlagTypes, Phase
<1>5. PICK R : R = Reach(q, c)
  OBVIOUS
<1>6. PICK M : M = e.msgs
  OBVIOUS
<1>7. /\ R \in Seq(Made) /\ M \in Seq(Made) /\ Reach(q, g) = R \o M /\ LastSeq(q, c) = Len(R)
      /\ e.base = Len(R)
  <2>1. e.base = LastSeq(q, c) /\ e.msgs = ChangesIn(q, "talk", c, g)
    BY <1>2, <1>3 DEF EntryTrue
  <2>2. /\ Reach(q, c) \in Seq(Made) /\ ChangesIn(q, "talk", c, g) \in Seq(Made)
        /\ Reach(q, g) = Reach(q, c) \o ChangesIn(q, "talk", c, g)
    BY <1>1, <1>4, ReachIs
  <2>3. LastSeq(q, c) = Len(Reach(q, c))
    <3>1. 0 \in Nat /\ 0 <= c
      BY <1>4
    <3>. QED BY <1>1, <1>4, <3>1, ReachIs
  <2>. QED BY <1>5, <1>6, <2>1, <2>2, <2>3
<1>8. PICK d \in Seq(Made) : d = db.log
  BY DEF StoreInv, DiskTypes, Rows
<1>9. /\ Len(d) = e.last /\ M # <<>> /\ SubSeq(d, e.base + 1, e.last) = M /\ e.last = e.base + Len(M)
  BY <1>6, <1>8 DEF Same, Entries
<1>10. Len(R) \in Nat /\ Len(M) \in Nat /\ Len(M) # 0 /\ Len(d) = Len(R) + Len(M)
  BY <1>7, <1>9, EmptySeq
<1>11. \A i \in 1..Len(R) : d[i] = R[i]
  <2>1. IsPrefix(R, d)
    BY <1>1, <1>3, <1>5, <1>8 DEF StoreInv, WritesTrue, Behind
  <2>. QED BY <1>7, <2>1, Prefixes1
<1>12. \A j \in 1..Len(M) : d[Len(R) + j] = M[j]
  <2>1. TAKE j \in 1..Len(M)
  <2>2. SubSeq(d, Len(R) + 1, Len(R) + Len(M)) = M
    BY <1>7, <1>9
  <2>3. SubSeq(d, Len(R) + 1, Len(R) + Len(M))[j] = d[(Len(R) + 1) + j - 1]
    BY <1>10
  <2>4. (Len(R) + 1) + j - 1 = Len(R) + j
    BY <1>10
  <2>. QED BY <2>2, <2>3, <2>4
<1>13. PICK r : r = R \o M
  OBVIOUS
<1>14. /\ r \in Seq(Made) /\ Len(r) = Len(R) + Len(M)
       /\ (\A i \in 1..Len(R) : r[i] = R[i]) /\ \A i \in 1..Len(M) : r[Len(R) + i] = M[i]
  BY <1>7, <1>13, ConcatAt
<1>15. \A i \in 1..Len(d) : d[i] = r[i]
  <2>1. TAKE i \in 1..Len(d)
  <2>2. i \in 1..Len(R) \/ (i - Len(R) \in 1..Len(M) /\ Len(R) + (i - Len(R)) = i)
    BY <1>10
  <2>. QED BY <1>11, <1>12, <1>14, <2>2
<1>16. d = r
  BY <1>10, <1>14, <1>15
<1>. QED BY <1>2, <1>3, <1>5, <1>6, <1>7, <1>8, <1>10, <1>13, <1>16

\* Where processes run one after the other, the messages of a file are not in the database without it.
LEMMA AloneSame ==
    ASSUME StoreInv, EntriesTrue, FliesTrue, Alone, NEW e \in Filed, e = Entry, 1 \in DOMAIN files
    PROVE  ~Same(db, e)
<1>1. SUFFICES ASSUME Same(db, e) PROVE FALSE
  OBVIOUS
<1>2. e \in Entries /\ EntryTrue(e) /\ MadeTrue /\ Logs
  BY LogsThen DEF EntriesTrue
<1>3. PICK q \in Procs : q = e.id[1]
  BY <1>2 DEF Entries, EntryRecords
<1>4. /\ db.log = Reach(q, Gen(q)) /\ Len(db.log) = e.base + Len(e.msgs) /\ Len(e.msgs) \in Nat /\ Len(e.msgs) # 0
      /\ e.base = Len(Reach(q, cgen[q])) /\ e.base \in Nat
  BY <1>1, <1>2, <1>3, SameIs
<1>5. PICK c \in Nat : c = cgen[q] /\ c \in 0..Gen(q) /\ c <= Gen(q) /\ Gen(q) \in Nat
  BY <1>2, MadeIs DEF StoreInv, FlagTypes, Phase
<1>14. PICK b \in Nat : b = e.base /\ Len(db.log) > b /\ b = Len(Reach(q, cgen[q]))
  <2>1. PICK b \in Nat : b = e.base
    BY <1>4
  <2>2. PICK n : n = Len(e.msgs)
    OBVIOUS
  <2>3. n \in Nat /\ n # 0 /\ Len(db.log) = b + n
    BY <1>4, <2>1, <2>2
  <2>4. b + n > b
    BY <2>3
  <2>. QED BY <1>4, <2>1, <2>3, <2>4
<1>6. ~Blank(db)
  <2>1. Len(<<>>) = 0
    OBVIOUS
  <2>2. db.log # <<>>
    BY <1>14, <2>1
  <2>. QED BY <2>2 DEF Blank
<1>7. RowTrue(db)
  BY <1>6 DEF StoreInv, WritesTrue
<1>8. PICK w \in Procs : w = db.flush[1] /\ life[w] \notin Fresh
  BY <1>7 DEF RowTrue
<1>9. PICK g : g = WriterGen(db.flush)
  OBVIOUS
<1>10. g \in 0..Gen(w) /\ g \in Nat /\ db.log = Reach(w, g) /\ db.flush[2] \in Nat /\ db.flush \in Nat \X Nat
  <2>1. db.flush \in Nat \X Nat /\ Gen(w) \in Nat
    BY <1>2, MadeIs DEF StoreInv, DiskTypes, Rows
  <2>. QED BY <1>7, <1>8, <1>9, <2>1 DEF RowTrue, WriterGen
<1>11. w <= q /\ w \in Nat /\ q \in Nat \ {0}
  BY <1>3, <1>8, ProcsNat DEF Alone, Entry, ProcsAreNat
<1>12. CASE w = q
  <2>1. db.flush[2] # 0
    <3>1. e.id = <<q, 0>>
      BY <1>2, <1>3 DEF EntryTrue, Entries, EntryRecords
    <3>2. db.flush # e.id
      BY <1>1 DEF Same, Replayed
    <3>3. db.flush = <<db.flush[1], db.flush[2]>>
      BY <1>10
    <3>. QED BY <1>8, <1>12, <3>1, <3>2, <3>3
  <2>2. g = db.flush[2]
    BY <1>9, <2>1 DEF WriterGen
  <2>3. db.flush[2] = 0 \/ db.flush[2] <= c \/ db.flush[2] = FlyGen(e)
    BY <1>3, <1>5, <1>8, <1>12 DEF FliesTrue, FlownTrue, Flushed
  <2>4. ~(g <= c)
    <3>1. SUFFICES ASSUME g <= c PROVE FALSE
      OBVIOUS
    <3>2. /\ Reach(q, g) \in Seq(Made) /\ Reach(q, c) \in Seq(Made) /\ IsPrefix(Reach(q, g), Reach(q, c))
      BY <1>2, <1>5, <1>10, <3>1, ReachIs
    <3>3. Len(Reach(q, g)) <= Len(Reach(q, c))
      BY <3>2, Prefixes1
    <3>4. Len(Reach(q, g)) = Len(db.log) /\ Len(Reach(q, c)) = b
      BY <1>5, <1>10, <1>12, <1>14
    <3>5. Len(db.log) <= b /\ Len(db.log) > b
      BY <1>14, <3>3, <3>4
    <3>6. Len(db.log) \in Nat
      BY DEF StoreInv, DiskTypes, Rows
    <3>. QED BY <3>5, <3>6
  <2>5. e.fly # <<>> /\ g = e.fly[1].id[2]
    BY <1>3, <1>5, <2>1, <2>2, <2>3, <2>4 DEF FlyGen
  <2>6. PICK f : f = e.fly[1]
    OBVIOUS
  <2>7. f \in Snaps /\ FlyTrue(q, f)
    <3>1. e.fly \in Seq(Snaps)
      BY <1>2 DEF Entries, EntryRecords
    <3>. QED BY <1>2, <1>3, <2>5, <2>6, <3>1 DEF EntryTrue
  <2>8. db.flush = f.id
    <3>1. f.id \in Procs \X Nat /\ f.id[1] = q /\ f.id[2] = g
      BY <2>5, <2>6, <2>7 DEF Snaps, FlyTrue
    <3>2. f.id = <<q, g>>
      BY <3>1
    <3>3. db.flush = <<db.flush[1], db.flush[2]>>
      BY <1>10
    <3>. QED BY <1>8, <1>12, <2>2, <3>2, <3>3
  <2>9. Len(db.log) = f.last
    <3>1. f.last = LastSeq(q, g)
      BY <2>5, <2>6, <2>7 DEF FlyTrue
    <3>2. LastSeq(q, g) = Len(Reach(q, g))
      <4>1. 0 \in Nat /\ 0 <= g /\ g \in 0..Gen(q)
        BY <1>10, <1>12
      <4>. QED BY <1>2, <4>1, ReachIs
    <3>. QED BY <1>10, <1>12, <3>1, <3>2
  <2>10. FlyIn(db, e)
    BY <2>5, <2>6, <2>8, <2>9 DEF FlyIn, Known
  <2>. QED BY <1>1, <2>10 DEF Same, Continues
<1>13. CASE w # q
  <2>1. w < q
    BY <1>11, <1>13
  <2>2. PICK s : s = ChangesIn(w, "talk", 0, g)
    OBVIOUS
  <2>3. s \in Seq(Made) /\ \A j \in DOMAIN s : s[j][1] = w
    <3>1. s \in Seq(Made)
      BY <1>2, <1>10, <2>2, ChangesInAre
    <3>2. \A j \in DOMAIN s : s[j][1] = w
      <4>1. PICK a \in Nat : a = 0
        OBVIOUS
      <4>2. g \in Nat /\ s = ChangesIn(w, "talk", a, g)
        BY <1>10, <2>2, <4>1
      <4>. QED BY ONLY <4>2, a \in Nat, ChangesInOnce
    <3>. QED BY <3>1, <3>2
  <2>4. PICK l : l = start[w].log
    OBVIOUS
  <2>5. l \in Seq(Made) /\ \A i \in Range(l) : i[1] < w
    BY <1>2, <2>4 DEF Logs, Alone
  <2>6. db.log = l \o s
    BY <1>10, <2>2, <2>4 DEF Reach
  <2>7. Range(l \o s) = Range(l) \cup Range(s)
    BY <2>3, <2>5, RangesJoin
  <2>8. PICK m : m = e.msgs
    OBVIOUS
  <2>9. m = ChangesIn(q, "talk", c, Gen(q)) /\ 1 \in DOMAIN m
    <3>1. m = ChangesIn(q, "talk", c, Gen(q))
      BY <1>2, <1>3, <1>5, <2>8 DEF EntryTrue
    <3>2. m \in Seq(Made)
      BY <1>2, <2>8 DEF Entries, EntryRecords
    <3>. QED BY <1>4, <2>8, <3>1, <3>2
  <2>10. m[1] \in Range(db.log) /\ m[1][1] = q
    <3>1. PICK n \in Nat : n = Gen(q)
      BY <1>5
    <3>2. m[1][1] = q
      <4>1. m = ChangesIn(q, "talk", c, n)
        BY <2>9, <3>1
      <4>2. \A j \in DOMAIN m : m[j][1] = q
        BY <4>1, ChangesInOnce
      <4>. QED BY <2>9, <4>2
    <3>3. PICK R : R = Reach(q, c)
      OBVIOUS
    <3>4. R \in Seq(Made) /\ m \in Seq(Made) /\ Reach(q, n) = R \o m
      <4>1. n \in 0..Gen(q) /\ c <= n
        BY <1>5, <3>1
      <4>. QED BY <1>2, <1>5, <2>9, <3>1, <3>3, <4>1, ReachIs
    <3>5. Range(R \o m) = Range(R) \cup Range(m)
      BY <3>4, RangesJoin
    <3>6. m[1] \in Range(m)
      BY <2>9 DEF Range
    <3>. QED BY <1>4, <3>1, <3>2, <3>4, <3>5, <3>6
  <2>11. m[1] \in Range(l) \/ m[1] \in Range(s)
    BY <2>6, <2>7, <2>10
  <2>12. CASE m[1] \in Range(l)
    <3>1. q < w
      BY <2>5, <2>10, <2>12
    <3>. QED BY <1>11, <2>1, <3>1
  <2>13. CASE m[1] \in Range(s)
    <3>1. q = w
      BY <2>3, <2>10, <2>13 DEF Range
    <3>. QED BY <1>13, <3>1
  <2>. QED BY <2>11, <2>12, <2>13
<1>. QED BY <1>12, <1>13

LEMMA SkipLands ==
    ASSUME StoreInv, QueuesInv, EntriesTrue, FliesTrue, OneByOne, NEW p \in Procs, todo[p] > 0,
           NEW r, \/ Replayed(db, Entry) /\ r = db
                  \/ Same(db, Entry) /\ r = Stepped(db, RestOf(db, Entry).steps)
    PROVE  Landed(r, Entry.id[1])
<1>1. MadeTrue /\ Logs /\ StepsTrue /\ RowsCarry /\ db \in Rows
  BY LogsThen DEF QueuesInv, StoreInv, DiskTypes
<1>2. PICK e \in Filed : e = Entry /\ 1 \in DOMAIN files
  BY EntryFiled
<1>3. e \in Entries /\ EntryTrue(e) /\ Fetches(e)
  BY <1>1, FetchesNow DEF EntriesTrue
<1>4. PICK q \in Procs : q = e.id[1]
  BY <1>3 DEF Entries, EntryRecords
<1>5. PICK g \in Nat : g = Gen(q)
  BY <1>1, MadeIs
<1>6. Reach(q, g) \in Seq(Made) /\ IsPrefix(Reach(q, g), Reach(q, g))
  <2>1. g \in 0..Gen(q) /\ g <= g
    BY <1>5
  <2>. QED BY <1>1, <2>1, ReachIs
<1>7. CASE Replayed(db, e) /\ r = db
  <2>1. db.flush = e.id /\ e.id[2] = 0 /\ db.flush[1] = q
    BY <1>3, <1>4, <1>7 DEF Replayed, EntryTrue
  <2>2. ~Blank(db)
    BY <1>4, <2>1, ProcsNat DEF Blank, ProcsAreNat
  <2>3. RowTrue(db) /\ RowCarries(db) /\ WriterGen(db.flush) = g
    BY <1>1, <1>5, <2>1, <2>2 DEF StoreInv, WritesTrue, RowsCarry, WriterGen
  <2>4. db.log = Reach(q, g) /\ Carries(db, q, Gen(q))
    BY <1>5, <2>1, <2>3 DEF RowTrue, RowCarries
  <2>. QED BY <1>1, <1>2, <1>4, <1>5, <1>6, <1>7, <2>4, RowLands DEF Rows
<1>8. CASE Same(db, e) /\ r = Stepped(db, RestOf(db, e).steps)
  <2>1. left.overlap /\ NoNotes
    <3>1. ~Alone
      BY <1>2, <1>8, AloneSame
    <3>. QED BY <3>1 DEF OneByOne
  <2>2. db.log = Reach(q, g)
    BY <1>3, <1>4, <1>5, <1>8, SameIs
  <2>3. RestOf(db, e).steps \in Seq(Made)
    BY <1>3, RestIs
  <2>4. r \in Rows /\ r.log = db.log /\ r.stage = ApplyInboxStates(db.stage, RestOf(db, e).steps)
    BY <1>1, <1>8, <2>3, SteppedIs, SteppedWider
  <2>5. StageAt(q, Gen(q)) <= r.stage
    BY <1>3, <1>4, <2>4, RestSteps
  <2>6. Carries(r, q, Gen(q))
    <3>1. \A i \in 1..Gen(q) : made[q][i].kind # "note"
      <4>1. \A i \in 1..Gen(q) : <<q, i>> \in Made
        BY <1>1, MadeIs
      <4>. QED BY <2>1, <4>1 DEF NoNotes, KindOf
    <3>. QED BY <2>5, <3>1 DEF Carries
  <2>. QED BY <1>1, <1>2, <1>4, <1>5, <1>6, <2>2, <2>4, <2>6, RowLands DEF Rows
<1>. QED BY <1>2, <1>7, <1>8

LEMMA LandedOn ==
    ASSUME StoreInv, QueuesInv, [Next]_vars, NEW q \in Procs, made'[q] = made[q], Landed(db, q) \/ Landed(db', q)
    PROVE  Landed(db, q)'
<1>1. MadeTrue /\ db \in Rows /\ db' \in Rows /\ Wider(db, db')
  BY StepBasics, DbRows, DbWidens DEF QueuesInv
<1>2. IsPrefix(db.log, db'.log)
  BY RowsStayTrue
<1>3. PICK d : d = db
  OBVIOUS
<1>4. PICK r : r = db'
  OBVIOUS
<1>5. /\ d.log \in Seq(Made) /\ d.side \in Seq(Made) /\ d.stage \in 0..3
      /\ r.log \in Seq(Made) /\ r.side \in Seq(Made) /\ r.stage \in 0..3
      /\ IsPrefix(d.log, r.log) /\ Wider(d, r)
  BY <1>1, <1>2, <1>3, <1>4 DEF Rows
<1>6. IsPrefix(r.log, r.log) /\ Wider(r, r)
  BY <1>5, PrefixSelf DEF Wider
<1>7. Landed(d, q) \/ Landed(r, q)
  BY <1>3, <1>4
<1>8. Landed(r, q)'
  BY <1>1, <1>5, <1>6, <1>7, LandedKept
<1>. QED BY <1>4, <1>8 DEF Landed, RecordedIn

LEMMA FiledStays ==
    ASSUME StoreInv, [Next]_vars, NEW e \in Filed, e \notin Filed'
    PROVE  \E p \in Procs : FileDone(p) /\ at[p] = "delete" /\ e = Entry
<1>1. FilesMove /\ files \in Seq(Entries) /\ aside \in Seq(Entries)
  BY FilesMoveAre DEF StoreInv, DiskTypes
<1>2. ASSUME NEW s \in Seq(Entries), NEW m \in Entries
      PROVE  Range(s) \subseteq Range(Append(s, m)) /\ m \in Range(Append(s, m))
  <2>1. PICK n : n = Append(s, m)
    OBVIOUS
  <2>2. Len(n) = Len(s) + 1 /\ n[Len(s) + 1] = m /\ (\A i \in 1..Len(s) : n[i] = s[i]) /\ DOMAIN n = 1..(Len(s) + 1)
    BY <2>1, AppendProperties
  <2>3. DOMAIN s = 1..Len(s) /\ Len(s) \in Nat
    OBVIOUS
  <2>. QED BY <2>1, <2>2, <2>3 DEF Range
<1>3. CASE \E p \in Procs : FileDone(p)
  <2>1. PICK p \in Procs : FileDone(p)
    BY <1>3
  <2>2. todo[p] > 0
    BY <2>1 DEF FileDone, StoreInv, Phase
  <2>3. PICK o \in Seq(Entries) : o = files /\ o # <<>> /\ Entry = o[1]
    BY <1>1, <2>2, EntryIs DEF Entry
  <2>4. \A x \in Range(o) : x = o[1] \/ x \in Range(Tail(o))
    <3>1. /\ Tail(o) \in Seq(Entries) /\ Len(Tail(o)) = Len(o) - 1
          /\ \A i \in 1..Len(Tail(o)) : Tail(o)[i] = o[i + 1]
      BY <2>3, HeadTailProperties
    <3>2. \A i \in 1..Len(o) : i = 1 \/ (i - 1 \in 1..(Len(o) - 1) /\ (i - 1) + 1 = i)
      OBVIOUS
    <3>3. DOMAIN o = 1..Len(o)
      OBVIOUS
    <3>4. PICK t : t = Tail(o)
      OBVIOUS
    <3>5. DOMAIN t = 1..(Len(o) - 1) /\ \A i \in 1..(Len(o) - 1) : t[i] = o[i + 1]
      BY <3>1, <3>4
    <3>6. ASSUME NEW i \in 1..Len(o), i # 1 PROVE o[i] \in Range(t)
      <4>1. i - 1 \in DOMAIN t /\ t[i - 1] = o[i]
        BY <3>2, <3>5, <3>6
      <4>. QED BY <4>1 DEF Range
    <3>7. ASSUME NEW x \in Range(o) PROVE x = o[1] \/ x \in Range(t)
      <4>1. PICK i \in DOMAIN o : x = o[i]
        BY DEF Range
      <4>. QED BY <3>3, <3>6, <4>1
    <3>. QED BY <3>4, <3>7
  <2>5. files' = Tail(o) /\ aside' = IF at[p] = "aside" THEN Append(aside, Entry) ELSE aside
    BY <2>1, <2>3 DEF FileDone
  <2>6. e \notin Range(Tail(o)) /\ e \notin Range(aside')
    BY <2>5 DEF Filed, Range
  <2>7. Entry \in Entries
    BY <2>2, EntryIs
  <2>8. Range(aside) \subseteq Range(aside')
    BY <1>1, <1>2, <2>5, <2>7
  <2>9. e = Entry
    BY <2>3, <2>4, <2>6, <2>8 DEF Filed
  <2>10. at[p] # "aside"
    BY <1>1, <1>2, <2>5, <2>6, <2>7, <2>9
  <2>11. at[p] = "delete"
    BY <2>1, <2>10 DEF FileDone, StoreInv, FlagTypes
  <2>. QED BY <2>1, <2>9, <2>11
<1>4. CASE \A p \in Procs : ~FileDone(p)
  <2>1. aside' = aside
    <3>1. ASSUME NEW p \in Procs
          PROVE  (\E kind \in left.kinds : Change(p, kind)) \/ Poison(p) \/ Kick(p) \/ Flush(p) \/ FlushFails(p)
                   => aside' = aside
      BY DEF Change, Poison, Kick, Flush, FlushCommits, FlushKnown, FlushConflicts, AfterCommit, FlushFails, FlushCut,
             FlushRejected, diskVars
    <3>2. ASSUME NEW p \in Procs
          PROVE  Retry(p) \/ Channel(p) \/ OnLockLost(p) \/ ReacquireOnce(p) \/ Close(p) \/ Exit(p) \/ Crash(p) \/ Boot(p)
                   => aside' = aside
      BY DEF Retry, Channel, PumpPoisoned, PoisonedWritten, PoisonedCut, OnLockLost, ReacquireOnce, Close, Exit, Crash, Leave,
             Boot, diskVars
    <3>3. ASSUME NEW p \in Procs
          PROVE  Replay(p) \/ ReplayFails(p) \/ Install(p) => aside' = aside
      BY DEF Replay, ReplayFails, ReplayApplies, ReplaySkips, ReplayConflicts, ReplayCut, ReplayRejected, ReplayedTo, Refuse,
             Install, diskVars
    <3>4. LimboEnds \/ UNCHANGED vars => aside' = aside
      BY DEF LimboEnds, vars, diskVars
    <3>. QED BY <1>4, <3>1, <3>2, <3>3, <3>4 DEF Next
  <2>2. Range(files) \subseteq Range(files')
    <3>1. CASE files' = files
      BY <3>1
    <3>2. CASE \E p \in Procs : Exit(p) /\ files' = Append(files, SpillEntryOf(p))
      <4>1. PICK p \in Procs : files' = Append(files, SpillEntryOf(p))
        BY <3>2
      <4>2. PICK m \in Entries : m = SpillEntryOf(p)
        BY SpillIs
      <4>. QED BY <1>1, <1>2, <4>1, <4>2
    <3>. QED BY <1>1, <1>4, <3>1, <3>2 DEF FilesMove
  <2>. QED BY <2>1, <2>2 DEF Filed, Range
<1>. QED BY <1>3, <1>4

\* What an exit leaves behind is recorded when it writes no file.
LEMMA EndLands ==
    ASSUME StoreInv, QueuesInv, NEW p \in Procs, ~Dirty(p)
    PROVE  Landed(db, p)
<1>1. MadeTrue /\ Logs /\ StepsTrue /\ RowsCarry /\ db \in Rows
  BY LogsThen DEF QueuesInv, StoreInv, DiskTypes
<1>2. Gen(p) = cgen[p]
  BY DEF Dirty
<1>3. IsPrefix(Reach(p, Gen(p)), db.log) /\ Carries(db, p, Gen(p))
  BY <1>1, <1>2 DEF StoreInv, WritesTrue, Behind, RowsCarry
<1>. QED BY <1>1, <1>3, RowLands DEF Rows

LEMMA AppliesLands ==
    ASSUME StoreInv, QueuesInv, EntriesTrue, [Next]_vars, NEW p \in Procs, ReplayApplies(p)
    PROVE  Landed(db', Entry.id[1])
<1>1. MadeTrue /\ Logs /\ StepsTrue /\ RowsCarry /\ db' \in Rows
  BY LogsThen, DbRows DEF QueuesInv, StoreInv, DiskTypes
<1>2. todo[p] > 0 /\ Continues(db, Entry) /\ db' = Written(db, RestOf(db, Entry))
  BY DEF ReplayApplies, Replaying, ReplayedTo
<1>3. PICK e \in Filed : e = Entry /\ 1 \in DOMAIN files
  BY <1>2, EntryFiled
<1>4. e \in Entries /\ EntryTrue(e) /\ Fetches(e)
  BY <1>1, FetchesNow DEF EntriesTrue
<1>5. PICK q \in Procs : q = e.id[1]
  BY <1>4 DEF Entries, EntryRecords
<1>6. PICK g \in Nat : g = Gen(q)
  BY <1>1, MadeIs
<1>7. PICK r : r = Written(db, RestOf(db, e))
  OBVIOUS
<1>8. RowTrue(r) /\ r.flush = e.id
  BY <1>2, <1>3, <1>4, <1>7, ReplayLands DEF Lands
<1>9. r.log = Reach(q, g)
  <2>1. e.id[2] = 0
    BY <1>4 DEF EntryTrue
  <2>. QED BY <1>5, <1>6, <1>8, <2>1 DEF RowTrue, WriterGen
<1>10. Carries(r, q, Gen(q))
  BY <1>4, <1>5, <1>7, ReplayCarries
<1>11. IsPrefix(Reach(q, Gen(q)), r.log)
  <2>1. g \in 0..Gen(q) /\ g <= g
    BY <1>6
  <2>2. IsPrefix(Reach(q, g), Reach(q, g))
    BY <1>1, <2>1, ReachIs
  <2>. QED BY <1>6, <1>9, <2>2
<1>12. r = db'
  BY <1>2, <1>3, <1>7
<1>13. Landed(r, q)
  BY <1>1, <1>10, <1>11, <1>12, RowLands DEF Rows
<1>. QED BY <1>3, <1>5, <1>12, <1>13

AtMoves ==
    \A q \in Procs : at'[q] = "delete" =>
        \/ at[q] = "delete" /\ ~FileDone(q) /\ life[q] = "boot" /\ todo[q] > 0
        \/ ReplayApplies(q) \/ ReplaySkips(q)

LEMMA AtMovesAre == ASSUME StoreInv, [Next]_vars PROVE AtMoves
<1>1. at \in [Procs -> {"read", "delete", "aside"}] /\ \A q \in Procs : at[q] = "delete" => life[q] = "boot" /\ todo[q] > 0
  BY DEF StoreInv, FlagTypes, Phase
<1>2. \A q \in Procs : FileDone(q) => at'[q] = "read"
  BY <1>1 DEF FileDone
<1>3. SUFFICES ASSUME NEW q \in Procs, at'[q] = "delete", at[q] # "delete" PROVE ReplayApplies(q) \/ ReplaySkips(q)
  BY <1>1, <1>2 DEF AtMoves
<1>4. ASSUME NEW p \in Procs
      PROVE  (\E kind \in left.kinds : Change(p, kind)) \/ Poison(p) \/ Kick(p) \/ Flush(p) \/ FlushFails(p) => at' = at
  BY DEF Change, Poison, Kick, Flush, FlushCommits, FlushKnown, FlushConflicts, AfterCommit, FlushFails, FlushCut, FlushRejected,
         bootVars
<1>5. ASSUME NEW p \in Procs
      PROVE  Retry(p) \/ Channel(p) \/ OnLockLost(p) \/ ReacquireOnce(p) \/ Close(p) \/ Exit(p) => at' = at
  BY DEF Retry, Channel, PumpPoisoned, PoisonedWritten, PoisonedCut, OnLockLost, ReacquireOnce, Close, Exit, bootVars
<1>6. ASSUME NEW p \in Procs
      PROVE  Boot(p) \/ ReplayConflicts(p) \/ ReplayCut(p) \/ Install(p) => at' = at
  BY DEF Boot, ReplayConflicts, ReplayCut, Refuse, Install
<1>7. LimboEnds \/ UNCHANGED vars => at' = at
  BY DEF LimboEnds, vars, bootVars
<1>8. ASSUME NEW p \in Procs
      PROVE  /\ Crash(p) \/ FileDone(p) => at' = [at EXCEPT ![p] = "read"]
             /\ ReplayRejected(p) => at' = [at EXCEPT ![p] = "aside"]
             /\ ReplayApplies(p) \/ ReplaySkips(p) => at' = [at EXCEPT ![p] = "delete"]
  BY DEF Crash, FileDone, ReplayRejected, ReplayApplies, ReplaySkips, ReplayedTo
<1>9. PICK p \in Procs : ReplayApplies(p) \/ ReplaySkips(p)
  BY <1>1, <1>3, <1>4, <1>5, <1>6, <1>7, <1>8 DEF Next, Replay, ReplayFails
<1>10. p = q
  BY <1>1, <1>3, <1>8, <1>9
<1>. QED BY <1>9, <1>10

LEMMA EndsTrueKept ==
    ASSUME KeptInv, [Next]_vars
    PROVE  EndsTrue'
<1>1. StoreInv /\ QueuesInv /\ EntriesTrue /\ FliesTrue /\ OneByOne /\ EndsTrue
  BY DEF KeptInv
<1>2. LifeMoves /\ FilesMove /\ AtMoves /\ Grows
  BY <1>1, LifeMovesAre, FilesMoveAre, AtMovesAre, StepBasics
<1>3. ASSUME NEW q \in Procs, life'[q] = "exited", ~Landed(db, q)' PROVE \E e \in Filed' : e.id[1] = q
  <2>1. CASE life[q] = "exited"
    <3>1. made'[q] = made[q]
      BY <1>2, <2>1 DEF Grows, Over
    <3>2. ~Landed(db, q)
      BY <1>1, <1>3, <3>1, LandedOn
    <3>3. PICK e \in Filed : e.id[1] = q
      BY <1>1, <2>1, <3>2 DEF EndsTrue
    <3>4. ASSUME e \notin Filed' PROVE FALSE
      <4>1. PICK p \in Procs : FileDone(p) /\ at[p] = "delete" /\ e = Entry
        BY <1>1, <3>4, FiledStays
      <4>2. Landed(db, q)
        BY <1>1, <3>3, <4>1 DEF EndsTrue
      <4>. QED BY <3>2, <4>2
    <3>. QED BY <3>3, <3>4
  <2>2. CASE life[q] # "exited"
    <3>1. Exit(q) /\ Alive(q)
      BY <1>2, <1>3, <2>2 DEF LifeMoves
    <3>2. made' = made
      BY <3>1 DEF Exit, Leave
    <3>3. CASE Dirty(q)
      <4>1. files' = Append(files, SpillEntryOf(q))
        BY <3>1, <3>3 DEF Exit, SpillSync
      <4>2. PICK o \in Seq(Entries) : o = files
        BY <1>1 DEF StoreInv, DiskTypes
      <4>3. PICK m \in Entries : m = SpillEntryOf(q)
        BY <1>1, SpillIs
      <4>4. PICK n : n = Append(o, m)
        OBVIOUS
      <4>5. Len(n) = Len(o) + 1 /\ n[Len(o) + 1] = m /\ DOMAIN n = 1..(Len(o) + 1)
        BY <4>4, AppendProperties
      <4>6. m \in Range(n)
        <5>1. Len(o) + 1 \in DOMAIN n
          BY <4>5
        <5>. QED BY <4>5, <5>1 DEF Range
      <4>7. m \in Filed'
        BY <4>1, <4>2, <4>3, <4>4, <4>6 DEF Filed, Range
      <4>8. m.id[1] = q
        BY <4>3 DEF SpillEntryOf
      <4>. QED BY <4>7, <4>8
    <3>4. CASE ~Dirty(q)
      <4>1. Landed(db, q)
        BY <1>1, <3>4, EndLands
      <4>. QED BY <1>1, <1>3, <3>2, <4>1, LandedOn
    <3>. QED BY <3>3, <3>4
  <2>. QED BY <2>1, <2>2
<1>4. ASSUME NEW p \in Procs, at'[p] = "delete" PROVE Landed(db, Entry.id[1])'
  <2>1. todo[p] > 0 /\ life[p] = "boot" /\ ~FileDone(p)
    <3>1. ReplayApplies(p) \/ ReplaySkips(p) => todo[p] > 0 /\ life[p] = "boot" /\ at[p] = "read"
      BY DEF ReplayApplies, ReplaySkips, Replaying
    <3>2. FileDone(p) => at[p] # "read"
      BY DEF FileDone
    <3>. QED BY <1>2, <1>4, <3>1, <3>2 DEF AtMoves
  <2>2. PICK e \in Filed : e = Entry /\ 1 \in DOMAIN files
    BY <1>1, <2>1, EntryFiled
  <2>3. e \in Entries /\ life[e.id[1]] = "exited"
    BY <1>1 DEF EntriesTrue
  <2>4. PICK q \in Procs : q = e.id[1]
    BY <2>3 DEF Entries, EntryRecords
  <2>5. made'[q] = made[q]
    BY <1>2, <2>3, <2>4 DEF Grows, Over
  <2>6. Entry' = e
    <3>1. CASE files' = files
      BY <2>2, <3>1 DEF Entry
    <3>2. CASE \E r \in Procs : FileDone(r) /\ life[r] = "boot"
      <4>1. PICK r \in Procs : FileDone(r) /\ life[r] = "boot"
        BY <3>2
      <4>2. r = p
        BY <1>1, <2>1, <4>1 DEF StoreInv, Phase
      <4>. QED BY <2>1, <4>1, <4>2
    <3>3. CASE \E r \in Procs : files' = Append(files, SpillEntryOf(r))
      <4>1. PICK r \in Procs : files' = Append(files, SpillEntryOf(r))
        BY <3>3
      <4>2. PICK o \in Seq(Entries) : o = files
        BY <1>1 DEF StoreInv, DiskTypes
      <4>3. PICK m \in Entries : m = SpillEntryOf(r)
        BY <1>1, SpillIs
      <4>4. Append(o, m)[1] = o[1]
        <5>1. 1 \in 1..Len(o)
          BY <2>2, <4>2
        <5>. QED BY <5>1, AppendProperties
      <4>. QED BY <2>2, <4>1, <4>2, <4>3, <4>4 DEF Entry
    <3>. QED BY <1>2, <3>1, <3>2, <3>3 DEF FilesMove
  <2>7. Landed(db, q) \/ Landed(db', q)
    <3>1. CASE at[p] = "delete"
      BY <1>1, <2>2, <2>4, <3>1 DEF EndsTrue
    <3>2. CASE ReplayApplies(p)
      BY <1>1, <2>2, <2>4, <3>2, AppliesLands
    <3>3. CASE ReplaySkips(p)
      <4>1. PICK r : r = db'
        OBVIOUS
      <4>2. \/ Replayed(db, Entry) /\ r = db
            \/ Same(db, Entry) /\ r = Stepped(db, RestOf(db, Entry).steps)
        BY <3>3, <4>1 DEF ReplaySkips, ReplayedTo
      <4>3. Landed(r, Entry.id[1])
        BY <1>1, <2>1, <4>2, SkipLands
      <4>. QED BY <2>2, <2>4, <4>1, <4>3
    <3>. QED BY <1>2, <1>4, <3>1, <3>2, <3>3 DEF AtMoves
  <2>8. Landed(db, q)'
    BY <1>1, <2>5, <2>7, LandedOn
  <2>. QED BY <2>4, <2>6, <2>8 DEF Landed, RecordedIn, ChangesOf
<1>. QED BY <1>3, <1>4 DEF EndsTrue

-----------------------------------------------------------------------------
(* Nothing vanishes *)

\* What the proof asks of the bounds: processes that overlap make no side rows (a file whose messages
\* are in the database already is skipped with its side rows).
NotesRunAlone == \A plan \in Plans : plan.overlap => "note" \notin plan.kinds

LEMMA KeptInit == ASSUME NotesRunAlone, Init PROVE KeptInv
<1>1. StoreInv /\ MadeTrue /\ Logs
  BY StoreInit, LogsThen
<1>2. /\ files = <<>> /\ aside = <<>> /\ limbo = <<>> /\ left \in Plans
      /\ db = [log |-> <<>>, side |-> <<>>, stage |-> 0, flush |-> <<0, 0>>]
      /\ \A p \in Procs : /\ made[p] = <<>> /\ life[p] = "off" /\ fly[p] = 0 /\ cgen[p] = 0 /\ run[p] = "idle"
                          /\ ~dead[p] /\ ~sick[p] /\ pc[p] = <<>> /\ pcRun[p] = <<>> /\ start[p].stage = 0
                          /\ start[p].log = <<>> /\ at[p] = "read"
  BY DEF Init
<1>3. \A p \in Procs : Gen(p) = 0 /\ DOMAIN made[p] = {}
  <2>1. Len(<<>>) = 0 /\ DOMAIN <<>> = {}
    OBVIOUS
  <2>. QED BY <1>2, <2>1 DEF Gen
<1>4. StepsTrue
  BY <1>3 DEF StepsTrue
<1>5. \A p \in Procs : Idle(p) /\ Waits(p)
  BY <1>2 DEF Idle, Waits, Alive
<1>6. Range(<<>>) = {} /\ DOMAIN <<>> = {}
  BY DEF Range
<1>7. RowsCarry
  <2>1. ~RowTrue(db)
    BY <1>2, ProcsNat DEF RowTrue, ProcsAreNat
  <2>2. \A p \in Procs : StageAt(p, 0) = 0
    BY <1>1, <1>2, StartsAre DEF Starts
  <2>3. \A p \in Procs : Carries(db, p, 0)
    BY <1>2, <2>2 DEF Carries
  <2>. QED BY <1>2, <1>6, <2>1, <2>3 DEF RowsCarry
<1>8. Filed = {}
  BY <1>2, <1>6 DEF Filed
<1>9. EntriesTrue /\ FliesTrue /\ EndsTrue
  BY <1>2, <1>6, <1>8 DEF EntriesTrue, FliesTrue, FlownTrue, Alive, EndsTrue
<1>10. OneByOne
  <2>1. CASE left.overlap
    <3>1. "note" \notin left.kinds
      BY <1>2, <2>1 DEF NotesRunAlone
    <3>2. Made = {}
      BY <1>3 DEF Made, ChangesOf
    <3>. QED BY <2>1, <3>1, <3>2 DEF OneByOne, NoNotes
  <2>2. CASE ~left.overlap
    <3>1. Len(files) <= 1
      BY <1>2
    <3>2. \A p \in Procs : start[p].log = <<>> /\ Range(start[p].log) = {}
      BY <1>2, <1>6
    <3>. QED BY <1>2, <1>6, <2>2, <3>1, <3>2 DEF OneByOne, Alone, Alive
  <2>. QED BY <2>1, <2>2
<1>. QED BY <1>1, <1>4, <1>5, <1>7, <1>9, <1>10 DEF KeptInv, QueuesInv

LEMMA KeptStep == ASSUME KeptInv, [Next]_vars PROVE KeptInv'
<1>1. StoreInv /\ QueuesInv /\ EntriesTrue /\ FliesTrue /\ OneByOne
  BY DEF KeptInv
<1>2. StoreInv'
  BY <1>1, StoreStep
<1>3. QueuesInv'
  <2>1. StepsTrue' /\ RowsCarry'
    BY <1>1, StepsTrueKept, RowsCarryKept DEF QueuesInv
  <2>2. \A q \in Procs : Idle(q)'
    BY <1>1, IdleKept DEF QueuesInv
  <2>3. \A q \in Procs : Waits(q)'
    BY <1>1, WaitsKept
  <2>. QED BY <2>1, <2>2, <2>3 DEF QueuesInv
<1>4. EntriesTrue' /\ FliesTrue' /\ OneByOne' /\ EndsTrue'
  BY <1>1, EntriesTrueKept, FliesTrueKept, OneByOneKept, EndsTrueKept
<1>. QED BY <1>2, <1>3, <1>4 DEF KeptInv

LEMMA StepRecorded ==
    ASSUME MadeTrue, Logs, StepsTrue, db \in Rows, NEW p \in Procs, NEW x \in 0..Gen(p), StageAt(p, x) <= db.stage,
           NEW i \in 1..x, made[p][i].kind = "step"
    PROVE  Recorded(<<p, i>>)
<1>1. Gen(p) \in Nat /\ x \in Nat /\ i \in Nat /\ i <= x /\ i \in 1..Gen(p) /\ db.stage \in 0..3
  BY MadeIs DEF Rows
<1>2. made[p][i].to = StageAt(p, i)
  BY <1>1 DEF StepsTrue
<1>3. StageAt(p, i) <= StageAt(p, x) /\ StageAt(p, i) \in 0..3 /\ StageAt(p, x) \in 0..3
  BY <1>1, StageAtIs
<1>. QED BY <1>1, <1>2, <1>3 DEF Recorded, KindOf

LEMMA ToldRecorded ==
    ASSUME StoreInv, StepsTrue, RowsCarry, NEW p \in Procs, NEW i \in 1..cgen[p]
    PROVE  Recorded(<<p, i>>)
<1>1. MadeTrue /\ Logs /\ db \in Rows
  BY LogsThen DEF StoreInv, DiskTypes
<1>2. PICK c : c = cgen[p]
  OBVIOUS
<1>3. c \in 0..Gen(p) /\ c \in Nat /\ i \in 1..c /\ i \in 1..Gen(p)
  BY <1>1, <1>2, MadeIs DEF StoreInv, FlagTypes, Phase
<1>4. made[p][i].kind \in {"talk", "note", "step"}
  <2>1. made[p][i] \in Changes
    BY <1>1, <1>3, MadeIs
  <2>. QED BY <2>1 DEF Changes
<1>5. Carries(db, p, c)
  BY <1>2 DEF RowsCarry
<1>6. CASE made[p][i].kind = "talk"
  <2>1. PICK s : s = ChangesIn(p, "talk", 0, c)
    OBVIOUS
  <2>2. <<p, i>> \in Range(s)
    <3>1. i \in (0 + 1)..c
      BY <1>3
    <3>. QED BY <1>3, <1>6, <2>1, <3>1, ChangesInHas
  <2>3. s \in Seq(Made) /\ start[p].log \in Seq(Made)
    BY <1>1, <1>3, <2>1, ChangesInAre DEF Logs
  <2>4. Range(start[p].log \o s) = Range(start[p].log) \cup Range(s)
    BY <2>3, RangesJoin
  <2>5. PICK R : R = Reach(p, c)
    OBVIOUS
  <2>6. R = start[p].log \o s /\ R \in Seq(Made)
    <3>1. c <= c
      BY <1>3
    <3>. QED BY <1>1, <1>3, <2>1, <2>5, <3>1, ReachIs DEF Reach
  <2>7. IsPrefix(R, db.log) /\ db.log \in Seq(Made)
    BY <1>1, <1>2, <2>5 DEF StoreInv, WritesTrue, Behind, Rows
  <2>8. Range(R) \subseteq Range(db.log)
    BY <2>6, <2>7, RangeOfPrefix
  <2>. QED BY <2>2, <2>4, <2>6, <2>8 DEF Recorded
<1>7. CASE made[p][i].kind = "note"
  BY <1>3, <1>5, <1>7 DEF Carries, Recorded
<1>8. CASE made[p][i].kind = "step"
  <2>1. StageAt(p, c) <= db.stage
    BY <1>5 DEF Carries
  <2>. QED BY <1>1, <1>3, <1>8, <2>1, StepRecorded
<1>. QED BY <1>4, <1>6, <1>7, <1>8

\* A list of a process's changes of one kind holds each of them.
LEMMA Held ==
    ASSUME NEW p, NEW kind, NEW a \in Nat, NEW b \in Nat, NEW s, s = ChangesIn(p, kind, a, b),
           NEW i \in (a + 1)..b, made[p][i].kind = kind
    PROVE  <<p, i>> \in Range(s)
<1>1. PICK c : c = <<p, i>>
  OBVIOUS
<1>2. \E j \in (a + 1)..b : c = <<p, j>> /\ made[p][j].kind = kind
  BY <1>1
<1>3. c \in Range(ChangesIn(p, kind, a, b))
  BY <1>2, ChangesInHas
<1>. QED BY <1>1, <1>3

\* What a spill file holds, and what was in the database before it, is all its process made.
LEMMA FileHas ==
    ASSUME StoreInv, StepsTrue, RowsCarry, EntriesTrue, NEW e \in Filed, NEW p, p = e.id[1], NEW i \in 1..Gen(p)
    PROVE  Recorded(<<p, i>>) \/ InEntry(e, <<p, i>>)
<1>1. MadeTrue /\ Logs /\ db \in Rows
  BY LogsThen DEF StoreInv, DiskTypes
<1>2. e \in Entries /\ EntryTrue(e) /\ EntrySteps(e) /\ EntryNotes(e) /\ p \in Procs
  BY DEF EntriesTrue, Entries, EntryRecords
<1>3. PICK n : n = Gen(p)
  OBVIOUS
<1>4. PICK c : c = cgen[p]
  OBVIOUS
<1>5. PICK x : x = FlyGen(e)
  OBVIOUS
<1>6. /\ c \in Nat /\ x \in Nat /\ n \in Nat /\ c <= x /\ x <= n /\ c \in 0..Gen(p) /\ x \in 0..Gen(p)
      /\ (e.fly = <<>> => x = c)
  <2>1. Fetches(e)
    BY FetchesNow
  <2>. QED BY <1>2, <1>3, <1>4, <1>5, <2>1, FetchesAre
<1>7. CASE i <= c
  <2>1. i \in 1..cgen[p]
    BY <1>4, <1>6, <1>7
  <2>. QED BY <1>2, <2>1, ToldRecorded
<1>8. made[p][i].kind \in {"talk", "note", "step"} /\ i \in 1..n /\ i \in Nat
  <2>1. made[p][i] \in Changes
    BY <1>1, <1>2, MadeIs
  <2>. QED BY <1>3, <1>6, <2>1 DEF Changes
<1>9. CASE i > c /\ made[p][i].kind = "talk"
  <2>1. e.msgs = ChangesIn(p, "talk", c, n)
    BY <1>2, <1>3, <1>4 DEF EntryTrue
  <2>2. i \in (c + 1)..n
    BY <1>6, <1>8, <1>9
  <2>3. <<p, i>> \in Range(e.msgs)
    BY ONLY <1>6, <1>9, <2>1, <2>2, Held
  <2>. QED BY <2>3 DEF InEntry
<1>10. ASSUME e.fly # <<>> PROVE 1 \in DOMAIN e.fly
  <2>1. PICK o \in Seq(Snaps) : o = e.fly
    BY <1>2 DEF Entries, EntryRecords
  <2>2. Len(o) # 0
    BY <1>10, <2>1, EmptySeq
  <2>. QED BY <2>1, <2>2
<1>11. CASE i > c /\ made[p][i].kind = "note"
  <2>1. e.side = ChangesIn(p, "note", x, n) /\ (e.fly # <<>> => e.fly[1].side = ChangesIn(p, "note", c, x))
    BY <1>2, <1>3, <1>4, <1>5 DEF EntryNotes
  <2>2. CASE i > x
    <3>1. i \in (x + 1)..n
      BY <1>6, <1>8, <2>2
    <3>2. <<p, i>> \in Range(e.side)
      BY ONLY <1>6, <1>11, <2>1, <3>1, Held
    <3>. QED BY <3>2 DEF InEntry
  <2>3. CASE ~(i > x)
    <3>1. i \in (c + 1)..x /\ x # c
      BY <1>6, <1>8, <1>11, <2>3
    <3>2. e.fly # <<>>
      BY <1>6, <3>1
    <3>3. PICK s : s = e.fly[1].side
      OBVIOUS
    <3>4. <<p, i>> \in Range(s)
      BY ONLY <1>6, <1>11, <2>1, <3>1, <3>2, <3>3, Held
    <3>. QED BY <1>10, <3>2, <3>3, <3>4 DEF InEntry
  <2>. QED BY <2>2, <2>3
<1>12. CASE i > c /\ made[p][i].kind = "step"
  <2>1. CASE \E y \in 0..Gen(p) : StageAt(p, y) <= db.stage /\ FromOn(p, y, e.steps)
    <3>1. PICK y \in 0..Gen(p) : StageAt(p, y) <= db.stage /\ e.steps = ChangesIn(p, "step", y, n)
      BY <1>3, <2>1 DEF FromOn
    <3>2. CASE i <= y
      <4>1. i \in 1..y
        BY <1>8, <3>2
      <4>. QED BY <1>1, <1>2, <1>12, <3>1, <4>1, StepRecorded
    <3>3. CASE ~(i <= y)
      <4>1. i \in (y + 1)..n /\ y \in Nat
        BY <1>3, <1>6, <1>8, <3>1, <3>3
      <4>2. <<p, i>> \in Range(e.steps)
        BY ONLY <1>6, <1>12, <3>1, <4>1, Held
      <4>. QED BY <4>2 DEF InEntry
    <3>. QED BY <3>2, <3>3
  <2>2. CASE e.fly # <<>> /\ e.fly[1].steps = ChangesIn(p, "step", cgen[p], FlyGen(e)) /\ FromOn(p, FlyGen(e), e.steps)
    <3>1. e.steps = ChangesIn(p, "step", x, n) /\ e.fly[1].steps = ChangesIn(p, "step", c, x)
      BY <1>3, <1>4, <1>5, <2>2 DEF FromOn
    <3>2. CASE i > x
      <4>1. i \in (x + 1)..n
        BY <1>6, <1>8, <3>2
      <4>2. <<p, i>> \in Range(e.steps)
        BY ONLY <1>6, <1>12, <3>1, <4>1, Held
      <4>. QED BY <4>2 DEF InEntry
    <3>3. CASE ~(i > x)
      <4>1. i \in (c + 1)..x
        BY <1>6, <1>8, <1>12, <3>3
      <4>2. PICK s : s = e.fly[1].steps
        OBVIOUS
      <4>3. <<p, i>> \in Range(s)
        BY ONLY <1>6, <1>12, <3>1, <4>1, <4>2, Held
      <4>. QED BY <1>10, <2>2, <4>2, <4>3 DEF InEntry
    <3>. QED BY <3>2, <3>3
  <2>. QED BY <1>2, <2>1, <2>2 DEF EntrySteps
<1>13. i > c \/ i <= c
  BY <1>6, <1>8
<1>. QED BY <1>7, <1>8, <1>9, <1>11, <1>12, <1>13

\* What is neither recorded nor in the queues of a process that runs, it did not make.
LEMMA MemoryHas ==
    ASSUME StoreInv, QueuesInv, NEW p \in Procs, Alive(p), NEW i \in 1..Gen(p)
    PROVE  Recorded(<<p, i>>) \/ InMemory(<<p, i>>)
<1>1. MadeTrue /\ Logs /\ db \in Rows /\ StepsTrue /\ RowsCarry /\ Idle(p) /\ Waits(p)
  BY LogsThen DEF StoreInv, DiskTypes, QueuesInv
<1>2. PICK n : n = Gen(p)
  OBVIOUS
<1>3. PICK c : c = cgen[p]
  OBVIOUS
<1>4. PICK f : f = fly[p]
  OBVIOUS
<1>5. /\ c \in Nat /\ f \in Nat /\ n \in Nat /\ c <= n /\ f <= n /\ (f # 0 => c < f) /\ i \in 1..n /\ i \in Nat
      /\ Queued(p) = IF f = 0 THEN c ELSE f
  BY <1>1, <1>2, <1>3, <1>4, MadeIs DEF StoreInv, FlagTypes, Phase, Queued
<1>6. CASE i <= c
  <2>1. i \in 1..cgen[p]
    BY <1>3, <1>5, <1>6
  <2>. QED BY <1>1, <2>1, ToldRecorded
<1>7. CASE i > c /\ made[p][i].kind # "step"
  BY <1>3, <1>7 DEF InMemory, KindOf
<1>8. CASE i > c /\ made[p][i].kind = "step" /\ ~sick[p]
  <2>1. ~dead[p]
    BY <1>1, <1>8 DEF Idle
  <2>2. i > Queued(p) \/ i \in (c + 1)..f
    BY <1>5, <1>8
  <2>. QED BY <1>3, <1>4, <1>8, <2>1, <2>2 DEF InMemory
<1>9. CASE i > c /\ made[p][i].kind = "step" /\ sick[p] /\ f # 0 /\ ~dead[p]
  <2>1. PICK s : s = pc[p]
    OBVIOUS
  <2>2. s = ChangesIn(p, "step", f, n)
    BY <1>1, <1>2, <1>4, <1>9, <2>1 DEF Waits, FromOn
  <2>3. CASE i > f
    <3>1. i \in (f + 1)..n
      BY <1>5, <2>3
    <3>2. <<p, i>> \in Range(s)
      BY <1>5, <1>9, <2>2, <3>1, ChangesInHas
    <3>. QED BY <2>1, <3>2 DEF InMemory
  <2>4. CASE ~(i > f)
    <3>1. i \in (c + 1)..f
      BY <1>5, <1>9, <2>4
    <3>. QED BY <1>3, <1>4, <1>9, <3>1 DEF InMemory
  <2>. QED BY <2>3, <2>4
<1>10. CASE i > c /\ made[p][i].kind = "step" /\ sick[p] /\ (f = 0 \/ dead[p])
  <2>1. PICK s : s = pcRun[p]
    OBVIOUS
  <2>2. PICK t : t = pc[p]
    OBVIOUS
  <2>3. PICK x \in 0..Gen(p), y \in 0..Gen(p) :
          x <= y /\ StageAt(p, x) <= db.stage /\ s = ChangesIn(p, "step", x, y) /\ t = ChangesIn(p, "step", y, n)
    BY <1>1, <1>2, <1>4, <1>10, <2>1, <2>2 DEF Waits, Spread, FromOn
  <2>4. x \in Nat /\ y \in Nat
    BY <2>3
  <2>5. CASE i <= x
    <3>1. i \in 1..x
      BY <1>5, <2>4, <2>5
    <3>. QED BY <1>1, <1>10, <2>3, <3>1, StepRecorded
  <2>6. CASE i > x /\ i <= y
    <3>1. i \in (x + 1)..y
      BY <1>5, <2>4, <2>6
    <3>2. <<p, i>> \in Range(s)
      BY <1>10, <2>3, <2>4, <3>1, ChangesInHas
    <3>. QED BY <2>1, <3>2 DEF InMemory
  <2>7. CASE i > y
    <3>1. i \in (y + 1)..n
      BY <1>5, <2>4, <2>7
    <3>2. <<p, i>> \in Range(t)
      BY <1>5, <1>10, <2>3, <2>4, <3>1, ChangesInHas
    <3>. QED BY <2>2, <3>2 DEF InMemory
  <2>8. i <= x \/ (i > x /\ i <= y) \/ i > y
    BY <1>5, <2>4
  <2>. QED BY <2>5, <2>6, <2>7, <2>8
<1>11. i <= c \/ i > c
  BY <1>5
<1>. QED BY <1>6, <1>7, <1>8, <1>9, <1>10, <1>11

LEMMA KeptVanishes == ASSUME KeptInv PROVE NothingVanishes
<1>1. StoreInv /\ QueuesInv /\ EntriesTrue /\ EndsTrue /\ StepsTrue /\ RowsCarry /\ \A p \in Procs : Idle(p)
  BY DEF KeptInv, QueuesInv
<1>2. SUFFICES ASSUME NEW p \in Procs, life[p] # "killed", NEW c \in ChangesOf(p)
               PROVE  Recorded(c) \/ InMemory(c) \/ \E e \in Filed : InEntry(e, c)
  BY DEF NothingVanishes, Filed
<1>3. PICK i \in 1..Gen(p) : c = <<p, i>>
  BY <1>1, LogsThen, MadeIs DEF ChangesOf
<1>4. life[p] \in {"off", "boot", "up", "closed", "exited", "refused", "blocked"}
  BY <1>1, <1>2, MineTypes DEF Over
<1>5. CASE life[p] \in {"off", "boot", "refused", "blocked"}
  <2>1. made[p] = <<>>
    BY <1>1, <1>5 DEF StoreInv, Phase, Idle, Fresh
  <2>2. Len(<<>>) = 0
    OBVIOUS
  <2>. QED BY <1>3, <2>1, <2>2 DEF Gen
<1>6. CASE life[p] \in {"up", "closed"}
  BY <1>1, <1>3, <1>6, MemoryHas DEF Alive
<1>7. CASE life[p] = "exited"
  <2>1. CASE Landed(db, p)
    BY <1>2, <2>1 DEF Landed, RecordedIn, Recorded, To
  <2>2. CASE \E e \in Filed : e.id[1] = p
    BY <1>1, <1>3, <2>2, FileHas
  <2>. QED BY <1>1, <1>7, <2>1, <2>2 DEF EndsTrue
<1>. QED BY <1>4, <1>5, <1>6, <1>7

\* A change of a process that was not killed is in the database, in the queues of its process or in a
\* spill file, whatever is cut, rejected, retried, stopped or replayed (store/pg-backend.ts).
THEOREM NothingVanishesHolds == NotesRunAlone => (Spec => []NothingVanishes)
<1>. SUFFICES ASSUME NotesRunAlone PROVE Spec => []NothingVanishes
  OBVIOUS
<1>1. Init => KeptInv
  BY KeptInit
<1>2. KeptInv /\ [Next]_vars => KeptInv'
  BY KeptStep
<1>3. KeptInv => NothingVanishes
  BY KeptVanishes
<1>. QED BY <1>1, <1>2, <1>3, PTL DEF Spec

-----------------------------------------------------------------------------
(* The whole conversation is one log: messages and side rows, each written once *)

TalkStarts == \A p \in Procs : \A c \in Range(start[p].log) : KindOf(c) = "talk"
NotesOnly(d) == \A c \in Range(d.side) : KindOf(c) = "note"

\* Of a process that may write again, or whose file waits, a row holds the side rows its process was
\* told of and those the row's flush_id stands for.
Open(p) == Alive(p) \/ \E i \in DOMAIN files : files[i].id[1] = p
Counted(d, c) == c[2] <= cgen[c[1]] \/ (d.flush[1] = c[1] /\ c[2] <= WriterGen(d.flush))
SideOnce(d) == IsInjective(d.side) /\ \A c \in Range(d.side) : Open(c[1]) => Counted(d, c)
SideTrue(d) == NotesOnly(d) /\ (~left.overlap => SideOnce(d))
SidesTrue == SideTrue(db) /\ \A i \in DOMAIN limbo : SideTrue(limbo[i])

LEMMA KindsIn ==
    ASSUME NEW p, NEW kind, NEW a \in Nat, NEW b \in Nat, NEW s, s = ChangesIn(p, kind, a, b), NEW c \in Range(s)
    PROVE  KindOf(c) = kind /\ c[1] = p /\ c[2] \in (a + 1)..b
<1>1. PICK i \in (a + 1)..b : c = <<p, i>> /\ made[p][i].kind = kind
  BY ChangesInHas
<1>. QED BY <1>1 DEF KindOf

\* The messages of a row are messages, if all its writer preloaded were.
LEMMA RowTalks ==
    ASSUME StoreInv, TalkStarts, NEW d \in Rows, RowTrue(d) \/ Blank(d)
    PROVE  \A c \in Range(d.log) : KindOf(c) = "talk"
<1>1. CASE Blank(d)
  <2>1. d.log = <<>> /\ DOMAIN <<>> = {}
    BY <1>1 DEF Blank
  <2>. QED BY <2>1 DEF Range
<1>2. CASE RowTrue(d)
  <2>1. PICK p : p = d.flush[1]
    OBVIOUS
  <2>2. PICK g : g = WriterGen(d.flush)
    OBVIOUS
  <2>3. p \in Procs /\ d.log = Reach(p, g) /\ g \in 0..Gen(p) /\ g \in Nat /\ MadeTrue /\ Logs
    <3>1. p \in Procs /\ d.log = Reach(p, g) /\ d.flush[2] <= Gen(p)
      BY <1>2, <2>1, <2>2 DEF RowTrue
    <3>2. d.flush[2] \in Nat /\ MadeTrue /\ Logs
      BY LogsThen DEF Rows
    <3>3. Gen(p) \in Nat
      BY <3>1, QueuedIs
    <3>. QED BY <2>1, <2>2, <3>1, <3>2, <3>3 DEF WriterGen
  <2>4. PICK s : s = start[p].log
    OBVIOUS
  <2>5. PICK t : t = ChangesIn(p, "talk", 0, g)
    OBVIOUS
  <2>6. s \in Seq(Made) /\ t \in Seq(Made)
    BY <2>3, <2>4, <2>5, ChangesInAre DEF Logs
  <2>7. Range(d.log) = Range(s) \cup Range(t)
    <3>1. d.log = s \o t
      BY <2>3, <2>4, <2>5 DEF Reach
    <3>. QED BY <2>6, <3>1, RangesJoin
  <2>8. \A c \in Range(s) : KindOf(c) = "talk"
    BY <2>3, <2>4 DEF TalkStarts
  <2>9. \A c \in Range(t) : KindOf(c) = "talk"
    <3>1. PICK z \in Nat : z = 0
      OBVIOUS
    <3>2. t = ChangesIn(p, "talk", z, g)
      BY <2>5, <3>1
    <3>. QED BY ONLY <2>3, <3>1, <3>2, KindsIn
  <2>. QED BY <2>7, <2>8, <2>9
<1>. QED BY <1>1, <1>2

LEMMA KindStays ==
    ASSUME StoreInv, [Next]_vars, NEW c \in Made
    PROVE  KindOf(c)' = KindOf(c)
<1>1. PICK p \in Procs : \E i \in DOMAIN made[p] : c = <<p, i>>
  BY DEF Made, ChangesOf
<1>2. PICK i \in DOMAIN made[p] : c = <<p, i>>
  BY <1>1
<1>3. MadeTrue /\ Grows
  BY StepBasics
<1>4. i \in 1..Len(made[p])
  BY <1>2, <1>3, MadeIs DEF Gen
<1>5. made'[p][i] = made[p][i]
  BY <1>3, <1>4 DEF Grows
<1>. QED BY <1>2, <1>5 DEF KindOf

LEMMA TalkStartsKept ==
    ASSUME StoreInv, TalkStarts, [Next]_vars
    PROVE  TalkStarts'
<1>1. /\ \A p \in Procs : start[p].log \in Seq(Made)
      /\ db.log \in Seq(Made) /\ \A c \in Range(db.log) : KindOf(c) = "talk"
  <2>1. db \in Rows /\ (RowTrue(db) \/ Blank(db))
    BY DEF StoreInv, DiskTypes, WritesTrue
  <2>. QED BY <2>1, RowTalks, LogsThen DEF Rows, Logs
<1>2. \A q \in Procs : start'[q] = start[q] \/ start'[q] = Preloaded
  BY StartMoves
<1>3. ASSUME NEW q \in Procs, NEW c \in Range(start'[q].log) PROVE KindOf(c)' = "talk"
  <2>1. PICK s : s = start'[q].log
    OBVIOUS
  <2>2. s \in Seq(Made) /\ \A x \in Range(s) : KindOf(x) = "talk"
    BY <1>1, <1>2, <2>1 DEF TalkStarts, Preloaded
  <2>3. c \in Made
    BY <1>3, <2>1, <2>2 DEF Range
  <2>. QED BY <1>3, <2>1, <2>2, <2>3, KindStays
<1>4. \A q \in Procs : \A c \in Range(start'[q].log) : KindOf(c)' = "talk"
  BY <1>3
<1>. QED BY <1>4 DEF TalkStarts, Range

\* A transaction adds the side rows of one process from a number on: none that it was told of or that
\* the database's flush_id stands for.
Adds(r) ==
    \E p \in Procs, a \in Nat, b \in Nat :
        /\ Open(p) /\ r.flush[1] = p /\ WriterGen(r.flush) = b /\ b <= Gen(p)
        /\ r.side = db.side \o ChangesIn(p, "note", a, b)
        /\ cgen[p] <= a /\ a <= b /\ (db.flush[1] = p => WriterGen(db.flush) <= a)

LEMMA FlushAdds ==
    ASSUME StoreInv, FliesTrue, NEW p \in Procs, Alive(p), run[p] = "sent", Fits(db, Snap(p)),
           NEW r, r = Written(db, Snap(p))
    PROVE  Adds(r)
<1>1. PICK f : f = fly[p]
  OBVIOUS
<1>2. PICK c : c = cgen[p]
  OBVIOUS
<1>3. f # 0 /\ f \in Nat /\ c \in Nat /\ c < f /\ f <= Gen(p) /\ p # 0 /\ db \in Rows
  BY <1>1, <1>2, ProcsNat DEF StoreInv, Phase, FlagTypes, DiskTypes, ProcsAreNat
<1>4. r.flush = <<p, f>> /\ r.side = db.side \o ChangesIn(p, "note", c, f) /\ db.flush # <<p, f>>
  BY <1>1, <1>2 DEF Written, Snap, Fits
<1>5. r.flush[1] = p /\ WriterGen(r.flush) = f
  BY <1>3, <1>4 DEF WriterGen
<1>6. ASSUME db.flush[1] = p PROVE WriterGen(db.flush) <= c
  <2>1. db.flush[2] = 0 \/ db.flush[2] <= c \/ db.flush[2] = f
    BY <1>1, <1>2, <1>6 DEF FliesTrue, FlownTrue, Flushed
  <2>2. db.flush[2] # f
    <3>1. db.flush = <<db.flush[1], db.flush[2]>>
      BY <1>3 DEF Rows
    <3>. QED BY <1>4, <1>6, <3>1
  <2>3. ~Blank(db)
    BY <1>3, <1>6 DEF Blank
  <2>4. db.flush[2] # 0
    BY <1>6, <2>3 DEF StoreInv, WritesTrue, RowTrue, Alive, Over
  <2>. QED BY <2>1, <2>2, <2>4 DEF WriterGen
<1>7. Open(p)
  BY DEF Open
<1>8. c <= c /\ c <= f /\ cgen[p] <= c
  BY <1>2, <1>3
<1>. QED BY <1>3, <1>4, <1>5, <1>6, <1>7, <1>8 DEF Adds

LEMMA ReplayAdds ==
    ASSUME StoreInv, RowsCarry, EntriesTrue, FliesTrue, NEW q \in Procs, todo[q] > 0, NEW e, e = Entry, Continues(db, e),
           NEW r, r = Written(db, RestOf(db, e))
    PROVE  Adds(r)
<1>1. e \in Filed /\ 1 \in DOMAIN files /\ Fetches(e)
  <2>1. e \in Filed /\ 1 \in DOMAIN files
    BY EntryFiled
  <2>. QED BY <2>1, FetchesNow
<1>2. PICK p : p = e.id[1]
  OBVIOUS
<1>3. PICK c : c = cgen[p]
  OBVIOUS
<1>4. PICK x : x = FlyGen(e)
  OBVIOUS
<1>5. PICK n : n = Gen(p)
  OBVIOUS
<1>6. /\ MadeTrue /\ p \in Procs /\ c \in Nat /\ x \in Nat /\ n \in Nat /\ c <= x /\ x <= n
      /\ db \in Rows /\ e.id = <<p, 0>> /\ (e.fly = <<>> => x = c)
      /\ (e.fly # <<>> => FlyTrue(p, e.fly[1]) /\ x = e.fly[1].id[2] /\ c < x)
      /\ e.side \in Seq(Made) /\ (e.fly # <<>> => e.fly[1] \in Snaps)
  BY <1>1, <1>2, <1>3, <1>4, <1>5, FetchesAre
<1>7. p # 0
  BY <1>6, ProcsNat DEF ProcsAreNat
<1>8. r.flush = e.id /\ r.flush[1] = p /\ WriterGen(r.flush) = n
  <2>1. r.flush = e.id
    BY DEF Written, RestOf
  <2>. QED BY <1>5, <1>6, <2>1 DEF WriterGen
<1>9. e.side = ChangesIn(p, "note", x, n) /\ (e.fly # <<>> => e.fly[1].side = ChangesIn(p, "note", c, x))
  BY <1>1, <1>2, <1>3, <1>4, <1>5 DEF Fetches, EntryNotes
<1>10. Open(p)
  BY <1>1, <1>2 DEF Open, Entry
<1>11. \A s : <<>> \o e.side = e.side
  BY <1>6, ConcatEmptySeq
<1>12. CASE FlyIn(db, e)
  <2>1. r.side = db.side \o ChangesIn(p, "note", x, n)
    <3>1. r.side = db.side \o (<<>> \o e.side)
      BY <1>12 DEF Written, RestOf
    <3>. QED BY <1>9, <1>11, <3>1
  <2>2. db.flush = e.fly[1].id /\ e.fly # <<>>
    BY <1>12 DEF FlyIn, Known
  <2>3. db.flush[2] = x /\ x # 0
    BY <1>6, <2>2
  <2>4. WriterGen(db.flush) = x
    BY <2>3 DEF WriterGen
  <2>5. cgen[p] <= x /\ x <= x
    BY <1>3, <1>6
  <2>. QED BY <1>5, <1>6, <1>8, <1>10, <2>1, <2>4, <2>5 DEF Adds
<1>13. CASE ~FlyIn(db, e)
  <2>1. r.side = db.side \o ChangesIn(p, "note", c, n)
    <3>1. CASE e.fly = <<>>
      <4>1. r.side = db.side \o (<<>> \o e.side)
        BY <3>1 DEF Written, RestOf
      <4>. QED BY <1>6, <1>9, <1>11, <3>1, <4>1
    <3>2. CASE e.fly # <<>>
      <4>1. r.side = db.side \o (e.fly[1].side \o e.side)
        BY <1>13, <3>2 DEF Written, RestOf
      <4>2. ChangesIn(p, "note", c, n) = ChangesIn(p, "note", c, x) \o ChangesIn(p, "note", x, n)
        BY <1>6, ChangesInJoin
      <4>. QED BY <1>9, <3>2, <4>1, <4>2
    <3>. QED BY <3>1, <3>2
  <2>2. ASSUME db.flush[1] = p PROVE WriterGen(db.flush) <= c
    <3>1. db.flush[2] = 0 \/ db.flush[2] <= c \/ db.flush[2] = x
      BY <1>1, <1>2, <1>3, <1>4, <2>2 DEF FliesTrue, FlownTrue, Flushed
    <3>2. db.flush = <<p, db.flush[2]>>
      BY <1>6, <2>2 DEF Rows
    <3>3. db.flush[2] # 0
      BY <1>6, <3>2 DEF Continues, Replayed
    <3>4. CASE db.flush[2] = x /\ ~(x <= c)
      <4>1. e.fly # <<>>
        BY <1>6, <3>4
      <4>2. PICK f : f = e.fly[1]
        OBVIOUS
      <4>3. f.id[1] = p /\ f.id[2] = x /\ f.last = LastSeq(p, x) /\ x <= Gen(p) /\ f.id \in Procs \X Nat
        BY <1>6, <4>1, <4>2 DEF FlyTrue, Snaps
      <4>4. f.id = <<p, x>>
        BY <4>3
      <4>5. db.flush = f.id
        BY <3>2, <3>4, <4>4
      <4>6. db.log = Reach(p, x)
        <5>1. ~Blank(db)
          BY <1>7, <2>2 DEF Blank
        <5>2. WriterGen(db.flush) = x
          BY <3>3, <3>4 DEF WriterGen
        <5>. QED BY <2>2, <5>1, <5>2 DEF StoreInv, WritesTrue, RowTrue
      <4>7. Len(db.log) = LastSeq(p, x)
        <5>1. x \in 0..Gen(p) /\ x <= x
          BY <1>5, <1>6
        <5>2. Logs
          BY LogsThen
        <5>. QED BY <1>6, <4>6, <5>1, <5>2, ReachIs
      <4>8. FlyIn(db, e)
        BY <4>1, <4>2, <4>3, <4>5, <4>7 DEF FlyIn, Known
      <4>. QED BY <1>13, <4>8
    <3>5. CASE ~(db.flush[2] = x /\ ~(x <= c))
      <4>1. db.flush[2] <= c
        BY <3>1, <3>3, <3>5
      <4>2. WriterGen(db.flush) = db.flush[2]
        BY <3>3 DEF WriterGen
      <4>. QED BY <4>1, <4>2
    <3>. QED BY ONLY <3>4, <3>5
  <2>3. cgen[p] <= c /\ c <= n /\ n <= Gen(p)
    BY <1>3, <1>5, <1>6
  <2>4. /\ Open(p) /\ r.flush[1] = p /\ WriterGen(r.flush) = n /\ n <= Gen(p)
        /\ r.side = db.side \o ChangesIn(p, "note", c, n)
        /\ cgen[p] <= c /\ c <= n /\ (db.flush[1] = p => WriterGen(db.flush) <= c)
    BY <1>8, <1>10, <2>1, <2>2, <2>3
  <2>. QED BY ONLY <1>6, <2>4 DEF Adds
<1>. QED BY <1>12, <1>13

\* Where processes run one after the other, one at most may write again.
LEMMA OneOpen ==
    ASSUME StoreInv, Alone, NEW p \in Procs, NEW q \in Procs, Open(p), Open(q)
    PROVE  p = q
<1>1. files \in Seq(Entries) /\ Len(files) <= 1
  BY DEF StoreInv, DiskTypes, Alone
<1>2. CASE Alive(p) \/ Alive(q)
  <2>1. files = <<>>
    BY <1>2 DEF Alone
  <2>2. DOMAIN files = {}
    BY <2>1
  <2>3. Alive(p) /\ Alive(q)
    BY <2>2 DEF Open
  <2>. QED BY <2>3, OneRunning DEF Running, Alive, Over
<1>3. CASE ~(Alive(p) \/ Alive(q))
  <2>1. PICK i \in DOMAIN files, j \in DOMAIN files : files[i].id[1] = p /\ files[j].id[1] = q
    BY <1>3 DEF Open
  <2>2. i = 1 /\ j = 1
    BY <1>1
  <2>. QED BY <2>1, <2>2
<1>. QED BY <1>2, <1>3

LEMMA AddsOnce ==
    ASSUME StoreInv, Alone, NotesOnly(db), SideOnce(db), NEW r, Adds(r)
    PROVE  SideOnce(r)
<1>1. PICK p \in Procs, a \in Nat, b \in Nat :
        /\ Open(p) /\ r.flush[1] = p /\ WriterGen(r.flush) = b /\ b <= Gen(p)
        /\ r.side = db.side \o ChangesIn(p, "note", a, b)
        /\ cgen[p] <= a /\ a <= b /\ (db.flush[1] = p => WriterGen(db.flush) <= a)
  BY DEF Adds
<1>2. PICK s : s = ChangesIn(p, "note", a, b)
  OBVIOUS
<1>3. PICK d : d = db.side
  OBVIOUS
<1>4. PICK u : u = d \o s
  OBVIOUS
<1>5. s \in Seq(Made) /\ d \in Seq(Made) /\ MadeTrue /\ IsInjective(d)
  <2>1. MadeTrue /\ b \in 0..Gen(p)
    BY <1>1, LogsThen, MadeIs
  <2>. QED BY <1>2, <1>3, <2>1, ChangesInAre DEF StoreInv, DiskTypes, Rows, SideOnce
<1>6. Range(u) = Range(d) \cup Range(s) /\ r.side = u
  BY <1>1, <1>2, <1>3, <1>4, <1>5, RangesJoin
<1>7. \A c \in Range(s) : c[1] = p /\ c[2] \in (a + 1)..b
  BY ONLY <1>1, <1>2, KindsIn
<1>8. IsInjective(s)
  BY ONLY <1>1, <1>2, ChangesInOnce
<1>9. cgen[p] \in Nat /\ \A c \in Made : c[1] \in Procs /\ c[2] \in Nat
  <2>1. \A c \in Made : c \in Procs \X Nat
    BY <1>5, MadeIs
  <2>. QED BY <2>1 DEF StoreInv, FlagTypes
<1>10. ASSUME NEW c \in Range(d), c[1] = p PROVE c[2] <= a
  <2>1. c \in Made
    BY <1>5, <1>10 DEF Range
  <2>2. Counted(db, c)
    BY <1>1, <1>3, <1>10 DEF SideOnce
  <2>3. c[2] <= cgen[p] \/ (db.flush[1] = p /\ c[2] <= WriterGen(db.flush))
    BY <1>10, <2>2 DEF Counted
  <2>4. WriterGen(db.flush) \in Nat \/ db.flush[1] # p
    <3>1. db.flush[2] \in Nat /\ Gen(p) \in Nat
      BY <1>5, MadeIs DEF StoreInv, DiskTypes, Rows
    <3>. QED BY <3>1 DEF WriterGen
  <2>. QED BY <1>1, <1>9, <2>1, <2>3, <2>4
<1>11. IsInjective(u)
  <2>1. \A i \in DOMAIN d : d[i] \in Range(d)
    BY DEF Range
  <2>2. \A j \in DOMAIN s : s[j] \in Range(s)
    BY DEF Range
  <2>3. \A x \in Range(d), y \in Range(s) : x # y
    <3>1. SUFFICES ASSUME NEW x \in Range(d), x \in Range(s) PROVE FALSE
      OBVIOUS
    <3>2. x[2] <= a /\ x[2] \in (a + 1)..b
      BY <1>7, <1>10, <3>1
    <3>. QED BY <3>2
  <2>4. \A i \in DOMAIN d : \A j \in DOMAIN s : d[i] # s[j]
    BY <2>1, <2>2, <2>3
  <2>. QED BY ONLY <1>4, <1>5, <1>8, <2>4, ConcatOnce
<1>12. ASSUME NEW c \in Range(u), Open(c[1]) PROVE Counted(r, c)
  <2>1. CASE c \in Range(s)
    BY <1>1, <1>7, <2>1 DEF Counted
  <2>2. CASE c \in Range(d)
    <3>1. c \in Made
      BY <1>5, <2>2 DEF Range
    <3>2. c[1] = p
      BY <1>1, <1>9, <1>12, <3>1, OneOpen
    <3>3. c[2] <= b
      BY <1>1, <1>9, <1>10, <2>2, <3>1, <3>2
    <3>. QED BY <1>1, <3>2, <3>3 DEF Counted
  <2>. QED BY <1>6, <1>12, <2>1, <2>2
<1>. QED BY <1>6, <1>11, <1>12 DEF SideOnce

LEMMA NewSidesAreTrue ==
    ASSUME StoreInv, QueuesInv, EntriesTrue, FliesTrue, OneByOne, SidesTrue, NEW r, Writes(r)
    PROVE  SideTrue(r)
<1>1. Adds(r)
  <2>1. RowsCarry
    BY DEF QueuesInv
  <2>2. ASSUME NEW p \in Procs, Alive(p), run[p] = "sent", Fits(db, Snap(p)), r = Written(db, Snap(p)) PROVE Adds(r)
    BY <2>2, FlushAdds
  <2>3. ASSUME NEW p \in Procs, todo[p] > 0, Continues(db, Entry), r = Written(db, RestOf(db, Entry)) PROVE Adds(r)
    <3>1. PICK e : e = Entry
      OBVIOUS
    <3>. QED BY <2>1, <2>3, <3>1, ReplayAdds
  <2>. QED BY <2>2, <2>3 DEF Writes, Replaying
<1>2. NotesOnly(r)
  <2>1. PICK p \in Procs, a \in Nat, b \in Nat :
          b <= Gen(p) /\ r.side = db.side \o ChangesIn(p, "note", a, b)
    BY <1>1 DEF Adds
  <2>2. PICK s : s = ChangesIn(p, "note", a, b)
    OBVIOUS
  <2>3. s \in Seq(Made) /\ db.side \in Seq(Made)
    <3>1. MadeTrue /\ b \in 0..Gen(p)
      BY <2>1, LogsThen, MadeIs
    <3>. QED BY <2>2, <3>1, ChangesInAre DEF StoreInv, DiskTypes, Rows
  <2>4. Range(r.side) = Range(db.side) \cup Range(s)
    BY <2>1, <2>2, <2>3, RangesJoin
  <2>5. \A c \in Range(s) : KindOf(c) = "note"
    BY ONLY <2>1, <2>2, KindsIn
  <2>. QED BY <2>4, <2>5 DEF NotesOnly, SidesTrue, SideTrue
<1>3. ASSUME ~left.overlap PROVE SideOnce(r)
  BY <1>1, <1>3, AddsOnce DEF OneByOne, SidesTrue, SideTrue
<1>. QED BY <1>2, <1>3 DEF SideTrue

\* What a row can be after a step, seen from before it.
OldSide(d) == d \in Rows /\ (RowTrue(d) \/ Blank(d)) /\ SideTrue(d)

LEMMA NewRowsSide ==
    ASSUME StoreInv, QueuesInv, EntriesTrue, FliesTrue, OneByOne, SidesTrue, [Next]_vars
    PROVE  OldSide(db') /\ \A i \in DOMAIN limbo' : OldSide(limbo'[i])
<1>1. DbMoves /\ db \in Rows /\ MadeTrue /\ limbo \in Seq(Rows) /\ Len(limbo) \in 0..1
  BY DbMovesAre, LogsThen DEF QueuesInv, StoreInv, DiskTypes
<1>2. OldSide(db) /\ \A i \in DOMAIN limbo : OldSide(limbo[i])
  BY <1>1 DEF StoreInv, WritesTrue, SidesTrue, OldSide
<1>3. ASSUME NEW s \in Seq(Made) PROVE OldSide(Stepped(db, s))
  <2>1. /\ Stepped(db, s).log = db.log /\ Stepped(db, s).flush = db.flush /\ Stepped(db, s).side = db.side
        /\ Stepped(db, s) \in Rows
    BY <1>1, SteppedIs, SteppedWider
  <2>. QED BY <1>2, <2>1 DEF OldSide, RowTrue, Blank, SideTrue, SideOnce, NotesOnly, Counted
<1>4. ASSUME NEW r, Writes(r) PROVE OldSide(r)
  <2>1. r \in Rows /\ RowTrue(r)
    BY <1>4, WritesAre DEF Lands
  <2>2. SideTrue(r)
    BY <1>4, NewSidesAreTrue
  <2>. QED BY <2>1, <2>2 DEF OldSide
<1>5. CASE UNCHANGED <<db, limbo>>
  BY <1>2, <1>5
<1>6. CASE limbo # <<>> /\ limbo' = <<>> /\ db' \in {db, limbo[1]}
  <2>1. 1 \in DOMAIN limbo
    BY <1>1, <1>6
  <2>. QED BY <1>2, <1>6, <2>1
<1>7. CASE limbo = <<>> /\ limbo' = <<>> /\ \E s \in Seq(Made) : db' = Stepped(db, s)
  BY <1>3, <1>7
<1>8. CASE limbo = <<>> /\ limbo' = <<>> /\ Writes(db')
  BY <1>4, <1>8
<1>9. CASE limbo = <<>> /\ db' = db /\ \E r : Writes(r) /\ limbo' = <<r>>
  <2>1. PICK r : Writes(r) /\ limbo' = <<r>>
    BY <1>9
  <2>2. DOMAIN limbo' = {1} /\ limbo'[1] = r
    BY <2>1
  <2>. QED BY <1>2, <1>4, <1>9, <2>1, <2>2
<1>. QED BY <1>1, <1>5, <1>6, <1>7, <1>8, <1>9 DEF DbMoves

\* A process that may write again might do so before, or has made nothing yet.
LEMMA OpenMoves ==
    ASSUME StoreInv, [Next]_vars, NEW q \in Procs, Open(q)'
    PROVE  Open(q) \/ made[q] = <<>>
<1>1. LifeMoves /\ FilesMove /\ files \in Seq(Entries)
  BY LifeMovesAre, FilesMoveAre DEF StoreInv, DiskTypes
<1>2. CASE Alive(q)'
  <2>1. Alive(q) \/ life[q] \in Fresh
    BY <1>1, <1>2 DEF LifeMoves, Alive, Fresh
  <2>. QED BY <2>1 DEF Open, StoreInv, Phase
<1>3. ASSUME NEW i \in DOMAIN files', files'[i].id[1] = q PROVE Open(q)
  <2>1. CASE files' = files
    BY <1>3, <2>1 DEF Open
  <2>2. CASE files' = Tail(files) /\ \E p \in Procs : life[p] = "boot" /\ FileDone(p)
    <3>1. files # <<>>
      <4>1. PICK p \in Procs : FileDone(p)
        BY <2>2
      <4>2. todo[p] > 0
        BY <4>1 DEF FileDone, StoreInv, Phase
      <4>. QED BY <4>2, EntryIs
    <3>2. i + 1 \in DOMAIN files /\ files'[i] = files[i + 1]
      BY <1>1, <1>3, <2>2, <3>1
    <3>. QED BY <1>3, <3>2 DEF Open
  <2>3. ASSUME NEW p \in Procs, Alive(p), files' = Append(files, SpillEntryOf(p)) PROVE Open(q)
    <3>1. PICK o \in Seq(Entries) : o = files
      BY <1>1
    <3>2. PICK m \in Entries : m = SpillEntryOf(p) /\ m.id = <<p, 0>>
      BY SpillIs
    <3>3. PICK n : n = Append(o, m)
      OBVIOUS
    <3>4. Len(n) = Len(o) + 1 /\ n[Len(o) + 1] = m /\ (\A j \in 1..Len(o) : n[j] = o[j]) /\ DOMAIN n = 1..(Len(o) + 1)
      BY <3>3, AppendProperties
    <3>5. DOMAIN o = 1..Len(o) /\ Len(o) \in Nat /\ files' = n
      BY <2>3, <3>1, <3>2, <3>3
    <3>6. (i \in DOMAIN o /\ n[i] = o[i]) \/ n[i] = m
      BY <1>3, <3>4, <3>5
    <3>7. CASE i \in DOMAIN o /\ n[i] = o[i]
      BY <1>3, <3>1, <3>5, <3>7 DEF Open
    <3>8. CASE n[i] = m
      BY <1>3, <2>3, <3>2, <3>5, <3>8 DEF Open
    <3>. QED BY <3>6, <3>7, <3>8
  <2>. QED BY <1>1, <2>1, <2>2, <2>3 DEF FilesMove
<1>. QED BY <1>2, <1>3 DEF Open

LEMMA CountedKept ==
    ASSUME StoreInv, [Next]_vars, NEW d \in Rows, RowTrue(d) \/ Blank(d), NEW c \in Made, Counted(d, c)
    PROVE  Counted(d, c)'
<1>1. PICK p \in Procs : p = c[1] /\ c[2] \in Nat /\ p # 0
  <2>1. c \in Procs \X Nat
    BY LogsThen, MadeIs
  <2>. QED BY <2>1, ProcsNat DEF ProcsAreNat
<1>2. cgen[p] <= cgen'[p] /\ cgen[p] \in Nat /\ cgen'[p] \in Nat
  BY TellsGrow, FlagsKept DEF StoreInv, FlagTypes, Procs
<1>3. CASE c[2] <= cgen[p]
  BY <1>1, <1>2, <1>3 DEF Counted
<1>4. CASE d.flush[1] = p /\ c[2] <= WriterGen(d.flush)
  <2>1. ~Blank(d)
    BY <1>1, <1>4 DEF Blank
  <2>2. Grows
    BY NothingTakenBack
  <2>3. d.flush[2] = 0 => made'[p] = made[p]
    BY <1>4, <2>1, <2>2 DEF RowTrue, Grows
  <2>4. WriterGen(d.flush)' = WriterGen(d.flush)
    BY <1>4, <2>3 DEF WriterGen, Gen
  <2>. QED BY <1>1, <1>4, <2>4 DEF Counted
<1>. QED BY <1>1, <1>3, <1>4 DEF Counted

LEMMA SideKept ==
    ASSUME StoreInv, [Next]_vars, NEW d, OldSide(d)
    PROVE  SideTrue(d)'
<1>1. d \in Rows /\ (RowTrue(d) \/ Blank(d)) /\ SideTrue(d) /\ d.side \in Seq(Made) /\ MadeTrue
  BY LogsThen DEF OldSide, Rows
<1>2. \A c \in Range(d.side) : c \in Made
  BY <1>1 DEF Range
<1>3. \A c \in Range(d.side) : KindOf(c)' = "note"
  BY <1>1, <1>2, KindStays DEF SideTrue, NotesOnly
<1>4. NotesOnly(d)'
  BY <1>3 DEF NotesOnly, Range
<1>5. left'.overlap = left.overlap
  BY LeftKept
<1>6. ASSUME ~left.overlap PROVE SideOnce(d)'
  <2>1. IsInjective(d.side) /\ \A c \in Range(d.side) : Open(c[1]) => Counted(d, c)
    BY <1>1, <1>6 DEF SideTrue, SideOnce
  <2>2. ASSUME NEW c \in Range(d.side), Open(c[1])' PROVE Counted(d, c)'
    <3>1. PICK p \in Procs : \E i \in DOMAIN made[p] : c = <<p, i>>
      BY <1>2 DEF Made, ChangesOf
    <3>2. made[p] # <<>> /\ c[1] = p
      <4>1. DOMAIN <<>> = {}
        OBVIOUS
      <4>. QED BY <3>1, <4>1
    <3>3. Open(p)'
      BY <2>2, <3>2
    <3>4. Open(p)
      BY <3>2, <3>3, OpenMoves
    <3>5. Counted(d, c)
      BY <2>1, <3>2, <3>4
    <3>. QED BY <1>1, <1>2, <3>5, CountedKept
  <2>3. \A c \in Range(d.side) : Open(c[1])' => Counted(d, c)'
    BY <2>2
  <2>. QED BY <2>1, <2>3 DEF SideOnce, Range, IsInjective
<1>. QED BY <1>4, <1>5, <1>6 DEF SideTrue

LEMMA SidesTrueKept ==
    ASSUME StoreInv, QueuesInv, EntriesTrue, FliesTrue, OneByOne, SidesTrue, [Next]_vars
    PROVE  SidesTrue'
<1>1. OldSide(db') /\ \A i \in DOMAIN limbo' : OldSide(limbo'[i])
  BY NewRowsSide
<1>2. PICK d : d = db'
  OBVIOUS
<1>3. PICK l : l = limbo'
  OBVIOUS
<1>4. SideTrue(d)'
  BY <1>1, <1>2, SideKept
<1>5. \A i \in DOMAIN l : SideTrue(l[i])'
  BY <1>1, <1>3, SideKept
<1>. QED BY <1>2, <1>3, <1>4, <1>5 DEF SidesTrue

LogInv == KeptInv /\ Preloads /\ TalkStarts /\ SidesTrue

LEMMA ToldIs ==
    ASSUME StoreInv, NEW c \in told
    PROVE  c \in Made /\ KindOf(c) \in {"talk", "note"} /\ c[1] \in Procs /\ c[2] \in 1..cgen[c[1]] /\ c = <<c[1], c[2]>>
<1>1. c \in Made /\ KindOf(c) # "step" /\ c[2] <= cgen[c[1]]
  BY DEF told, Made
<1>2. c \in Procs \X Nat /\ made[c[1]][c[2]] \in Changes
  BY <1>1, LogsThen, MadeIs
<1>3. PICK p \in Procs : \E i \in DOMAIN made[p] : c = <<p, i>>
  BY <1>1 DEF Made, ChangesOf
<1>4. PICK i \in 1..Gen(p) : c = <<p, i>>
  BY <1>3, LogsThen, MadeIs
<1>5. cgen[p] \in Nat /\ Gen(p) \in Nat
  BY LogsThen, MadeIs DEF StoreInv, FlagTypes
<1>6. KindOf(c) \in {"talk", "note"}
  BY <1>1, <1>2 DEF KindOf, Changes
<1>7. c[1] = p /\ c[2] = i /\ i <= cgen[p]
  BY <1>1, <1>4
<1>8. i \in 1..cgen[p]
  BY <1>5, <1>7
<1>. QED BY <1>1, <1>4, <1>6, <1>7, <1>8

\* Nothing is in the conversation twice, and what a process was told is committed is there.
LEMMA AllOnce ==
    ASSUME LogInv
    PROVE  IsInjective(db.log \o db.side)
<1>1. /\ StoreInv /\ Preloads /\ TalkStarts /\ OneByOne /\ SideTrue(db) /\ db \in Rows /\ (RowTrue(db) \/ Blank(db))
  BY DEF LogInv, KeptInv, SidesTrue, StoreInv, DiskTypes, WritesTrue
<1>2. PICK l : l = db.log
  OBVIOUS
<1>3. PICK s : s = db.side
  OBVIOUS
<1>4. PICK r : r = l \o s
  OBVIOUS
<1>5. l \in Seq(Made) /\ s \in Seq(Made)
  BY <1>1, <1>2, <1>3 DEF Rows
<1>6. IsInjective(l)
  BY <1>1, <1>2, LogOnce
<1>7. IsInjective(s)
  <2>1. CASE left.overlap
    <3>1. DOMAIN s = {}
      <4>1. SUFFICES ASSUME NEW i \in DOMAIN s PROVE FALSE
        OBVIOUS
      <4>2. s[i] \in Range(s) /\ s[i] \in Made
        BY <1>5 DEF Range
      <4>. QED BY <1>1, <1>3, <2>1, <4>2 DEF OneByOne, NoNotes, SideTrue, NotesOnly
    <3>. QED BY <3>1 DEF IsInjective
  <2>2. CASE ~left.overlap
    BY <1>1, <1>3, <2>2 DEF SideTrue, SideOnce
  <2>. QED BY <2>1, <2>2
<1>8. \A i \in DOMAIN l : \A j \in DOMAIN s : l[i] # s[j]
  <2>1. \A c \in Range(l) : KindOf(c) = "talk"
    BY <1>1, <1>2, RowTalks
  <2>2. \A c \in Range(s) : KindOf(c) = "note"
    BY <1>1, <1>3 DEF SideTrue, NotesOnly
  <2>3. SUFFICES ASSUME NEW i \in DOMAIN l, NEW j \in DOMAIN s, l[i] = s[j] PROVE FALSE
    OBVIOUS
  <2>4. l[i] \in Range(l) /\ s[j] \in Range(s)
    BY DEF Range
  <2>5. KindOf(l[i]) = "talk" /\ KindOf(l[i]) = "note"
    BY <2>1, <2>2, <2>3, <2>4
  <2>. QED BY <2>5
<1>9. IsInjective(r)
  BY ONLY <1>4, <1>5, <1>6, <1>7, <1>8, ConcatOnce
<1>. QED BY <1>2, <1>3, <1>4, <1>9

LEMMA AllTold ==
    ASSUME LogInv
    PROVE  told \subseteq Range(db.log) \cup Range(db.side)
<1>. SUFFICES ASSUME NEW c \in told PROVE c \in Range(db.log) \cup Range(db.side)
  OBVIOUS
<1>1. StoreInv /\ StepsTrue /\ RowsCarry
  BY DEF LogInv, KeptInv, QueuesInv
<1>2. KindOf(c) \in {"talk", "note"} /\ c[1] \in Procs /\ c[2] \in 1..cgen[c[1]] /\ c = <<c[1], c[2]>>
  BY <1>1, ToldIs
<1>3. Recorded(<<c[1], c[2]>>)
  BY <1>1, <1>2, ToldRecorded
<1>4. Recorded(c)
  BY <1>2, <1>3
<1>. QED BY <1>2, <1>4 DEF Recorded

LEMMA AllToldGrows ==
    ASSUME StoreInv, [Next]_vars
    PROVE  told \subseteq told'
<1>. SUFFICES ASSUME NEW c \in told PROVE c \in told'
  OBVIOUS
<1>1. PICK p \in Procs : p = c[1] /\ c \in Made /\ KindOf(c) \in {"talk", "note"} /\ c[2] \in 1..cgen[p]
  BY ToldIs
<1>2. KindOf(c)' = KindOf(c) /\ Made \subseteq Made' /\ cgen[p] <= cgen'[p]
  BY <1>1, KindStays, MadeGrows, TellsGrow
<1>3. cgen[p] \in Nat /\ cgen'[p] \in Nat
  BY FlagsKept DEF StoreInv, FlagTypes, Procs
<1>4. c[2] <= cgen'[c[1]]
  BY <1>1, <1>2, <1>3
<1>5. c \in Made' /\ KindOf(c)' # "step"
  BY <1>1, <1>2
<1>. QED BY <1>4, <1>5 DEF told, Made

LEMMA LogStep ==
    ASSUME LogInv, [Next]_vars
    PROVE  LogInv'
<1>1. StoreInv /\ QueuesInv /\ EntriesTrue /\ FliesTrue /\ OneByOne /\ KeptInv /\ Preloads /\ TalkStarts /\ SidesTrue
  BY DEF LogInv, KeptInv
<1>2. KeptInv' /\ Preloads' /\ TalkStarts' /\ SidesTrue'
  BY <1>1, KeptStep, PreloadsKept, TalkStartsKept, SidesTrueKept
<1>. QED BY <1>2 DEF LogInv

LEMMA LogInvInit == ASSUME NotesRunAlone, Init PROVE LogInv
<1>0. DOMAIN <<>> = {} /\ Range(<<>>) = {}
  BY DEF Range
<1>1. Preloads /\ TalkStarts
  BY <1>0 DEF Init, Preloads, TalkStarts, IsInjective
<1>2. SidesTrue
  <2>1. db.side = <<>> /\ limbo = <<>>
    BY DEF Init
  <2>. QED BY <1>0, <2>1 DEF SidesTrue, SideTrue, NotesOnly, SideOnce, IsInjective
<1>3. KeptInv
  BY KeptInit
<1>. QED BY <1>1, <1>2, <1>3 DEF LogInv

\* The conversation with its side rows implements the abstract log: messages and audits, jobs and
\* consents are only appended to, none is written twice, and what a process was told is committed
\* stays (store/pg-backend.ts doFlush, replaySpillChannel).
THEOREM ConversationIsOneLog == NotesRunAlone => (Spec => LogSpec)
<1>. SUFFICES ASSUME NotesRunAlone PROVE Spec => LogSpec
  OBVIOUS
<1>1. Init => LogInv /\ Log!Init
  <2>. SUFFICES ASSUME Init PROVE LogInv /\ Log!Init
    OBVIOUS
  <2>1. told = {}
    BY DEF Init, told, ChangesOf, Range
  <2>. QED BY <2>1, LogInvInit DEF Init, Log!Init
<1>2. LogInv /\ [Next]_vars => LogInv' /\ [Log!Next]_<<db.log, db.side, told>>
  <2>. SUFFICES ASSUME LogInv, [Next]_vars PROVE LogInv' /\ Log!Next
    OBVIOUS
  <2>1. LogInv'
    BY LogStep
  <2>2. StoreInv /\ RowsCarry /\ \A p \in Procs : Idle(p)
    BY DEF LogInv, KeptInv, QueuesInv
  <2>3. IsPrefix(db.log, db'.log) /\ IsPrefix(db.side, db'.side)
    BY <2>2, RowsStayTrue, DbWidens DEF Wider
  <2>4. IsInjective(db.log \o db.side)' /\ (told \subseteq Range(db.log) \cup Range(db.side))'
    BY <2>1, AllOnce, AllTold, PTL
  <2>5. told \subseteq told'
    BY <2>2, AllToldGrows
  <2>6. /\ \A s, t : Log!IsPrefix(s, t) <=> IsPrefix(s, t)
        /\ \A s : Log!IsInjective(s) <=> IsInjective(s)
        /\ \A s : Log!Range(s) = Range(s)
    BY DEF Log!IsPrefix, IsPrefix, Log!IsInjective, IsInjective, Log!Range, Range
  <2>7. PICK l : l = db'.log
    OBVIOUS
  <2>8. PICK s : s = db'.side
    OBVIOUS
  <2>9. IsInjective(l \o s) /\ told' \subseteq Range(l) \cup Range(s)
    BY <2>4, <2>7, <2>8 DEF IsInjective, Range
  <2>10. Log!IsInjective(l \o s) /\ told' \subseteq Log!Rows(l, s)
    BY <2>6, <2>9 DEF Log!Rows
  <2>11. Log!IsPrefix(db.log, db'.log) /\ Log!IsPrefix(db.side, db'.side)
    BY <2>3, <2>6
  <2>. QED BY <2>1, <2>5, <2>7, <2>8, <2>10, <2>11 DEF Log!Next
<1>. QED BY <1>1, <1>2, PTL DEF Spec, LogSpec, Log!Spec
-----------------------------------------------------------------------------
(* What a process that stopped in order left behind is known to the next one *)

\* Of the bounds: processes run one after the other, and the COMMIT of a replay is answered.
Calm == ~left.overlap /\ left.faults["replay"] = 0

\* Every message of q is in a log or in a file of S.
Knows(q, changes, log, S) ==
    \A i \in 1..Len(changes) : changes[i].kind = "talk" =>
        <<q, i>> \in Range(log) \/ \E e \in S : <<q, i>> \in Range(e.msgs)

StampsFlush == \A i \in DOMAIN limbo : limbo[i].flush[2] # 0
DeleteQuiet == \A p \in Procs : at[p] # "read" => limbo = <<>>
\* A process that starts, and has not written a message out of a file, knows what the last file's
\* process knew; before it deletes a file, that is the file's process.
StartHolds ==
    \A p \in Procs : life[p] = "boot" /\ ~reload[p] /\ db.flush[2] = 0 => db.log = start[p].log
DeleteStamped == \A p \in Procs : at[p] = "delete" /\ ~reload[p] => db.flush = Entry.id
\* It knows what the ones before it were told, and what they left behind, but for a file to come.
ToldKnown ==
    \A p \in Procs : life[p] # "off" => \A q \in 1..(p - 1) : IsPrefix(Reach(q, cgen[q]), start[p].log)
Waiting(q) == \E e \in Range(files) : e.id[1] = q
BootKnows ==
    \A p \in Procs : life[p] = "boot" /\ ~reload[p] => \A q \in 1..(p - 1) :
        life[q] = "exited" => Waiting(q) \/ Knows(q, made[q], start[p].log, Range(aside))
Remembers ==
    \A p \in Procs : Alive(p) => \A q \in 1..(p - 1) :
        life[q] = "exited" => Knows(q, made[q], start[p].log, Range(aside))
BootsTrue == StampsFlush /\ DeleteQuiet /\ StartHolds /\ DeleteStamped /\ ToldKnown
RememberInv == LogInv /\ Calm /\ BootsTrue /\ BootKnows /\ Remembers

\* While a process starts no other one does anything.
BootMoves(p) ==
    \/ /\ UNCHANGED <<files, aside, at>> /\ start'[p] = start[p] /\ reload'[p] = reload[p]
       /\ (db' = db /\ limbo' = limbo) \/ (limbo # <<>> /\ limbo' = <<>> /\ db' \in {db, limbo[1]})
    \/ ReplayApplies(p) \/ ReplaySkips(p) \/ ReplayRejected(p) \/ FileDone(p)

LEMMA BootMovesAre ==
    ASSUME StoreInv, Alone, ~left.overlap, [Next]_vars, NEW p \in Procs, life[p] = "boot", life'[p] = "boot"
    PROVE  BootMoves(p)
<1>1. \A q \in Procs : Running(q) => q = p
  <2>1. Running(p)
    BY DEF Running, Over
  <2>. QED BY <2>1, OneRunning
<1>2. \A q \in Procs : ~Alive(q) /\ (life[q] = "boot" => q = p)
  <2>1. \A q \in Procs : Alive(q) \/ life[q] = "boot" => Running(q)
    BY DEF Alive, Running, Over
  <2>. QED BY <1>1, <2>1 DEF Alive
<1>3. life \in [Procs -> {"off", "boot", "up", "closed"} \cup Over] /\ (\A q \in Procs : run[q] # "idle" => fly[q] # 0)
  BY DEF StoreInv, FlagTypes, Phase
<1>4. ASSUME NEW q \in Procs
      PROVE  /\ ~(\E kind \in left.kinds : Change(q, kind)) /\ ~Poison(q) /\ ~Kick(q) /\ ~Flush(q) /\ ~FlushFails(q)
             /\ ~Retry(q) /\ ~Channel(q) /\ ~OnLockLost(q) /\ ~ReacquireOnce(q) /\ ~Close(q) /\ ~Exit(q)
  <2>1. ~Alive(q) /\ life[q] # "up" /\ ~MayWrite(q) /\ ~Attempted(q)
    BY <1>2 DEF Alive, MayWrite, Attempted
  <2>. QED BY <2>1 DEF Change, Poison, Kick, Flush, FlushCommits, FlushKnown, FlushConflicts, FlushFails, FlushCut,
              FlushRejected, Retry, Channel, PumpPoisoned, PoisonedWritten, PoisonedCut, OnLockLost, ReacquireOnce,
              Close, Exit
<1>5. ASSUME NEW q \in Procs
      PROVE  ~Boot(q) /\ ~Crash(q) /\ ~ReplayConflicts(q) /\ ~ReplayCut(q) /\ ~Install(q)
  <2>1. ASSUME Boot(q) PROVE FALSE
    <3>1. life[q] = "off" /\ \A r \in 1..(q - 1) : life[r] \in Over
      BY <2>1 DEF Boot
    <3>2. p \in Nat /\ q \in Nat /\ p # q /\ p >= 1 /\ q >= 1
      BY <3>1, ProcsNat DEF ProcsAreNat
    <3>3. CASE p < q
      <4>1. p \in 1..(q - 1)
        BY <3>2, <3>3
      <4>. QED BY <3>1, <4>1 DEF Over
    <3>4. CASE q < p
      <4>1. q \in 1..(p - 1)
        BY <3>2, <3>4
      <4>2. life[q] \in Over
        BY <4>1 DEF Alone
      <4>. QED BY <3>1, <4>2 DEF Over
    <3>. QED BY <3>2, <3>3, <3>4
  <2>2. Crash(q) \/ ReplayConflicts(q) \/ ReplayCut(q) \/ Install(q) => life[q] = "boot" /\ life'[q] # "boot"
    BY <1>2, <1>3 DEF Crash, Leave, ReplayConflicts, ReplayCut, Refuse, Replaying, Install
  <2>. QED BY <1>2, <2>1, <2>2
<1>6. ASSUME NEW q \in Procs, ReplayApplies(q) \/ ReplaySkips(q) \/ ReplayRejected(q) \/ FileDone(q) PROVE q = p
  <2>1. life[q] = "boot"
    BY <1>6 DEF ReplayApplies, ReplaySkips, ReplayRejected, FileDone, Replaying
  <2>. QED BY <1>2, <2>1
<1>7. LimboEnds \/ UNCHANGED vars => BootMoves(p)
  BY DEF LimboEnds, vars, diskVars, bootVars, BootMoves
<1>8. ASSUME NEW q \in Procs, ReplayApplies(q) \/ ReplaySkips(q) \/ ReplayRejected(q) \/ FileDone(q) PROVE BootMoves(p)
  BY <1>6, <1>8 DEF BootMoves
<1>. QED BY <1>4, <1>5, <1>7, <1>8 DEF Next, Replay, ReplayFails

\* A fault of which none is left stays away.
LEMMA FaultSpent ==
    ASSUME StoreInv, [Next]_vars, NEW f \in FaultKinds, left.faults[f] = 0
    PROVE  left'.faults[f] = 0 /\ ~Spend(f)
<1>1. left.faults \in [FaultKinds -> Nat] /\ left \in Budgets
  BY DEF StoreInv, FlagTypes, Budgets
<1>2. ~Spend(f)
  BY DEF Spend
<1>3. ASSUME NEW g \in FaultKinds, Spend(g), g # f PROVE left'.faults[f] = 0
  BY <1>1, <1>3 DEF Spend, Budgets
<1>. QED BY <1>2, <1>3, BudgetMoves

LEMMA CalmKept == ASSUME StoreInv, Calm, [Next]_vars PROVE Calm'
<1>1. "replay" \in FaultKinds
  BY DEF FaultKinds
<1>. QED BY <1>1, FaultSpent, LeftKept DEF Calm

\* A COMMIT that is not answered is one of a flush, or one of a replay.
LimboMoves ==
    \/ limbo' = limbo \/ limbo' = <<>>
    \/ \E p \in Procs : /\ Alive(p) /\ run[p] = "sent" /\ limbo = <<>> /\ Fits(db, Snap(p)) /\ at' = at
                        /\ limbo' = <<Written(db, Snap(p))>> /\ (FlushCut(p) \/ Exit(p) \/ Crash(p))
    \/ \E p \in Procs : ReplayCut(p)

LEMMA LimboMovesAre == ASSUME StoreInv, \A p \in Procs : Idle(p), [Next]_vars PROVE LimboMoves
<1>1. ASSUME NEW p \in Procs
      PROVE  (\E kind \in left.kinds : Change(p, kind)) \/ Poison(p) \/ Kick(p) \/ Flush(p) \/ FlushRejected(p)
               => limbo' = limbo
  BY DEF Change, Poison, Kick, Flush, FlushCommits, FlushKnown, FlushConflicts, AfterCommit, FlushRejected
<1>2. ASSUME NEW p \in Procs
      PROVE  Retry(p) \/ Channel(p) \/ OnLockLost(p) \/ ReacquireOnce(p) \/ Close(p) => limbo' = limbo
  BY DEF Retry, Channel, PumpPoisoned, PoisonedWritten, PoisonedCut, OnLockLost, ReacquireOnce, Close
<1>3. ASSUME NEW p \in Procs
      PROVE  Boot(p) \/ Replay(p) \/ ReplayRejected(p) \/ FileDone(p) \/ Install(p) => limbo' = limbo
  BY DEF Boot, Replay, ReplayApplies, ReplaySkips, ReplayedTo, ReplayConflicts, ReplayRejected, FileDone, Install
<1>4. LimboEnds \/ UNCHANGED vars => limbo' = limbo \/ limbo' = <<>>
  BY DEF LimboEnds, vars
<1>5. ASSUME NEW p \in Procs, FlushCut(p)
      PROVE  Alive(p) /\ run[p] = "sent" /\ limbo = <<>> /\ Fits(db, Snap(p)) /\ at' = at /\ limbo' = <<Written(db, Snap(p))>>
  BY <1>5 DEF FlushCut, Attempted, bootVars
<1>6. ASSUME NEW p \in Procs, Exit(p) \/ Crash(p), limbo' # limbo
      PROVE  Alive(p) /\ run[p] = "sent" /\ limbo = <<>> /\ Fits(db, Snap(p)) /\ at' = at /\ limbo' = <<Written(db, Snap(p))>>
  <2>1. limbo' = IF run[p] = "sent" /\ limbo = <<>> /\ Fits(db, Snap(p)) THEN <<Written(db, Snap(p))>> ELSE limbo
    BY <1>6 DEF Exit, Crash, Leave
  <2>2. run[p] = "sent" /\ limbo = <<>> /\ Fits(db, Snap(p)) /\ limbo' = <<Written(db, Snap(p))>>
    BY <1>6, <2>1
  <2>3. Alive(p)
    BY <2>2 DEF Idle
  <2>4. at \in [Procs -> {"read", "delete", "aside"}] /\ at[p] = "read"
    BY <2>3 DEF StoreInv, FlagTypes, Phase, Alive
  <2>5. at' = at
    BY <1>6, <2>4 DEF Exit, Crash
  <2>. QED BY <2>2, <2>3, <2>5
<1>7. ASSUME NEW p \in Procs, FlushCut(p) \/ Exit(p) \/ Crash(p) PROVE LimboMoves
  BY <1>5, <1>6, <1>7 DEF LimboMoves
<1>8. ASSUME NEW p \in Procs, ReplayCut(p) PROVE LimboMoves
  BY <1>8 DEF LimboMoves
<1>. QED BY <1>1, <1>2, <1>3, <1>4, <1>7, <1>8 DEF Next, FlushFails, ReplayFails, LimboMoves

LEMMA CalmLimbo ==
    ASSUME StoreInv, Calm, [Next]_vars, NEW p \in Procs
    PROVE  ~ReplayCut(p)
<1>1. "replay" \in FaultKinds
  BY DEF FaultKinds
<1>. QED BY <1>1, FaultSpent DEF Calm, ReplayCut

LEMMA StampsKept ==
    ASSUME StoreInv, \A p \in Procs : Idle(p), Calm, StampsFlush, [Next]_vars
    PROVE  StampsFlush'
<1>1. LimboMoves /\ \A p \in Procs : ~ReplayCut(p)
  BY LimboMovesAre, CalmLimbo
<1>2. CASE limbo' = limbo \/ limbo' = <<>>
  <2>1. DOMAIN <<>> = {}
    OBVIOUS
  <2>. QED BY <1>2, <2>1 DEF StampsFlush
<1>3. ASSUME NEW p \in Procs, run[p] = "sent", limbo' = <<Written(db, Snap(p))>> PROVE StampsFlush'
  <2>1. fly[p] # 0
    BY <1>3 DEF StoreInv, Phase
  <2>2. Written(db, Snap(p)).flush = Snap(p).id /\ Snap(p).id = <<p, fly[p]>>
    BY DEF Written, Snap
  <2>3. PICK r : r = Written(db, Snap(p)) /\ r.flush[2] # 0
    BY <2>1, <2>2
  <2>4. DOMAIN <<r>> = {1} /\ <<r>>[1] = r
    OBVIOUS
  <2>. QED BY <1>3, <2>3, <2>4 DEF StampsFlush
<1>. QED BY <1>1, <1>2, <1>3 DEF LimboMoves

LEMMA DeleteQuietKept ==
    ASSUME StoreInv, \A p \in Procs : Idle(p), Alone, Calm, DeleteQuiet, [Next]_vars
    PROVE  DeleteQuiet'
<1>1. SUFFICES ASSUME NEW q \in Procs, at'[q] # "read" PROVE limbo' = <<>>
  BY DEF DeleteQuiet
<1>2. LimboMoves /\ LifeMoves /\ \A p \in Procs : ~ReplayCut(p)
  BY LimboMovesAre, LifeMovesAre, CalmLimbo
<1>3. life'[q] = "boot" /\ todo'[q] > 0
  <2>1. StoreInv'
    BY StepBasics
  <2>. QED BY <1>1, <2>1 DEF StoreInv, Phase
<1>4. ASSUME NEW p \in Procs, Alive(p), at' = at PROVE FALSE
  <2>1. at[q] # "read"
    BY <1>1, <1>4
  <2>2. life[q] = "boot" /\ Running(q) /\ Running(p)
    BY <1>4, <2>1 DEF StoreInv, Phase, Running, Alive, Over
  <2>3. p = q
    BY <2>2, OneRunning
  <2>. QED BY <1>4, <2>2, <2>3 DEF Alive
<1>5. limbo' = limbo \/ limbo' = <<>>
  BY <1>2, <1>4 DEF LimboMoves
<1>6. limbo = <<>>
  <2>1. CASE life[q] = "boot"
    <3>1. BootMoves(q)
      BY <1>3, <2>1, BootMovesAre DEF Calm
    <3>2. FileDone(q) => at'[q] = "read"
      BY DEF FileDone, StoreInv, FlagTypes
    <3>3. ReplayApplies(q) \/ ReplaySkips(q) \/ ReplayRejected(q) => limbo = <<>>
      BY DEF ReplayApplies, ReplaySkips, ReplayRejected, Replaying
    <3>. QED BY <1>1, <3>1, <3>2, <3>3 DEF BootMoves, DeleteQuiet
  <2>2. CASE life[q] # "boot"
    <3>1. Boot(q)
      BY <1>2, <1>3, <2>2 DEF LifeMoves
    <3>2. at'[q] = at[q]
      BY <3>1 DEF Boot
    <3>. QED BY <1>1, <3>2 DEF DeleteQuiet
  <2>. QED BY <2>1, <2>2
<1>. QED BY <1>5, <1>6

\* The row while a process starts, and the log it goes by.
LEMMA BootRow ==
    ASSUME StoreInv, Alone, ~left.overlap, [Next]_vars, NEW p \in Procs, life[p] = "boot", life'[p] = "boot", ~reload'[p]
    PROVE  /\ ~reload[p] /\ start'[p] = start[p]
           /\ (db'.log = db.log /\ db'.flush = db.flush) \/ (limbo # <<>> /\ db' = limbo[1])
<1>1. BootMoves(p)
  BY BootMovesAre
<1>2. reload \in [Procs -> BOOLEAN] /\ MadeTrue /\ db \in Rows
  BY DEF StoreInv, FlagTypes, DiskTypes
<1>3. ~ReplayApplies(p)
  BY <1>2 DEF ReplayApplies, ReplayedTo
<1>4. ASSUME ReplaySkips(p) \/ ReplayRejected(p)
      PROVE  ~reload[p] /\ start'[p] = start[p] /\ db'.log = db.log /\ db'.flush = db.flush
  <2>1. todo[p] > 0
    BY <1>4 DEF ReplaySkips, ReplayRejected, Replaying
  <2>2. PICK s \in Seq(Made) : s = RestOf(db, Entry).steps
    BY <2>1, EntryIs
  <2>3. start' = start /\ (reload'[p] = reload[p] \/ reload'[p]) /\ (db' = db \/ db' = Stepped(db, s))
    BY <1>2, <1>4, <2>2 DEF ReplaySkips, ReplayRejected, ReplayedTo
  <2>4. Stepped(db, s).log = db.log /\ Stepped(db, s).flush = db.flush
    BY <1>2, <2>2, SteppedIs
  <2>. QED BY <2>3, <2>4
<1>5. FileDone(p) => db' = db /\ start' = start /\ reload' = reload
  BY DEF FileDone
<1>. QED BY <1>1, <1>3, <1>4, <1>5 DEF BootMoves

LEMMA StartHoldsKept ==
    ASSUME StoreInv, Alone, Calm, StampsFlush, StartHolds, [Next]_vars
    PROVE  StartHolds'
<1>1. SUFFICES ASSUME NEW p \in Procs, life'[p] = "boot", ~reload'[p], db'.flush[2] = 0 PROVE db'.log = start'[p].log
  BY DEF StartHolds
<1>2. CASE life[p] = "boot"
  <2>1. /\ ~reload[p] /\ start'[p] = start[p]
        /\ (db'.log = db.log /\ db'.flush = db.flush) \/ (limbo # <<>> /\ db' = limbo[1])
    BY <1>1, <1>2, BootRow DEF Calm
  <2>2. limbo # <<>> => limbo[1].flush[2] # 0
    <3>1. PICK o \in Seq(Rows) : o = limbo
      BY DEF StoreInv, DiskTypes
    <3>2. o # <<>> => 1 \in DOMAIN o
      OBVIOUS
    <3>. QED BY <3>1, <3>2 DEF StampsFlush
  <2>. QED BY <1>1, <1>2, <2>1, <2>2 DEF StartHolds
<1>3. CASE life[p] # "boot"
  <2>1. Boot(p)
    <3>1. LifeMoves
      BY LifeMovesAre
    <3>. QED BY <1>1, <1>3, <3>1 DEF LifeMoves
  <2>2. db' = db /\ start'[p] = Preloaded
    BY <2>1 DEF Boot, StoreInv, DiskTypes
  <2>. QED BY <2>2 DEF Preloaded
<1>. QED BY <1>2, <1>3

LEMMA DeleteStampedKept ==
    ASSUME StoreInv, EntriesTrue, FliesTrue, Alone, Calm, DeleteQuiet, DeleteStamped, [Next]_vars
    PROVE  DeleteStamped'
<1>1. SUFFICES ASSUME NEW p \in Procs, at'[p] = "delete", ~reload'[p] PROVE db'.flush = Entry'.id
  BY DEF DeleteStamped
<1>2. life'[p] = "boot"
  <2>1. StoreInv'
    BY StepBasics
  <2>. QED BY <1>1, <2>1 DEF StoreInv, Phase
<1>3. AtMoves
  BY AtMovesAre
<1>4. CASE at[p] = "delete" /\ ~FileDone(p) /\ life[p] = "boot" /\ todo[p] > 0
  <2>1. BootMoves(p) /\ limbo = <<>>
    BY <1>2, <1>4, BootMovesAre DEF Calm, DeleteQuiet
  <2>2. ~reload[p] /\ db'.flush = db.flush
    BY <1>1, <1>2, <1>4, <2>1, BootRow DEF Calm
  <2>3. files' = files
    <3>1. ~ReplayApplies(p) /\ ~ReplaySkips(p) /\ ~ReplayRejected(p)
      BY <1>4 DEF ReplayApplies, ReplaySkips, ReplayRejected, Replaying
    <3>. QED BY <1>4, <2>1, <3>1 DEF BootMoves
  <2>. QED BY <1>4, <2>2, <2>3 DEF DeleteStamped, Entry
<1>5. CASE ReplayApplies(p)
  BY <1>1, <1>5 DEF ReplayApplies, ReplayedTo, StoreInv, FlagTypes
<1>6. CASE ReplaySkips(p)
  <2>1. todo[p] > 0 /\ files' = files
    BY <1>6 DEF ReplaySkips, ReplayedTo, Replaying, diskVars
  <2>2. PICK e \in Filed : e = Entry /\ 1 \in DOMAIN files
    BY <2>1, EntryFiled
  <2>3. ~Same(db, Entry)
    BY <2>2, AloneSame
  <2>4. db' = db /\ Replayed(db, Entry)
    BY <1>6, <2>3 DEF ReplaySkips, ReplayedTo
  <2>. QED BY <2>1, <2>4 DEF Replayed, Entry
<1>. QED BY <1>1, <1>3, <1>4, <1>5, <1>6 DEF AtMoves

LEMMA ToldKnownKept ==
    ASSUME StoreInv, Alone, Calm, ToldKnown, [Next]_vars
    PROVE  ToldKnown'
<1>1. MadeTrue /\ Logs /\ MadeTrue' /\ Grows /\ LifeMoves
  BY StepBasics, LifeMovesAre
<1>2. SUFFICES ASSUME NEW p \in Procs, life'[p] # "off", NEW q \in 1..(p - 1)
               PROVE  IsPrefix(Reach(q, cgen[q])', start'[p].log)
  BY DEF ToldKnown
<1>3. q \in Procs
  <2>1. p \in Nat /\ p <= MaxBoots /\ MaxBoots \in Nat
    BY StoreAssumption DEF Procs
  <2>. QED BY <2>1 DEF Procs
<1>4. life[p] = "off" => Boot(p)
  BY <1>1, <1>2 DEF LifeMoves, Alive
<1>5. life[q] \in Over
  <2>1. CASE life[p] = "off"
    BY <1>4, <2>1 DEF Boot, Calm
  <2>2. CASE life[p] # "off"
    BY <2>2 DEF Alone
  <2>. QED BY <2>1, <2>2
<1>6. Reach(q, cgen[q])' = Reach(q, cgen[q])
  <2>1. cgen'[q] = cgen[q] /\ life[q] \notin Fresh
    BY <1>1, <1>3, <1>5 DEF Grows, Over, Fresh
  <2>2. PICK g \in 0..Gen(q) : g = cgen[q]
    BY <1>1, <1>3, MadeIs DEF StoreInv, FlagTypes, Phase
  <2>3. Reach(q, g)' = Reach(q, g)
    BY <1>1, <1>3, <2>1, ReachKept
  <2>. QED BY <2>1, <2>2, <2>3 DEF Reach
<1>7. CASE start'[p] = start[p] /\ life[p] # "off"
  BY <1>6, <1>7 DEF ToldKnown
<1>8. CASE start'[p] = Preloaded
  <2>1. IsPrefix(Reach(q, cgen[q]), db.log)
    BY <1>3 DEF StoreInv, WritesTrue, Behind
  <2>. QED BY <1>6, <1>8, <2>1 DEF Preloaded
<1>9. Boot(p) => start'[p] = Preloaded
  BY DEF Boot, StoreInv, DiskTypes
<1>10. start'[p] = start[p] \/ start'[p] = Preloaded
  BY StartMoves
<1>. QED BY <1>4, <1>7, <1>8, <1>9, <1>10

LEMMA Earlier ==
    ASSUME NEW p \in Procs, NEW q \in 1..(p - 1)
    PROVE  q \in Procs /\ q # p /\ p \notin 1..(q - 1)
<1>1. p \in Nat /\ p <= MaxBoots /\ MaxBoots \in Nat
  BY StoreAssumption DEF Procs
<1>. QED BY <1>1 DEF Procs

LEMMA TalkIn ==
    ASSUME StoreInv, NEW q \in Procs, NEW g \in 0..Gen(q), NEW log \in Seq(Made), IsPrefix(Reach(q, g), log),
           NEW i \in 1..g, made[q][i].kind = "talk"
    PROVE  <<q, i>> \in Range(log)
<1>1. MadeTrue /\ Logs /\ Gen(q) \in Nat
  BY LogsThen, MadeIs
<1>2. PICK s : s = ChangesIn(q, "talk", 0, g)
  OBVIOUS
<1>3. PICK z \in Nat : z = 0
  OBVIOUS
<1>4. g \in Nat /\ i \in (z + 1)..g /\ s = ChangesIn(q, "talk", z, g)
  BY <1>1, <1>2, <1>3
<1>5. <<q, i>> \in Range(s)
  BY ONLY <1>3, <1>4, made[q][i].kind = "talk", Held
<1>6. start[q].log \in Seq(Made) /\ s \in Seq(Made)
  <2>1. ChangesIn(q, "talk", z, g) \in Seq(Made)
    BY <1>1, <1>3, ChangesInAre
  <2>. QED BY <1>1, <1>4, <2>1 DEF Logs
<1>7. PICK r : r = start[q].log \o s
  OBVIOUS
<1>8. r = Reach(q, g) /\ r \in Seq(Made) /\ <<q, i>> \in Range(r)
  <2>1. r \in Seq(Made)
    BY ONLY <1>6, <1>7, ConcatAt
  <2>2. <<q, i>> \in Range(r)
    <3>1. PICK c : c = <<q, i>>
      OBVIOUS
    <3>2. PICK t \in Seq(Made) : t = start[q].log
      BY ONLY <1>6
    <3>3. c \in Range(t \o s)
      BY ONLY <1>5, <1>6, <3>1, RangesJoin
    <3>. QED BY ONLY <1>7, <3>1, <3>2, <3>3
  <2>. QED BY <1>2, <1>7, <2>1, <2>2 DEF Reach
<1>. QED BY <1>8, RangeOfPrefix

LEMMA LogKnows ==
    ASSUME StoreInv, NEW q \in Procs, NEW log \in Seq(Made), IsPrefix(Reach(q, Gen(q)), log), NEW S
    PROVE  Knows(q, made[q], log, S)
<1>1. Gen(q) \in Nat
  BY LogsThen, MadeIs
<1>2. PICK g \in 0..Gen(q) : g = Gen(q)
  BY <1>1
<1>. QED BY <1>2, TalkIn DEF Knows, Gen

LEMMA AsideKnows ==
    ASSUME StoreInv, NEW e \in Entries, EntryTrue(e), NEW S, e \in S, NEW q \in Procs, q = e.id[1],
           NEW log \in Seq(Made), IsPrefix(Reach(q, cgen[q]), log)
    PROVE  Knows(q, made[q], log, S)
<1>1. PICK c \in 0..Gen(q) : c = cgen[q]
  BY LogsThen, MadeIs DEF StoreInv, FlagTypes, Phase
<1>2. PICK n \in Nat : n = Gen(q) /\ n = Len(made[q]) /\ c \in Nat
  BY LogsThen, MadeIs DEF Gen
<1>3. e.msgs = ChangesIn(q, "talk", c, n)
  BY <1>1, <1>2 DEF EntryTrue
<1>4. SUFFICES ASSUME NEW i \in 1..n, made[q][i].kind = "talk"
               PROVE  <<q, i>> \in Range(log) \/ <<q, i>> \in Range(e.msgs)
  BY <1>2 DEF Knows
<1>5. CASE i <= c
  BY <1>1, <1>4, <1>5, TalkIn
<1>6. CASE ~(i <= c)
  <2>1. i \in (c + 1)..n
    BY <1>2, <1>6
  <2>2. <<q, i>> \in Range(e.msgs)
    BY ONLY <1>2, <1>3, <1>4, <2>1, c \in Nat, Held
  <2>. QED BY <2>2
<1>. QED BY <1>5, <1>6

LEMMA DbKnows ==
    ASSUME LogInv, NEW q \in Procs, life[q] = "exited"
    PROVE  Waiting(q) \/ Knows(q, made[q], db.log, Range(aside))
<1>1. StoreInv /\ EntriesTrue /\ EndsTrue /\ NotesOnly(db) /\ MadeTrue /\ db.log \in Seq(Made)
  BY LogsThen DEF LogInv, KeptInv, SidesTrue, SideTrue, StoreInv, DiskTypes, Rows
<1>2. CASE Landed(db, q)
  <2>1. SUFFICES ASSUME NEW i \in 1..Len(made[q]), made[q][i].kind = "talk" PROVE <<q, i>> \in Range(db.log)
    BY DEF Knows
  <2>2. PICK c : c = <<q, i>>
    OBVIOUS
  <2>3. c[1] = q /\ c[2] = i
    BY <2>2
  <2>4. c \in ChangesOf(q) /\ KindOf(c) = "talk"
    <3>1. DOMAIN made[q] = 1..Len(made[q])
      BY <1>1 DEF MadeTrue
    <3>. QED BY <2>1, <2>2, <2>3, <3>1 DEF ChangesOf, KindOf
  <2>5. RecordedIn(db, c)
    BY <1>2, <2>4 DEF Landed
  <2>6. c \notin Range(db.side)
    BY <1>1, <2>4 DEF NotesOnly
  <2>. QED BY <2>2, <2>4, <2>5, <2>6 DEF RecordedIn
<1>3. ASSUME NEW e \in Filed, e.id[1] = q PROVE Waiting(q) \/ Knows(q, made[q], db.log, Range(aside))
  <2>1. e \in Entries /\ EntryTrue(e)
    BY <1>1 DEF EntriesTrue
  <2>2. IsPrefix(Reach(q, cgen[q]), db.log)
    BY <1>1 DEF StoreInv, WritesTrue, Behind
  <2>3. CASE e \in Range(files)
    BY <1>3, <2>3 DEF Waiting
  <2>4. CASE e \in Range(aside)
    BY <1>1, <1>3, <2>1, <2>2, <2>4, AsideKnows
  <2>. QED BY <2>3, <2>4 DEF Filed
<1>. QED BY <1>1, <1>2, <1>3 DEF EndsTrue

LEMMA AsideGrows ==
    ASSUME StoreInv, [Next]_vars
    PROVE  Range(aside) \subseteq Range(aside')
<1>1. ASSUME NEW p \in Procs
      PROVE  (\E kind \in left.kinds : Change(p, kind)) \/ Poison(p) \/ Kick(p) \/ Flush(p) \/ FlushFails(p)
               => aside' = aside
  BY DEF Change, Poison, Kick, Flush, FlushCommits, FlushKnown, FlushConflicts, AfterCommit, FlushFails, FlushCut, FlushRejected,
         diskVars
<1>2. ASSUME NEW p \in Procs
      PROVE  Retry(p) \/ Channel(p) \/ OnLockLost(p) \/ ReacquireOnce(p) \/ Close(p) \/ Exit(p) \/ Crash(p) => aside' = aside
  BY DEF Retry, Channel, PumpPoisoned, PoisonedWritten, PoisonedCut, OnLockLost, ReacquireOnce, Close, Exit, Crash, Leave,
         diskVars
<1>3. ASSUME NEW p \in Procs
      PROVE  Boot(p) \/ Replay(p) \/ ReplayFails(p) \/ Install(p) => aside' = aside
  BY DEF Boot, Replay, ReplayApplies, ReplaySkips, ReplayedTo, ReplayConflicts, ReplayFails, ReplayCut, ReplayRejected, Refuse,
         Install, diskVars
<1>4. LimboEnds \/ UNCHANGED vars => aside' = aside
  BY DEF LimboEnds, vars, diskVars
<1>5. ASSUME NEW p \in Procs, FileDone(p) PROVE Range(aside) \subseteq Range(aside')
  <2>1. todo[p] > 0 /\ aside' = IF at[p] = "aside" THEN Append(aside, Entry) ELSE aside
    BY <1>5 DEF FileDone, StoreInv, Phase
  <2>2. PICK o \in Seq(Entries) : o = aside
    BY DEF StoreInv, DiskTypes
  <2>3. PICK m \in Entries : m = Entry
    BY <2>1, EntryIs
  <2>4. PICK n : n = Append(o, m)
    OBVIOUS
  <2>5. Range(o) \subseteq Range(n)
    <3>1. DOMAIN n = 1..(Len(o) + 1) /\ DOMAIN o = 1..Len(o) /\ Len(o) \in Nat /\ \A i \in 1..Len(o) : n[i] = o[i]
      BY <2>4, AppendProperties
    <3>. QED BY <3>1 DEF Range
  <2>. QED BY <2>1, <2>2, <2>3, <2>4, <2>5
<1>. QED BY <1>1, <1>2, <1>3, <1>4, <1>5 DEF Next

LEMMA KnowsOn ==
    ASSUME NEW q, NEW changes, NEW log, NEW S, NEW T, S \subseteq T, Knows(q, changes, log, S)
    PROVE  Knows(q, changes, log, T)
  BY DEF Knows

LEMMA BootKnowsKept ==
    ASSUME RememberInv, [Next]_vars
    PROVE  BootKnows'
<1>1. /\ StoreInv /\ EntriesTrue /\ LogInv /\ Calm /\ Alone /\ BootsTrue /\ BootKnows
      /\ DeleteStamped /\ StartHolds /\ ToldKnown
  BY DEF RememberInv, LogInv, KeptInv, OneByOne, Calm, BootsTrue
<1>2. Grows /\ LifeMoves /\ Range(aside) \subseteq Range(aside')
  BY <1>1, StepBasics, LifeMovesAre, AsideGrows
<1>3. SUFFICES ASSUME NEW p \in Procs, life'[p] = "boot", ~reload'[p], NEW q \in 1..(p - 1), life'[q] = "exited"
               PROVE  Waiting(q)' \/ Knows(q, made'[q], start'[p].log, Range(aside'))
  BY DEF BootKnows
<1>4. q \in Procs /\ (life[q] \in Over => life[q] = "exited" /\ made'[q] = made[q])
  <2>1. q \in Procs
    BY Earlier
  <2>2. life[q] \in Over => life'[q] = life[q]
    BY <1>2, <2>1 DEF LifeMoves, Alive, Over
  <2>. QED BY <1>2, <1>3, <2>1, <2>2 DEF Grows
<1>5. CASE life[p] # "boot"
  <2>1. Boot(p)
    BY <1>2, <1>3, <1>5 DEF LifeMoves
  <2>2. life[q] \in Over /\ start'[p] = Preloaded /\ files' = files /\ db' = db
    BY <1>1, <2>1 DEF Boot, Calm, StoreInv, DiskTypes, diskVars
  <2>3. Waiting(q) \/ Knows(q, made[q], db.log, Range(aside))
    BY <1>1, <1>4, <2>2, DbKnows
  <2>4. Waiting(q) => Waiting(q)'
    BY <2>2 DEF Waiting
  <2>5. PICK l : l = start'[p].log /\ l = db.log
    BY <2>2 DEF Preloaded
  <2>6. PICK S : S = Range(aside')
    OBVIOUS
  <2>7. Knows(q, made[q], db.log, Range(aside)) => Knows(q, made[q], l, S)
    BY <1>2, <2>5, <2>6, KnowsOn
  <2>. QED BY <1>4, <2>2, <2>3, <2>4, <2>5, <2>6, <2>7
<1>6. CASE life[p] = "boot"
  <2>1. ~reload[p] /\ start'[p] = start[p]
    BY <1>1, <1>3, <1>6, BootRow DEF Calm
  <2>2. life[q] = "exited" /\ made'[q] = made[q]
    BY <1>1, <1>4, <1>6 DEF Alone
  <2>3. Waiting(q) \/ Knows(q, made[q], start[p].log, Range(aside))
    BY <1>1, <1>6, <2>1, <2>2 DEF BootKnows
  <2>4. PICK S : S = Range(aside') /\ Range(aside) \subseteq S
    BY <1>2
  <2>5. Knows(q, made[q], start[p].log, Range(aside)) => Knows(q, made[q], start[p].log, S)
    BY <2>4, KnowsOn
  <2>6. CASE files' = files
    BY <2>1, <2>2, <2>3, <2>4, <2>5, <2>6 DEF Waiting
  <2>7. CASE FileDone(p)
    <3>1. SUFFICES ASSUME NEW e \in Range(files), e.id[1] = q
                   PROVE  Waiting(q)' \/ Knows(q, made[q], start[p].log, S)
      BY <2>1, <2>2, <2>3, <2>4, <2>5 DEF Waiting
    <3>2. e \in Filed /\ e \in Entries /\ EntryTrue(e)
      BY <1>1 DEF Filed, EntriesTrue
    <3>3. start[p].log \in Seq(Made) /\ IsPrefix(Reach(q, cgen[q]), start[p].log)
      BY <1>1, <1>6 DEF ToldKnown, StoreInv, DiskTypes
    <3>4. CASE e \in Range(files')
      BY <3>1, <3>4 DEF Waiting, Range
    <3>5. CASE e \in Range(aside')
      BY <1>1, <1>4, <2>4, <3>1, <3>2, <3>3, <3>5, AsideKnows
    <3>6. CASE e \notin Range(files') /\ e \notin Range(aside')
      <4>1. e \notin Filed'
        BY <3>6 DEF Filed, Range
      <4>2. PICK r \in Procs : FileDone(r) /\ at[r] = "delete" /\ e = Entry
        BY <1>1, <3>2, <4>1, FiledStays
      <4>3. r = p
        BY <1>1, <2>7, <4>2 DEF FileDone, StoreInv, Phase
      <4>4. db.flush = e.id /\ e.id[2] = 0
        BY <1>1, <2>1, <3>2, <4>2, <4>3 DEF DeleteStamped, EntryTrue
      <4>5. db.log = start[p].log
        BY <1>1, <1>6, <2>1, <4>4 DEF StartHolds
      <4>6. RowTrue(db)
        <5>1. q # 0
          BY <1>4, ProcsNat DEF ProcsAreNat
        <5>. QED BY <1>1, <3>1, <4>4, <5>1 DEF StoreInv, WritesTrue, Blank
      <4>7. db.log = Reach(q, Gen(q))
        BY <3>1, <4>4, <4>6 DEF RowTrue, WriterGen
      <4>8. IsPrefix(Reach(q, Gen(q)), start[p].log)
        BY <3>3, <4>5, <4>7, PrefixSelf
      <4>. QED BY <1>1, <1>4, <3>3, <4>8, LogKnows
    <3>. QED BY <3>4, <3>5, <3>6
  <2>8. BootMoves(p)
    BY <1>1, <1>3, <1>6, BootMovesAre DEF Calm
  <2>9. ReplayApplies(p) \/ ReplaySkips(p) \/ ReplayRejected(p) => files' = files
    BY DEF ReplayApplies, ReplaySkips, ReplayRejected, ReplayedTo, diskVars
  <2>. QED BY <2>6, <2>7, <2>8, <2>9 DEF BootMoves
<1>. QED BY <1>5, <1>6

LEMMA RemembersKept ==
    ASSUME RememberInv, [Next]_vars
    PROVE  Remembers'
<1>1. StoreInv /\ LogInv /\ Calm /\ Alone /\ BootKnows /\ Remembers
  BY DEF RememberInv, LogInv, KeptInv, OneByOne, Calm
<1>2. Grows /\ LifeMoves /\ Range(aside) \subseteq Range(aside')
  BY <1>1, StepBasics, LifeMovesAre, AsideGrows
<1>3. SUFFICES ASSUME NEW p \in Procs, life'[p] \in {"up", "closed"}, NEW q \in 1..(p - 1), life'[q] = "exited"
               PROVE  Knows(q, made'[q], start'[p].log, Range(aside'))
  BY DEF Remembers, Alive
<1>4. Alive(p) \/ (life[p] = "boot" /\ Install(p))
  BY <1>2, <1>3 DEF LifeMoves, Alive
<1>5. q \in Procs /\ life[q] = "exited" /\ made'[q] = made[q]
  <2>1. q \in Procs
    BY Earlier
  <2>2. life[q] \in Over
    BY <1>1, <1>4 DEF Alone, Alive
  <2>3. life'[q] = life[q]
    BY <1>2, <2>1, <2>2 DEF LifeMoves, Alive, Over
  <2>. QED BY <1>2, <1>3, <2>1, <2>2, <2>3 DEF Grows
<1>6. PICK S : S = Range(aside') /\ Range(aside) \subseteq S
  BY <1>2
<1>7. PICK l : l = start'[p].log
  OBVIOUS
<1>8. CASE Alive(p)
  <2>1. l = start[p].log
    BY <1>1, <1>7, <1>8, StartMoves DEF Alive, Fresh
  <2>2. Knows(q, made[q], l, Range(aside))
    BY <1>1, <1>5, <1>8, <2>1 DEF Remembers
  <2>. QED BY <1>5, <1>6, <1>7, <2>2, KnowsOn
<1>9. CASE life[p] = "boot" /\ Install(p)
  <2>1. todo[p] = 0 /\ (reload[p] => l = db.log) /\ (~reload[p] => l = start[p].log)
    BY <1>1, <1>7, <1>9 DEF Install, Preloaded, StoreInv, DiskTypes
  <2>2. ~Waiting(q)
    <3>1. PICK o \in Seq(Entries) : o = files /\ Len(o) = 0
      BY <1>1, <1>9, <2>1 DEF Alone, StoreInv, DiskTypes
    <3>2. DOMAIN o = {}
      BY <3>1
    <3>. QED BY <3>1, <3>2 DEF Waiting, Range
  <2>3. CASE reload[p]
    BY <1>1, <1>5, <1>6, <1>7, <2>1, <2>2, <2>3, DbKnows, KnowsOn
  <2>4. CASE ~reload[p]
    <3>1. Knows(q, made[q], l, Range(aside))
      BY <1>1, <1>5, <1>9, <2>1, <2>2, <2>4 DEF BootKnows
    <3>. QED BY <1>5, <1>6, <1>7, <3>1, KnowsOn
  <2>. QED BY <2>3, <2>4
<1>. QED BY <1>4, <1>8, <1>9

LEMMA RememberStep ==
    ASSUME RememberInv, [Next]_vars
    PROVE  RememberInv'
<1>1. /\ StoreInv /\ EntriesTrue /\ FliesTrue /\ LogInv /\ Calm /\ Alone /\ \A p \in Procs : Idle(p)
      /\ StampsFlush /\ DeleteQuiet /\ StartHolds /\ DeleteStamped /\ ToldKnown
  BY DEF RememberInv, LogInv, KeptInv, QueuesInv, OneByOne, Calm, BootsTrue
<1>2. LogInv' /\ Calm' /\ BootKnows' /\ Remembers'
  BY <1>1, LogStep, CalmKept, BootKnowsKept, RemembersKept
<1>3. StampsFlush' /\ DeleteQuiet' /\ StartHolds' /\ DeleteStamped' /\ ToldKnown'
  BY <1>1, StampsKept, DeleteQuietKept, StartHoldsKept, DeleteStampedKept, ToldKnownKept
<1>. QED BY <1>2, <1>3 DEF RememberInv, BootsTrue

\* What the proof asks of the bounds: no process starts before the last one has ended, and the
\* database answers a replay.
StopsInOrder == \A plan \in Plans : ~plan.overlap /\ plan.faults["replay"] = 0

LEMMA RememberInit == ASSUME StopsInOrder, Init PROVE RememberInv
<1>1. NotesRunAlone /\ Calm
  BY DEF StopsInOrder, NotesRunAlone, Init, Calm
<1>2. LogInv
  BY <1>1, LogInvInit
<1>3. DOMAIN limbo = {} /\ limbo = <<>> /\ \A p \in Procs : life[p] = "off" /\ at[p] = "read"
  BY DEF Init
<1>4. StampsFlush /\ DeleteQuiet /\ StartHolds /\ DeleteStamped /\ ToldKnown
  BY <1>3 DEF StampsFlush, DeleteQuiet, StartHolds, DeleteStamped, ToldKnown
<1>5. BootKnows /\ Remembers
  BY <1>3 DEF BootKnows, Remembers, Alive
<1>. QED BY <1>1, <1>2, <1>4, <1>5 DEF RememberInv, BootsTrue

LEMMA RememberedAll == ASSUME RememberInv PROVE NoAmnesia
<1>1. StoreInv /\ Remembers /\ MadeTrue
  BY DEF RememberInv, LogInv, KeptInv, StoreInv
<1>2. SUFFICES ASSUME NEW p \in Procs, Alive(p), NEW q \in 1..(p - 1), life[q] = "exited",
                      NEW c \in ChangesOf(q), KindOf(c) = "talk"
               PROVE  c \in Range(start[p].log) \/ \E e \in Range(aside) : InEntry(e, c)
  BY DEF NoAmnesia
<1>3. Knows(q, made[q], start[p].log, Range(aside))
  BY <1>1, <1>2 DEF Remembers
<1>4. PICK i \in DOMAIN made[q] : c = <<q, i>>
  BY DEF ChangesOf
<1>5. i \in 1..Len(made[q]) /\ made[q][i].kind = "talk"
  <2>1. q \in Procs
    BY Earlier
  <2>. QED BY <1>1, <1>2, <1>4, <2>1 DEF MadeTrue, KindOf
<1>. QED BY <1>3, <1>4, <1>5 DEF Knows, InEntry

\* No answer is forgotten over an orderly stop (shutdown.ts, store/pg-backend.ts spillSync, openPgBackend):
\* every message of a process that exited in order is in what the next ones preload, or in a file that
\* was set aside.
THEOREM NoAmnesiaHolds == StopsInOrder => (Spec => []NoAmnesia)
<1>. SUFFICES ASSUME StopsInOrder PROVE Spec => []NoAmnesia
  OBVIOUS
<1>1. Init => RememberInv
  BY RememberInit
<1>2. RememberInv /\ [Next]_vars => RememberInv'
  BY RememberStep
<1>3. RememberInv => NoAmnesia
  BY RememberedAll
<1>. QED BY <1>1, <1>2, <1>3, PTL DEF Spec
-----------------------------------------------------------------------------
(* Processes that stop in order never disagree with the database *)

\* Of the bounds: no data error.
Sound == left.faults["reject"] = 0

Clean(p) == \A q \in 1..(p - 1) : life[q] # "killed"
\* Whose COMMIT is not answered: of a process that runs, that was killed, or whose file says so.
FileOf(w, id) == files # <<>> /\ Entry.id[1] = w /\ Entry.fly # <<>> /\ Entry.fly[1].id = id
PendingOf(d) ==
    LET w == d.flush[1] IN
    \/ Alive(w) /\ d.flush = <<w, fly[w]>>
    \/ life[w] = "killed"
    \/ life[w] = "exited" /\ FileOf(w, d.flush)
LimboOf == \A i \in DOMAIN limbo : PendingOf(limbo[i])
\* Where none was killed before it: a process knows the database, but for its snapshot in flight; one
\* that starts, but for the snapshot of the file; and the file fits.
Knowing(p) == db.log = Reach(p, cgen[p]) \/ (fly[p] # 0 /\ db.flush = <<p, fly[p]>>)
UpKnows == \A p \in Procs : Alive(p) /\ Clean(p) => Knowing(p)
BootAt ==
    \A p \in Procs : life[p] = "boot" /\ ~reload[p] /\ Clean(p) =>
        db.log = start[p].log \/ (files # <<>> /\ at[p] = "read" /\ FlyIn(db, Entry))
Fitting(e) == db.log = Reach(e.id[1], cgen[e.id[1]]) \/ FlyIn(db, e) \/ Replayed(db, e)
FileFits == files # <<>> /\ Clean(Entry.id[1]) => Fitting(Entry)
LoneInv == RememberInv /\ Sound /\ LimboOf /\ UpKnows /\ BootAt /\ FileFits /\ LoneWriterIsSafe

LEMMA SoundKept ==
    ASSUME StoreInv, Sound, [Next]_vars
    PROVE  Sound' /\ \A p \in Procs : ~Poison(p) /\ ~FlushRejected(p) /\ ~ReplayRejected(p)
<1>1. "reject" \in FaultKinds
  BY DEF FaultKinds
<1>2. Sound' /\ ~Spend("reject")
  BY <1>1, FaultSpent DEF Sound
<1>. QED BY <1>2 DEF Poison, FlushRejected, ReplayRejected

LEMMA CleanWas ==
    ASSUME StoreInv, [Next]_vars, NEW p \in Procs, Clean(p)'
    PROVE  Clean(p)
<1>1. LifeMoves
  BY LifeMovesAre
<1>2. ASSUME NEW q \in 1..(p - 1), life[q] = "killed" PROVE FALSE
  <2>1. q \in Procs
    BY Earlier
  <2>2. life'[q] = "killed"
    BY <1>1, <1>2, <2>1 DEF LifeMoves, Alive
  <2>. QED BY <2>2 DEF Clean
<1>. QED BY <1>2 DEF Clean

\* A row with the flush_id of a file's snapshot holds that snapshot, and one with the file's id all of it.
LEMMA FlyKnown ==
    ASSUME StoreInv, NEW e \in Entries, EntryTrue(e), NEW d, RowTrue(d)
    PROVE  /\ e.fly # <<>> /\ d.flush = e.fly[1].id => FlyIn(d, e) /\ ~Replayed(d, e)
           /\ Replayed(d, e) => Len(d.log) = e.last /\ ~FlyIn(d, e)
<1>1. PICK q \in Procs : q = e.id[1] /\ e.id[2] = 0
  BY DEF Entries, EntryRecords, EntryTrue
<1>2. MadeTrue /\ Logs /\ Gen(q) \in Nat /\ cgen[q] \in 0..Gen(q)
  <2>1. MadeTrue /\ Logs /\ Gen(q) \in Nat
    BY LogsThen, MadeIs
  <2>. QED BY <2>1 DEF StoreInv, FlagTypes, Phase
<1>3. ASSUME e.fly # <<>> PROVE FlyTrue(q, e.fly[1]) /\ e.fly[1].id[2] \in 0..Gen(q) /\ e.fly[1].id[2] # 0
  <2>1. FlyTrue(q, e.fly[1])
    BY <1>1, <1>3 DEF EntryTrue
  <2>2. e.fly \in Seq(Snaps)
    BY DEF Entries, EntryRecords
  <2>3. e.fly[1] \in Snaps
    BY <1>3, <2>2
  <2>4. e.fly[1].id[2] \in Nat
    BY <2>3 DEF Snaps
  <2>. QED BY <1>2, <2>1, <2>4 DEF FlyTrue
<1>4. ASSUME e.fly # <<>>, d.flush = e.fly[1].id PROVE FlyIn(d, e) /\ ~Replayed(d, e)
  <2>1. PICK g \in 0..Gen(q) : g = e.fly[1].id[2] /\ g # 0 /\ e.fly[1].id[1] = q /\ e.fly[1].last = LastSeq(q, g)
    BY <1>3, <1>4 DEF FlyTrue
  <2>2. d.log = Reach(q, g)
    BY <1>4, <2>1 DEF RowTrue, WriterGen
  <2>3. LastSeq(q, g) = Len(Reach(q, g))
    BY <1>2, <2>1, ReachIs
  <2>. QED BY <1>1, <1>4, <2>1, <2>2, <2>3 DEF FlyIn, Known, Replayed
<1>5. ASSUME Replayed(d, e) PROVE Len(d.log) = e.last /\ ~FlyIn(d, e)
  <2>1. d.flush = e.id /\ d.log = Reach(q, Gen(q))
    BY <1>1, <1>5 DEF Replayed, RowTrue, WriterGen
  <2>2. ~FlyIn(d, e)
    BY <1>1, <1>3, <2>1 DEF FlyIn, Known
  <2>3. PICK c \in 0..Gen(q) : c = cgen[q]
    BY <1>2
  <2>4. PICK n \in 0..Gen(q) : n = Gen(q) /\ c <= n /\ c \in Nat
    BY <1>2
  <2>5. /\ Reach(q, c) \in Seq(Made) /\ ChangesIn(q, "talk", c, n) \in Seq(Made)
        /\ Reach(q, n) = Reach(q, c) \o ChangesIn(q, "talk", c, n) /\ LastSeq(q, c) = Len(Reach(q, c))
    <3>1. LastSeq(q, c) = Len(Reach(q, c))
      BY <1>2, <2>4, ReachIs
    <3>. QED BY <1>2, <2>4, <3>1, ReachIs
  <2>6. Len(Reach(q, n)) = Len(Reach(q, c)) + Len(ChangesIn(q, "talk", c, n))
    BY ONLY <2>5, ConcatAt
  <2>7. e.base = LastSeq(q, c) /\ e.msgs = ChangesIn(q, "talk", c, n) /\ e.last = e.base + Len(e.msgs)
    BY <1>1, <2>3, <2>4 DEF EntryTrue, Entries
  <2>. QED BY <2>1, <2>2, <2>4, <2>5, <2>6, <2>7
<1>. QED BY <1>4, <1>5

\* The file there is stays until it is done with.
LEMMA FileStays ==
    ASSUME StoreInv, Alone, [Next]_vars, files # <<>>
    PROVE  files' = files \/ (files' = <<>> /\ \E p \in Procs : FileDone(p))
<1>1. FilesMove
  BY FilesMoveAre
<1>2. ASSUME NEW p \in Procs, Alive(p) PROVE FALSE
  BY <1>2 DEF Alone
<1>3. ASSUME NEW p \in Procs, FileDone(p), files' = Tail(files) PROVE files' = <<>>
  <2>1. PICK o \in Seq(Entries) : o = files /\ o # <<>> /\ Len(o) <= 1
    BY DEF StoreInv, DiskTypes, Alone
  <2>2. Len(o) = 1
    <3>1. PICK n : n = Len(o)
      OBVIOUS
    <3>2. n \in Nat /\ n # 0
      BY <2>1, <3>1, EmptySeq
    <3>. QED BY <2>1, <3>1, <3>2
  <2>3. Tail(o) \in Seq(Entries) /\ Len(Tail(o)) = 0
    BY <2>1, <2>2, HeadTailProperties
  <2>4. Tail(o) = <<>>
    BY <2>3, EmptySeq
  <2>. QED BY <1>3, <2>1, <2>4
<1>. QED BY <1>1, <1>2, <1>3 DEF FilesMove

\* The file a process leaves that had not got everything into the database.
LEMMA FileLeft ==
    ASSUME StoreInv, Alone, NEW p \in Procs, Exit(p)
    PROVE  /\ files = <<>> /\ (fly[p] # 0 => files' # <<>>)
           /\ files' # <<>> => Entry' = SpillEntryOf(p)
<1>1. Alive(p) /\ files = <<>>
  BY DEF Exit, Alone
<1>2. PICK e : e = SpillEntryOf(p)
  OBVIOUS
<1>3. files' = <<>> \/ files' = Append(<<>>, e)
  BY <1>1, <1>2 DEF Exit, SpillSync
<1>4. fly[p] # 0 => Dirty(p)
  <2>1. cgen[p] \in Nat /\ Gen(p) \in Nat /\ fly[p] \in Nat
    BY LogsThen, MadeIs DEF StoreInv, FlagTypes
  <2>. QED BY <2>1 DEF StoreInv, Phase, Dirty
<1>5. Dirty(p) => files' = Append(<<>>, e)
  BY <1>1, <1>2 DEF Exit, SpillSync
<1>6. Append(<<>>, e) # <<>> /\ Append(<<>>, e)[1] = e
  OBVIOUS
<1>. QED BY <1>1, <1>2, <1>3, <1>4, <1>5, <1>6 DEF Entry

LEMMA LimboOfKept ==
    ASSUME StoreInv, \A p \in Procs : Idle(p), Alone, Calm, DeleteQuiet, StampsFlush, LimboOf, [Next]_vars
    PROVE  LimboOf'
<1>1. LimboMoves /\ LifeMoves /\ FliesMove /\ \A p \in Procs : ~ReplayCut(p)
  BY LimboMovesAre, LifeMovesAre, FliesMoveAre, CalmLimbo
<1>2. ASSUME NEW p \in Procs, Exit(p), fly[p] # 0, NEW id, id = <<p, fly[p]>>
      PROVE  life'[p] = "exited" /\ FileOf(p, id)'
  <2>1. files' # <<>> /\ Entry' = SpillEntryOf(p) /\ life'[p] = "exited"
    BY <1>2, FileLeft, MineTypes DEF Exit, Leave
  <2>2. PICK e : e = SpillEntryOf(p)
    OBVIOUS
  <2>3. e.id = <<p, 0>> /\ e.fly = <<Snap(p)>> /\ Snap(p).id = <<p, fly[p]>>
    BY <1>2, <2>2 DEF SpillEntryOf, Snap
  <2>4. e.fly # <<>> /\ e.fly[1].id = <<p, fly[p]>> /\ e.id[1] = p
    BY <2>3
  <2>. QED BY <1>2, <2>1, <2>2, <2>4 DEF FileOf
<1>3. ASSUME NEW p \in Procs, Crash(p) PROVE life'[p] = "killed"
  BY <1>3, MineTypes DEF Crash, Leave
<1>4. CASE limbo' = limbo /\ limbo # <<>>
  <2>1. SUFFICES ASSUME NEW d, RowTrue(d), d.flush[2] # 0, d.flush = <<d.flush[1], d.flush[2]>>, PendingOf(d)
                 PROVE  PendingOf(d)'
    <3>1. ASSUME NEW i \in DOMAIN limbo PROVE PendingOf(limbo[i])'
      <4>1. PICK d \in Rows : d = limbo[i]
        BY DEF StoreInv, DiskTypes
      <4>2. RowTrue(d) /\ d.flush[2] # 0 /\ PendingOf(d)
        BY <4>1 DEF StoreInv, WritesTrue, StampsFlush, LimboOf
      <4>3. d.flush = <<d.flush[1], d.flush[2]>>
        BY DEF Rows
      <4>4. PendingOf(d)'
        BY <2>1, <4>2, <4>3
      <4>5. limbo'[i] = d
        BY <1>4, <4>1
      <4>. QED BY <4>4, <4>5 DEF PendingOf, FileOf, Alive
    <3>. QED BY <1>4, <3>1 DEF LimboOf
  <2>2. PICK w \in Procs : w = d.flush[1]
    BY <2>1 DEF RowTrue
  <2>3. CASE Alive(w) /\ d.flush = <<w, fly[w]>>
    <3>1. fly[w] # 0
      BY <2>1, <2>3
    <3>2. CASE Exit(w)
      <4>1. PICK id : id = d.flush
        OBVIOUS
      <4>2. life'[w] = "exited" /\ FileOf(w, id)'
        BY <1>2, <2>3, <3>1, <3>2, <4>1
      <4>. QED BY <2>2, <4>1, <4>2 DEF PendingOf
    <3>3. CASE Crash(w)
      BY <1>3, <2>2, <3>3 DEF PendingOf
    <3>4. CASE ~Exit(w) /\ ~Crash(w)
      <4>1. life'[w] \in {"up", "closed"}
        BY <1>1, <2>3, <3>4 DEF LifeMoves, Alive
      <4>2. fly'[w] = fly[w]
        <5>1. cgen'[w] = cgen[w]
          <6>1. FlushCommits(w) \/ FlushKnown(w) => limbo = <<>>
            BY DEF FlushCommits, FlushKnown, Attempted
          <6>. QED BY <1>4, <6>1, TellsMove
        <5>2. cgen[w] \in Nat /\ ~(cgen[w] < cgen[w])
          BY DEF StoreInv, FlagTypes
        <5>. QED BY <1>1, <3>1, <4>1, <5>1, <5>2 DEF FliesMove
      <4>. QED BY <2>2, <2>3, <4>1, <4>2 DEF PendingOf, Alive
    <3>. QED BY <3>2, <3>3, <3>4
  <2>4. CASE life[w] = "killed"
    <3>1. life'[w] = "killed"
      BY <1>1, <2>4 DEF LifeMoves, Alive
    <3>. QED BY <2>2, <3>1 DEF PendingOf
  <2>5. CASE life[w] = "exited" /\ FileOf(w, d.flush)
    <3>1. life'[w] = "exited"
      BY <1>1, <2>5 DEF LifeMoves, Alive
    <3>2. files' = files
      <4>1. \A p \in Procs : ~FileDone(p)
        BY <1>4 DEF FileDone, DeleteQuiet
      <4>. QED BY <2>5, <4>1, FileStays DEF FileOf
    <3>. QED BY <2>2, <2>5, <3>1, <3>2 DEF PendingOf, FileOf, Entry
  <2>. QED BY <2>1, <2>2, <2>3, <2>4, <2>5 DEF PendingOf
<1>5. CASE limbo' = <<>>
  BY <1>5 DEF LimboOf
<1>6. ASSUME NEW p \in Procs, Alive(p), run[p] = "sent", limbo' = <<Written(db, Snap(p))>>, FlushCut(p) \/ Exit(p) \/ Crash(p)
      PROVE  LimboOf'
  <2>1. PICK d : d = Written(db, Snap(p))
    OBVIOUS
  <2>2. d.flush = <<p, fly[p]>> /\ d.flush[1] = p
    BY <2>1 DEF Written, Snap
  <2>3. fly[p] # 0
    BY <1>6 DEF StoreInv, Phase
  <2>4. FlushCut(p) => fly' = fly /\ life' = life
    BY DEF FlushCut
  <2>5. PendingOf(d)'
    <3>1. PICK id : id = d.flush
      OBVIOUS
    <3>2. Exit(p) => life'[p] = "exited" /\ FileOf(p, id)'
      BY <1>2, <2>2, <2>3, <3>1
    <3>3. CASE FlushCut(p)
      BY <1>6, <2>2, <2>4, <3>3 DEF PendingOf, Alive
    <3>. QED BY <1>3, <1>6, <2>2, <3>1, <3>2, <3>3 DEF PendingOf
  <2>6. DOMAIN <<d>> = {1} /\ <<d>>[1] = d
    OBVIOUS
  <2>7. limbo' = <<d>>
    BY <1>6, <2>1
  <2>. QED BY <2>5, <2>6, <2>7 DEF LimboOf, PendingOf, FileOf, Alive
<1>. QED BY <1>1, <1>4, <1>5, <1>6 DEF LimboMoves

LEMMA EntryNow ==
    ASSUME StoreInv, EntriesTrue, files # <<>>, NEW e, e = Entry
    PROVE  /\ e \in Filed /\ 1 \in DOMAIN files /\ e \in Entries /\ EntryTrue(e) /\ life[e.id[1]] = "exited"
           /\ e.id[1] \in Procs /\ e.id[2] = 0
<1>1. PICK o \in Seq(Entries) : o = files
  BY DEF StoreInv, DiskTypes
<1>2. 1 \in DOMAIN o /\ e = o[1]
  BY <1>1 DEF Entry
<1>3. e \in Filed
  BY <1>1, <1>2 DEF Filed, Range
<1>4. e \in Entries /\ EntryTrue(e) /\ life[e.id[1]] = "exited"
  BY <1>3 DEF EntriesTrue
<1>5. e.id[1] \in Procs /\ e.id[2] = 0
  BY <1>4 DEF Entries, EntryRecords, EntryTrue
<1>. QED BY <1>1, <1>2, <1>3, <1>4, <1>5

LEMMA PendingRow ==
    ASSUME StoreInv, LimboOf, limbo # <<>>, NEW d, d = limbo[1]
    PROVE  d \in Rows /\ RowTrue(d) /\ PendingOf(d) /\ d.flush[1] \in Procs /\ 1 \in DOMAIN limbo
<1>1. PICK o \in Seq(Rows) : o = limbo
  BY DEF StoreInv, DiskTypes
<1>2. 1 \in DOMAIN o /\ d = o[1] /\ d \in Rows
  BY <1>1
<1>3. RowTrue(d) /\ PendingOf(d)
  BY <1>1, <1>2 DEF StoreInv, WritesTrue, LimboOf
<1>. QED BY <1>1, <1>2, <1>3 DEF RowTrue

LEMMA LogMoves ==
    ASSUME StoreInv, \A p \in Procs : Idle(p), [Next]_vars
    PROVE  \/ db'.log = db.log /\ db'.flush = db.flush
           \/ limbo # <<>> /\ db' = limbo[1]
           \/ Writes(db')
<1>1. DbMoves /\ MadeTrue /\ db \in Rows
  BY DbMovesAre DEF StoreInv, DiskTypes
<1>2. \A s \in Seq(Made) : Stepped(db, s).log = db.log /\ Stepped(db, s).flush = db.flush
  BY <1>1, SteppedIs
<1>. QED BY <1>1, <1>2 DEF DbMoves

\* Two records that agree on their log and flush_id fit the same files.
LEMMA SameFits ==
    ASSUME NEW d, NEW r, r.log = d.log, r.flush = d.flush, NEW e
    PROVE  (FlyIn(d, e) => FlyIn(r, e)) /\ (Replayed(d, e) => Replayed(r, e))
  BY DEF FlyIn, Known, Replayed

LEMMA BootAtKept ==
    ASSUME LoneInv, [Next]_vars
    PROVE  BootAt'
<1>1. /\ StoreInv /\ EntriesTrue /\ FliesTrue /\ Calm /\ Alone /\ DeleteQuiet /\ Sound /\ LimboOf /\ BootAt
  BY DEF LoneInv, RememberInv, LogInv, KeptInv, OneByOne, Calm, BootsTrue
<1>2. SUFFICES ASSUME NEW p \in Procs, life'[p] = "boot", ~reload'[p], Clean(p)'
               PROVE  db'.log = start'[p].log \/ (files' # <<>> /\ at'[p] = "read" /\ FlyIn(db, Entry)')
  BY DEF BootAt
<1>3. Clean(p)
  BY <1>1, <1>2, CleanWas
<1>4. CASE life[p] # "boot"
  <2>1. Boot(p)
    <3>1. LifeMoves
      BY <1>1, LifeMovesAre
    <3>. QED BY <1>2, <1>4, <3>1 DEF LifeMoves
  <2>2. start'[p] = Preloaded /\ db' = db
    BY <1>1, <2>1 DEF Boot, StoreInv, DiskTypes
  <2>. QED BY <2>2 DEF Preloaded
<1>5. CASE life[p] = "boot"
  <2>1. /\ BootMoves(p) /\ ~reload[p] /\ start'[p] = start[p]
        /\ (db'.log = db.log /\ db'.flush = db.flush) \/ (limbo # <<>> /\ db' = limbo[1])
    BY <1>1, <1>2, <1>5, BootMovesAre, BootRow DEF Calm
  <2>2. db.log = start[p].log \/ (files # <<>> /\ at[p] = "read" /\ FlyIn(db, Entry))
    BY <1>1, <1>3, <1>5, <2>1 DEF BootAt
  <2>3. PICK r : r = db'
    OBVIOUS
  <2>4. CASE limbo = <<>>
    <3>1. r.log = db.log /\ r.flush = db.flush
      BY <2>1, <2>3, <2>4
    <3>2. CASE db.log = start[p].log
      BY <2>1, <2>3, <3>1, <3>2
    <3>3. CASE files # <<>> /\ at[p] = "read" /\ FlyIn(db, Entry)
      <4>1. FlyIn(r, Entry)
        BY <3>1, <3>3, SameFits
      <4>2. ~ReplayApplies(p) /\ ~ReplayRejected(p) /\ ~FileDone(p)
        <5>1. ~ReplayApplies(p)
          BY <1>1, <1>2 DEF ReplayApplies, ReplayedTo, StoreInv, FlagTypes
        <5>2. ~ReplayRejected(p)
          BY <1>1, SoundKept
        <5>. QED BY <3>3, <5>1, <5>2 DEF FileDone
      <4>3. ~ReplaySkips(p)
        <5>1. PICK e : e = Entry
          OBVIOUS
        <5>2. e \in Filed /\ 1 \in DOMAIN files /\ e \in Entries /\ EntryTrue(e) /\ e.id[1] \in Procs
          BY <1>1, <3>3, <5>1, EntryNow
        <5>3. ~Same(db, e)
          BY <1>1, <5>1, <5>2, AloneSame
        <5>4. ASSUME Replayed(db, e) PROVE FALSE
          <6>1. e.id[1] # 0
            BY <5>2, ProcsNat DEF ProcsAreNat
          <6>2. RowTrue(db)
            BY <1>1, <5>4, <6>1 DEF Replayed, StoreInv, WritesTrue, Blank
          <6>. QED BY <1>1, <3>3, <5>1, <5>2, <5>4, <6>2, FlyKnown
        <5>. QED BY <5>1, <5>3, <5>4 DEF ReplaySkips
      <4>4. files' = files /\ at' = at
        BY <2>1, <4>2, <4>3 DEF BootMoves
      <4>. QED BY <2>3, <3>3, <4>1, <4>4 DEF FlyIn, Entry
    <3>. QED BY <2>2, <3>2, <3>3
  <2>5. CASE limbo # <<>>
    <3>1. at[p] = "read" /\ files' = files /\ at' = at
      <4>1. at[p] = "read"
        BY <1>1, <2>5 DEF DeleteQuiet
      <4>2. ~ReplayApplies(p) /\ ~ReplaySkips(p) /\ ~ReplayRejected(p) /\ ~FileDone(p)
        BY <2>5, <4>1 DEF ReplayApplies, ReplaySkips, ReplayRejected, Replaying, FileDone
      <4>. QED BY <2>1, <4>1, <4>2 DEF BootMoves
    <3>2. CASE r.log = db.log /\ r.flush = db.flush
      <4>1. FlyIn(db, Entry) => FlyIn(r, Entry)
        BY <3>2, SameFits
      <4>. QED BY <2>1, <2>2, <2>3, <3>1, <3>2, <4>1 DEF FlyIn, Entry
    <3>3. CASE r = limbo[1]
      <4>1. r \in Rows /\ RowTrue(r) /\ PendingOf(r)
        BY <1>1, <2>5, <3>3, PendingRow
      <4>2. PICK w \in Procs : w = r.flush[1]
        BY <4>1 DEF RowTrue
      <4>3. w < p /\ w \in Nat
        BY <1>1, <1>5, <4>1, <4>2, RowOfRunning DEF Over, Fresh
      <4>4. w \in 1..(p - 1)
        <5>1. p \in Nat /\ w \in Nat /\ w # 0
          BY ProcsNat DEF ProcsAreNat
        <5>. QED BY <4>3, <5>1
      <4>5. life[w] # "killed"
        BY <1>3, <4>4 DEF Clean
      <4>6. ~Alive(w)
        BY <1>1, <1>5, <4>4 DEF Alone, Alive, Over
      <4>7. FileOf(w, r.flush)
        BY <4>1, <4>2, <4>5, <4>6 DEF PendingOf
      <4>8. PICK e : e = Entry
        OBVIOUS
      <4>9. e \in Entries /\ EntryTrue(e) /\ files # <<>> /\ e.fly # <<>> /\ r.flush = e.fly[1].id
        BY <1>1, <4>7, <4>8, EntryNow DEF FileOf
      <4>10. FlyIn(r, e)
        BY <1>1, <4>1, <4>9, FlyKnown
      <4>. QED BY <2>3, <3>1, <4>8, <4>9, <4>10 DEF FlyIn, Entry
    <3>. QED BY <2>1, <2>3, <3>2, <3>3
  <2>. QED BY <2>4, <2>5
<1>. QED BY <1>4, <1>5

\* The COMMIT that is not answered is the one of the process that runs.
LEMMA PendingOwn ==
    ASSUME StoreInv, Alone, LimboOf, limbo # <<>>, NEW p \in Procs, Alive(p), Clean(p), NEW d, d = limbo[1]
    PROVE  d.flush = <<p, fly[p]>>
<1>1. d \in Rows /\ RowTrue(d) /\ PendingOf(d)
  BY PendingRow
<1>2. PICK w \in Procs : w = d.flush[1]
  BY <1>1 DEF RowTrue
<1>3. w <= p /\ w \in Nat /\ w # 0 /\ p \in Nat
  <2>1. life[p] \notin Over
    BY DEF Alive, Over
  <2>. QED BY <1>1, <1>2, <2>1, RowOfRunning, ProcsNat DEF ProcsAreNat
<1>4. w # p => w \in 1..(p - 1)
  BY <1>3
<1>5. w = p \/ (life[w] # "killed" /\ ~Alive(w))
  BY <1>4 DEF Clean, Alone, Alive, Over
<1>6. ~FileOf(w, d.flush)
  BY DEF FileOf, Alone
<1>7. life[p] # "killed" /\ life[p] # "exited"
  BY DEF Alive
<1>. QED BY <1>1, <1>2, <1>5, <1>6, <1>7 DEF PendingOf

\* While a process runs nobody else writes.
LEMMA OwnWrites ==
    ASSUME StoreInv, Alone, NEW p \in Procs, Alive(p), NEW r, Writes(r)
    PROVE  run[p] = "sent" /\ fly[p] # 0 /\ r.flush = <<p, fly[p]>>
<1>1. Running(p)
  BY DEF Alive, Running, Over
<1>2. ASSUME NEW q \in Procs, Replaying(q) PROVE FALSE
  <2>1. Running(q)
    BY <1>2 DEF Replaying, Running, Over
  <2>2. q = p
    BY <1>1, <2>1, OneRunning
  <2>. QED BY <1>2, <2>2 DEF Replaying, Alive
<1>3. PICK q \in Procs : Alive(q) /\ run[q] = "sent" /\ r = Written(db, Snap(q))
  BY <1>2 DEF Writes
<1>4. q = p
  <2>1. Running(q)
    BY <1>3 DEF Alive, Running, Over
  <2>. QED BY <1>1, <2>1, OneRunning
<1>5. r.flush = <<p, fly[p]>>
  BY <1>3, <1>4 DEF Written, Snap
<1>6. fly[p] # 0
  BY <1>3, <1>4 DEF StoreInv, Phase
<1>. QED BY <1>3, <1>4, <1>5, <1>6

LEMMA UpKnowsKept ==
    ASSUME LoneInv, [Next]_vars
    PROVE  UpKnows'
<1>1. /\ StoreInv /\ Calm /\ Alone /\ StampsFlush /\ LimboOf /\ UpKnows /\ BootAt /\ \A p \in Procs : Idle(p)
  BY DEF LoneInv, RememberInv, LogInv, KeptInv, QueuesInv, OneByOne, Calm, BootsTrue
<1>2. MadeTrue /\ Logs /\ MadeTrue' /\ Logs' /\ Grows /\ LifeMoves /\ FliesMove
  BY <1>1, StepBasics, LifeMovesAre, FliesMoveAre
<1>3. SUFFICES ASSUME NEW p \in Procs, life'[p] \in {"up", "closed"}, Clean(p)' PROVE Knowing(p)'
  BY DEF UpKnows, Alive
<1>4. Clean(p)
  BY <1>1, <1>3, CleanWas
<1>5. PICK r : r = db'
  OBVIOUS
<1>6. CASE Alive(p)
  <2>1. Knowing(p)
    BY <1>1, <1>4, <1>6 DEF UpKnows
  <2>2. Gen(p) \in Nat /\ cgen[p] \in 0..Gen(p) /\ fly[p] \in 0..Gen(p) /\ (fly[p] # 0 => cgen[p] < fly[p])
    <3>1. Gen(p) \in Nat
      BY <1>2, MadeIs
    <3>. QED BY <1>1, <3>1 DEF StoreInv, FlagTypes, Phase
  <2>3. ASSUME NEW g \in 0..Gen(p) PROVE Reach(p, g)' = Reach(p, g)
    BY <1>2, <1>6, ReachKept DEF Alive, Fresh
  <2>4. ASSUME limbo # <<>>, r = limbo[1] PROVE r.flush = <<p, fly[p]>> /\ fly[p] # 0
    <3>1. r.flush = <<p, fly[p]>> /\ 1 \in DOMAIN limbo
      BY <1>1, <1>4, <1>6, <2>4, PendingOwn, PendingRow
    <3>2. r.flush[2] # 0
      BY <1>1, <2>4, <3>1 DEF StampsFlush
    <3>. QED BY <3>1, <3>2
  <2>5. Writes(r) => r.flush = <<p, fly[p]>> /\ fly[p] # 0
    BY <1>1, <1>6, OwnWrites
  <2>6. (r.log = db.log /\ r.flush = db.flush) \/ (r.flush = <<p, fly[p]>> /\ fly[p] # 0)
    <3>1. \/ db'.log = db.log /\ db'.flush = db.flush
          \/ limbo # <<>> /\ db' = limbo[1]
          \/ Writes(db')
      BY <1>1, LogMoves
    <3>. QED BY <1>5, <2>4, <2>5, <3>1
  <2>7. CASE fly'[p] = fly[p] /\ cgen'[p] = cgen[p]
    <3>1. PICK c \in 0..Gen(p) : c = cgen[p]
      BY <2>2
    <3>2. Reach(p, c)' = Reach(p, c)
      BY <2>3
    <3>3. r.log = Reach(p, c) \/ (fly[p] # 0 /\ r.flush = <<p, fly[p]>>)
      BY <2>1, <2>6, <3>1 DEF Knowing
    <3>. QED BY <1>5, <2>7, <3>1, <3>2, <3>3 DEF Knowing, Reach
  <2>8. CASE fly'[p] = 0 /\ cgen'[p] = fly[p] /\ cgen[p] < fly[p]
    <3>1. PICK f \in 0..Gen(p) : f = fly[p] /\ f # 0
      BY <2>2, <2>8
    <3>2. Reach(p, f)' = Reach(p, f)
      BY <2>3
    <3>3. FlushCommits(p) \/ FlushKnown(p)
      BY <1>1, <2>2, <2>8, TellsMove
    <3>4. FlushCommits(p) => r.log = Reach(p, f)
      <4>1. FlushCommits(p) => Fits(db, Snap(p)) /\ db' = Written(db, Snap(p))
        BY DEF FlushCommits
      <4>. QED BY <1>1, <1>5, <1>6, <3>1, <4>1, FlushLands DEF Alive, Fresh
    <3>5. FlushKnown(p) => r.log = Reach(p, f)
      <4>1. FlushKnown(p) => db.flush = Snap(p).id /\ db' = db
        BY DEF FlushKnown, Known
      <4>2. Snap(p).id = <<p, f>> /\ p # 0
        BY <3>1, ProcsNat DEF Snap, ProcsAreNat
      <4>3. ASSUME db.flush = <<p, f>> PROVE db.log = Reach(p, f)
        <5>1. RowTrue(db)
          BY <1>1, <4>2, <4>3 DEF StoreInv, WritesTrue, Blank
        <5>. QED BY <3>1, <4>3, <5>1 DEF RowTrue, WriterGen
      <4>. QED BY <1>5, <4>1, <4>2, <4>3
    <3>. QED BY <1>5, <2>8, <3>1, <3>2, <3>3, <3>4, <3>5 DEF Knowing, Reach
  <2>9. CASE fly[p] = 0 /\ cgen'[p] = cgen[p]
    <3>1. PICK c \in 0..Gen(p) : c = cgen[p]
      BY <2>2
    <3>2. Reach(p, c)' = Reach(p, c)
      BY <2>3
    <3>3. r.log = Reach(p, c)
      BY <2>1, <2>6, <2>9, <3>1 DEF Knowing
    <3>. QED BY <1>5, <2>9, <3>1, <3>2, <3>3 DEF Knowing, Reach
  <2>. QED BY <1>2, <1>3, <2>7, <2>8, <2>9 DEF FliesMove
<1>7. CASE ~Alive(p)
  <2>1. Install(p) /\ life[p] = "boot"
    BY <1>2, <1>3, <1>7 DEF LifeMoves, Alive
  <2>2. todo[p] = 0 /\ db' = db /\ cgen'[p] = cgen[p] /\ made' = made
    BY <2>1 DEF Install, flushVars
  <2>3. files = <<>>
    <3>1. PICK o \in Seq(Entries) : o = files /\ Len(o) = 0
      BY <1>1, <2>1, <2>2 DEF Alone, StoreInv, DiskTypes
    <3>. QED BY <3>1, EmptySeq
  <2>4. start'[p].log = db.log
    <3>1. CASE reload[p]
      BY <1>1, <2>1, <3>1 DEF Install, Preloaded, StoreInv, DiskTypes
    <3>2. CASE ~reload[p]
      <4>1. db.log = start[p].log
        BY <1>1, <1>4, <2>1, <2>3, <3>2 DEF BootAt
      <4>. QED BY <2>1, <3>2, <4>1 DEF Install
    <3>. QED BY <3>1, <3>2
  <2>5. cgen'[p] = 0
    <3>1. made[p] = <<>> /\ cgen[p] <= Gen(p) /\ cgen[p] \in Nat
      BY <1>1, <2>1 DEF StoreInv, FlagTypes, Phase, Fresh
    <3>2. Gen(p) = 0
      BY <3>1 DEF Gen
    <3>. QED BY <2>2, <3>1, <3>2
  <2>6. PICK l \in Seq(Made') : l = start'[p].log
    BY <1>2 DEF Logs
  <2>7. ChangesIn(p, "talk", 0, 0)' = <<>>
    <3>1. PICK z \in Nat : z = 0
      OBVIOUS
    <3>2. ChangesIn(p, "talk", z, z) = <<>>
      BY ChangesInNone
    <3>3. (z + 1)..z = {}
      BY <3>1
    <3>4. Those(p, "talk", z, z) = {} /\ Those(p, "talk", z, z)' = {}
      BY <3>3 DEF Those
    <3>. QED BY <3>1, <3>2, <3>4 DEF ChangesIn
  <2>8. l \o <<>> = l
    OBVIOUS
  <2>9. Reach(p, cgen[p])' = l
    BY <2>5, <2>6, <2>7, <2>8 DEF Reach
  <2>. QED BY <2>2, <2>4, <2>6, <2>9 DEF Knowing
<1>. QED BY <1>6, <1>7

\* A process that knows the database leaves a file that fits it.
LEMMA LeftFits ==
    ASSUME StoreInv, NEW p \in Procs, Knowing(p), NEW e, e = SpillEntryOf(p), NEW r, r.log = db.log, r.flush = db.flush
    PROVE  r.log = Reach(p, cgen[p]) \/ FlyIn(r, e)
<1>1. CASE fly[p] # 0 /\ db.flush = <<p, fly[p]>>
  <2>1. MadeTrue /\ Logs /\ Gen(p) \in Nat
    BY LogsThen, MadeIs
  <2>2. PICK f \in 0..Gen(p) : f = fly[p]
    BY <1>1, <2>1 DEF StoreInv, FlagTypes, Phase
  <2>3. p # 0
    BY ProcsNat DEF ProcsAreNat
  <2>4. RowTrue(db)
    BY <1>1, <2>3 DEF StoreInv, WritesTrue, Blank
  <2>5. db.log = Reach(p, f)
    BY <1>1, <2>2, <2>4 DEF RowTrue, WriterGen
  <2>6. LastSeq(p, f) = Len(Reach(p, f))
    BY <2>1, ReachIs
  <2>7. Snap(p).id = <<p, f>> /\ Snap(p).last = LastSeq(p, f)
    BY <2>2 DEF Snap
  <2>8. e.fly = <<Snap(p)>>
    BY <1>1 DEF SpillEntryOf
  <2>9. e.fly # <<>> /\ e.fly[1] = Snap(p)
    BY <2>8
  <2>. QED BY <1>1, <2>2, <2>5, <2>6, <2>7, <2>9 DEF FlyIn, Known
<1>. QED BY <1>1 DEF Knowing

LEMMA FileFitsKept ==
    ASSUME LoneInv, [Next]_vars
    PROVE  FileFits'
<1>1. /\ StoreInv /\ EntriesTrue /\ Calm /\ Alone /\ LimboOf /\ UpKnows /\ FileFits /\ \A p \in Procs : Idle(p)
  BY DEF LoneInv, RememberInv, LogInv, KeptInv, QueuesInv, OneByOne, Calm
<1>2. MadeTrue /\ Logs /\ MadeTrue' /\ Grows /\ FilesMove
  BY <1>1, StepBasics, FilesMoveAre
<1>3. SUFFICES ASSUME files' # <<>>, Clean(Entry.id[1])' PROVE Fitting(Entry)'
  BY DEF FileFits
<1>4. PICK r : r = db'
  OBVIOUS
<1>5. CASE files = <<>>
  <2>1. PICK p \in Procs : Exit(p) /\ Alive(p)
    <3>1. ASSUME NEW p \in Procs, FileDone(p) PROVE FALSE
      <4>1. todo[p] > 0
        BY <1>1, <3>1 DEF FileDone, StoreInv, Phase
      <4>. QED BY <1>1, <1>5, <4>1, EntryIs
    <3>. QED BY <1>2, <1>3, <1>5, <3>1 DEF FilesMove
  <2>2. PICK e : e = SpillEntryOf(p) /\ Entry' = e
    BY <1>1, <1>3, <2>1, FileLeft
  <2>3. e.id[1] = p
    BY <2>2 DEF SpillEntryOf
  <2>4. Clean(p)
    <3>1. Clean(p)'
      BY <1>3, <2>2, <2>3 DEF Clean
    <3>. QED BY <1>1, <3>1, CleanWas
  <2>5. Knowing(p)
    BY <1>1, <2>1, <2>4 DEF UpKnows
  <2>6. r.log = db.log /\ r.flush = db.flush
    <3>1. pcRun[p] \in Seq(Made) /\ db \in Rows
      BY <1>1 DEF StoreInv, DiskTypes
    <3>2. r = db \/ r = Stepped(db, pcRun[p])
      BY <1>4, <2>1 DEF Exit, Leave
    <3>. QED BY <1>2, <3>1, <3>2, SteppedIs
  <2>7. r.log = Reach(p, cgen[p]) \/ FlyIn(r, e)
    BY <1>1, <2>2, <2>5, <2>6, LeftFits
  <2>8. Reach(p, cgen[p])' = Reach(p, cgen[p])
    <3>1. made' = made /\ cgen' = cgen /\ start' = start
      BY <2>1 DEF Exit, Leave
    <3>. QED BY <3>1 DEF Reach, ChangesIn, Those
  <2>. QED BY <1>4, <2>2, <2>3, <2>7, <2>8 DEF Fitting, FlyIn
<1>6. CASE files # <<>>
  <2>1. files' = files
    BY <1>1, <1>3, <1>6, FileStays
  <2>2. PICK e : e = Entry
    OBVIOUS
  <2>3. /\ Entry' = e /\ e \in Entries /\ EntryTrue(e) /\ life[e.id[1]] = "exited" /\ e.id[1] \in Procs
        /\ 1 \in DOMAIN files
    BY <1>1, <1>6, <2>1, <2>2, EntryNow DEF Entry
  <2>4. PICK q \in Procs : q = e.id[1] /\ life[q] = "exited"
    BY <2>3
  <2>5. Clean(q)
    <3>1. Clean(q)'
      BY <1>3, <2>3, <2>4 DEF Clean
    <3>. QED BY <1>1, <3>1, CleanWas
  <2>6. db.log = Reach(q, cgen[q]) \/ FlyIn(db, e) \/ Replayed(db, e)
    BY <1>1, <1>6, <2>2, <2>4, <2>5 DEF FileFits, Fitting
  <2>7. Reach(q, cgen[q])' = Reach(q, cgen[q])
    <3>1. PICK c \in 0..Gen(q) : c = cgen[q]
      BY <1>1, <1>2, MadeIs DEF StoreInv, FlagTypes, Phase
    <3>2. cgen'[q] = cgen[q] /\ life[q] \notin Fresh
      BY <1>2, <2>4 DEF Grows, Over, Fresh
    <3>3. Reach(q, c)' = Reach(q, c)
      BY <1>2, <3>2, ReachKept
    <3>. QED BY <3>1, <3>2, <3>3 DEF Reach
  <2>8. SUFFICES r.log = Reach(q, cgen[q]) \/ FlyIn(r, e) \/ Replayed(r, e)
    BY <1>4, <2>3, <2>4, <2>7 DEF Fitting, FlyIn, Replayed
  <2>9. CASE r.log = db.log /\ r.flush = db.flush
    BY <2>6, <2>9, SameFits
  <2>10. CASE limbo # <<>> /\ r = limbo[1]
    <3>1. r \in Rows /\ RowTrue(r) /\ PendingOf(r) /\ 1 \in DOMAIN limbo
      BY <1>1, <2>10, PendingRow
    <3>2. PICK w \in Procs : w = r.flush[1]
      BY <3>1 DEF RowTrue
    <3>3. ~Alive(w)
      BY <1>1, <1>6 DEF Alone
    <3>4. w <= q
      BY <1>1, <2>2, <2>3, <2>4, <2>10, <3>1, <3>2 DEF Alone, Entry
    <3>5. w # q => w \in 1..(q - 1)
      <4>1. w \in Nat /\ q \in Nat /\ w # 0
        BY ProcsNat DEF ProcsAreNat
      <4>. QED BY <3>4, <4>1
    <3>6. life[w] # "killed"
      BY <2>4, <2>5, <3>5 DEF Clean
    <3>7. FileOf(w, r.flush)
      BY <3>1, <3>2, <3>3, <3>6 DEF PendingOf
    <3>8. e.fly # <<>> /\ r.flush = e.fly[1].id
      BY <2>2, <3>7 DEF FileOf
    <3>. QED BY <1>1, <2>3, <3>1, <3>8, FlyKnown
  <2>11. CASE Writes(r)
    <3>1. \A p \in Procs : ~Alive(p)
      BY <1>1, <1>6 DEF Alone
    <3>2. r = Written(db, RestOf(db, Entry))
      BY <2>11, <3>1 DEF Writes
    <3>3. r.flush = e.id
      BY <2>2, <3>2 DEF Written, RestOf
    <3>. QED BY <3>3 DEF Replayed
  <2>. QED BY <1>1, <1>4, <2>9, <2>10, <2>11, LogMoves
<1>. QED BY <1>5, <1>6

\* The database never answers a process that knows it with a conflict.
LEMMA FlushAgrees ==
    ASSUME StoreInv, UpKnows, NEW p \in Procs, Clean(p)
    PROVE  ~FlushConflicts(p)
<1>1. SUFFICES ASSUME FlushConflicts(p) PROVE FALSE
  OBVIOUS
<1>2. Alive(p) /\ run[p] = "sent" /\ ~Known(db, Snap(p)) /\ ~Fits(db, Snap(p))
  BY <1>1 DEF FlushConflicts, Attempted
<1>3. MadeTrue /\ Logs /\ Gen(p) \in Nat
  BY LogsThen, MadeIs
<1>4. PICK f \in 0..Gen(p) : f = fly[p] /\ f # 0
  BY <1>2, <1>3 DEF StoreInv, FlagTypes, Phase
<1>5. PICK c \in 0..Gen(p) : c = cgen[p]
  BY <1>3 DEF StoreInv, FlagTypes, Phase
<1>6. LastSeq(p, f) = Len(Reach(p, f)) /\ LastSeq(p, c) = Len(Reach(p, c))
  BY <1>3, ReachIs
<1>7. Snap(p).id = <<p, f>> /\ Snap(p).last = LastSeq(p, f) /\ Snap(p).base = LastSeq(p, c)
  BY <1>4, <1>5 DEF Snap
<1>8. ASSUME db.flush = <<p, f>> PROVE FALSE
  <2>1. p # 0
    BY ProcsNat DEF ProcsAreNat
  <2>2. RowTrue(db)
    BY <1>8, <2>1 DEF StoreInv, WritesTrue, Blank
  <2>3. db.log = Reach(p, f)
    BY <1>4, <1>8, <2>2 DEF RowTrue, WriterGen
  <2>. QED BY <1>2, <1>6, <1>7, <1>8, <2>3 DEF Known
<1>9. db.log = Reach(p, c)
  BY <1>2, <1>4, <1>5, <1>8 DEF UpKnows, Knowing
<1>. QED BY <1>2, <1>6, <1>7, <1>8, <1>9 DEF Fits

\* Nor does it refuse the file of one.
LEMMA ReplayAgrees ==
    ASSUME StoreInv, EntriesTrue, Alone, FileFits, NEW p \in Procs, Clean(p)
    PROVE  ~ReplayConflicts(p)
<1>1. SUFFICES ASSUME ReplayConflicts(p) PROVE FALSE
  OBVIOUS
<1>2. /\ life[p] = "boot" /\ todo[p] > 0 /\ ~Continues(db, Entry) /\ ~(Replayed(db, Entry) /\ Len(db.log) = Entry.last)
  BY <1>1 DEF ReplayConflicts, Replaying
<1>3. PICK e : e = Entry
  OBVIOUS
<1>4. files # <<>> /\ e \in Entries /\ EntryTrue(e) /\ life[e.id[1]] = "exited" /\ e.id[1] \in Procs
  BY <1>2, <1>3, EntryIs, EntryNow
<1>5. PICK q \in Procs : q = e.id[1] /\ life[q] = "exited"
  BY <1>4
<1>6. Clean(q)
  <2>1. p \notin 1..(q - 1)
    BY <1>2, <1>5 DEF Alone, Over
  <2>2. p \in Nat /\ q \in Nat /\ p # 0 /\ q # 0
    BY ProcsNat DEF ProcsAreNat
  <2>3. q <= p
    BY <2>1, <2>2
  <2>4. ASSUME NEW w \in 1..(q - 1) PROVE life[w] # "killed"
    <3>1. w \in 1..(p - 1)
      BY <2>2, <2>3
    <3>. QED BY <3>1 DEF Clean
  <2>. QED BY <2>4 DEF Clean
<1>7. db.log = Reach(q, cgen[q]) \/ FlyIn(db, e) \/ Replayed(db, e)
  BY <1>3, <1>4, <1>5, <1>6 DEF FileFits, Fitting
<1>8. ~Replayed(db, e)
  <2>1. SUFFICES ASSUME Replayed(db, e) PROVE FALSE
    OBVIOUS
  <2>2. q # 0
    BY ProcsNat DEF ProcsAreNat
  <2>3. RowTrue(db)
    BY <1>5, <2>1, <2>2 DEF Replayed, StoreInv, WritesTrue, Blank
  <2>4. Len(db.log) = e.last
    BY <1>4, <2>1, <2>3, FlyKnown
  <2>. QED BY <1>2, <1>3, <2>1, <2>4
<1>9. db.log = Reach(q, cgen[q]) => Len(db.log) = e.base
  <2>1. MadeTrue /\ Logs /\ Gen(q) \in Nat
    BY LogsThen, MadeIs
  <2>2. PICK c \in 0..Gen(q) : c = cgen[q]
    BY <2>1 DEF StoreInv, FlagTypes, Phase
  <2>3. LastSeq(q, c) = Len(Reach(q, c))
    BY <2>1, ReachIs
  <2>. QED BY <1>4, <1>5, <2>2, <2>3 DEF EntryTrue
<1>. QED BY <1>2, <1>3, <1>7, <1>8, <1>9 DEF Continues

LEMMA ClashMoves ==
    ASSUME StoreInv, [Next]_vars, NEW q \in Procs, clash'[q]
    PROVE  clash[q] \/ FlushConflicts(q)
<1>1. clash \in [Procs -> BOOLEAN]
  BY DEF StoreInv, FlagTypes
<1>2. ASSUME NEW p \in Procs
      PROVE  (\E kind \in left.kinds : Change(p, kind)) \/ Poison(p) \/ Kick(p) \/ FlushCommits(p) \/ FlushKnown(p) \/ FlushFails(p)
               => clash' = clash
  BY DEF Change, Poison, Kick, FlushCommits, FlushKnown, AfterCommit, FlushFails, FlushCut, FlushRejected
<1>3. ASSUME NEW p \in Procs
      PROVE  Retry(p) \/ Channel(p) \/ OnLockLost(p) \/ ReacquireOnce(p) \/ Close(p) \/ Exit(p) \/ Crash(p) => clash' = clash
  BY DEF Retry, Channel, PumpPoisoned, PoisonedWritten, PoisonedCut, OnLockLost, ReacquireOnce, Close, Exit, Crash, Leave
<1>4. ASSUME NEW p \in Procs
      PROVE  Boot(p) \/ Replay(p) \/ ReplayFails(p) \/ FileDone(p) \/ Install(p) => clash' = clash
  BY DEF Boot, Replay, ReplayApplies, ReplaySkips, ReplayedTo, ReplayConflicts, ReplayFails, ReplayCut, ReplayRejected, Refuse,
         FileDone, Install
<1>5. LimboEnds \/ UNCHANGED vars => clash' = clash
  BY DEF LimboEnds, vars
<1>6. ASSUME NEW p \in Procs, FlushConflicts(p) PROVE clash[q] \/ FlushConflicts(q)
  <2>1. clash' = [clash EXCEPT ![p] = TRUE]
    BY <1>6 DEF FlushConflicts
  <2>. QED BY <1>1, <1>6, <2>1
<1>. QED BY <1>2, <1>3, <1>4, <1>5, <1>6 DEF Next, Flush

LEMMA LoneWriterKept ==
    ASSUME LoneInv, [Next]_vars
    PROVE  LoneWriterIsSafe'
<1>1. StoreInv /\ EntriesTrue /\ Alone /\ UpKnows /\ FileFits /\ LoneWriterIsSafe
  BY DEF LoneInv, RememberInv, LogInv, KeptInv, OneByOne, Calm
<1>2. LifeMoves
  BY <1>1, LifeMovesAre
<1>3. SUFFICES ASSUME NEW p \in Procs, clash'[p] \/ life'[p] = "blocked", Clean(p)' PROVE FALSE
  BY DEF LoneWriterIsSafe, Clean
<1>4. Clean(p)
  BY <1>1, <1>3, CleanWas
<1>5. ~clash[p] /\ life[p] # "blocked"
  BY <1>1, <1>4 DEF LoneWriterIsSafe, Clean
<1>6. ~clash'[p]
  BY <1>1, <1>4, <1>5, ClashMoves, FlushAgrees
<1>7. life'[p] # "blocked"
  <2>1. ~ReplayConflicts(p)
    BY <1>1, <1>4, ReplayAgrees
  <2>. QED BY <1>2, <1>5, <2>1 DEF LifeMoves
<1>. QED BY <1>3, <1>6, <1>7

LEMMA LoneStep ==
    ASSUME LoneInv, [Next]_vars
    PROVE  LoneInv'
<1>1. /\ StoreInv /\ RememberInv /\ Sound /\ LimboOf /\ Alone /\ Calm /\ DeleteQuiet /\ StampsFlush /\ \A p \in Procs : Idle(p)
  BY DEF LoneInv, RememberInv, LogInv, KeptInv, QueuesInv, OneByOne, Calm, BootsTrue
<1>2. RememberInv' /\ Sound' /\ LimboOf'
  BY <1>1, RememberStep, SoundKept, LimboOfKept
<1>3. UpKnows' /\ BootAt' /\ FileFits' /\ LoneWriterIsSafe'
  BY UpKnowsKept, BootAtKept, FileFitsKept, LoneWriterKept
<1>. QED BY <1>2, <1>3 DEF LoneInv

\* Of the bounds, besides: no data error.
NoRejects == \A plan \in Plans : plan.faults["reject"] = 0

LEMMA LoneInit == ASSUME StopsInOrder, NoRejects, Init PROVE LoneInv
<1>1. RememberInv
  BY RememberInit
<1>2. Sound
  BY DEF NoRejects, Init, Sound
<1>3. DOMAIN limbo = {} /\ files = <<>> /\ \A p \in Procs : life[p] = "off" /\ ~clash[p]
  BY DEF Init
<1>4. LimboOf /\ UpKnows /\ BootAt /\ FileFits /\ LoneWriterIsSafe
  BY <1>3 DEF LimboOf, UpKnows, Alive, BootAt, FileFits, LoneWriterIsSafe
<1>. QED BY <1>1, <1>2, <1>4 DEF LoneInv

\* Processes that stop in order and start one after the other never meet a conflict: no flush of theirs
\* is answered with one and none is kept from starting by a file (store/pg-backend.ts doFlush,
\* replaySpillChannel), and they forget nothing.
THEOREM StopsAreSafeHolds == StopsInOrder /\ NoRejects => (Spec => []StopsAreSafe)
<1>. SUFFICES ASSUME StopsInOrder, NoRejects PROVE Spec => []StopsAreSafe
  OBVIOUS
<1>1. Init => LoneInv
  BY LoneInit
<1>2. LoneInv /\ [Next]_vars => LoneInv'
  BY LoneStep
<1>3. LoneInv => StopsAreSafe
  BY RememberedAll DEF LoneInv, StopsAreSafe
<1>. QED BY <1>1, <1>2, <1>3, PTL DEF Spec
=============================================================================
