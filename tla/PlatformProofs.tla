--------------------------- MODULE PlatformProofs ---------------------------
(***************************************************************************)
(* Theorems about the counters of replies, the removal of sandboxes, the   *)
(* nightly purge, refunds and quotes.  They share no state: each component *)
(* has its own invariant.                                                  *)
(***************************************************************************)
EXTENDS UsageCounters, SandboxReaper, PurgeHold, Refunds, Quotes, FiniteSetTheorems, TLAPS

-----------------------------------------------------------------------------
(***************************************************************************)
(* UsageCounters.  The month's count of AI replies is exact: for any       *)
(* number of months, replies, batches, failures, polls and crashes.        *)
(***************************************************************************)

Counts == [Month -> Nat]
LimitType == [month : Month, base : Nat, local : Nat, used : Nat]
PollType == [month : Nat, read : BOOLEAN, base : Nat]

UsageTypes ==
    /\ month \in Month
    /\ acc \in Counts /\ batch \in Counts /\ db \in Counts /\ persisted \in Counts
    /\ made \in Counts /\ doubled \in Counts
    /\ limits \in LimitType /\ poll \in PollType

\* Every reply is in the accumulator, in the batch or in the database, and in
\* one of them only, but for the batches that landed without an answer.
Balanced(m) ==
    /\ db[m] + acc[m] + (IF turn = "landed" THEN 0 ELSE batch[m]) = made[m] + doubled[m]
    /\ persisted[m] + (IF turn = "landed" THEN batch[m] ELSE 0) <= db[m]
    /\ turn \notin {"flush", "landed"} => batch[m] = 0

\* What this process made of a month, and nothing of a month to come.
LocalIs(m, n) == n = acc[m] + batch[m] + persisted[m]
NothingYet(m) == made[m] = 0 /\ doubled[m] = 0 /\ acc[m] = 0 /\ batch[m] = 0 /\ persisted[m] = 0

Exact(m, n) == made[m] <= n /\ n <= made[m] + doubled[m]

LimitsAgree ==
    /\ limits.month <= month
    /\ LocalIs(limits.month, limits.local)
    /\ limits.used = limits.base + limits.local
    /\ known => Exact(limits.month, limits.used)

\* What a poll has read stays true until it lands: it has the turn.
PollAgrees ==
    poll.read =>
        /\ turn = "read" /\ poll.month \in Month
        /\ poll.base + persisted[poll.month] = db[poll.month]

PollIsOfAMonth == poll.month # 0 => poll.month \in Month

UsageInv ==
    /\ UsageTypes /\ LimitsAgree /\ PollAgrees /\ PollIsOfAMonth
    /\ \A m \in Month : Balanced(m) /\ (m > limits.month => NothingYet(m))

-----------------------------------------------------------------------------
(* Counts per month *)

LEMMA PlusCounts ==
    ASSUME NEW f \in Counts, NEW g \in Counts
    PROVE  Plus(f, g) \in Counts /\ \A m \in Month : Plus(f, g)[m] = f[m] + g[m]
  BY DEF Plus, Counts

LEMMA ZeroCounts == Zero \in Counts /\ \A m \in Month : Zero[m] = 0
  BY DEF Zero, Counts

LEMMA OneMore ==
    ASSUME NEW f \in Counts, NEW k \in Month
    PROVE  LET g == [f EXCEPT ![k] = @ + 1]
           IN  g \in Counts /\ \A m \in Month : g[m] = IF m = k THEN f[m] + 1 ELSE f[m]
  BY DEF Counts

\* How NoteReply and PollLands change the counters.
SetLocal(l, n, u) == [l EXCEPT !.local = n, !.used = u]
SetBase(l, b, u) == [l EXCEPT !.base = b, !.used = u]

LEMMA SetsLocal ==
    ASSUME NEW l \in LimitType, NEW n \in Nat, NEW u \in Nat
    PROVE  SetLocal(l, n, u) = [month |-> l.month, base |-> l.base, local |-> n, used |-> u]
<1> DEFINE new == SetLocal(l, n, u)
<1>1. new \in LimitType /\ new.month = l.month /\ new.base = l.base /\ new.local = n /\ new.used = u
    BY DEF LimitType, SetLocal
<1> HIDE DEF new
<1>2. new = [month |-> l.month, base |-> l.base, local |-> n, used |-> u]
    BY <1>1 DEF LimitType
<1> QED BY <1>2 DEF new

LEMMA SetsBase ==
    ASSUME NEW l \in LimitType, NEW b \in Nat, NEW u \in Nat
    PROVE  SetBase(l, b, u) = [month |-> l.month, base |-> b, local |-> l.local, used |-> u]
<1> DEFINE new == SetBase(l, b, u)
<1>1. new \in LimitType /\ new.month = l.month /\ new.base = b /\ new.local = l.local /\ new.used = u
    BY DEF LimitType, SetBase
<1> HIDE DEF new
<1>2. new = [month |-> l.month, base |-> b, local |-> l.local, used |-> u]
    BY <1>1 DEF LimitType
<1> QED BY <1>2 DEF new

\* rollMonth: the counters of a new month start from nothing, which is exact.
LEMMA Rolls ==
    ASSUME UsageInv
    PROVE  /\ Rolled \in LimitType /\ Rolled.month = month
           /\ LocalIs(month, Rolled.local) /\ Rolled.used = Rolled.base + Rolled.local
           /\ KnownNow => Exact(month, Rolled.used)
           /\ \A m \in Month : m > month => NothingYet(m)
<1>0. month \in Month /\ limits \in LimitType /\ limits.month \in Month /\ limits.month <= month
    BY DEF UsageInv, UsageTypes, LimitsAgree, LimitType
<1>1. \A m \in Month : m > month => m > limits.month
    BY <1>0 DEF Month
<1>2. CASE limits.month = month
  <2>1. Rolled = limits /\ (KnownNow => known)
    BY <1>2 DEF Rolled, KnownNow
  <2> QED BY <1>0, <1>1, <1>2, <2>1 DEF UsageInv, LimitsAgree
<1>3. CASE limits.month # month
  <2>1. Rolled = Fresh(month)
    BY <1>3 DEF Rolled
  <2>2. Rolled \in LimitType /\ Rolled.month = month /\ Rolled.base = 0 /\ Rolled.local = 0 /\ Rolled.used = 0
    BY <1>0, <2>1 DEF Fresh, LimitType
  <2>3. NothingYet(month)
    BY <1>0, <1>3 DEF UsageInv, Month
  <2>4. LocalIs(month, 0) /\ Exact(month, 0)
    BY <2>3 DEF NothingYet, LocalIs, Exact
  <2> QED BY <1>1, <2>2, <2>4 DEF UsageInv
<1> QED BY <1>2, <1>3

-----------------------------------------------------------------------------

LEMMA UsageInvInit == UsageInit => UsageInv
<1> SUFFICES ASSUME UsageInit PROVE UsageInv
    OBVIOUS
<1>0. 1 \in Month
    BY UsageAssumption DEF Month
<1> DEFINE D == [Zero EXCEPT ![1] = 1]
<1>1. D \in Counts /\ \A m \in Month : D[m] = IF m = 1 THEN 1 ELSE 0
    BY <1>0, ZeroCounts DEF Counts
<1>2. month = 1 /\ acc = Zero /\ batch = Zero /\ persisted = Zero /\ turn = "nobody"
      /\ db = D /\ made = D /\ limits = Fresh(1) /\ poll = NoPoll /\ ~known /\ doubled = Zero
    BY DEF UsageInit
<1> HIDE DEF D
<1>3. limits \in LimitType /\ limits.month = 1 /\ limits.base = 0 /\ limits.local = 0 /\ limits.used = 0
    BY <1>0, <1>2 DEF Fresh, LimitType
<1>4. poll \in PollType /\ ~poll.read /\ poll.month = 0
    BY <1>2 DEF NoPoll, PollType
<1>5. UsageTypes
    BY <1>0, <1>1, <1>2, <1>3, <1>4, ZeroCounts DEF UsageTypes
<1>6. LimitsAgree
    BY <1>0, <1>2, <1>3, ZeroCounts DEF LimitsAgree, LocalIs
<1>7. PollAgrees /\ PollIsOfAMonth
    BY <1>4 DEF PollAgrees, PollIsOfAMonth
<1>8. ASSUME NEW m \in Month PROVE Balanced(m) /\ (m > limits.month => NothingYet(m))
    BY <1>1, <1>2, <1>3, ZeroCounts DEF Balanced, NothingYet
<1> QED BY <1>5, <1>6, <1>7, <1>8 DEF UsageInv

-----------------------------------------------------------------------------
(* Each step keeps it *)

LEMMA MonthTurnsKeepsInv ==
    ASSUME UsageInv, MonthTurns
    PROVE  UsageInv'
<1>1. month' \in Month /\ month' = month + 1
    BY UsageAssumption DEF MonthTurns, UsageInv, UsageTypes, Month
<1>2. UNCHANGED <<acc, batch, db, persisted, turn, limits, poll, known, made, doubled>>
    BY DEF MonthTurns
<1>3. UsageTypes'
    BY <1>1, <1>2 DEF UsageInv, UsageTypes
<1>4. LimitsAgree'
  <2>1. limits.month \in Nat /\ month \in Nat /\ limits.month <= month
      BY DEF UsageInv, UsageTypes, LimitsAgree, LimitType, Month
  <2>2. limits.month <= month + 1
      BY <2>1
  <2> QED BY <1>1, <1>2, <2>2 DEF UsageInv, LimitsAgree, LocalIs, Exact
<1>5. PollAgrees' /\ PollIsOfAMonth'
    BY <1>2 DEF UsageInv, PollAgrees, PollIsOfAMonth
<1>6. \A m \in Month : (Balanced(m) /\ (m > limits.month => NothingYet(m)))'
    BY <1>2 DEF UsageInv, Balanced, NothingYet
<1> QED BY <1>3, <1>4, <1>5, <1>6 DEF UsageInv

LEMMA NoteReplyKeepsInv ==
    ASSUME UsageInv, NoteReply
    PROVE  UsageInv'
<1>0. month \in Month /\ acc \in Counts /\ made \in Counts /\ Rolled \in LimitType
      /\ Rolled.base \in Nat /\ Rolled.local \in Nat /\ Rolled.used \in Nat
    BY Rolls DEF UsageInv, UsageTypes, LimitType
<1>1. acc' = [acc EXCEPT ![month] = @ + 1] /\ made' = [made EXCEPT ![month] = @ + 1]
      /\ known' = KnownNow
      /\ UNCHANGED <<month, batch, db, persisted, turn, poll, doubled>>
    BY DEF NoteReply
<1>2. /\ acc' \in Counts /\ made' \in Counts
      /\ \A m \in Month : acc'[m] = IF m = month THEN acc[m] + 1 ELSE acc[m]
      /\ \A m \in Month : made'[m] = IF m = month THEN made[m] + 1 ELSE made[m]
    BY <1>0, <1>1, OneMore
<1>3. /\ limits' \in LimitType /\ limits'.month = month /\ limits'.base = Rolled.base
      /\ limits'.local = Rolled.local + 1 /\ limits'.used = Rolled.base + Rolled.local + 1
  <2> DEFINE n == Rolled.local + 1
             u == Rolled.base + Rolled.local + 1
  <2>1. limits' = SetLocal(Rolled, n, u)
    BY DEF NoteReply, SetLocal
  <2>2. n \in Nat /\ u \in Nat
    BY <1>0
  <2>3. Rolled.month = month
    BY Rolls
  <2> HIDE DEF n, u
  <2>4. limits' = [month |-> Rolled.month, base |-> Rolled.base, local |-> n, used |-> u]
    BY <1>0, <2>1, <2>2, SetsLocal
  <2>5. /\ limits' \in LimitType /\ limits'.month = month /\ limits'.base = Rolled.base
        /\ limits'.local = n /\ limits'.used = u
    BY <1>0, <2>2, <2>3, <2>4 DEF LimitType
  <2> QED BY <2>5 DEF n, u
<1>4. UsageTypes'
    BY <1>1, <1>2, <1>3 DEF UsageInv, UsageTypes
<1>5. LocalIs(month, Rolled.local) /\ (KnownNow => Exact(month, Rolled.used))
      /\ Rolled.used = Rolled.base + Rolled.local
      /\ \A m \in Month : m > month => NothingYet(m)
    BY Rolls
<1>6. /\ acc[month] \in Nat /\ batch[month] \in Nat /\ persisted[month] \in Nat
      /\ made[month] \in Nat /\ doubled[month] \in Nat
    BY DEF UsageInv, UsageTypes, Counts
<1>7. LimitsAgree'
  <2>1. LocalIs(limits.month, limits.local)'
    BY <1>0, <1>1, <1>2, <1>3, <1>5, <1>6 DEF LocalIs
  <2>2. (known => Exact(limits.month, limits.used))'
    BY <1>0, <1>1, <1>2, <1>3, <1>5, <1>6 DEF Exact
  <2>3. month' = month /\ month <= month
    BY <1>0, <1>1 DEF Month
  <2>4. limits'.used = limits'.base + limits'.local
    BY <1>0, <1>3
  <2> QED BY <1>3, <2>1, <2>2, <2>3, <2>4 DEF LimitsAgree
<1>8. PollAgrees' /\ PollIsOfAMonth'
    BY <1>1 DEF UsageInv, PollAgrees, PollIsOfAMonth
<1>9. ASSUME NEW m \in Month PROVE (Balanced(m) /\ (m > limits.month => NothingYet(m)))'
  <2>1. /\ acc[m] \in Nat /\ batch[m] \in Nat /\ persisted[m] \in Nat
        /\ made[m] \in Nat /\ doubled[m] \in Nat /\ db[m] \in Nat
    BY DEF UsageInv, UsageTypes, Counts
  <2>2. Balanced(m)'
    BY <1>1, <1>2, <2>1 DEF UsageInv, Balanced
  <2>3. m > month => m # month
    BY <1>0 DEF Month
  <2>4. (m > limits.month => NothingYet(m))'
    BY <1>1, <1>2, <1>3, <1>5, <2>3 DEF NothingYet
  <2> QED BY <2>2, <2>4
<1> QED BY <1>4, <1>7, <1>8, <1>9 DEF UsageInv

\* The turn: what a batch moves stays balanced, and no poll has read meanwhile.
LEMMA FlushKeepsInv ==
    ASSUME UsageInv, FlushTakes \/ FlushLands \/ FlushNoted \/ FlushThrows
    PROVE  UsageInv'
<1>0. /\ acc \in Counts /\ batch \in Counts /\ db \in Counts /\ persisted \in Counts
      /\ made \in Counts /\ doubled \in Counts
    BY DEF UsageInv, UsageTypes
<1>1. UNCHANGED <<month, limits, poll, known, made>>
    BY DEF FlushTakes, FlushLands, FlushNoted, FlushThrows
<1>2. ~poll.read
    BY DEF FlushTakes, FlushLands, FlushNoted, FlushThrows, UsageInv, PollAgrees
<1>3. limits.month \in Month
    BY DEF UsageInv, UsageTypes, LimitType
<1>n. ASSUME NEW m \in Month
      PROVE  /\ acc[m] \in Nat /\ batch[m] \in Nat /\ persisted[m] \in Nat
             /\ made[m] \in Nat /\ doubled[m] \in Nat /\ db[m] \in Nat
    BY <1>0 DEF Counts
<1>4. ASSUME /\ acc' \in Counts /\ batch' \in Counts /\ db' \in Counts /\ persisted' \in Counts
             /\ doubled' \in Counts,
             \A m \in Month :
                /\ Balanced(m)'
                /\ acc'[m] + batch'[m] + persisted'[m] = acc[m] + batch[m] + persisted[m]
                /\ doubled'[m] >= doubled[m]
                /\ NothingYet(m) => NothingYet(m)'
      PROVE  UsageInv'
  <2>1. UsageTypes'
    BY <1>0, <1>1, <1>4 DEF UsageInv, UsageTypes
  <2>2. LimitsAgree'
    <3>1. LocalIs(limits.month, limits.local)'
      BY <1>1, <1>3, <1>4 DEF UsageInv, LimitsAgree, LocalIs
    <3>2. (known => Exact(limits.month, limits.used))'
      <4>1. SUFFICES ASSUME known PROVE Exact(limits.month, limits.used)'
        BY <1>1
      <4>2. Exact(limits.month, limits.used)
        BY <4>1 DEF UsageInv, LimitsAgree
      <4>3. doubled'[limits.month] \in Nat /\ limits.used \in Nat
        BY <1>3, <1>4 DEF Counts, UsageInv, UsageTypes, LimitType
      <4> QED BY <1>1, <1>3, <1>4, <1>n, <4>2, <4>3 DEF Exact
    <3> QED BY <1>1, <3>1, <3>2 DEF UsageInv, LimitsAgree
  <2>3. PollAgrees' /\ PollIsOfAMonth'
    BY <1>1, <1>2 DEF UsageInv, PollAgrees, PollIsOfAMonth
  <2> QED BY <1>1, <1>4, <2>1, <2>2, <2>3 DEF UsageInv
<1>5. CASE FlushTakes
  <2>1. turn = "nobody" /\ turn' = "flush" /\ batch' = acc /\ acc' = Zero
        /\ UNCHANGED <<db, persisted, doubled>>
    BY <1>5 DEF FlushTakes
  <2>2. ASSUME NEW m \in Month
        PROVE  /\ Balanced(m)'
               /\ acc'[m] + batch'[m] + persisted'[m] = acc[m] + batch[m] + persisted[m]
               /\ doubled'[m] >= doubled[m]
               /\ NothingYet(m) => NothingYet(m)'
    <3>1. acc'[m] = 0 /\ batch'[m] = acc[m] /\ batch[m] = 0
      BY <2>1, ZeroCounts DEF UsageInv, Balanced
    <3> QED BY <1>1, <1>n, <2>1, <3>1 DEF UsageInv, Balanced, NothingYet
  <2> QED BY <1>0, <1>4, <2>1, <2>2, ZeroCounts
<1>6. CASE FlushLands
  <2>1. turn = "flush" /\ turn' = "landed" /\ db' = Plus(db, batch)
        /\ UNCHANGED <<acc, batch, persisted, doubled>>
    BY <1>6 DEF FlushLands
  <2>2. ASSUME NEW m \in Month
        PROVE  /\ Balanced(m)'
               /\ acc'[m] + batch'[m] + persisted'[m] = acc[m] + batch[m] + persisted[m]
               /\ doubled'[m] >= doubled[m]
               /\ NothingYet(m) => NothingYet(m)'
    <3>1. db'[m] = db[m] + batch[m]
      BY <1>0, <2>1, PlusCounts
    <3> QED BY <1>1, <1>n, <2>1, <3>1 DEF UsageInv, Balanced, NothingYet
  <2> QED BY <1>0, <1>4, <2>1, <2>2, PlusCounts
<1>7. CASE FlushNoted
  <2>1. turn = "landed" /\ turn' = "nobody" /\ persisted' = Plus(persisted, batch) /\ batch' = Zero
        /\ UNCHANGED <<acc, db, doubled>>
    BY <1>7 DEF FlushNoted
  <2>2. ASSUME NEW m \in Month
        PROVE  /\ Balanced(m)'
               /\ acc'[m] + batch'[m] + persisted'[m] = acc[m] + batch[m] + persisted[m]
               /\ doubled'[m] >= doubled[m]
               /\ NothingYet(m) => NothingYet(m)'
    <3>1. persisted'[m] = persisted[m] + batch[m] /\ batch'[m] = 0
      BY <1>0, <2>1, PlusCounts, ZeroCounts
    <3> QED BY <1>1, <1>n, <2>1, <3>1 DEF UsageInv, Balanced, NothingYet
  <2> QED BY <1>0, <1>4, <2>1, <2>2, PlusCounts, ZeroCounts
<1>8. CASE FlushThrows
  <2>1. turn' = "nobody" /\ acc' = Plus(acc, batch) /\ batch' = Zero
        /\ turn \in {"flush", "landed"} /\ UNCHANGED <<db, persisted>>
        /\ doubled' = IF turn = "landed" THEN Plus(doubled, batch) ELSE doubled
    BY <1>8 DEF FlushThrows
  <2>2. ASSUME NEW m \in Month
        PROVE  /\ Balanced(m)'
               /\ acc'[m] + batch'[m] + persisted'[m] = acc[m] + batch[m] + persisted[m]
               /\ doubled'[m] >= doubled[m]
               /\ NothingYet(m) => NothingYet(m)'
    <3>1. acc'[m] = acc[m] + batch[m] /\ batch'[m] = 0
      BY <1>0, <2>1, PlusCounts, ZeroCounts
    <3>2. doubled'[m] = IF turn = "landed" THEN doubled[m] + batch[m] ELSE doubled[m]
      BY <1>0, <2>1, PlusCounts
    <3> QED BY <1>1, <1>n, <2>1, <3>1, <3>2 DEF UsageInv, Balanced, NothingYet
  <2> QED BY <1>0, <1>4, <2>1, <2>2, PlusCounts, ZeroCounts
<1> QED BY <1>5, <1>6, <1>7, <1>8

\* What a poll reads in its turn, and only then, is the database without what
\* this process put there: with its own replies it is the exact count.
LEMMA PollKeepsInv ==
    ASSUME UsageInv, PollBegins \/ PollReads \/ PollLands \/ PollFails
    PROVE  UsageInv'
<1>0. /\ month \in Month /\ limits \in LimitType /\ poll \in PollType
      /\ limits.month \in Month /\ limits.month <= month
      /\ limits.base \in Nat /\ limits.local \in Nat /\ limits.used \in Nat
      /\ poll.month \in Nat /\ poll.base \in Nat
    BY DEF UsageInv, UsageTypes, LimitsAgree, LimitType, PollType
<1>1. UNCHANGED <<month, acc, batch, db, persisted, made, doubled>>
    BY DEF PollBegins, PollReads, PollLands, PollFails
<1>n. ASSUME NEW m \in Month
      PROVE  /\ acc[m] \in Nat /\ batch[m] \in Nat /\ persisted[m] \in Nat
             /\ made[m] \in Nat /\ doubled[m] \in Nat /\ db[m] \in Nat
    BY DEF UsageInv, UsageTypes, Counts
<1>2. ASSUME NEW m \in Month, turn' \in {"nobody", "read"}, turn' # turn => turn \in {"nobody", "read"}
      PROVE  Balanced(m)'
    BY <1>1, <1>2 DEF UsageInv, Balanced
<1>3. ASSUME UNCHANGED turn, NEW m \in Month PROVE Balanced(m)'
    BY <1>1, <1>3 DEF UsageInv, Balanced
<1>4. CASE PollBegins
  <2>1. limits' = Rolled /\ known' = KnownNow /\ UNCHANGED turn
        /\ poll' = [NoPoll EXCEPT !.month = month]
    BY <1>4 DEF PollBegins
  <2>2. poll' \in PollType /\ poll'.month = month /\ ~poll'.read
    <3>1. month \in Nat
      BY <1>0, UsageAssumption DEF Month
    <3>2. poll' = [month |-> month, read |-> FALSE, base |-> 0]
      BY <2>1 DEF NoPoll
    <3> QED BY <3>1, <3>2 DEF PollType
  <2>3. UsageTypes'
    BY <1>1, <2>1, <2>2, Rolls DEF UsageInv, UsageTypes
  <2>4. LimitsAgree'
    <3>1. Rolled.month = month /\ month' = month /\ month <= month
      BY <1>0, <1>1, Rolls DEF Month
    <3>2. LocalIs(limits.month, limits.local)'
      BY <1>1, <2>1, <3>1, Rolls DEF LocalIs
    <3>3. (known => Exact(limits.month, limits.used))'
      BY <1>1, <2>1, <3>1, Rolls DEF Exact
    <3> QED BY <2>1, <3>1, <3>2, <3>3, Rolls DEF LimitsAgree
  <2>5. PollAgrees' /\ PollIsOfAMonth'
    BY <1>0, <2>2 DEF PollAgrees, PollIsOfAMonth
  <2>6. \A m \in Month : (m > limits.month => NothingYet(m))'
    BY <1>1, <2>1, Rolls DEF NothingYet
  <2> QED BY <1>3, <2>1, <2>3, <2>4, <2>5, <2>6 DEF UsageInv
<1>5. ASSUME poll' \in PollType, turn' \in {"nobody", "read"} \/ turn' = turn,
             turn' # turn => turn \in {"nobody", "read"},
             UNCHANGED <<limits, known>>, PollAgrees', PollIsOfAMonth'
      PROVE  UsageInv'
  <2>1. UsageTypes'
    BY <1>1, <1>5 DEF UsageInv, UsageTypes
  <2>2. LimitsAgree'
    BY <1>1, <1>5 DEF UsageInv, LimitsAgree, LocalIs, Exact
  <2>3. \A m \in Month : (m > limits.month => NothingYet(m))'
    BY <1>1, <1>5 DEF UsageInv, NothingYet
  <2>4. \A m \in Month : Balanced(m)'
    BY <1>2, <1>3, <1>5
  <2> QED BY <1>5, <2>1, <2>2, <2>3, <2>4 DEF UsageInv
<1>6. CASE PollReads
  <2> DEFINE b == Less(db[poll.month], persisted[poll.month])
  <2>1. turn = "nobody" /\ turn' = "read" /\ UNCHANGED <<limits, known>>
        /\ poll' = [poll EXCEPT !.read = TRUE, !.base = b]
    BY <1>6 DEF PollReads
  <2>2. poll.month \in Month
    BY <1>6 DEF PollReads, UsageInv, PollIsOfAMonth
  <2>3. b \in Nat /\ b + persisted[poll.month] = db[poll.month]
    BY <1>n, <2>1, <2>2 DEF Less, UsageInv, Balanced
  <2> HIDE DEF b
  <2>4. poll' \in PollType /\ poll'.month = poll.month /\ poll'.base = b
    BY <1>0, <2>1, <2>3 DEF PollType
  <2>5. PollAgrees' /\ PollIsOfAMonth'
    BY <1>1, <2>1, <2>2, <2>3, <2>4 DEF PollAgrees, PollIsOfAMonth
  <2> QED BY <1>5, <2>1, <2>4, <2>5
<1>7. NoPoll \in PollType /\ ~NoPoll.read /\ NoPoll.month = 0
    BY DEF NoPoll, PollType
<1>8. CASE PollFails
  <2>1. poll' = NoPoll /\ UNCHANGED <<limits, known>>
        /\ turn' = IF poll.read THEN "nobody" ELSE turn
    BY <1>8 DEF PollFails
  <2>2. poll.read => turn = "read"
    BY DEF UsageInv, PollAgrees
  <2>3. PollAgrees' /\ PollIsOfAMonth'
    BY <1>7, <2>1 DEF PollAgrees, PollIsOfAMonth
  <2> QED BY <1>5, <1>7, <2>1, <2>2, <2>3
<1>9. CASE PollLands
  <2>1. poll.read /\ turn' = "nobody" /\ poll' = NoPoll
    BY <1>9 DEF PollLands
  <2>2. turn = "read" /\ poll.month \in Month /\ poll.base + persisted[poll.month] = db[poll.month]
    BY <2>1 DEF UsageInv, PollAgrees
  <2>3. PollAgrees' /\ PollIsOfAMonth'
    BY <1>7, <2>1 DEF PollAgrees, PollIsOfAMonth
  <2>4. CASE limits.month = poll.month /\ month = poll.month
    <3>1. limits' = [limits EXCEPT !.base = poll.base, !.used = poll.base + limits.local] /\ known'
      BY <1>9, <2>4 DEF PollLands
    <3>2. limits' = SetBase(limits, poll.base, poll.base + limits.local)
      BY <3>1 DEF SetBase
    <3>3. /\ limits' \in LimitType /\ limits'.month = limits.month /\ limits'.base = poll.base
          /\ limits'.local = limits.local /\ limits'.used = poll.base + limits.local
      <4> DEFINE u == poll.base + limits.local
      <4>1. u \in Nat
        BY <1>0
      <4>2. limits' = SetBase(limits, poll.base, u)
        BY <3>2
      <4> HIDE DEF u
      <4>3. limits' = [month |-> limits.month, base |-> poll.base, local |-> limits.local, used |-> u]
        BY <1>0, <4>1, <4>2, SetsBase
      <4>4. /\ limits' \in LimitType /\ limits'.month = limits.month /\ limits'.base = poll.base
            /\ limits'.local = limits.local /\ limits'.used = u
        BY <1>0, <4>1, <4>3 DEF LimitType
      <4> QED BY <4>4 DEF u
    <3>4. LocalIs(limits.month, limits.local) /\ Balanced(limits.month)
      BY <1>0 DEF UsageInv, LimitsAgree
    <3>5. poll.base + limits.local = made[limits.month] + doubled[limits.month]
      BY <1>0, <1>n, <2>2, <2>4, <3>4 DEF LocalIs, Balanced
    <3>6. LimitsAgree'
      <4>1. LocalIs(limits.month, limits.local)'
        BY <1>1, <3>3, <3>4 DEF LocalIs
      <4>2. Exact(limits.month, limits.used)'
        BY <1>0, <1>1, <1>n, <3>3, <3>5 DEF Exact
      <4> QED BY <1>0, <1>1, <3>3, <4>1, <4>2 DEF LimitsAgree
    <3>7. UsageTypes'
      BY <1>1, <1>7, <2>1, <3>3 DEF UsageInv, UsageTypes
    <3>8. \A m \in Month : (m > limits.month => NothingYet(m))'
      BY <1>1, <3>3 DEF UsageInv, NothingYet
    <3>9. \A m \in Month : Balanced(m)'
      BY <1>2, <2>1, <2>2
    <3> QED BY <2>3, <3>6, <3>7, <3>8, <3>9 DEF UsageInv
  <2>5. CASE ~(limits.month = poll.month /\ month = poll.month)
    <3>1. UNCHANGED <<limits, known>>
      BY <1>9, <2>5 DEF PollLands
    <3> QED BY <1>5, <1>7, <2>1, <2>2, <2>3, <3>1
  <2> QED BY <2>4, <2>5
<1> QED BY <1>4, <1>6, <1>8, <1>9

\* What a crash loses is not counted any more, what landed is.
LEMMA CrashKeepsInv ==
    ASSUME UsageInv, UsageCrash
    PROVE  UsageInv'
<1>1. /\ made' = db /\ db' = db /\ month' = month /\ doubled' = Zero /\ acc' = Zero /\ batch' = Zero
      /\ persisted' = Zero /\ turn' = "nobody" /\ limits' = Fresh(month) /\ poll' = NoPoll /\ ~known'
    BY DEF UsageCrash
<1>2. month \in Month /\ db \in Counts /\ limits.month \in Month /\ limits.month <= month
    BY DEF UsageInv, UsageTypes, LimitsAgree, LimitType
<1>3. limits' \in LimitType /\ limits'.month = month /\ limits'.base = 0 /\ limits'.local = 0 /\ limits'.used = 0
    BY <1>1, <1>2 DEF Fresh, LimitType
<1>4. poll' \in PollType /\ ~poll'.read /\ poll'.month = 0
    BY <1>1 DEF NoPoll, PollType
<1>5. UsageTypes'
    BY <1>1, <1>2, <1>3, <1>4, ZeroCounts DEF UsageTypes
<1>6. LimitsAgree'
  <2>1. month <= month
    BY <1>2 DEF Month
  <2> QED BY <1>1, <1>2, <1>3, <2>1, ZeroCounts DEF LimitsAgree, LocalIs
<1>7. PollAgrees' /\ PollIsOfAMonth'
    BY <1>4 DEF PollAgrees, PollIsOfAMonth
<1>8. ASSUME NEW m \in Month PROVE (Balanced(m) /\ (m > limits.month => NothingYet(m)))'
  <2>1. db[m] \in Nat
    BY <1>2 DEF Counts
  <2>2. Balanced(m)'
    BY <1>1, <2>1, ZeroCounts DEF Balanced
  <2>3. m > month => db[m] = 0
    <3>1. m > month => m > limits.month
      BY <1>2 DEF Month
    <3>2. Balanced(m) /\ (m > month => NothingYet(m))
      BY <3>1 DEF UsageInv
    <3> QED BY <2>1, <3>2 DEF Balanced, NothingYet
  <2>4. (m > limits.month => NothingYet(m))'
    BY <1>1, <1>3, <2>3, ZeroCounts DEF NothingYet
  <2> QED BY <2>2, <2>4
<1> QED BY <1>5, <1>6, <1>7, <1>8 DEF UsageInv

LEMMA UsageInvNext == UsageInv /\ [UsageNext]_usageVars => UsageInv'
<1> SUFFICES ASSUME UsageInv, [UsageNext]_usageVars PROVE UsageInv'
    OBVIOUS
<1>1. CASE UsageNext
    BY <1>1, MonthTurnsKeepsInv, NoteReplyKeepsInv, FlushKeepsInv, PollKeepsInv, CrashKeepsInv DEF UsageNext
<1>2. CASE UNCHANGED usageVars
    BY <1>2 DEF usageVars, UsageInv, UsageTypes, LimitsAgree, PollAgrees, PollIsOfAMonth, Balanced,
                NothingYet, LocalIs, Exact
<1> QED BY <1>1, <1>2

\* Once a baseline is known the month's count is exact, but for batches whose
\* answer was lost, for any number of months, replies, batches, polls, crashes.
THEOREM UsedIsExactHolds == UsageSpec => []UsedIsExact
<1>1. UsageInv => UsedIsExact
    BY DEF UsageInv, LimitsAgree, Exact, UsedIsExact
<1> QED
    BY <1>1, UsageInvInit, UsageInvNext, PTL DEF UsageSpec

-----------------------------------------------------------------------------
(***************************************************************************)
(* SandboxReaper.  However sweeps, ends, failures, lost connections,       *)
(* crashes and starts follow each other, a sandbox is served only under    *)
(* its lock or one lost unnoticed, and its rows are deleted only when      *)
(* nothing of it runs or is still to be written, or by the process that    *)
(* took the lost lock.                                                     *)
(***************************************************************************)

(***************************************************************************)
(* SandboxIsSafe speaks of one step, the deletion; that it is safe there   *)
(* was brought about steps, sweeps and failures earlier.  So the invariant *)
(* says what each stage has achieved for good.                             *)
(***************************************************************************)

\* Where a sweep is tells the stage it is at.
SweepAtStage ==
    /\ stage \in {0, 1, 2, 3, 5, 6}
    /\ sweep = "close" => stage \in {1, 2}
    /\ sweep = "barrier" => stage = 2
    /\ sweep = "flush" => stage = 3
    /\ sweep \in {"acquire", "purge"} => stage = 5
    /\ sweep \in {"release", "finish"} => stage = 6

\* An end that was decided on is not taken back.
EndIsFinal == (saw => tenant # "live") /\ (stage >= 3 => tenant # "live")

\* From the barrier on nothing enters, and behind it nothing runs; from step 5
\* on nothing is left to write.  Without a runtime nothing ever is.
StageIsEarned ==
    /\ sweep = "barrier" => rt # "serving"
    /\ stage >= 3 => rt # "serving" /\ flying = 0
    /\ stage >= 5 => ~usage /\ backend # "open"
    /\ rt = "none" => flying = 0 /\ ~usage /\ backend # "open"

\* What was earned stays so while Postgres still has the purge, even when the
\* process that sent it has started anew.
LimboIsClean ==
    limbo = "open" =>
        tenant # "live" /\ rt # "serving" /\ flying = 0 /\ ~usage /\ backend # "open"

\* A runtime has its lock, or had it when its connection dropped, and the
\* steps up to the flush have a runtime.
LockIsHeld ==
    /\ rt # "none" => lock = "us" \/ cut
    /\ stage \in {1, 2, 3} => rt # "none"
    /\ sweep = "purge" => lock = "us" \/ cut

RInv == SweepAtStage /\ EndIsFinal /\ StageIsEarned /\ LimboIsClean /\ LockIsHeld

-----------------------------------------------------------------------------

LEMMA RInvInit == ReaperInit => RInv
  BY DEF ReaperInit, RInv, SweepAtStage, EndIsFinal, StageIsEarned, LimboIsClean,
         LockIsHeld

\* What goes on beside the sweeps.
LEMMA WorkKeepsRInv ==
    ASSUME RInv,
           Enter \/ Finish \/ WriteUsage \/ Expire \/ VisitorEnds \/ EndCommits \/ EndFails
           \/ OtherTakes \/ OtherPurges \/ OtherLets
    PROVE  RInv'
<1> USE DEF RInv, SweepAtStage, EndIsFinal, StageIsEarned, LimboIsClean, LockIsHeld,
            workVars, lockVars, endVars, Ends
<1>1. CASE Enter BY <1>1 DEF Enter
<1>2. CASE Finish BY <1>2 DEF Finish
<1>3. CASE WriteUsage BY <1>3 DEF WriteUsage
<1>4. CASE Expire BY <1>4 DEF Expire
<1>5. CASE VisitorEnds BY <1>5 DEF VisitorEnds
<1>6. CASE EndCommits BY <1>6 DEF EndCommits
<1>7. CASE EndFails BY <1>7 DEF EndFails
<1>8. CASE OtherLets BY <1>8 DEF OtherLets
<1>9. CASE OtherTakes BY <1>9 DEF OtherTakes
<1>10. CASE OtherPurges BY <1>10 DEF OtherPurges
<1> QED BY <1>1, <1>2, <1>3, <1>4, <1>5, <1>6, <1>7, <1>8, <1>9, <1>10

\* A sweep that begins takes up a stage that was earned, or one that a
\* sandbox without a runtime has by itself.
LEMMA BeginningKeepsRInv ==
    ASSUME RInv, SweepExpired \/ SweepUnexpired \/ SweepRemoved
    PROVE  RInv'
<1> USE DEF RInv, SweepAtStage, EndIsFinal, StageIsEarned, LimboIsClean, LockIsHeld,
            workVars, lockVars, endVars
<1>1. CASE SweepExpired BY <1>1 DEF SweepExpired, TakesUp, From, Registered
<1>2. CASE SweepUnexpired
  <2>1. stage \in {0, 1, 2} /\ tenant = "live" /\ rt # "none"
    BY <1>2 DEF SweepUnexpired
  <2>2. stage' \in {1, 2} /\ sweep' = "close" /\ ~saw'
    BY <1>2, <2>1 DEF SweepUnexpired, TakesUp, From, Registered
  <2>3. rt' # "none" /\ UNCHANGED <<tenant, flying, usage, backend, lock, cut, limbo>>
    BY <1>2, <2>1 DEF SweepUnexpired, Ends
  <2> QED BY <2>1, <2>2, <2>3
<1>3. CASE SweepRemoved BY <1>3 DEF SweepRemoved
<1> QED BY <1>1, <1>2, <1>3

LEMMA StepsKeepRInv ==
    ASSUME RInv,
           Close \/ Barrier \/ BarrierTimesOut \/ Flush \/ FlushFails \/ Acquire \/ Purge
           \/ PurgeFails \/ PurgeUnheard \/ PurgeSettles \/ Release \/ DropFails \/ UnlockFails
    PROVE  RInv'
<1> USE DEF RInv, SweepAtStage, EndIsFinal, StageIsEarned, LimboIsClean, LockIsHeld,
            workVars, lockVars, endVars, Dropped, Releasing, Registered
<1>1. CASE Close BY <1>1 DEF Close
<1>2. CASE Barrier BY <1>2 DEF Barrier, Drained
<1>3. CASE BarrierTimesOut BY <1>3 DEF BarrierTimesOut
<1>4. CASE Flush BY <1>4 DEF Flush
<1>5. CASE FlushFails BY <1>5 DEF FlushFails
<1>6. CASE Acquire BY <1>6 DEF Acquire
<1>7. CASE Purge BY <1>7 DEF Purge
<1>8. CASE PurgeFails BY <1>8 DEF PurgeFails
<1>9. CASE Release BY <1>9 DEF Release
<1>10. CASE DropFails BY <1>10 DEF DropFails
<1>11. CASE UnlockFails BY <1>11 DEF UnlockFails
<1>12. CASE PurgeUnheard BY <1>12 DEF PurgeUnheard
<1>13. CASE PurgeSettles BY <1>13 DEF PurgeSettles, PurgeLands, PurgeDies
<1> QED BY <1>1, <1>2, <1>3, <1>4, <1>5, <1>6, <1>7, <1>8, <1>9, <1>10, <1>11, <1>12, <1>13

LEMMA StartsKeepRInv ==
    ASSUME RInv, LoseLock \/ Crash \/ Notices \/ Load \/ LoadBreaks
    PROVE  RInv'
<1> USE DEF RInv, SweepAtStage, EndIsFinal, StageIsEarned, LimboIsClean, LockIsHeld,
            workVars, lockVars, endVars
<1>1. CASE Crash \/ Notices BY <1>1 DEF Crash, Notices, Dies
<1>2. CASE Load BY <1>2 DEF Load
<1>3. CASE LoadBreaks BY <1>3 DEF LoadBreaks
<1>4. CASE LoseLock BY <1>4 DEF LoseLock
<1> QED BY <1>1, <1>2, <1>3, <1>4

LEMMA RInvNext == RInv /\ [ReaperNext]_reaperVars => RInv'
<1> SUFFICES ASSUME RInv, [ReaperNext]_reaperVars PROVE RInv'
    OBVIOUS
<1>1. CASE ReaperNext
    BY <1>1, WorkKeepsRInv, BeginningKeepsRInv, StepsKeepRInv, StartsKeepRInv
    DEF ReaperNext, SweepStep
<1>2. CASE UNCHANGED reaperVars
    BY <1>2 DEF reaperVars, workVars, lockVars, endVars, RInv, SweepAtStage, EndIsFinal,
                StageIsEarned, LimboIsClean, LockIsHeld
<1> QED BY <1>1, <1>2

\* A purge deletes at the stage that earned it, one whose answer was lost
\* later, and another process a sandbox that this one does not serve, unless
\* it has yet to notice that it lost the lock.
LEMMA DeletesClean ==
    ASSUME RInv, ReaperNext, tenant # "gone", tenant' = "gone"
    PROVE  \/ flying = 0 /\ ~usage /\ backend # "open"
           \/ cut /\ lock = "other" /\ sweep' = sweep /\ limbo # "open"
<1>1. Purge \/ PurgeLands \/ OtherPurges
    BY DEF ReaperNext, SweepStep, SweepExpired, SweepRemoved, Close, Barrier, Flush, Acquire,
        Release, SweepUnexpired, Enter, Finish, WriteUsage, Expire, VisitorEnds, EndCommits,
        EndFails, BarrierTimesOut, FlushFails, PurgeFails, PurgeUnheard, PurgeSettles, PurgeDies,
        DropFails, UnlockFails, LoseLock, OtherTakes, OtherLets, Crash, Notices, Dies, Load,
        LoadBreaks
<1>2. CASE Purge
    BY <1>2 DEF Purge, RInv, SweepAtStage, StageIsEarned
<1>3. CASE PurgeLands
    BY <1>3 DEF PurgeLands, RInv, LimboIsClean
<1>4. CASE OtherPurges
  <2>1. CASE cut
    BY <1>4, <2>1 DEF OtherPurges
  <2>2. CASE ~cut
    BY <1>4, <2>2 DEF OtherPurges, RInv, LockIsHeld, StageIsEarned
  <2> QED BY <2>1, <2>2
<1> QED BY <1>1, <1>2, <1>3, <1>4

\* A sandbox has a runtime, or is purged, only under its lock or one that was
\* lost unnoticed; and it is deleted only when nothing of it runs or is still
\* to be written, or by the process that took the lost lock; after any
\* failures, timeouts, lost connections, unanswered COMMITs and crashes
\* between the six steps of its removal.
THEOREM SandboxIsSafeHolds == ReaperSpec => SandboxIsSafe
<1>1. RInv => ServedUnderLock
    BY DEF RInv, LockIsHeld, ServedUnderLock, Registered
<1>2. RInv /\ [ReaperNext]_reaperVars =>
        [tenant # "gone" /\ tenant' = "gone" =>
            \/ flying = 0 /\ ~usage /\ backend # "open"
            \/ cut /\ lock = "other" /\ sweep' = sweep /\ limbo # "open"]_reaperVars
    BY DeletesClean
<1>3. ReaperSpec => []RInv
    BY RInvInit, RInvNext, PTL DEF ReaperSpec
<1> QED
    BY <1>1, <1>2, <1>3, PTL DEF ReaperSpec, SandboxIsSafe, PurgeIsClean

-----------------------------------------------------------------------------
(***************************************************************************)
(* PurgeHold.  The nightly purge deletes nothing but what it looked at,    *)
(* and no flush finds its row gone by it: for any number of changes,       *)
(* failed commits and stops.                                               *)
(***************************************************************************)

HoldTypes == said \in Nat /\ genAtHold \in Nat

\* A row has its session, and holds what that session believes is saved.
RowIsKnown ==
    /\ ~alive => row = 0 /\ flight = 0
    /\ row # 0 => row = saved

\* The purge works on a row that is there, with the write queue held; what it
\* looked at is the whole conversation as long as nothing was said.
HoldIsTight ==
    /\ purge \in {"candidate", "held", "deleted", "commit"} => row # 0
    /\ purge = "forget" => row = 0
    /\ purge \in {"held", "deleted", "commit", "forget"} => held /\ flight = 0
    /\ purge \in {"held", "deleted", "commit"} =>
        /\ genAtHold <= said
        /\ said = genAtHold => saved = said /\ aged

\* Only a serving process purges, only behind one that gave its lock back does
\* the command erase, and a process that is down has nothing left to write
\* but its spill file.
OneAtATime ==
    /\ purge # "idle" => app = "up"
    /\ cliLock => app # "up"
    /\ erase = "locked" => cliLock
    /\ app \notin {"up", "late"} => flight = 0
    /\ app = "down" /\ spill = "none" /\ alive => saved = said

\* A session whose row is gone behind its back is about to be forgotten.
GoneIsKnown ==
    row = 0 /\ inDb /\ alive /\ (app = "up" \/ flight # 0) =>
        purge = "forget" \/ unanswered \/ erase = "done"

HoldInv == HoldTypes /\ RowIsKnown /\ HoldIsTight /\ OneAtATime /\ GoneIsKnown /\ PurgeStopsNobody

-----------------------------------------------------------------------------

LEMMA HoldInvInit == HoldInit => HoldInv
  BY DEF HoldInit, HoldInv, HoldTypes, RowIsKnown, HoldIsTight, OneAtATime, GoneIsKnown, PurgeStopsNobody

USE DEF HoldInv, HoldTypes, RowIsKnown, HoldIsTight, OneAtATime, GoneIsKnown, PurgeStopsNobody

LEMMA QueueKeepsInv ==
    ASSUME HoldInv, Speak \/ DaysPass \/ Kick \/ FlushEnds
    PROVE  HoldInv'
<1>1. CASE Speak
    BY <1>1 DEF Speak, Runs, rowVars, purgeVars, appVars, cliVars
<1>2. CASE DaysPass
    BY <1>2 DEF DaysPass, purgeVars, appVars, cliVars
<1>3. CASE Kick
    BY <1>3 DEF Kick, Runs, Dirty, rowVars, purgeVars, appVars, cliVars
<1>4. CASE FlushEnds
    BY <1>4 DEF FlushEnds, rowVars, purgeVars, cliVars
<1> QED BY <1>1, <1>2, <1>3, <1>4

LEMMA PurgeKeepsInv ==
    ASSUME HoldInv,
           Candidate \/ PassOver \/ HoldForPurge \/ SqlDeletes \/ PurgeGivesWay \/ StillClean
           \/ PurgeCommits \/ PurgeUnanswered \/ Forget
    PROVE  HoldInv'
<1> USE DEF Runs, Released, rowVars, entryVars, purgeVars, appVars, cliVars
<1>1. CASE Candidate
    BY <1>1 DEF Candidate
<1>2. CASE PassOver
    BY <1>2 DEF PassOver
<1>3. CASE HoldForPurge
    BY <1>3 DEF HoldForPurge, Dirty
<1>4. CASE SqlDeletes
    BY <1>4 DEF SqlDeletes
<1>5. CASE PurgeGivesWay
    BY <1>5 DEF PurgeGivesWay
<1>6. CASE StillClean
    BY <1>6 DEF StillClean
<1>7. CASE PurgeCommits
    BY <1>7 DEF PurgeCommits
<1>8. CASE PurgeUnanswered
    BY <1>8 DEF PurgeUnanswered
<1>9. CASE Forget
    BY <1>9 DEF Forget
<1> QED BY <1>1, <1>2, <1>3, <1>4, <1>5, <1>6, <1>7, <1>8, <1>9

LEMMA StopsKeepInv ==
    ASSUME HoldInv, StopLate \/ Exit \/ Start \/ CheckSpill \/ TakeLock \/ EraseDeletes
    PROVE  HoldInv'
<1> USE DEF rowVars, entryVars, purgeVars, appVars, cliVars
<1>1. CASE StopLate
    BY <1>1 DEF StopLate
<1>2. CASE Exit
    BY <1>2 DEF Exit, Dirty
<1>3. CASE Start
    BY <1>3 DEF Start
<1>4. CASE CheckSpill
    BY <1>4 DEF CheckSpill
<1>5. CASE TakeLock
    BY <1>5 DEF TakeLock
<1>6. CASE EraseDeletes
    BY <1>6 DEF EraseDeletes
<1> QED BY <1>1, <1>2, <1>3, <1>4, <1>5, <1>6

LEMMA HoldInvNext == HoldInv /\ [HoldNext]_holdVars => HoldInv'
<1> SUFFICES ASSUME HoldInv, [HoldNext]_holdVars PROVE HoldInv'
    OBVIOUS
<1>1. CASE HoldNext
    BY <1>1, QueueKeepsInv, PurgeKeepsInv, StopsKeepInv DEF HoldNext
<1>2. CASE UNCHANGED holdVars
    BY <1>2 DEF holdVars, rowVars, entryVars, purgeVars, appVars, cliVars
<1> QED BY <1>1, <1>2

\* The last check of the purge is passed only by StillClean, and then the
\* invariant says what is deleted.
LEMMA LastCheck ==
    ASSUME HoldInv, HoldNext, purge = "deleted", purge' = "commit"
    PROVE  said = row /\ saved = said /\ aged /\ flight = 0
<1>1. StillClean
    BY DEF HoldNext, Speak, DaysPass, Kick, FlushEnds, Candidate, PassOver, HoldForPurge, SqlDeletes,
           PurgeGivesWay, Released, PurgeCommits, PurgeUnanswered, Forget, StopLate, Exit, Start,
           CheckSpill, TakeLock, EraseDeletes, purgeVars
<1> QED BY <1>1 DEF StillClean

\* All that was ever said is in the row when the purge passes its last check,
\* and no flush finds the row gone unless a COMMIT went unanswered or the
\* command erased behind a stopping process; for any number of everything.
THEOREM PurgeIsSafeHolds == HoldSpec => PurgeIsSafe
<1>1. HoldInv => PurgeStopsNobody
    OBVIOUS
<1>2. HoldInv /\ [HoldNext]_holdVars =>
        [purge = "deleted" /\ purge' = "commit" /\ alive =>
            said = row /\ saved = said /\ aged /\ flight = 0]_holdVars
    BY LastCheck
<1> HIDE DEF HoldInv
<1> QED
    BY <1>1, <1>2, HoldInvInit, HoldInvNext, PTL DEF HoldSpec, PurgeIsSafe, PurgeLosesNothing

HIDE DEF HoldInv, HoldTypes, RowIsKnown, HoldIsTight, OneAtATime, GoneIsKnown, PurgeStopsNobody

-----------------------------------------------------------------------------
(***************************************************************************)
(* Refunds.  However the requests of a refund are repeated, delayed and    *)
(* given up, and whatever stalls, poison and restarts come between: the    *)
(* customer is told one outcome, once, and the database holds it.          *)
(***************************************************************************)

OrderType == [status : {"paid", "refund_pending", "refunded"},
              approval : {"none", "auto", "pending", "approved", "rejected"},
              settlement : {"none", "mock", "advisor"}]

WaitType == [edits : Nat, notice : {"", "settled", "rejected"}, id : Nat]

\* An order that says what notice n says.
Says(o, n) ==
    \/ n = "settled" /\ o.status = "refunded"
    \/ n = "rejected" /\ o.status = "paid" /\ o.approval = "rejected"

RefundTypes ==
    /\ order \in OrderType /\ stored \in OrderType
    /\ edits \in Nat /\ kept \in Nat /\ kept <= edits
    /\ writing # NoWrite =>
        /\ writing.order \in OrderType
        /\ writing.edits \in Nat /\ kept <= writing.edits /\ writing.edits <= edits
    /\ waits \subseteq WaitType
    /\ clicks \in Nat
    /\ toldOf \in [Outcomes -> Nat]

Waiting(n) == \E w \in waits : w.notice = n

(***************************************************************************)
(* RefundToldOnce is about what was told; a notice that still waits must   *)
(* be the only one there will be, and it must be true of every copy of the *)
(* order that holds its change: the one in memory, the one being written   *)
(* and, once its wait is over, the one committed.                          *)
(***************************************************************************)

\* Nothing was told yet when a notice waits, and no second one waits.
OneNotice ==
    /\ toldOf["settled"] + toldOf["rejected"] <= 1
    /\ \A w \in waits : w.notice \in Outcomes =>
        /\ toldOf["settled"] = 0 /\ toldOf["rejected"] = 0
        /\ \A v \in waits : v.notice \in Outcomes => v = w

\* What waits to be told is in every copy its change has reached.
WaitIsTrue ==
    \A w \in waits : w.notice \in Outcomes =>
        /\ Says(order, w.notice) /\ w.edits <= edits
        /\ writing # NoWrite /\ w.edits <= writing.edits => Says(writing.order, w.notice)
        /\ w.edits <= kept => Says(stored, w.notice)

\* What was told is in every copy.
ToldIsTrue ==
    \A n \in Outcomes : toldOf[n] # 0 =>
        /\ Says(order, n) /\ Says(stored, n)
        /\ writing # NoWrite => Says(writing.order, n)

RefundInv == RefundTypes /\ OneNotice /\ WaitIsTrue /\ ToldIsTrue

-----------------------------------------------------------------------------

LEMMA RefundInvInit == RefundInit => RefundInv
  BY DEF RefundInit, RefundInv, RefundTypes, OrderType, OneNotice, WaitIsTrue, ToldIsTrue,
         Outcomes, NoWrite

\* A decision finds nothing told and nothing waiting to be: whatever was
\* decided leaves an order on which nothing can be decided any more.
LEMMA Undecided ==
    ASSUME RefundInv, order.status = "refund_pending" \/ (order.status = "paid" /\ order.approval = "none")
    PROVE  /\ toldOf["settled"] = 0 /\ toldOf["rejected"] = 0
           /\ \A w \in waits : w.notice \notin Outcomes
  BY DEF RefundInv, RefundTypes, OneNotice, WaitIsTrue, ToldIsTrue, Says, Outcomes

\* An edit that nothing is to be told of but its own notice.
LEMMA DecisionKeepsInv ==
    ASSUME RefundInv, NEW new \in WaitType, new.edits = edits + 1,
           order.status = "refund_pending" \/ (order.status = "paid" /\ order.approval = "none"),
           order' \in OrderType, edits' = edits + 1,
           new.notice \in Outcomes => Says(order', new.notice),
           waits' = waits \/ waits' = waits \cup {new},
           clicks' \in Nat, UNCHANGED <<refundStore, toldOf>>
    PROVE  RefundInv'
<1>0. stored' = stored /\ kept' = kept /\ writing' = writing /\ toldOf' = toldOf
    BY DEF refundStore
<1>1. /\ toldOf["settled"] = 0 /\ toldOf["rejected"] = 0
      /\ \A w \in waits : w.notice \notin Outcomes
    BY Undecided
<1>2. RefundTypes'
  <2>1. /\ order' \in OrderType /\ stored' \in OrderType
        /\ edits' \in Nat /\ kept' \in Nat /\ kept' <= edits'
        /\ clicks' \in Nat /\ toldOf' \in [Outcomes -> Nat]
    BY <1>0 DEF RefundInv, RefundTypes
  <2>2. (writing # NoWrite =>
            /\ writing.order \in OrderType
            /\ writing.edits \in Nat /\ kept <= writing.edits /\ writing.edits <= edits)'
    BY <1>0 DEF RefundInv, RefundTypes
  <2>3. waits' \subseteq WaitType
    BY DEF RefundInv, RefundTypes
  <2> QED BY <2>1, <2>2, <2>3 DEF RefundTypes
<1>3. \A w \in waits' : w.notice \in Outcomes => w = new
    BY <1>1
<1>4. OneNotice'
    BY <1>0, <1>1, <1>3 DEF OneNotice
<1>5. WaitIsTrue'
  <2> SUFFICES ASSUME NEW w \in waits', w.notice \in Outcomes
               PROVE  /\ Says(order', w.notice) /\ w.edits <= edits'
                      /\ ~(writing # NoWrite /\ w.edits <= writing.edits)
                      /\ ~(w.edits <= kept)
    BY <1>0 DEF WaitIsTrue
  <2>1. w = new
    BY <1>3
  <2>2. edits \in Nat /\ kept \in Nat /\ kept <= edits
        /\ (writing # NoWrite => writing.edits \in Nat /\ writing.edits <= edits)
    BY DEF RefundInv, RefundTypes
  <2> QED BY <2>1, <2>2
<1>6. ToldIsTrue'
    BY <1>0, <1>1 DEF ToldIsTrue, Outcomes
<1> QED BY <1>2, <1>4, <1>5, <1>6 DEF RefundInv

\* The wait that a request adds.
Asked(n, notice) == [edits |-> n, notice |-> notice, id |-> clicks]

LEMMA WaitFields ==
    ASSUME RefundInv, NEW n \in Nat, NEW notice \in {"", "settled", "rejected"}
    PROVE  /\ Asked(n, notice) \in WaitType
           /\ Asked(n, notice).edits = n /\ Asked(n, notice).notice = notice
  BY DEF Asked, WaitType, RefundInv, RefundTypes

LEMMA RequestsKeepInv ==
    ASSUME RefundInv,
           (\E a \in {"auto", "pending"} : Request(a)) \/ ApproveRefund \/ RejectRefund \/ SettleRefund
    PROVE  RefundInv'
<1>0. order \in OrderType /\ clicks \in Nat /\ edits + 1 \in Nat
    BY DEF RefundInv, RefundTypes
<1>1. ASSUME NEW a \in {"auto", "pending"}, Request(a) PROVE RefundInv'
  <2>1. order' \in OrderType /\ edits' = edits + 1
    BY <1>1 DEF Request, Edit, OrderType
  <2>2. order.status = "paid" /\ order.approval = "none" /\ waits' = waits /\ clicks' \in Nat
        /\ UNCHANGED <<refundStore, toldOf>>
    BY <1>0, <1>1 DEF Request
  <2>3. Asked(edits + 1, "") \in WaitType /\ Asked(edits + 1, "").edits = edits + 1
        /\ Asked(edits + 1, "").notice \notin Outcomes
    BY <1>0, WaitFields DEF Outcomes
  <2> QED BY <2>1, <2>2, <2>3, DecisionKeepsInv
<1>2. ASSUME NEW n \in {"", "settled", "rejected"},
             order.status = "refund_pending", order' \in OrderType, edits' = edits + 1,
             n \in Outcomes => Says(order', n), waits' = waits \cup {Asked(edits + 1, n)},
             clicks' \in Nat, UNCHANGED <<refundStore, toldOf>>
      PROVE  RefundInv'
  <2>1. Asked(edits + 1, n) \in WaitType
        /\ Asked(edits + 1, n).edits = edits + 1 /\ Asked(edits + 1, n).notice = n
    BY <1>0, WaitFields
  <2> QED BY <1>2, <2>1, DecisionKeepsInv
<1>3. CASE ApproveRefund
  <2> DEFINE n == IF order.settlement = "mock" THEN "settled" ELSE ""
  <2>1. order' \in OrderType /\ edits' = edits + 1 /\ (n \in Outcomes => Says(order', n))
    BY <1>0, <1>3 DEF ApproveRefund, Edit, OrderType, Says, Outcomes, Pending
  <2>2. order.status = "refund_pending" /\ clicks' = clicks + 1 /\ UNCHANGED <<refundStore, toldOf>>
    BY <1>3 DEF ApproveRefund, Pending, Click
  <2>3. waits' = waits \cup {Asked(edits + 1, n)}
    BY <1>3 DEF ApproveRefund, Waits, Asked
  <2>4. n \in {"", "settled", "rejected"} OBVIOUS
  <2> HIDE DEF n
  <2>5. clicks' \in Nat
    BY <1>0, <2>2
  <2> QED BY <1>2, <2>1, <2>2, <2>3, <2>4, <2>5
<1>4. CASE RejectRefund
  <2>1. order' \in OrderType /\ edits' = edits + 1 /\ Says(order', "rejected")
    BY <1>0, <1>4 DEF RejectRefund, Edit, OrderType, Says
  <2>2. order.status = "refund_pending" /\ clicks' = clicks + 1 /\ UNCHANGED <<refundStore, toldOf>>
    BY <1>4 DEF RejectRefund, Pending, Click
  <2>3. waits' = waits \cup {Asked(edits + 1, "rejected")}
    BY <1>4 DEF RejectRefund, Waits, Asked
  <2>4. clicks' \in Nat
    BY <1>0, <2>2
  <2> QED BY <1>2, <2>1, <2>2, <2>3, <2>4
<1>5. CASE SettleRefund
  <2>1. order' \in OrderType /\ edits' = edits + 1 /\ Says(order', "settled")
    BY <1>0, <1>5 DEF SettleRefund, Edit, OrderType, Says
  <2>2. order.status = "refund_pending" /\ clicks' = clicks + 1 /\ UNCHANGED <<refundStore, toldOf>>
    BY <1>5 DEF SettleRefund, Click
  <2>3. waits' = waits \cup {Asked(edits + 1, "settled")}
    BY <1>5 DEF SettleRefund, Waits, Asked
  <2>4. clicks' \in Nat
    BY <1>0, <2>2
  <2> QED BY <1>2, <2>1, <2>2, <2>3, <2>4
<1> QED BY <1>1, <1>3, <1>4, <1>5

\* Asking again adds a wait without a notice.
LEMMA AskAgainKeepsInv ==
    ASSUME RefundInv, AskAgain
    PROVE  RefundInv'
<1> DEFINE new == Asked(edits, "")
<1>1. waits' = waits \cup {new} /\ clicks' = clicks + 1
      /\ UNCHANGED <<order, edits, refundStore, toldOf>>
    BY DEF AskAgain, Waits, Click, Asked
<1>2. new \in WaitType /\ new.notice = ""
    BY WaitFields DEF RefundInv, RefundTypes
<1> HIDE DEF new
<1>3. \A w \in waits' : w.notice \in Outcomes => w \in waits
    BY <1>1, <1>2 DEF Outcomes
<1>4. RefundTypes'
  <2>1. stored' = stored /\ kept' = kept /\ writing' = writing /\ waits' \subseteq WaitType
    BY <1>1, <1>2 DEF RefundInv, RefundTypes, refundStore
  <2>2. clicks' \in Nat
    BY <1>1 DEF RefundInv, RefundTypes
  <2> QED BY <1>1, <2>1, <2>2 DEF RefundInv, RefundTypes
<1>5. OneNotice'
    BY <1>1, <1>3 DEF RefundInv, OneNotice
<1>6. WaitIsTrue'
    BY <1>1, <1>3 DEF RefundInv, WaitIsTrue, refundStore
<1>7. ToldIsTrue'
    BY <1>1 DEF RefundInv, ToldIsTrue, refundStore
<1> QED BY <1>4, <1>5, <1>6, <1>7 DEF RefundInv

\* The heart: what is told was waiting alone, and its wait is over only when
\* the committed order says it.
LEMMA TellKeepsInv ==
    ASSUME RefundInv, NEW w \in waits, Tell(w)
    PROVE  RefundInv'
<1>1. w.edits <= kept /\ waits' = waits \ {w}
      /\ UNCHANGED <<order, refundStore, clicks>>
    BY DEF Tell
<1>2. CASE w.notice \notin Outcomes
  <2>1. UNCHANGED <<toldOf, edits>>
    BY <1>2 DEF Tell
  <2> QED BY <1>1, <2>1 DEF RefundInv, RefundTypes, OneNotice, WaitIsTrue, ToldIsTrue, refundStore
<1>3. CASE w.notice \in Outcomes
  <2>1. toldOf' = [toldOf EXCEPT ![w.notice] = toldOf[w.notice] + 1] /\ edits' = edits + 1
    BY <1>3 DEF Tell
  <2>2. toldOf["settled"] = 0 /\ toldOf["rejected"] = 0
        /\ \A v \in waits' : v.notice \notin Outcomes
    BY <1>1, <1>3 DEF RefundInv, OneNotice
  <2>3. /\ toldOf' \in [Outcomes -> Nat]
        /\ toldOf'[w.notice] = 1
        /\ \A n \in Outcomes : n # w.notice => toldOf'[n] = 0
    BY <1>3, <2>1, <2>2 DEF RefundInv, RefundTypes, Outcomes
  <2>4. /\ Says(order, w.notice) /\ Says(stored, w.notice)
        /\ writing # NoWrite => Says(writing.order, w.notice)
    <3>1. w.edits \in Nat
      BY DEF RefundInv, RefundTypes, WaitType
    <3>2. kept \in Nat
          /\ (writing # NoWrite => writing.edits \in Nat /\ kept <= writing.edits)
      BY DEF RefundInv, RefundTypes
    <3>3. writing # NoWrite => w.edits <= writing.edits
      BY <1>1, <3>1, <3>2
    <3> QED BY <1>1, <1>3, <3>3 DEF RefundInv, WaitIsTrue
  <2>5. RefundTypes'
    BY <1>1, <2>1, <2>3 DEF RefundInv, RefundTypes, refundStore
  <2>6. OneNotice'
    BY <1>3, <2>2, <2>3 DEF OneNotice, Outcomes
  <2>7. WaitIsTrue'
    BY <2>2 DEF WaitIsTrue
  <2>8. ToldIsTrue'
    BY <1>1, <2>3, <2>4 DEF ToldIsTrue, refundStore
  <2> QED BY <2>5, <2>6, <2>7, <2>8 DEF RefundInv
<1> QED BY <1>2, <1>3

LEMMA StoreKeepsInv ==
    ASSUME RefundInv,
           (\E w \in waits : GiveUp(w)) \/ WriteOut \/ Written \/ Lag \/ Poison \/ ModeChanges
           \/ (\E spilled \in BOOLEAN : RefundRestart(spilled))
    PROVE  RefundInv'
<1> USE DEF RefundInv
<1>1. ASSUME NEW w \in waits, GiveUp(w) PROVE RefundInv'
    BY <1>1 DEF GiveUp, RefundTypes, OneNotice, WaitIsTrue, ToldIsTrue, refundStore
<1>2. CASE WriteOut
  <2>1. writing' = [edits |-> edits, order |-> order]
        /\ UNCHANGED <<order, stored, kept, edits, waits, toldOf, clicks>>
    BY <1>2 DEF WriteOut
  <2>2. writing'.edits = edits /\ writing'.order = order
    BY <2>1
  <2> QED BY <2>1, <2>2 DEF RefundTypes, OneNotice, WaitIsTrue, ToldIsTrue
<1>3. CASE Written
    BY <1>3 DEF Written, RefundTypes, OneNotice, WaitIsTrue, ToldIsTrue
<1>4. CASE Lag
    BY <1>4 DEF Lag, RefundTypes, OneNotice, WaitIsTrue, ToldIsTrue
<1>5. CASE Poison
    BY <1>5 DEF Poison, RefundTypes, OneNotice, WaitIsTrue, ToldIsTrue
<1>6. CASE ModeChanges
    BY <1>6 DEF ModeChanges, RefundTypes, OneNotice, WaitIsTrue, ToldIsTrue, refundStore
<1>7. ASSUME NEW spilled \in BOOLEAN, RefundRestart(spilled) PROVE RefundInv'
    BY <1>7 DEF RefundRestart, RefundTypes, OneNotice, WaitIsTrue, ToldIsTrue
<1> QED BY <1>1, <1>2, <1>3, <1>4, <1>5, <1>6, <1>7

LEMMA RefundInvNext == RefundInv /\ [RefundNext]_refundVars => RefundInv'
<1> SUFFICES ASSUME RefundInv, [RefundNext]_refundVars PROVE RefundInv'
    OBVIOUS
<1>1. CASE RefundNext
    BY <1>1, RequestsKeepInv, AskAgainKeepsInv, TellKeepsInv, StoreKeepsInv DEF RefundNext
<1>2. CASE UNCHANGED refundVars
    BY <1>2 DEF refundVars, refundStore, RefundInv, RefundTypes, OneNotice, WaitIsTrue, ToldIsTrue
<1> QED BY <1>1, <1>2

\* The customer is told one outcome and once, and the database holds it, for
\* any number of requests, stalls, poisoned writes and restarts.
THEOREM RefundToldOnceHolds == RefundSpec => []RefundToldOnce
<1>1. RefundInv => RefundToldOnce
    BY DEF RefundInv, RefundTypes, OneNotice, ToldIsTrue, Says, Outcomes, RefundToldOnce
<1> QED
    BY <1>1, RefundInvInit, RefundInvNext, PTL DEF RefundSpec

-----------------------------------------------------------------------------
(***************************************************************************)
(* Quotes.  One live quote, each decision told once and only when it is    *)
(* committed, what is paid stays paid: for any number of quotes, requests, *)
(* stalls, poisoned writes and restarts.                                   *)
(***************************************************************************)

Statuses == {"none", "pending_payment", "superseded", "cancelled", "paid", "void"}
Approvals == {"none", "pending", "approved", "rejected", "withdrawn"}
Quote == [status : Statuses, approval : Approvals,
          expired : BOOLEAN, link : BOOLEAN, thanks : BOOLEAN]
Waiter == [op : {"approve", "again", "cancel", "paid"}, q : QuoteIds]

\* One approved quote and one draft; neither a draft has its link out, nor an
\* unpaid quote its thanks.
Alone(b) == \A p, q \in QuoteIds :
    (Approved(b[p]) /\ Approved(b[q])) \/ (Draft(b[p]) /\ Draft(b[q])) => p = q
Sane(o) ==
    /\ o.status = "none" \/ Draft(o) => ~o.link
    /\ o.status \in {"none", "pending_payment"} => ~o.thanks
GoodBook(b) == b \in [QuoteIds -> Quote] /\ Alone(b) /\ \A q \in QuoteIds : Sane(b[q])
BooksGood == GoodBook(book) /\ GoodBook(disk) /\ (snap # NoSnap => GoodBook(snap))

\* What is committed, or about to be, as paid is still so, or void.
Settled(o) == o.status \in {"paid", "void"}
KeepsPaid(b, c) == \A q \in QuoteIds : b[q].status = "paid" => Settled(c[q])
PaidStays ==
    /\ KeepsPaid(disk, book)
    /\ snap # NoSnap => KeepsPaid(disk, snap) /\ KeepsPaid(snap, book)

\* With nothing left to write, what is approved is committed or in flight.
Shows(b, c) == \A q \in QuoteIds : Approved(b[q]) => Approved(c[q])
CleanShows ==
    /\ dirty \in BOOLEAN
    /\ ~dirty => /\ snap = NoSnap => Shows(book, disk)
                 /\ snap # NoSnap => Shows(book, snap)

\* A quote is approved once and paid once, and a retry asks after the approval.
Clash(v, w) == v.q = w.q /\ \/ w.op = "approve" /\ v.op \in {"approve", "again"}
                            \/ w.op = "paid" /\ v.op = "paid"
InOrder(s) == \A i, j \in DOMAIN s : i < j => ~Clash(s[i], s[j])
Apart(s, t) == \A i \in DOMAIN s, j \in DOMAIN t : ~Clash(s[i], t[j])
LinesInOrder ==
    /\ boarded \in Seq(Waiter) /\ later \in Seq(Waiter) /\ ready \in Seq(Waiter)
    /\ snap = NoSnap \/ ready # <<>> => boarded = <<>>
    /\ later # <<>> => dirty
    /\ InOrder(boarded) /\ InOrder(later) /\ InOrder(ready)
    /\ Apart(boarded, later) /\ Apart(ready, later)

\* Who waits for an approval or a payment has decided it, and nobody has told.
Fits(w) ==
    /\ w.op \in {"approve", "again"} => book[w.q].status # "none" /\ ~Draft(book[w.q])
    /\ w.op = "approve" => linked[w.q] <= forgot[w.q]
    /\ w.op = "paid" => book[w.q].status \notin {"none", "pending_payment"}
                        /\ thanked[w.q] <= forgot[w.q]
Knows(w, b) == w.op \in {"approve", "again"} /\ Approved(book[w.q]) => Approved(b[w.q])
AllFit(s) == \A i \in DOMAIN s : Fits(s[i])
AllKnow(s, b) == \A i \in DOMAIN s : Knows(s[i], b)
WaitersFit ==
    /\ AllFit(boarded) /\ AllFit(later) /\ AllFit(ready)
    /\ AllKnow(boarded, snap) /\ AllKnow(ready, disk)

\* What was sent shows in the messages, or was forgotten with a process.
ToldTrue ==
    /\ linked \in [QuoteIds -> Nat] /\ thanked \in [QuoteIds -> Nat] /\ forgot \in [QuoteIds -> Nat]
    /\ \A q \in QuoteIds :
        /\ linked[q] <= 1 + forgot[q] /\ (~book[q].link => linked[q] <= forgot[q])
        /\ thanked[q] <= 1 + forgot[q] /\ (~book[q].thanks => thanked[q] <= forgot[q])

QuoteInv == BooksGood /\ PaidStays /\ CleanShows /\ LinesInOrder /\ WaitersFit /\ ToldTrue

-----------------------------------------------------------------------------
(* Lines of requests *)

\* r is what is left of s.
PartOf(r, s) == \E f \in [DOMAIN r -> DOMAIN s] :
    /\ \A i, j \in DOMAIN r : i < j => f[i] < f[j]
    /\ \A i \in DOMAIN r : r[i] = s[f[i]]

LEMMA TailIsPart ==
    ASSUME NEW W, NEW s \in Seq(W), s # <<>>
    PROVE  Tail(s) \in Seq(W) /\ PartOf(Tail(s), s) /\ Head(s) = s[1] /\ 1 \in DOMAIN s
           /\ \A i \in DOMAIN Tail(s) : Tail(s)[i] = s[i + 1] /\ i + 1 \in DOMAIN s /\ 1 < i + 1
<1> DEFINE r == Tail(s)  f == [i \in DOMAIN r |-> i + 1]
<1>1. /\ r \in Seq(W) /\ Head(s) = s[1] /\ 1 \in DOMAIN s
      /\ \A i \in DOMAIN r : r[i] = s[i + 1] /\ i + 1 \in DOMAIN s /\ i \in Nat /\ 1 < i + 1
    OBVIOUS
<1>2. f \in [DOMAIN r -> DOMAIN s] /\ \A i \in DOMAIN r : f[i] = i + 1
    BY <1>1
<1> HIDE DEF f
<1>3. \A i, j \in DOMAIN r : i < j => f[i] < f[j]
    BY <1>1, <1>2
<1> QED BY <1>1, <1>2, <1>3 DEF PartOf

LEMMA RestIsPart ==
    ASSUME NEW W, NEW s \in Seq(W), NEW k \in DOMAIN s
    PROVE  LET r == RemoveAt(s, k)
           IN  /\ r \in Seq(W) /\ PartOf(r, s)
               /\ \A i \in DOMAIN r : \E j \in DOMAIN s : j # k /\ r[i] = s[j]
<1> DEFINE a == SubSeq(s, 1, k - 1)  b == SubSeq(s, k + 1, Len(s))  r == a \o b
           f == [i \in DOMAIN r |-> IF i < k THEN i ELSE i + 1]
<1>1. k \in 1..Len(s) /\ Len(s) \in Nat
    OBVIOUS
<1>2. a \in Seq(W) /\ Len(a) = k - 1 /\ \A i \in 1..(k - 1) : a[i] = s[i]
    BY <1>1
<1>3. b \in Seq(W) /\ Len(b) = Len(s) - k /\ \A i \in 1..(Len(s) - k) : b[i] = s[i + k]
    BY <1>1
<1>4. RemoveAt(s, k) = r
    BY DEF RemoveAt
<1> HIDE DEF a, b
<1>5. /\ r \in Seq(W) /\ Len(r) = Len(s) - 1
      /\ \A i \in 1..Len(r) : r[i] = IF i <= Len(a) THEN a[i] ELSE b[i - Len(a)]
    BY <1>1, <1>2, <1>3
<1>6. DOMAIN r = 1..(Len(s) - 1) /\ DOMAIN s = 1..Len(s)
    BY <1>1, <1>5
<1>7. \A i \in DOMAIN r : r[i] = IF i < k THEN s[i] ELSE s[i + 1]
  <2> SUFFICES ASSUME NEW i \in 1..(Len(s) - 1) PROVE r[i] = IF i < k THEN s[i] ELSE s[i + 1]
      BY <1>6
  <2>1. r[i] = IF i <= Len(a) THEN a[i] ELSE b[i - Len(a)]
      BY <1>5
  <2>2. CASE i < k
      BY <1>1, <1>2, <2>1, <2>2
  <2>3. CASE ~(i < k)
    <3>1. i - (k - 1) \in 1..(Len(s) - k) /\ (i - (k - 1)) + k = i + 1
        BY <1>1, <2>3
    <3>2. ~(i <= Len(a)) /\ i - Len(a) = i - (k - 1)
        BY <1>1, <1>2, <2>3
    <3>3. b[i - (k - 1)] = s[i + 1]
        BY <1>3, <3>1
    <3> QED BY <2>1, <2>3, <3>2, <3>3
  <2> QED BY <2>2, <2>3
<1> HIDE DEF r
<1>8. /\ f \in [DOMAIN r -> DOMAIN s] /\ \A i \in DOMAIN r : f[i] = IF i < k THEN i ELSE i + 1
    BY <1>1, <1>6
<1> HIDE DEF f
<1>9. /\ \A i, j \in DOMAIN r : i < j => f[i] < f[j]
      /\ \A i \in DOMAIN r : r[i] = s[f[i]] /\ f[i] # k
    BY <1>1, <1>6, <1>7, <1>8
<1> QED BY <1>4, <1>5, <1>8, <1>9 DEF PartOf

LEMMA PartsInOrder ==
    ASSUME NEW W, NEW r \in Seq(W), NEW s \in Seq(W), PartOf(r, s)
    PROVE  /\ InOrder(s) => InOrder(r)
           /\ \A t : (Apart(s, t) => Apart(r, t)) /\ (Apart(t, s) => Apart(t, r))
           /\ \A i \in DOMAIN r : \E j \in DOMAIN s : r[i] = s[j]
           /\ s = <<>> => r = <<>>
<1>1. PICK f \in [DOMAIN r -> DOMAIN s] :
        /\ \A i, j \in DOMAIN r : i < j => f[i] < f[j]
        /\ \A i \in DOMAIN r : r[i] = s[f[i]]
    BY DEF PartOf
<1>2. s = <<>> => r = <<>>
    BY <1>1
<1> QED BY <1>1, <1>2 DEF InOrder, Apart

\* l is s with w behind it.
Joined(l, s, w) ==
    /\ l \in Seq(Waiter)
    /\ DOMAIN l = 1..(Len(s) + 1) /\ l[Len(s) + 1] = w
    /\ \A i \in 1..Len(s) : l[i] = s[i]

LEMMA Appended ==
    ASSUME NEW s \in Seq(Waiter), NEW w \in Waiter, NEW l, l = Append(s, w)
    PROVE  Joined(l, s, w)
  BY DEF Joined

LEMMA OneMoreInLine ==
    ASSUME NEW s \in Seq(Waiter), NEW w \in Waiter, NEW r, Joined(r, s, w),
           \A i \in DOMAIN s : ~Clash(s[i], w)
    PROVE  /\ r \in Seq(Waiter) /\ r # <<>>
           /\ \A i \in DOMAIN r : (i \in DOMAIN s /\ r[i] = s[i]) \/ r[i] = w
           /\ InOrder(s) => InOrder(r)
           /\ \A t : Apart(t, s) /\ (\A i \in DOMAIN t : ~Clash(t[i], w)) => Apart(t, r)
<1> USE DEF Joined
<1>1. Len(s) \in Nat /\ DOMAIN s = 1..Len(s)
    OBVIOUS
<1>2. \A i \in DOMAIN r : (i \in DOMAIN s /\ r[i] = s[i]) \/ (i = Len(s) + 1 /\ r[i] = w)
    BY <1>1
<1>3. ASSUME InOrder(s) PROVE InOrder(r)
  <2> SUFFICES ASSUME NEW i \in DOMAIN r, NEW j \in DOMAIN r, i < j PROVE ~Clash(r[i], r[j])
      BY DEF InOrder
  <2>1. i \in DOMAIN s /\ r[i] = s[i]
      BY <1>1
  <2> QED BY <1>2, <1>3, <2>1 DEF InOrder
<1>4. \A t : Apart(t, s) /\ (\A i \in DOMAIN t : ~Clash(t[i], w)) => Apart(t, r)
    BY <1>2 DEF Apart
<1>5. r # <<>>
    BY <1>1
<1> QED BY <1>2, <1>3, <1>4, <1>5

-----------------------------------------------------------------------------
(* Quotes move on *)

\* What a quote that was o may be while the process lives.
MovesTo(o, n) ==
    /\ o.status # "none" => n.status # "none"
    /\ o.status # "none" /\ ~Draft(o) => ~Draft(n)
    /\ Approved(n) => Approved(o) \/ Draft(o) \/ o.status = "none"
    /\ o.status \notin {"none", "pending_payment"} => n.status \notin {"none", "pending_payment"}
    /\ Settled(o) => Settled(n)
    /\ (~n.link => ~o.link) /\ (~n.thanks => ~o.thanks)
MovesOn(b, c) == \A q \in QuoteIds : MovesTo(b[q], c[q])

LEMMA StaysIsAMove == \A o : MovesTo(o, o)
  BY DEF MovesTo

LEMMA SnapIsNone ==
    ASSUME NEW b \in [QuoteIds -> Quote], NEW q \in QuoteIds
    PROVE  b # NoSnap
  BY DEF NoSnap

LEMMA BooksMove ==
    ASSUME BooksGood, PaidStays, GoodBook(book'), MovesOn(book, book'),
           disk' = disk, snap' = snap
    PROVE  BooksGood' /\ PaidStays'
<1>1. BooksGood'
  <2>1. GoodBook(disk)' /\ (snap # NoSnap => GoodBook(snap))' /\ GoodBook(book)'
      BY DEF BooksGood
  <2> QED BY <2>1 DEF BooksGood
<1>2. ASSUME NEW b, KeepsPaid(b, book) PROVE KeepsPaid(b, book')
    BY <1>2 DEF KeepsPaid, MovesOn, MovesTo, Settled
<1> QED BY <1>1, <1>2 DEF PaidStays

LEMMA FitsMove ==
    ASSUME NEW w \in Waiter, Fits(w), MovesOn(book, book'),
           forgot' = forgot, w.op = "approve" => linked'[w.q] = linked[w.q],
           w.op = "paid" => thanked'[w.q] = thanked[w.q]
    PROVE  /\ Fits(w)'
           /\ \A b : Knows(w, b) => (w.op \in {"approve", "again"} /\ Approved(book'[w.q]) => Approved(b[w.q]))
<1>1. w.q \in QuoteIds
    BY DEF Waiter
<1>2. MovesTo(book[w.q], book'[w.q])
    BY <1>1 DEF MovesOn
<1> QED BY <1>1, <1>2 DEF Fits, Knows, MovesTo

\* Every waiter of s stays as it was, in the lines of t.
LEMMA LinesMove ==
    ASSUME NEW s \in Seq(Waiter), NEW t \in Seq(Waiter), AllFit(s), MovesOn(book, book'),
           forgot' = forgot,
           \A i \in DOMAIN t : \E j \in DOMAIN s :
               /\ t[i] = s[j]
               /\ s[j].op = "approve" => linked'[s[j].q] = linked[s[j].q]
               /\ s[j].op = "paid" => thanked'[s[j].q] = thanked[s[j].q]
    PROVE  /\ AllFit(t)'
           /\ \A b : AllKnow(s, b) =>
                \A i \in DOMAIN t : t[i].op \in {"approve", "again"} /\ Approved(book'[t[i].q])
                    => Approved(b[t[i].q])
<1>1. ASSUME NEW i \in DOMAIN t
      PROVE  /\ Fits(t[i])'
             /\ \A b : AllKnow(s, b) =>
                  (t[i].op \in {"approve", "again"} /\ Approved(book'[t[i].q]) => Approved(b[t[i].q]))
  <2>1. PICK j \in DOMAIN s : /\ t[i] = s[j]
                              /\ s[j].op = "approve" => linked'[s[j].q] = linked[s[j].q]
                              /\ s[j].op = "paid" => thanked'[s[j].q] = thanked[s[j].q]
      OBVIOUS
  <2>2. PICK w \in Waiter : w = s[j]
      OBVIOUS
  <2>3. Fits(w) /\ \A b : AllKnow(s, b) => Knows(w, b)
      BY <2>2 DEF AllFit, AllKnow
  <2>4. /\ Fits(w)'
        /\ \A b : Knows(w, b) => (w.op \in {"approve", "again"} /\ Approved(book'[w.q]) => Approved(b[w.q]))
      BY <2>1, <2>2, <2>3, FitsMove
  <2>5. w = t[i]
      BY <2>1, <2>2
  <2> QED BY <2>3, <2>4, <2>5 DEF Fits
<1>2. AllFit(t)'
    BY <1>1 DEF AllFit
<1> QED BY <1>1, <1>2

LEMMA ToldStays ==
    ASSUME ToldTrue, MovesOn(book, book'), linked' = linked, thanked' = thanked, forgot' = forgot
    PROVE  ToldTrue'
  BY DEF ToldTrue, MovesOn, MovesTo

LEMMA WaitersMove ==
    ASSUME LinesInOrder, WaitersFit, MovesOn(book, book'), UNCHANGED <<disk, snap, waitVars, ghosts>>
    PROVE  WaitersFit'
<1>1. PICK s : s = boarded
    OBVIOUS
<1>2. PICK t : t = later
    OBVIOUS
<1>3. PICK r : r = ready
    OBVIOUS
<1>4. s \in Seq(Waiter) /\ t \in Seq(Waiter) /\ r \in Seq(Waiter)
      /\ AllFit(s) /\ AllFit(t) /\ AllFit(r) /\ AllKnow(s, snap) /\ AllKnow(r, disk)
    BY <1>1, <1>2, <1>3 DEF LinesInOrder, WaitersFit
<1>5. linked' = linked /\ thanked' = thanked /\ forgot' = forgot
      /\ s = boarded' /\ t = later' /\ r = ready' /\ snap' = snap /\ disk' = disk
    BY <1>1, <1>2, <1>3 DEF waitVars, ghosts
<1>6. AllFit(s)' /\ \A i \in DOMAIN s : s[i].op \in {"approve", "again"} /\ Approved(book'[s[i].q])
                    => Approved(snap[s[i].q])
    BY <1>4, <1>5, LinesMove
<1>7. AllFit(r)' /\ \A i \in DOMAIN r : r[i].op \in {"approve", "again"} /\ Approved(book'[r[i].q])
                    => Approved(disk[r[i].q])
    BY <1>4, <1>5, LinesMove
<1>8. AllFit(t)'
    BY <1>4, <1>5, LinesMove
<1> QED BY <1>5, <1>6, <1>7, <1>8 DEF WaitersFit, AllFit, AllKnow, Knows

\* A step that changes what is in memory, and asks nobody to wait.
LEMMA BookStep ==
    ASSUME QuoteInv, MovesOn(book, book'), GoodBook(book'),
           dirty' = TRUE \/ (dirty' = dirty /\ Shows(book', book)),
           UNCHANGED <<disk, snap, waitVars, ghosts>>
    PROVE  QuoteInv'
<1>1. BooksGood' /\ PaidStays'
    BY BooksMove DEF QuoteInv
<1>2. CleanShows'
    BY DEF QuoteInv, CleanShows, Shows
<1>3. LinesInOrder'
    BY DEF QuoteInv, LinesInOrder, waitVars, CleanShows
<1>4. WaitersFit'
    BY WaitersMove DEF QuoteInv
<1>5. ToldTrue'
    BY ToldStays DEF QuoteInv, ghosts
<1> QED BY <1>1, <1>2, <1>3, <1>4, <1>5 DEF QuoteInv

-----------------------------------------------------------------------------
(* The steps that change quotes *)

LEMMA Supersedes ==
    ASSUME NEW b, GoodBook(b), NEW S \in SUBSET QuoteIds
    PROVE  /\ GoodBook(Supersede(b, S)) /\ MovesOn(b, Supersede(b, S))
           /\ \A q \in QuoteIds :
                /\ Supersede(b, S)[q] \in Quote
                /\ q \notin S => Supersede(b, S)[q] = b[q]
                /\ b[q].status # "pending_payment" => Supersede(b, S)[q] = b[q]
                /\ q \in S => ~Approved(Supersede(b, S)[q]) /\ ~Draft(Supersede(b, S)[q])
<1> DEFINE c == Supersede(b, S)
<1>1. b \in [QuoteIds -> Quote] /\ Alone(b) /\ \A q \in QuoteIds : Sane(b[q])
    BY DEF GoodBook
<1>2. \A q \in QuoteIds : c[q] = IF q \in S /\ b[q].status = "pending_payment"
                                  THEN [b[q] EXCEPT !.status = "superseded"] ELSE b[q]
    BY DEF Supersede
<1>3. c = [q \in QuoteIds |-> c[q]]
    BY DEF Supersede
<1> HIDE DEF c
<1>4. ASSUME NEW q \in QuoteIds
      PROVE  /\ c[q] \in Quote /\ Sane(c[q]) /\ MovesTo(b[q], c[q])
             /\ q \notin S => c[q] = b[q]
             /\ b[q].status # "pending_payment" => c[q] = b[q]
             /\ q \in S => ~Approved(c[q]) /\ ~Draft(c[q])
             /\ (Approved(c[q]) => Approved(b[q])) /\ (Draft(c[q]) => Draft(b[q]))
  <2>1. CASE q \in S /\ b[q].status = "pending_payment"
    <3>1. b[q] \in Quote /\ c[q] = [b[q] EXCEPT !.status = "superseded"] /\ Sane(b[q])
        BY <1>1, <1>2, <2>1
    <3>2. /\ c[q] \in Quote /\ c[q].status = "superseded" /\ c[q].link = b[q].link
          /\ c[q].thanks = b[q].thanks
        BY <3>1 DEF Quote, Statuses
    <3> QED BY <2>1, <3>1, <3>2 DEF Sane, MovesTo, Draft, Approved, Settled
  <2>2. CASE ~(q \in S /\ b[q].status = "pending_payment")
    <3>1. c[q] = b[q]
        BY <1>2, <2>2
    <3> QED BY <1>1, <2>2, <3>1 DEF MovesTo, Draft, Approved
  <2> QED BY <2>1, <2>2
<1>5. c \in [QuoteIds -> Quote]
    BY <1>3, <1>4
<1>6. Alone(c)
    BY <1>1, <1>4 DEF Alone
<1>7. GoodBook(c) /\ MovesOn(b, c)
    BY <1>4, <1>5, <1>6 DEF GoodBook, MovesOn
<1> QED BY <1>4, <1>7 DEF c

\* One quote of b becomes n.
LEMMA OneBecomes ==
    ASSUME NEW b, GoodBook(b), NEW q \in QuoteIds, NEW n \in Quote, MovesTo(b[q], n), Sane(n),
           Approved(n) => \A p \in QuoteIds : Approved(b[p]) => p = q,
           Draft(n) => \A p \in QuoteIds : Draft(b[p]) => p = q,
           NEW c \in [QuoteIds -> Quote], \A p \in QuoteIds : c[p] = IF p = q THEN n ELSE b[p]
    PROVE  GoodBook(c) /\ MovesOn(b, c)
<1>1. b \in [QuoteIds -> Quote] /\ Alone(b) /\ \A p \in QuoteIds : Sane(b[p])
    BY DEF GoodBook
<1>2. Alone(c)
    BY <1>1 DEF Alone
<1> QED BY <1>1, <1>2, StaysIsAMove DEF GoodBook, MovesOn

LEMMA Replaced ==
    ASSUME NEW b \in [QuoteIds -> Quote], NEW q \in QuoteIds, NEW n \in Quote
    PROVE  /\ [b EXCEPT ![q] = n] \in [QuoteIds -> Quote]
           /\ \A p \in QuoteIds : [b EXCEPT ![q] = n][p] = IF p = q THEN n ELSE b[p]
  OBVIOUS

\* Both: others make way for a quote that becomes n.
LEMMA MovesCompose ==
    ASSUME NEW b \in [QuoteIds -> Quote], NEW c \in [QuoteIds -> Quote], NEW d, NEW q \in QuoteIds,
           MovesOn(b, c), c[q] = b[q], MovesOn(c, d), \A p \in QuoteIds : p # q => d[p] = c[p]
    PROVE  MovesOn(b, d)
<1> SUFFICES ASSUME NEW p \in QuoteIds PROVE MovesTo(b[p], d[p])
    BY DEF MovesOn
<1> QED BY DEF MovesOn

LEMMA ReuseKeepsInv ==
    ASSUME QuoteInv, NEW q \in QuoteIds, Reuse(q)
    PROVE  QuoteInv'
<1>1. PICK S \in SUBSET QuoteIds : book' = Supersede(book, S) /\ dirty' = TRUE
    BY DEF Reuse, Write, Open
<1>2. GoodBook(book)
    BY DEF QuoteInv, BooksGood
<1>3. GoodBook(book') /\ MovesOn(book, book')
    BY <1>1, <1>2, Supersedes
<1> QED BY <1>1, <1>3, BookStep DEF Reuse, storeVars

LEMMA CreateKeepsInv ==
    ASSUME QuoteInv, NEW q \in QuoteIds, NEW auto \in BOOLEAN, Create(q, auto)
    PROVE  QuoteInv'
<1> DEFINE S == {p \in Open : auto \/ Draft(book[p]) \/ book[p].expired}
           n == [NoQuote EXCEPT !.status = "pending_payment",
                                !.approval = IF auto THEN "approved" ELSE "pending"]
<1>1. /\ book' = [Supersede(book, S) EXCEPT ![q] = n] /\ dirty' = TRUE
      /\ book[q].status = "none" /\ S \in SUBSET QuoteIds
      /\ UNCHANGED <<disk, snap, waitVars, ghosts>>
    BY DEF Create, Write, Open, storeVars
<1>2. GoodBook(book)
    BY DEF QuoteInv, BooksGood
<1>3. /\ n \in Quote /\ n.status = "pending_payment" /\ n.link = FALSE /\ n.thanks = FALSE
      /\ n.approval = IF auto THEN "approved" ELSE "pending"
    BY DEF NoQuote, Quote, Statuses, Approvals
<1>4. \A p \in QuoteIds : /\ Approved(book[p]) /\ auto => p \in S
                          /\ Draft(book[p]) => p \in S
    BY DEF Approved, Draft, Open
<1> HIDE DEF S, n
<1>5. PICK c : c = Supersede(book, S)
    OBVIOUS
<1>6. /\ GoodBook(c) /\ MovesOn(book, c) /\ c[q] = book[q]
      /\ \A p \in QuoteIds : /\ p \notin S => c[p] = book[p]
                             /\ p \in S => ~Approved(c[p]) /\ ~Draft(c[p])
    BY <1>1, <1>2, <1>5, Supersedes
<1>7. Sane(c[q]) /\ c[q].status = "none"
    BY <1>1, <1>6 DEF GoodBook
<1>8. MovesTo(c[q], n) /\ Sane(n)
    BY <1>3, <1>7 DEF MovesTo, Sane, Settled
<1>9. /\ Approved(n) => \A p \in QuoteIds : Approved(c[p]) => p = q
      /\ Draft(n) => \A p \in QuoteIds : Draft(c[p]) => p = q
    BY <1>3, <1>4, <1>6 DEF Approved, Draft
<1>10. /\ GoodBook(book') /\ MovesOn(c, book')
       /\ \A p \in QuoteIds : book'[p] = IF p = q THEN n ELSE c[p]
  <2>1. book' \in [QuoteIds -> Quote] /\ \A p \in QuoteIds : book'[p] = IF p = q THEN n ELSE c[p]
      BY <1>1, <1>3, <1>5, <1>6, Replaced DEF GoodBook
  <2>2. GoodBook(c) /\ n \in Quote
      BY <1>3, <1>6
  <2>3. Approved(n) => \A p \in QuoteIds : Approved(c[p]) => p = q
      BY <1>9
  <2>4. Draft(n) => \A p \in QuoteIds : Draft(c[p]) => p = q
      BY <1>9
  <2> QED BY ONLY q \in QuoteIds, <1>8, <2>1, <2>2, <2>3, <2>4, OneBecomes
<1>11. MovesOn(book, book')
    BY <1>2, <1>6, <1>10, MovesCompose DEF GoodBook
<1> QED BY <1>1, <1>10, <1>11, BookStep

LEMMA ModelSendsLinkKeepsInv ==
    ASSUME QuoteInv, NEW q \in QuoteIds, ModelSendsLink(q)
    PROVE  QuoteInv'
<1> DEFINE n == [book[q] EXCEPT !.link = TRUE]
<1>1. GoodBook(book) /\ book[q] \in Quote /\ Sane(book[q]) /\ book \in [QuoteIds -> Quote]
    BY DEF QuoteInv, BooksGood, GoodBook
<1>2. /\ book' = [book EXCEPT ![q] = n] /\ dirty' = TRUE /\ Approved(book[q])
      /\ UNCHANGED <<disk, snap, waitVars, ghosts>>
    BY <1>1 DEF ModelSendsLink, Write, storeVars, Valid
<1>3. /\ n \in Quote /\ n.status = book[q].status /\ n.approval = book[q].approval
      /\ n.thanks = book[q].thanks /\ n.link = TRUE
    BY <1>1 DEF Quote
<1> HIDE DEF n
<1>4. /\ MovesTo(book[q], n) /\ Sane(n) /\ Approved(n) /\ ~Draft(n)
    BY <1>1, <1>2, <1>3 DEF MovesTo, Sane, Settled, Approved, Draft
<1>5. \A p \in QuoteIds : Approved(book[p]) => p = q
    BY <1>1, <1>2 DEF GoodBook, Alone
<1>6. book' \in [QuoteIds -> Quote] /\ \A p \in QuoteIds : book'[p] = IF p = q THEN n ELSE book[p]
    BY <1>1, <1>2, <1>3, Replaced
<1>7. GoodBook(book') /\ MovesOn(book, book')
    BY <1>1, <1>3, <1>4, <1>5, <1>6, OneBecomes
<1> QED BY <1>2, <1>7, BookStep

LEMMA DayPassesKeepsInv ==
    ASSUME QuoteInv, NEW q \in QuoteIds, DayPasses(q)
    PROVE  QuoteInv'
<1> DEFINE n == [book[q] EXCEPT !.expired = TRUE]
<1>1. GoodBook(book) /\ book[q] \in Quote /\ Sane(book[q]) /\ book \in [QuoteIds -> Quote]
    BY DEF QuoteInv, BooksGood, GoodBook
<1>2. /\ book' = [book EXCEPT ![q] = n] /\ dirty' = dirty /\ Approved(book[q])
      /\ UNCHANGED <<disk, snap, waitVars, ghosts>>
    BY <1>1 DEF DayPasses, storeVars, Valid
<1>3. /\ n \in Quote /\ n.status = book[q].status /\ n.approval = book[q].approval
      /\ n.thanks = book[q].thanks /\ n.link = book[q].link
    BY <1>1 DEF Quote
<1> HIDE DEF n
<1>4. /\ MovesTo(book[q], n) /\ Sane(n) /\ Approved(n) /\ ~Draft(n)
    BY <1>1, <1>2, <1>3 DEF MovesTo, Sane, Settled, Approved, Draft
<1>5. \A p \in QuoteIds : Approved(book[p]) => p = q
    BY <1>1, <1>2 DEF GoodBook, Alone
<1>6. book' \in [QuoteIds -> Quote] /\ \A p \in QuoteIds : book'[p] = IF p = q THEN n ELSE book[p]
    BY <1>1, <1>2, <1>3, Replaced
<1>7. GoodBook(book') /\ MovesOn(book, book')
    BY <1>1, <1>3, <1>4, <1>5, <1>6, OneBecomes
<1>8. Shows(book', book)
    BY <1>2, <1>6 DEF Shows
<1> QED BY <1>2, <1>7, <1>8, BookStep

LEMMA ResetKeepsInv ==
    ASSUME QuoteInv, Reset
    PROVE  QuoteInv'
<1>1. GoodBook(book) /\ book \in [QuoteIds -> Quote] /\ \A q \in QuoteIds : Sane(book[q])
    BY DEF QuoteInv, BooksGood, GoodBook
<1>2. /\ book' = [q \in QuoteIds |-> IF book[q].status = "none" THEN book[q]
                                     ELSE [book[q] EXCEPT !.status = "void"]]
      /\ dirty' = TRUE /\ UNCHANGED <<disk, snap, waitVars, ghosts>>
    BY DEF Reset, Write, storeVars
<1>3. ASSUME NEW q \in QuoteIds
      PROVE  /\ book'[q] \in Quote /\ Sane(book'[q]) /\ MovesTo(book[q], book'[q])
             /\ ~Approved(book'[q]) /\ ~Draft(book'[q])
  <2>1. CASE book[q].status = "none"
    <3>1. book'[q] = book[q]
        BY <1>2, <2>1
    <3> QED BY <1>1, <2>1, <3>1 DEF MovesTo, Approved, Draft
  <2>2. CASE book[q].status # "none"
    <3>1. book'[q] = [book[q] EXCEPT !.status = "void"] /\ book[q] \in Quote
        BY <1>1, <1>2, <2>2
    <3>2. /\ book'[q] \in Quote /\ book'[q].status = "void" /\ book'[q].link = book[q].link
          /\ book'[q].thanks = book[q].thanks
        BY <3>1 DEF Quote, Statuses
    <3> QED BY <1>1, <2>2, <3>2 DEF MovesTo, Sane, Settled, Approved, Draft
  <2> QED BY <2>1, <2>2
<1>4. book' \in [QuoteIds -> Quote]
    BY <1>2, <1>3
<1>5. GoodBook(book') /\ MovesOn(book, book')
    BY <1>3, <1>4 DEF GoodBook, Alone, MovesOn
<1> QED BY <1>2, <1>5, BookStep

-----------------------------------------------------------------------------
(* The steps that wait *)

\* w is new: nobody waits for what it may not follow.
Unasked(w) ==
    /\ w.op = "approve" => Draft(book[w.q]) \/ book[w.q].status = "none"
    /\ w.op = "paid" => book[w.q].status \in {"none", "pending_payment"}

LEMMA UnaskedNeverClashes ==
    ASSUME NEW s \in Seq(Waiter), AllFit(s), NEW w \in Waiter, Unasked(w)
    PROVE  \A i \in DOMAIN s : ~Clash(s[i], w)
<1> SUFFICES ASSUME NEW i \in DOMAIN s, Clash(s[i], w) PROVE FALSE
    OBVIOUS
<1>1. Fits(s[i]) /\ s[i].q = w.q
    BY DEF AllFit, Clash
<1> QED BY <1>1 DEF Fits, Unasked, Clash

\* A request that joins the line it has to, after a step that tells nobody.
LEMMA WaitStep ==
    ASSUME QuoteInv, Turn, MovesOn(book, book'), GoodBook(book'),
           NEW w \in Waiter, NEW unsaved \in BOOLEAN,
           Wait(w, unsaved), Unasked(w), Fits(w)',
           \/ dirty' = TRUE /\ unsaved
           \/ dirty' = dirty /\ book' = book /\ unsaved = dirty,
           UNCHANGED <<disk, snap, ghosts>>
    PROVE  QuoteInv'
<1>1. BooksGood' /\ PaidStays'
    BY BooksMove DEF QuoteInv
<1>2. CleanShows'
    BY DEF QuoteInv, CleanShows, Shows
<1>3. ToldTrue'
    BY ToldStays DEF QuoteInv, ghosts
<1>4. PICK s \in Seq(Waiter) : s = boarded
    BY DEF QuoteInv, LinesInOrder
<1>5. PICK t \in Seq(Waiter) : t = later
    BY DEF QuoteInv, LinesInOrder
<1>6. PICK r \in Seq(Waiter) : r = ready
    BY DEF QuoteInv, LinesInOrder
<1>7. /\ AllFit(s) /\ AllFit(t) /\ AllFit(r) /\ AllKnow(s, snap) /\ AllKnow(r, disk)
      /\ InOrder(s) /\ InOrder(t) /\ InOrder(r) /\ Apart(s, t) /\ Apart(r, t)
      /\ (snap = NoSnap \/ r # <<>> => s = <<>>) /\ (t # <<>> => dirty)
    BY <1>4, <1>5, <1>6 DEF QuoteInv, LinesInOrder, WaitersFit
<1>8. linked' = linked /\ thanked' = thanked /\ forgot' = forgot /\ snap' = snap /\ disk' = disk
    BY DEF ghosts
<1>9. /\ \A i \in DOMAIN s : s[i].op \in {"approve", "again"} /\ Approved(book'[s[i].q])
                => Approved(snap[s[i].q])
      /\ \A i \in DOMAIN r : r[i].op \in {"approve", "again"} /\ Approved(book'[r[i].q])
                => Approved(disk[r[i].q])
      /\ AllFit(s)' /\ AllFit(t)' /\ AllFit(r)'
  <2>1. AllFit(s)' /\ \A i \in DOMAIN s : s[i].op \in {"approve", "again"} /\ Approved(book'[s[i].q])
                => Approved(snap[s[i].q])
      BY <1>7, <1>8, LinesMove
  <2>2. AllFit(r)' /\ \A i \in DOMAIN r : r[i].op \in {"approve", "again"} /\ Approved(book'[r[i].q])
                => Approved(disk[r[i].q])
      BY <1>7, <1>8, LinesMove
  <2>3. AllFit(t)'
      BY <1>7, <1>8, LinesMove
  <2> QED BY <2>1, <2>2, <2>3
<1>10. /\ \A i \in DOMAIN s : ~Clash(s[i], w)
       /\ \A i \in DOMAIN t : ~Clash(t[i], w)
       /\ \A i \in DOMAIN r : ~Clash(r[i], w)
    BY <1>7, UnaskedNeverClashes
<1>11. CASE unsaved
  <2>1. PICK l : l = Append(t, w)
      OBVIOUS
  <2>2. Joined(l, t, w)
      BY <2>1, Appended
  <2>3. /\ l \in Seq(Waiter) /\ InOrder(l) /\ Apart(s, l) /\ Apart(r, l)
        /\ \A i \in DOMAIN l : (i \in DOMAIN t /\ l[i] = t[i]) \/ l[i] = w
      BY <1>7, <1>10, <2>2, OneMoreInLine
  <2>4. later' = l /\ boarded' = s /\ ready' = r
      BY <1>4, <1>5, <1>6, <1>11, <2>1 DEF Wait
  <2>5. dirty' = TRUE
      BY <1>11
  <2>6. LinesInOrder'
      BY <1>7, <1>8, <2>3, <2>4, <2>5 DEF LinesInOrder
  <2>7. AllFit(l)'
      BY <1>9, <2>3 DEF AllFit
  <2>8. WaitersFit'
      BY <1>8, <1>9, <2>4, <2>7 DEF WaitersFit, AllFit, AllKnow, Knows
  <2> QED BY <1>1, <1>2, <1>3, <2>6, <2>8 DEF QuoteInv
<1>12. CASE ~unsaved /\ snap # NoSnap
  <2>1. dirty' = FALSE /\ dirty = FALSE /\ book' = book /\ t = <<>>
      BY <1>7, <1>12
  <2>2. PICK l : l = Append(s, w)
      OBVIOUS
  <2>3. Joined(l, s, w)
      BY <2>2, Appended
  <2>4. InOrder(s) /\ \A i \in DOMAIN s : ~Clash(s[i], w)
      BY <1>7, <1>10
  <2>5. /\ l \in Seq(Waiter) /\ InOrder(l) /\ l # <<>>
        /\ \A i \in DOMAIN l : (i \in DOMAIN s /\ l[i] = s[i]) \/ l[i] = w
      BY ONLY s \in Seq(Waiter), w \in Waiter, <2>4, <2>3, OneMoreInLine
  <2>6. later' = t /\ boarded' = l /\ ready' = r
      BY <1>4, <1>5, <1>6, <1>12, <2>2 DEF Wait
  <2>7. Apart(l, t)
      BY <2>1 DEF Apart
  <2>8. r = <<>>
      BY <1>6 DEF Turn
  <2>9. LinesInOrder'
      BY <1>7, <1>8, <1>12, <2>1, <2>5, <2>6, <2>7, <2>8 DEF LinesInOrder
  <2>10. AllFit(l)'
      BY <1>9, <2>5 DEF AllFit
  <2>11. Approved(book'[w.q]) => Approved(snap[w.q])
      BY <1>12, <2>1 DEF QuoteInv, CleanShows, Shows, Waiter
  <2>12. \A i \in DOMAIN l : l[i].op \in {"approve", "again"} /\ Approved(book'[l[i].q])
                => Approved(snap[l[i].q])
      BY <1>9, <2>5, <2>11
  <2>13. WaitersFit'
      BY <1>8, <1>9, <2>6, <2>10, <2>12 DEF WaitersFit, AllFit, AllKnow, Knows
  <2> QED BY <1>1, <1>2, <1>3, <2>9, <2>13 DEF QuoteInv
<1>13. CASE ~unsaved /\ snap = NoSnap
  <2>1. dirty' = FALSE /\ dirty = FALSE /\ book' = book /\ t = <<>> /\ s = <<>>
      BY <1>7, <1>13
  <2>2. PICK l : l = Append(r, w)
      OBVIOUS
  <2>3. Joined(l, r, w)
      BY <2>2, Appended
  <2>4. InOrder(r) /\ \A i \in DOMAIN r : ~Clash(r[i], w)
      BY <1>7, <1>10
  <2>5. /\ l \in Seq(Waiter) /\ InOrder(l)
        /\ \A i \in DOMAIN l : (i \in DOMAIN r /\ l[i] = r[i]) \/ l[i] = w
      BY ONLY r \in Seq(Waiter), w \in Waiter, <2>4, <2>3, OneMoreInLine
  <2>6. later' = t /\ boarded' = s /\ ready' = l
      BY <1>4, <1>5, <1>6, <1>13, <2>2 DEF Wait
  <2>7. Apart(l, t)
      BY <2>1 DEF Apart
  <2>8. LinesInOrder'
      BY <1>7, <1>8, <1>13, <2>1, <2>5, <2>6, <2>7 DEF LinesInOrder
  <2>9. AllFit(l)'
      BY <1>9, <2>5 DEF AllFit
  <2>10. Approved(book'[w.q]) => Approved(disk[w.q])
      BY <1>13, <2>1 DEF QuoteInv, CleanShows, Shows, Waiter
  <2>11. \A i \in DOMAIN l : l[i].op \in {"approve", "again"} /\ Approved(book'[l[i].q])
                => Approved(disk[l[i].q])
      BY <1>9, <2>5, <2>10
  <2>12. WaitersFit'
      BY <1>8, <1>9, <2>6, <2>9, <2>11 DEF WaitersFit, AllFit, AllKnow, Knows
  <2> QED BY <1>1, <1>2, <1>3, <2>8, <2>12 DEF QuoteInv
<1> QED BY <1>11, <1>12, <1>13

LEMMA ApproveKeepsInv ==
    ASSUME QuoteInv, NEW q \in QuoteIds, Approve(q)
    PROVE  QuoteInv'
<1> DEFINE S == {p \in QuoteIds \ {q} : Approved(book[p])}
<1>1. GoodBook(book) /\ book[q] \in Quote /\ Sane(book[q]) /\ book \in [QuoteIds -> Quote]
    BY DEF QuoteInv, BooksGood, GoodBook
<1>2. PICK c : c = Supersede(book, S)
    OBVIOUS
<1>3. /\ GoodBook(c) /\ MovesOn(book, c) /\ c[q] = book[q] /\ c \in [QuoteIds -> Quote]
      /\ \A p \in QuoteIds : p # q => ~Approved(c[p])
  <2>1. /\ GoodBook(c) /\ MovesOn(book, c)
        /\ \A p \in QuoteIds : /\ p \notin S => c[p] = book[p]
                               /\ p \in S => ~Approved(c[p])
      BY <1>1, <1>2, Supersedes
  <2> QED BY <2>1 DEF GoodBook
<1>4. PICK n : n = [c[q] EXCEPT !.approval = "approved"]
    OBVIOUS
<1>5. /\ book' = [c EXCEPT ![q] = n] /\ dirty' = TRUE /\ Draft(book[q]) /\ Turn
      /\ Wait([op |-> "approve", q |-> q], TRUE) /\ UNCHANGED <<disk, snap, ghosts>>
    BY <1>2, <1>3, <1>4 DEF Approve, Write, storeVars
<1>6. /\ n \in Quote /\ n.status = book[q].status /\ n.approval = "approved"
      /\ n.thanks = book[q].thanks /\ n.link = book[q].link
    BY <1>1, <1>3, <1>4 DEF Quote, Approvals
<1>7. /\ MovesTo(c[q], n) /\ Sane(n) /\ Approved(n) /\ ~Draft(n)
    BY <1>1, <1>3, <1>5, <1>6 DEF MovesTo, Sane, Settled, Approved, Draft
<1>8. book' \in [QuoteIds -> Quote] /\ \A p \in QuoteIds : book'[p] = IF p = q THEN n ELSE c[p]
    BY <1>3, <1>5, <1>6, Replaced
<1>9. GoodBook(book') /\ MovesOn(c, book')
    BY <1>3, <1>6, <1>7, <1>8, OneBecomes
<1>10. MovesOn(book, book')
    BY <1>1, <1>3, <1>8, <1>9, MovesCompose
<1>11. PICK w \in Waiter : w = [op |-> "approve", q |-> q] /\ w.op = "approve" /\ w.q = q
  <2>1. [op |-> "approve", q |-> q] \in Waiter
      BY DEF Waiter
  <2> QED BY <2>1
<1>12. Unasked(w)
    BY <1>5, <1>11 DEF Unasked
<1>13. linked'[q] <= forgot'[q]
    BY <1>1, <1>5 DEF QuoteInv, ToldTrue, Sane, ghosts
<1>14. book'[q].status # "none" /\ ~Draft(book'[q])
    BY <1>5, <1>6, <1>7, <1>8 DEF Draft
<1>15. Fits(w)'
    BY <1>11, <1>13, <1>14 DEF Fits
<1> QED BY <1>5, <1>9, <1>10, <1>11, <1>12, <1>15, WaitStep

LEMMA ApproveAgainKeepsInv ==
    ASSUME QuoteInv, NEW q \in QuoteIds, ApproveAgain(q)
    PROVE  QuoteInv'
<1>1. GoodBook(book') /\ MovesOn(book, book') /\ dirty \in BOOLEAN
    BY StaysIsAMove DEF QuoteInv, BooksGood, CleanShows, ApproveAgain, MovesOn
<1>2. PICK w \in Waiter : w = [op |-> "again", q |-> q] /\ w.op = "again" /\ w.q = q
  <2>1. [op |-> "again", q |-> q] \in Waiter
      BY DEF Waiter
  <2> QED BY <2>1
<1>3. /\ dirty' = dirty /\ book' = book /\ Approved(book[q]) /\ Turn
      /\ Wait(w, dirty) /\ UNCHANGED <<disk, snap, ghosts>>
    BY <1>2 DEF ApproveAgain, storeVars
<1>4. Unasked(w)
    BY <1>2 DEF Unasked
<1>5. Fits(w)'
    BY <1>2, <1>3 DEF Fits, Approved, Draft
<1> QED BY <1>1, <1>3, <1>4, <1>5, WaitStep

LEMMA CancelKeepsInv ==
    ASSUME QuoteInv, NEW q \in QuoteIds, Cancel(q)
    PROVE  QuoteInv'
<1>1. GoodBook(book) /\ book[q] \in Quote /\ Sane(book[q]) /\ book \in [QuoteIds -> Quote]
    BY DEF QuoteInv, BooksGood, GoodBook
<1>2. PICK n : n = [book[q] EXCEPT !.status = "cancelled",
                        !.approval = IF @ = "pending" THEN "rejected" ELSE "withdrawn"]
    OBVIOUS
<1>3. PICK w \in Waiter : w = [op |-> "cancel", q |-> q] /\ w.op = "cancel" /\ w.q = q
  <2>1. [op |-> "cancel", q |-> q] \in Waiter
      BY DEF Waiter
  <2> QED BY <2>1
<1>4. /\ book' = [book EXCEPT ![q] = n] /\ dirty' = TRUE /\ (Draft(book[q]) \/ Approved(book[q])) /\ Turn
      /\ Wait(w, TRUE) /\ UNCHANGED <<disk, snap, ghosts>>
    BY <1>1, <1>2, <1>3 DEF Cancel, Write, storeVars
<1>5. /\ n \in Quote /\ n.status = "cancelled" /\ n.thanks = book[q].thanks /\ n.link = book[q].link
    BY <1>1, <1>2 DEF Quote, Approvals, Statuses
<1>6. /\ MovesTo(book[q], n) /\ Sane(n) /\ ~Approved(n) /\ ~Draft(n)
    BY <1>1, <1>4, <1>5 DEF MovesTo, Sane, Settled, Approved, Draft
<1>7. book' \in [QuoteIds -> Quote] /\ \A p \in QuoteIds : book'[p] = IF p = q THEN n ELSE book[p]
    BY <1>1, <1>4, <1>5, Replaced
<1>8. GoodBook(book') /\ MovesOn(book, book')
    BY <1>1, <1>5, <1>6, <1>7, OneBecomes
<1>9. Unasked(w) /\ Fits(w)'
    BY <1>3 DEF Unasked, Fits
<1> QED BY <1>4, <1>8, <1>9, WaitStep

LEMMA MarkPaidKeepsInv ==
    ASSUME QuoteInv, NEW q \in QuoteIds, MarkPaid(q)
    PROVE  QuoteInv'
<1>1. GoodBook(book) /\ book[q] \in Quote /\ Sane(book[q]) /\ book \in [QuoteIds -> Quote]
    BY DEF QuoteInv, BooksGood, GoodBook
<1>2. PICK n : n = [book[q] EXCEPT !.status = "paid"]
    OBVIOUS
<1>3. PICK w \in Waiter : w = [op |-> "paid", q |-> q] /\ w.op = "paid" /\ w.q = q
  <2>1. [op |-> "paid", q |-> q] \in Waiter
      BY DEF Waiter
  <2> QED BY <2>1
<1>4. /\ book' = [book EXCEPT ![q] = n] /\ dirty' = TRUE /\ Approved(book[q]) /\ Turn
      /\ Wait(w, TRUE) /\ UNCHANGED <<disk, snap, ghosts>>
    BY <1>1, <1>2, <1>3 DEF MarkPaid, Write, storeVars
<1>5. /\ n \in Quote /\ n.status = "paid" /\ n.thanks = book[q].thanks /\ n.link = book[q].link
    BY <1>1, <1>2 DEF Quote, Statuses
<1>6. /\ MovesTo(book[q], n) /\ Sane(n) /\ ~Approved(n) /\ ~Draft(n)
    BY <1>1, <1>4, <1>5 DEF MovesTo, Sane, Settled, Approved, Draft
<1>7. book' \in [QuoteIds -> Quote] /\ \A p \in QuoteIds : book'[p] = IF p = q THEN n ELSE book[p]
    BY <1>1, <1>4, <1>5, Replaced
<1>8. GoodBook(book') /\ MovesOn(book, book')
    BY <1>1, <1>5, <1>6, <1>7, OneBecomes
<1>9. Unasked(w)
    BY <1>3, <1>4 DEF Unasked, Approved
<1>10. thanked'[q] <= forgot'[q]
    BY <1>1, <1>4 DEF QuoteInv, ToldTrue, Sane, ghosts, Approved
<1>11. book'[q].status \notin {"none", "pending_payment"}
    BY <1>5, <1>7
<1>12. Fits(w)'
    BY <1>3, <1>10, <1>11 DEF Fits
<1> QED BY <1>4, <1>8, <1>9, <1>12, WaitStep

-----------------------------------------------------------------------------
(* The steps that tell *)

\* The request w sends what it may, or nothing.
Tells(w) ==
    \/ /\ w.op \in {"approve", "again"} /\ Approved(book[w.q]) /\ linked[w.q] <= forgot[w.q]
       /\ linked' = [linked EXCEPT ![w.q] = @ + 1] /\ thanked' = thanked
       /\ book' = [book EXCEPT ![w.q].link = TRUE] /\ dirty' = TRUE
    \/ /\ w.op = "paid" /\ book[w.q].status = "paid" /\ thanked[w.q] <= forgot[w.q]
       /\ thanked' = [thanked EXCEPT ![w.q] = @ + 1] /\ linked' = linked
       /\ book' = [book EXCEPT ![w.q].thanks = TRUE] /\ dirty' = TRUE
    \/ UNCHANGED <<book, dirty, linked, thanked>>

\* v has not been told with w.
Untold(v) ==
    /\ v.op = "approve" => linked'[v.q] = linked[v.q]
    /\ v.op = "paid" => thanked'[v.q] = thanked[v.q]

LEMMA TellsTrue ==
    ASSUME QuoteInv, NEW w \in Waiter, Tells(w), forgot' = forgot
    PROVE  /\ GoodBook(book') /\ MovesOn(book, book') /\ ToldTrue'
           /\ dirty' = TRUE \/ (dirty' = dirty /\ book' = book)
           /\ \A v \in Waiter : ~Clash(w, v) \/ (w.op = "paid" /\ ~Clash(v, w)) => Untold(v)
<1>1. PICK q \in QuoteIds : q = w.q
    BY DEF Waiter
<1>2. GoodBook(book) /\ book[q] \in Quote /\ Sane(book[q]) /\ book \in [QuoteIds -> Quote]
    BY DEF QuoteInv, BooksGood, GoodBook
<1>3. ToldTrue
    BY DEF QuoteInv
<1>4. CASE UNCHANGED <<book, dirty, linked, thanked>>
  <2>1. GoodBook(book') /\ MovesOn(book, book')
      BY <1>2, <1>4, StaysIsAMove DEF MovesOn
  <2> QED BY <1>3, <1>4, <2>1, ToldStays DEF Untold
<1>5. CASE /\ w.op \in {"approve", "again"} /\ Approved(book[w.q]) /\ linked[w.q] <= forgot[w.q]
           /\ linked' = [linked EXCEPT ![w.q] = @ + 1] /\ thanked' = thanked
           /\ book' = [book EXCEPT ![w.q].link = TRUE] /\ dirty' = TRUE
  <2>1. PICK n : n = [book[q] EXCEPT !.link = TRUE]
      OBVIOUS
  <2>2. /\ n \in Quote /\ n.status = book[q].status /\ n.approval = book[q].approval
        /\ n.thanks = book[q].thanks /\ n.link = TRUE
      BY <1>2, <2>1 DEF Quote
  <2>3. /\ MovesTo(book[q], n) /\ Sane(n) /\ Approved(n) /\ ~Draft(n)
      BY <1>1, <1>2, <1>5, <2>2 DEF MovesTo, Sane, Settled, Approved, Draft
  <2>4. \A p \in QuoteIds : Approved(book[p]) => p = q
      BY <1>1, <1>2, <1>5 DEF GoodBook, Alone
  <2>5. book' = [book EXCEPT ![q] = n]
      BY <1>1, <1>2, <1>5, <2>1
  <2>6. book' \in [QuoteIds -> Quote] /\ \A p \in QuoteIds : book'[p] = IF p = q THEN n ELSE book[p]
      BY <1>2, <2>2, <2>5, Replaced
  <2>7. GoodBook(book') /\ MovesOn(book, book')
      BY <1>2, <2>2, <2>3, <2>4, <2>6, OneBecomes
  <2>8. /\ linked' \in [QuoteIds -> Nat]
        /\ \A p \in QuoteIds : linked'[p] = IF p = q THEN linked[p] + 1 ELSE linked[p]
      BY <1>1, <1>3, <1>5 DEF ToldTrue
  <2>9. \A v \in Waiter : ~Clash(w, v) => Untold(v)
      BY <1>1, <1>5, <2>8 DEF Waiter, Clash, Untold
  <2>10. ToldTrue'
      BY <1>1, <1>3, <1>5, <2>2, <2>6, <2>8 DEF ToldTrue
  <2> QED BY <1>5, <2>7, <2>9, <2>10
<1>6. CASE /\ w.op = "paid" /\ book[w.q].status = "paid" /\ thanked[w.q] <= forgot[w.q]
           /\ thanked' = [thanked EXCEPT ![w.q] = @ + 1] /\ linked' = linked
           /\ book' = [book EXCEPT ![w.q].thanks = TRUE] /\ dirty' = TRUE
  <2>1. PICK n : n = [book[q] EXCEPT !.thanks = TRUE]
      OBVIOUS
  <2>2. /\ n \in Quote /\ n.status = "paid" /\ n.thanks = TRUE /\ n.link = book[q].link
      BY <1>1, <1>2, <1>6, <2>1 DEF Quote
  <2>3. /\ MovesTo(book[q], n) /\ Sane(n) /\ ~Approved(n) /\ ~Draft(n)
      BY <1>1, <1>2, <1>6, <2>2 DEF MovesTo, Sane, Settled, Approved, Draft
  <2>4. book' = [book EXCEPT ![q] = n]
      BY <1>1, <1>2, <1>6, <2>1
  <2>5. book' \in [QuoteIds -> Quote] /\ \A p \in QuoteIds : book'[p] = IF p = q THEN n ELSE book[p]
      BY <1>2, <2>2, <2>4, Replaced
  <2>6. GoodBook(book') /\ MovesOn(book, book')
      BY <1>2, <2>2, <2>3, <2>5, OneBecomes
  <2>7. /\ thanked' \in [QuoteIds -> Nat]
        /\ \A p \in QuoteIds : thanked'[p] = IF p = q THEN thanked[p] + 1 ELSE thanked[p]
      BY <1>1, <1>3, <1>6 DEF ToldTrue
  <2>8. \A v \in Waiter : ~Clash(w, v) \/ ~Clash(v, w) => Untold(v)
      BY <1>1, <1>6, <2>7 DEF Waiter, Clash, Untold
  <2>9. ToldTrue'
      BY <1>1, <1>3, <1>6, <2>2, <2>5, <2>7 DEF ToldTrue
  <2> QED BY <1>6, <2>6, <2>8, <2>9
<1> QED BY <1>4, <1>5, <1>6 DEF Tells

\* The rest of a line waits as before.
LEMMA RestFits ==
    ASSUME NEW s \in Seq(Waiter), AllFit(s), NEW t \in Seq(Waiter), MovesOn(book, book'), forgot' = forgot,
           \A i \in DOMAIN t : \E j \in DOMAIN s : t[i] = s[j] /\ Untold(s[j])
    PROVE  /\ AllFit(t)'
           /\ \A b : AllKnow(s, b) =>
                \A i \in DOMAIN t : t[i].op \in {"approve", "again"} /\ Approved(book'[t[i].q])
                    => Approved(b[t[i].q])
  BY LinesMove DEF Untold

LEMMA ResumeKeepsInv ==
    ASSUME QuoteInv, Resume
    PROVE  QuoteInv'
<1>1. PICK r \in Seq(Waiter) : r = ready
    BY DEF QuoteInv, LinesInOrder
<1>2. PICK t \in Seq(Waiter) : t = later
    BY DEF QuoteInv, LinesInOrder
<1>3. /\ AllFit(t) /\ AllFit(r) /\ AllKnow(r, disk) /\ boarded = <<>>
      /\ InOrder(t) /\ InOrder(r) /\ Apart(r, t) /\ r # <<>> /\ (t # <<>> => dirty)
    BY <1>1, <1>2 DEF QuoteInv, LinesInOrder, WaitersFit, Resume
<1>4. PICK rest \in Seq(Waiter) : rest = Tail(r)
  <2>1. Tail(r) \in Seq(Waiter)
      BY <1>3
  <2> QED BY <2>1
<1>5. /\ PartOf(rest, r) /\ Head(r) = r[1] /\ 1 \in DOMAIN r
      /\ \A i \in DOMAIN rest : rest[i] = r[i + 1] /\ i + 1 \in DOMAIN r /\ 1 < i + 1
    BY <1>3, <1>4, TailIsPart
<1>6. PICK w \in Waiter : w = r[1] /\ w = Head(ready)
    BY <1>1, <1>5
<1>7. Fits(w) /\ w.q \in QuoteIds
    BY <1>3, <1>5, <1>6 DEF AllFit, Waiter
<1>8. /\ ready' = rest /\ later' = t /\ boarded' = <<>> /\ snap' = snap /\ disk' = disk /\ forgot' = forgot
    BY <1>1, <1>2, <1>3, <1>4 DEF Resume, storeVars
<1>9. Tells(w)
  <2>1. CASE w.op \in {"approve", "again"} /\ MaySend(w)
    <3>1. /\ linked' = [linked EXCEPT ![w.q] = @ + 1] /\ thanked' = thanked
          /\ book' = [book EXCEPT ![w.q].link = TRUE] /\ dirty' = TRUE
        BY <1>6, <2>1 DEF Resume, Write
    <3>2. linked[w.q] <= forgot[w.q] /\ Approved(book[w.q])
        BY <1>7, <2>1 DEF MaySend, Fits, QuoteInv, ToldTrue, Valid
    <3> QED BY <2>1, <3>1, <3>2 DEF Tells
  <2>2. CASE ~(w.op \in {"approve", "again"} /\ MaySend(w)) /\ w.op = "paid" /\ book[w.q].status = "paid"
    <3>1. Thank(w.q) /\ linked' = linked
        BY <1>6, <2>2 DEF Resume
    <3> QED BY <1>7, <2>2, <3>1 DEF Tells, Thank, Write, Fits
  <2>3. CASE /\ ~(w.op \in {"approve", "again"} /\ MaySend(w))
             /\ ~(w.op = "paid" /\ book[w.q].status = "paid")
      BY <1>6, <2>3 DEF Resume, Tells
  <2> QED BY <2>1, <2>2, <2>3
<1>10. /\ GoodBook(book') /\ MovesOn(book, book') /\ ToldTrue'
       /\ dirty' = TRUE \/ (dirty' = dirty /\ book' = book)
       /\ \A v \in Waiter : ~Clash(w, v) => Untold(v)
    BY <1>8, <1>9, TellsTrue
<1>11. BooksGood' /\ PaidStays'
    BY <1>8, <1>10, BooksMove DEF QuoteInv
<1>12. CleanShows'
  <2>1. CASE dirty' = TRUE
      BY <2>1 DEF CleanShows
  <2>2. CASE dirty' = dirty /\ book' = book
      BY <1>8, <2>2 DEF QuoteInv, CleanShows, Shows
  <2> QED BY <1>10, <2>1, <2>2
<1>13. LinesInOrder'
  <2>1. InOrder(rest) /\ Apart(rest, t) /\ Apart(<<>>, t) /\ InOrder(<<>>)
      BY <1>3, <1>5, PartsInOrder DEF Apart, InOrder
  <2> QED BY <1>3, <1>8, <1>10, <2>1 DEF LinesInOrder
<1>14. /\ AllFit(rest)'
       /\ \A i \in DOMAIN rest : rest[i].op \in {"approve", "again"} /\ Approved(book'[rest[i].q])
                => Approved(disk[rest[i].q])
  <2>1. \A i \in DOMAIN rest : \E j \in DOMAIN r : rest[i] = r[j] /\ Untold(r[j])
    <3>1. ASSUME NEW i \in DOMAIN rest PROVE rest[i] = r[i + 1] /\ i + 1 \in DOMAIN r /\ Untold(r[i + 1])
      <4>1. rest[i] = r[i + 1] /\ i + 1 \in DOMAIN r /\ 1 < i + 1 /\ r[i + 1] \in Waiter
          BY <1>5
      <4>2. ~Clash(w, r[i + 1])
          BY <1>3, <1>5, <1>6, <4>1 DEF InOrder
      <4> QED BY <1>10, <4>1, <4>2
    <3> QED BY <3>1
  <2> QED BY <1>3, <1>8, <1>10, <2>1, RestFits
<1>15. AllFit(t)'
  <2>1. \A i \in DOMAIN t : \E j \in DOMAIN t : t[i] = t[j] /\ Untold(t[j])
    <3>1. ASSUME NEW i \in DOMAIN t PROVE Untold(t[i])
        BY <1>3, <1>5, <1>6, <1>10 DEF Apart
    <3> QED BY <3>1
  <2> QED BY <1>3, <1>8, <1>10, <2>1, RestFits
<1>16. WaitersFit'
    BY <1>8, <1>14, <1>15 DEF WaitersFit, AllFit, AllKnow, Knows
<1> QED BY <1>10, <1>11, <1>12, <1>13, <1>16 DEF QuoteInv

\* A request that gives up leaves its line, and the others where they were.
LEMMA LeavesAPart ==
    ASSUME NEW s \in Seq(Waiter), NEW w \in Waiter, NEW rest, Leaves(w, s, rest), InOrder(s)
    PROVE  /\ rest \in Seq(Waiter) /\ InOrder(rest) /\ (s = <<>> => rest = <<>>)
           /\ \A t : (Apart(s, t) => Apart(rest, t)) /\ (Apart(t, s) => Apart(t, rest))
           /\ \A i \in DOMAIN rest : \E j \in DOMAIN s :
                rest[i] = s[j] /\ (~Clash(w, s[j]) \/ ~Clash(s[j], w))
           /\ \E j \in DOMAIN s : w = s[j]
<1>1. PICK k \in DOMAIN s : s[k] = w /\ rest = RemoveAt(s, k)
    BY DEF Leaves
<1>2. /\ rest \in Seq(Waiter) /\ PartOf(rest, s)
      /\ \A i \in DOMAIN rest : \E j \in DOMAIN s : j # k /\ rest[i] = s[j]
    BY <1>1, RestIsPart
<1>3. /\ InOrder(rest) /\ (s = <<>> => rest = <<>>)
      /\ \A t : (Apart(s, t) => Apart(rest, t)) /\ (Apart(t, s) => Apart(t, rest))
    BY <1>2, PartsInOrder
<1>4. ASSUME NEW j \in DOMAIN s, j # k PROVE ~Clash(w, s[j]) \/ ~Clash(s[j], w)
  <2>1. j < k \/ k < j
      BY <1>4
  <2> QED BY <1>1, <2>1 DEF InOrder
<1> QED BY <1>1, <1>2, <1>3, <1>4

LEMMA TimesOutKeepsInv ==
    ASSUME QuoteInv, NEW w \in Waiters, TimesOut(w)
    PROVE  QuoteInv'
<1>1. PICK s \in Seq(Waiter) : s = boarded
    BY DEF QuoteInv, LinesInOrder
<1>2. PICK t \in Seq(Waiter) : t = later
    BY DEF QuoteInv, LinesInOrder
<1>3. /\ AllFit(s) /\ AllFit(t) /\ AllKnow(s, snap) /\ ready = <<>>
      /\ InOrder(s) /\ InOrder(t) /\ Apart(s, t) /\ (snap = NoSnap => s = <<>>) /\ (t # <<>> => dirty)
    BY <1>1, <1>2 DEF QuoteInv, LinesInOrder, WaitersFit, TimesOut, Turn
<1>4. w \in Waiter /\ Fits(w) /\ w.q \in QuoteIds
  <2>1. (\E i \in DOMAIN s : w = s[i]) \/ \E j \in DOMAIN t : w = t[j]
      BY <1>1, <1>2 DEF Waiters, ToSet
  <2>2. w \in Waiter /\ Fits(w)
      BY <1>3, <2>1 DEF AllFit
  <2> QED BY <2>2 DEF Waiter
<1>5. Tells(w) /\ (w.op # "paid" => UNCHANGED <<book, dirty, linked, thanked>>)
  <2>1. linked' = linked /\ (w.op = "paid" => thanked[w.q] <= forgot[w.q])
      BY <1>4 DEF TimesOut, Fits
  <2> QED BY <2>1 DEF TimesOut, Thank, Write, Tells
<1>6. forgot' = forgot /\ snap' = snap /\ disk' = disk /\ ready' = <<>>
    BY <1>3 DEF TimesOut, storeVars
<1>7. /\ GoodBook(book') /\ MovesOn(book, book') /\ ToldTrue'
      /\ dirty' = TRUE \/ (dirty' = dirty /\ book' = book)
      /\ \A v \in Waiter : ~Clash(w, v) \/ ~Clash(v, w) => Untold(v)
  <2>1. /\ GoodBook(book') /\ MovesOn(book, book') /\ ToldTrue'
        /\ dirty' = TRUE \/ (dirty' = dirty /\ book' = book)
        /\ \A v \in Waiter : ~Clash(w, v) \/ (w.op = "paid" /\ ~Clash(v, w)) => Untold(v)
      BY <1>4, <1>5, <1>6, TellsTrue
  <2>2. w.op # "paid" => \A v \in Waiter : Untold(v)
      BY <1>5 DEF Untold
  <2> QED BY <2>1, <2>2
<1>8. PICK s1 \in Seq(Waiter) :
        /\ s1 = boarded' /\ InOrder(s1) /\ (s = <<>> => s1 = <<>>)
        /\ \A u : Apart(s, u) => Apart(s1, u)
        /\ \A i \in DOMAIN s1 : \E j \in DOMAIN s : s1[i] = s[j] /\ Untold(s[j])
  <2>1. PICK u : u = boarded'
      OBVIOUS
  <2>2. CASE Leaves(w, boarded, boarded')
    <3>1. /\ u \in Seq(Waiter) /\ InOrder(u) /\ (s = <<>> => u = <<>>)
          /\ \A v : Apart(s, v) => Apart(u, v)
          /\ \A i \in DOMAIN u : \E j \in DOMAIN s :
                u[i] = s[j] /\ (~Clash(w, s[j]) \/ ~Clash(s[j], w))
        BY <1>1, <1>3, <1>4, <2>1, <2>2, LeavesAPart
    <3> QED BY <1>7, <2>1, <3>1
  <2>3. CASE Leaves(w, later, later') /\ boarded' = boarded
    <3>1. \E j \in DOMAIN t : w = t[j]
        BY <1>2, <2>3 DEF Leaves
    <3>2. ASSUME NEW i \in DOMAIN s PROVE Untold(s[i])
        BY <1>3, <1>7, <3>1 DEF Apart
    <3> QED BY <1>1, <1>3, <2>3, <3>2
  <2> QED BY <2>2, <2>3 DEF TimesOut
<1>9. PICK t1 \in Seq(Waiter) :
        /\ t1 = later' /\ InOrder(t1) /\ (t = <<>> => t1 = <<>>)
        /\ \A u : Apart(u, t) => Apart(u, t1)
        /\ \A i \in DOMAIN t1 : \E j \in DOMAIN t : t1[i] = t[j] /\ Untold(t[j])
  <2>1. PICK u : u = later'
      OBVIOUS
  <2>2. CASE Leaves(w, later, later')
    <3>1. /\ u \in Seq(Waiter) /\ InOrder(u) /\ (t = <<>> => u = <<>>)
          /\ \A v : Apart(v, t) => Apart(v, u)
          /\ \A i \in DOMAIN u : \E j \in DOMAIN t :
                u[i] = t[j] /\ (~Clash(w, t[j]) \/ ~Clash(t[j], w))
        BY <1>2, <1>3, <1>4, <2>1, <2>2, LeavesAPart
    <3> QED BY <1>7, <2>1, <3>1
  <2>3. CASE Leaves(w, boarded, boarded') /\ later' = later
    <3>1. \E j \in DOMAIN s : w = s[j]
        BY <1>1, <2>3 DEF Leaves
    <3>2. ASSUME NEW i \in DOMAIN t PROVE Untold(t[i])
        BY <1>3, <1>7, <3>1 DEF Apart
    <3> QED BY <1>2, <1>3, <2>3, <3>2
  <2> QED BY <2>2, <2>3 DEF TimesOut
<1>10. BooksGood' /\ PaidStays'
    BY <1>6, <1>7, BooksMove DEF QuoteInv
<1>11. CleanShows'
  <2>1. CASE dirty' = TRUE
      BY <2>1 DEF CleanShows
  <2>2. CASE dirty' = dirty /\ book' = book
      BY <1>6, <2>2 DEF QuoteInv, CleanShows, Shows
  <2> QED BY <1>7, <2>1, <2>2
<1>12. LinesInOrder'
  <2>1. Apart(s1, t1) /\ Apart(<<>>, t1) /\ InOrder(<<>>)
      BY <1>3, <1>8, <1>9 DEF Apart, InOrder
  <2> QED BY <1>3, <1>6, <1>7, <1>8, <1>9, <2>1 DEF LinesInOrder
<1>13. /\ AllFit(s1)' /\ AllFit(t1)'
       /\ \A i \in DOMAIN s1 : s1[i].op \in {"approve", "again"} /\ Approved(book'[s1[i].q])
                => Approved(snap[s1[i].q])
  <2>1. AllFit(s1)' /\ \A i \in DOMAIN s1 : s1[i].op \in {"approve", "again"} /\ Approved(book'[s1[i].q])
                => Approved(snap[s1[i].q])
      BY <1>3, <1>6, <1>7, <1>8, RestFits
  <2>2. AllFit(t1)'
      BY <1>3, <1>6, <1>7, <1>9, RestFits
  <2> QED BY <2>1, <2>2
<1>14. WaitersFit'
    BY <1>6, <1>8, <1>9, <1>13 DEF WaitersFit, AllFit, AllKnow, Knows
<1> QED BY <1>7, <1>10, <1>11, <1>12, <1>14 DEF QuoteInv

-----------------------------------------------------------------------------
(* The store *)

LEMMA NothingInLine == InOrder(<<>>) /\ AllFit(<<>>) /\ \A t : Apart(<<>>, t) /\ Apart(t, <<>>)
  BY DEF InOrder, AllFit, Apart

LEMMA SnapshotKeepsInv ==
    ASSUME QuoteInv, Snapshot
    PROVE  QuoteInv'
<1>1. /\ snap' = book /\ dirty' = FALSE /\ boarded' = later /\ later' = <<>> /\ snap = NoSnap
      /\ UNCHANGED <<book, disk, ready, linked, thanked, forgot>> /\ ready = <<>>
    BY DEF Snapshot, ghosts, Turn
<1>2. \A q \in QuoteIds : book # NoSnap
    BY SnapIsNone DEF QuoteInv, BooksGood, GoodBook
<1>3. BooksGood' /\ PaidStays' /\ ToldTrue'
  <2>1. GoodBook(book') /\ GoodBook(snap') /\ GoodBook(disk')
      BY <1>1 DEF QuoteInv, BooksGood
  <2>2. BooksGood'
      BY <2>1 DEF BooksGood
  <2>3. PaidStays'
      BY <1>1 DEF QuoteInv, PaidStays, KeepsPaid, Settled
  <2> QED BY <1>1, <2>2, <2>3 DEF QuoteInv, ToldTrue
<1>4. CleanShows'
    BY <1>1, <1>2 DEF CleanShows, Shows
<1>5. PICK t \in Seq(Waiter) : t = later
    BY DEF QuoteInv, LinesInOrder
<1>6. InOrder(t) /\ AllFit(t)
    BY <1>5 DEF QuoteInv, LinesInOrder, WaitersFit
<1>7. t # <<>> => snap' # NoSnap
  <2>1. t # <<>> => t[1] \in Waiter
      OBVIOUS
  <2> QED BY <1>1, <1>2, <2>1 DEF Waiter
<1>8. LinesInOrder'
  <2>1. <<>> \in Seq(Waiter)
      OBVIOUS
  <2> QED BY <1>1, <1>5, <1>6, <1>7, <2>1, NothingInLine DEF LinesInOrder
<1>9. WaitersFit'
  <2>1. AllFit(t)' /\ (\A i \in DOMAIN t : t[i].op \in {"approve", "again"} /\ Approved(book'[t[i].q])
                => Approved(snap'[t[i].q]))
      BY <1>1, <1>6 DEF AllFit, Fits
  <2> QED BY <1>1, <1>5, <2>1 DEF WaitersFit, AllFit, AllKnow, Knows
<1> QED BY <1>3, <1>4, <1>8, <1>9 DEF QuoteInv

LEMMA CommitKeepsInv ==
    ASSUME QuoteInv, Commit
    PROVE  QuoteInv' /\ KeepsPaid(disk, disk')
<1>1. /\ disk' = snap /\ snap # NoSnap /\ snap' = NoSnap /\ ready' = boarded /\ boarded' = <<>> /\ ready = <<>>
      /\ UNCHANGED <<book, dirty, later, linked, thanked, forgot>>
    BY DEF Commit, ghosts, Turn
<1>2. BooksGood'
  <2>1. GoodBook(book') /\ GoodBook(disk')
      BY <1>1 DEF QuoteInv, BooksGood
  <2> QED BY <1>1, <2>1 DEF BooksGood
<1>3. PaidStays' /\ ToldTrue' /\ KeepsPaid(disk, disk')
    BY <1>1 DEF QuoteInv, PaidStays, KeepsPaid, ToldTrue
<1>4. CleanShows'
    BY <1>1 DEF QuoteInv, CleanShows, Shows
<1>5. LinesInOrder'
  <2>1. <<>> \in Seq(Waiter)
      OBVIOUS
  <2> QED BY <1>1, <2>1, NothingInLine DEF QuoteInv, LinesInOrder
<1>6. WaitersFit'
  <2>1. \A w : Fits(w) => Fits(w)'
      BY <1>1 DEF Fits
  <2>2. AllFit(boarded) /\ AllFit(later) /\ AllKnow(boarded, snap)
      BY DEF QuoteInv, WaitersFit
  <2> QED BY <1>1, <2>1, <2>2 DEF WaitersFit, AllFit, AllKnow, Knows, Fits
<1> QED BY <1>2, <1>3, <1>4, <1>5, <1>6 DEF QuoteInv

LEMMA StallKeepsInv ==
    ASSUME QuoteInv, Stall \/ UNCHANGED quoteVars
    PROVE  QuoteInv'
<1>1. MovesOn(book, book') /\ GoodBook(book') /\ dirty' = dirty /\ Shows(book', book)
      /\ UNCHANGED <<disk, snap, waitVars, ghosts>>
    BY StaysIsAMove DEF Stall, quoteVars, storeVars, QuoteInv, BooksGood, MovesOn, Shows
<1> QED BY <1>1, BookStep

LEMMA BreaksKeepsInv ==
    ASSUME QuoteInv, Breaks
    PROVE  QuoteInv'
<1>1. /\ snap' = NoSnap /\ dirty' = TRUE /\ boarded' = <<>> /\ later' = <<>> /\ ready' = <<>>
      /\ UNCHANGED <<book, disk, linked, thanked, forgot>>
    BY DEF Breaks, ghosts, Turn
<1>2. BooksGood'
  <2>1. GoodBook(book') /\ GoodBook(disk')
      BY <1>1 DEF QuoteInv, BooksGood
  <2> QED BY <1>1, <2>1 DEF BooksGood
<1>3. PaidStays' /\ ToldTrue' /\ CleanShows'
    BY <1>1 DEF QuoteInv, PaidStays, KeepsPaid, ToldTrue, CleanShows
<1>4. LinesInOrder'
  <2>1. <<>> \in Seq(Waiter)
      OBVIOUS
  <2> QED BY <1>1, <2>1, NothingInLine DEF LinesInOrder
<1>5. WaitersFit'
    BY <1>1 DEF WaitersFit, AllFit, AllKnow
<1> QED BY <1>2, <1>3, <1>4, <1>5 DEF QuoteInv

LEMMA QuotesRestartKeepsInv ==
    ASSUME QuoteInv, NEW spilled \in BOOLEAN, QuotesRestart(spilled)
    PROVE  QuoteInv' /\ KeepsPaid(disk, disk')
<1>1. PICK b : b = IF spilled THEN book ELSE disk
    OBVIOUS
<1>2. /\ GoodBook(b) /\ b \in [QuoteIds -> Quote] /\ book \in [QuoteIds -> Quote]
      /\ KeepsPaid(disk, b) /\ \A q \in QuoteIds : Sane(b[q])
    BY <1>1 DEF QuoteInv, BooksGood, GoodBook, PaidStays, KeepsPaid, Settled
<1>3. /\ book' = [q \in QuoteIds |-> [b[q] EXCEPT !.expired = book[q].expired /\ Approved(b[q])]]
      /\ disk' = book'
      /\ forgot' = [q \in QuoteIds |-> forgot[q]
            + (IF (book[q].link /\ ~b[q].link) \/ (book[q].thanks /\ ~b[q].thanks) THEN 1 ELSE 0)]
      /\ snap' = NoSnap /\ dirty' = FALSE /\ boarded' = <<>> /\ later' = <<>> /\ ready' = <<>>
      /\ linked' = linked /\ thanked' = thanked
    BY <1>1 DEF QuotesRestart
<1>4. ASSUME NEW q \in QuoteIds
      PROVE  /\ book'[q] \in Quote /\ book'[q].status = b[q].status /\ book'[q].approval = b[q].approval
             /\ book'[q].link = b[q].link /\ book'[q].thanks = b[q].thanks
  <2>1. PICK e : e = (book[q].expired /\ Approved(b[q]))
      OBVIOUS
  <2>2. e \in BOOLEAN
      BY <2>1
  <2>3. book'[q] = [b[q] EXCEPT !.expired = e] /\ b[q] \in Quote
      BY <1>2, <1>3, <2>1
  <2> QED BY <2>2, <2>3 DEF Quote
<1>5. book' \in [QuoteIds -> Quote]
    BY <1>3, <1>4
<1>6. GoodBook(book')
    BY <1>2, <1>4, <1>5 DEF GoodBook, Alone, Sane, Approved, Draft
<1>7. BooksGood'
    BY <1>3, <1>6 DEF BooksGood
<1>8. PaidStays' /\ KeepsPaid(disk, disk')
    BY <1>2, <1>3, <1>4 DEF PaidStays, KeepsPaid, Settled
<1>9. CleanShows'
    BY <1>3 DEF CleanShows, Shows
<1>10. LinesInOrder'
  <2>1. <<>> \in Seq(Waiter)
      OBVIOUS
  <2> QED BY <1>3, <2>1, NothingInLine DEF LinesInOrder
<1>11. WaitersFit'
    BY <1>3 DEF WaitersFit, AllFit, AllKnow
<1>12. ToldTrue'
  <2>1. ToldTrue
      BY DEF QuoteInv
  <2>2. forgot' \in [QuoteIds -> Nat] /\ \A q \in QuoteIds :
            forgot'[q] = forgot[q] + (IF (book[q].link /\ ~b[q].link) \/ (book[q].thanks /\ ~b[q].thanks)
                                      THEN 1 ELSE 0)
      BY <1>3, <2>1 DEF ToldTrue
  <2>3. ASSUME NEW q \in QuoteIds
        PROVE  /\ linked[q] <= 1 + forgot'[q] /\ (~book'[q].link => linked[q] <= forgot'[q])
               /\ thanked[q] <= 1 + forgot'[q] /\ (~book'[q].thanks => thanked[q] <= forgot'[q])
      BY <1>4, <2>1, <2>2 DEF ToldTrue
  <2> QED BY <1>3, <2>1, <2>2, <2>3 DEF ToldTrue
<1> QED BY <1>7, <1>8, <1>9, <1>10, <1>11, <1>12 DEF QuoteInv

LEMMA QuoteInvInit == QuotesInit => QuoteInv
<1> SUFFICES ASSUME QuotesInit PROVE QuoteInv
    OBVIOUS
<1>1. NoQuote \in Quote /\ Sane(NoQuote) /\ ~Approved(NoQuote) /\ ~Draft(NoQuote) /\ NoQuote.status = "none"
    BY DEF NoQuote, Quote, Statuses, Approvals, Sane, Approved, Draft
<1>2. book \in [QuoteIds -> Quote] /\ disk = book /\ \A q \in QuoteIds : book[q] = NoQuote
    BY <1>1 DEF QuotesInit
<1>3. BooksGood
    BY <1>1, <1>2 DEF QuotesInit, BooksGood, GoodBook, Alone
<1>4. PaidStays /\ CleanShows
    BY <1>1, <1>2 DEF QuotesInit, PaidStays, KeepsPaid, CleanShows, Shows
<1>5. LinesInOrder
  <2>1. <<>> \in Seq(Waiter)
      OBVIOUS
  <2> QED BY <2>1, NothingInLine DEF QuotesInit, LinesInOrder
<1>6. WaitersFit
    BY DEF QuotesInit, WaitersFit, AllFit, AllKnow
<1>7. ToldTrue
    BY DEF QuotesInit, ToldTrue
<1> QED BY <1>3, <1>4, <1>5, <1>6, <1>7 DEF QuoteInv

\* A link goes out for a valid quote that is committed as approved.
LinksTrue == \A q \in QuoteIds : linked'[q] > linked[q] => Valid(book[q]) /\ Approved(disk[q])

LEMMA ResumeLinks ==
    ASSUME QuoteInv, Resume
    PROVE  LinksTrue
<1> SUFFICES ASSUME NEW q \in QuoteIds, linked'[q] > linked[q] PROVE Valid(book[q]) /\ Approved(disk[q])
    BY DEF LinksTrue
<1>1. PICK r \in Seq(Waiter) : r = ready /\ r # <<>>
    BY DEF QuoteInv, LinesInOrder, Resume
<1>2. PICK w \in Waiter : w = r[1] /\ w = Head(ready) /\ 1 \in DOMAIN r
    BY <1>1
<1>3. linked \in [QuoteIds -> Nat] /\ w.q \in QuoteIds
    BY DEF QuoteInv, ToldTrue, Waiter
<1>4. CASE w.op \in {"approve", "again"} /\ MaySend(w)
  <2>1. linked' = [linked EXCEPT ![w.q] = @ + 1]
      BY <1>2, <1>4 DEF Resume
  <2>2. w.q = q
      BY <1>3, <2>1
  <2>3. Knows(w, disk)
      BY <1>1, <1>2 DEF QuoteInv, WaitersFit, AllKnow
  <2> QED BY <1>4, <2>2, <2>3 DEF Knows, MaySend, Valid
<1>5. CASE ~(w.op \in {"approve", "again"} /\ MaySend(w))
  <2>1. linked' = linked
      BY <1>2, <1>5 DEF Resume
  <2> QED BY <1>3, <2>1
<1> QED BY <1>4, <1>5

LEMMA QuoteInvNext ==
    ASSUME QuoteInv, [QuotesNext]_quoteVars
    PROVE  QuoteInv' /\ LinksTrue /\ KeepsPaid(disk, disk')
<1>1. linked \in [QuoteIds -> Nat]
    BY DEF QuoteInv, ToldTrue
<1>2. ASSUME NEW q \in QuoteIds, NEW auto \in BOOLEAN, Create(q, auto)
      PROVE  QuoteInv' /\ linked' = linked /\ disk' = disk
    BY <1>2, CreateKeepsInv DEF Create, ghosts, storeVars
<1>3. ASSUME NEW q \in QuoteIds, Reuse(q) \/ ModelSendsLink(q) \/ DayPasses(q)
      PROVE  QuoteInv' /\ linked' = linked /\ disk' = disk
    BY <1>3, ReuseKeepsInv, ModelSendsLinkKeepsInv, DayPassesKeepsInv
       DEF Reuse, ModelSendsLink, DayPasses, ghosts, storeVars
<1>4. ASSUME NEW q \in QuoteIds, Approve(q) \/ ApproveAgain(q) \/ Cancel(q) \/ MarkPaid(q)
      PROVE  QuoteInv' /\ linked' = linked /\ disk' = disk
    BY <1>4, ApproveKeepsInv, ApproveAgainKeepsInv, CancelKeepsInv, MarkPaidKeepsInv
       DEF Approve, ApproveAgain, Cancel, MarkPaid, ghosts, storeVars
<1>5. ASSUME NEW w \in Waiters, TimesOut(w) PROVE QuoteInv' /\ linked' = linked /\ disk' = disk
  <2>1. linked' = linked /\ disk' = disk
      BY <1>5 DEF TimesOut, storeVars
  <2> QED BY <1>5, <2>1, TimesOutKeepsInv
<1>6. ASSUME Reset PROVE QuoteInv' /\ linked' = linked /\ disk' = disk
    BY <1>6, ResetKeepsInv DEF Reset, ghosts, storeVars
<1>7. ASSUME Resume PROVE QuoteInv' /\ LinksTrue /\ disk' = disk
  <2>1. disk' = disk
      BY <1>7 DEF Resume, storeVars
  <2> QED BY <1>7, <2>1, ResumeKeepsInv, ResumeLinks
<1>8. ASSUME Snapshot PROVE QuoteInv' /\ linked' = linked /\ disk' = disk
    BY <1>8, SnapshotKeepsInv DEF Snapshot, ghosts
<1>9. ASSUME Commit PROVE QuoteInv' /\ linked' = linked /\ KeepsPaid(disk, disk')
    BY <1>9, CommitKeepsInv DEF Commit, ghosts
<1>10. ASSUME Stall \/ UNCHANGED quoteVars PROVE QuoteInv' /\ linked' = linked /\ disk' = disk
    BY <1>10, StallKeepsInv DEF Stall, quoteVars, storeVars, ghosts
<1>11. ASSUME Breaks PROVE QuoteInv' /\ linked' = linked /\ disk' = disk
    BY <1>11, BreaksKeepsInv DEF Breaks, ghosts
<1>12. ASSUME NEW spilled \in BOOLEAN, QuotesRestart(spilled)
       PROVE  QuoteInv' /\ linked' = linked /\ KeepsPaid(disk, disk')
    BY <1>12, QuotesRestartKeepsInv DEF QuotesRestart
<1>13. /\ linked' = linked => LinksTrue
       /\ disk' = disk => KeepsPaid(disk, disk')
    BY <1>1 DEF LinksTrue, KeepsPaid, Settled
<1> QED BY <1>2, <1>3, <1>4, <1>5, <1>6, <1>7, <1>8, <1>9, <1>10, <1>11, <1>12, <1>13 DEF QuotesNext

LEMMA AtMostOne ==
    ASSUME NEW S, \A p, q \in S : p = q
    PROVE  Cardinality(S) <= 1
<1>1. CASE S = {}
    BY <1>1, FS_EmptySet
<1>2. CASE S # {}
  <2>1. PICK p : p \in S
      BY <1>2
  <2>2. S = {p}
      BY <2>1
  <2>3. Cardinality({p}) = 1
      BY FS_Singleton
  <2> QED BY <2>2, <2>3
<1> QED BY <1>1, <1>2

LEMMA QuotesAgreeNow == QuoteInv => QuotesAgree
<1> SUFFICES ASSUME QuoteInv PROVE QuotesAgree
    OBVIOUS
<1>1. ASSUME NEW b \in {book, disk}
      PROVE  /\ Cardinality({q \in QuoteIds : Approved(b[q])}) <= 1
             /\ Cardinality({q \in QuoteIds : Draft(b[q])}) <= 1
  <2>1. Alone(b)
      BY DEF QuoteInv, BooksGood, GoodBook
  <2>2. \A p, q \in {x \in QuoteIds : Approved(b[x])} : p = q
      BY <2>1 DEF Alone
  <2>3. \A p, q \in {x \in QuoteIds : Draft(b[x])} : p = q
      BY <2>1 DEF Alone
  <2> QED BY <2>2, <2>3, AtMostOne
<1>2. QuoteToldOnce
    BY DEF QuoteInv, ToldTrue, QuoteToldOnce
<1> QED BY <1>1, <1>2 DEF QuotesAgree, OneLiveQuote

\* Customer, advisor and database read one story: one live quote, each
\* decision told once, a link only for what is committed, and what is paid
\* stays paid; for any number of quotes, requests, stalls and restarts.
THEOREM QuotesAreSafeHolds == QuotesSpec => QuotesAreSafe
<1> DEFINE Step == \A q \in QuoteIds :
        /\ linked'[q] > linked[q] => Valid(book[q]) /\ Approved(disk[q])
        /\ disk[q].status = "paid" => disk'[q].status \in {"paid", "void"}
<1>1. QuotesInit => QuoteInv
    BY QuoteInvInit
<1>2. QuoteInv /\ [QuotesNext]_quoteVars => QuoteInv' /\ Step
    BY QuoteInvNext DEF LinksTrue, KeepsPaid, Settled
<1>3. QuoteInv => QuotesAgree
    BY QuotesAgreeNow
<1> HIDE DEF Step
<1>4. QuotesSpec => []QuotesAgree /\ [][Step]_quoteVars
    BY <1>1, <1>2, <1>3, PTL DEF QuotesSpec
<1> QED BY <1>4 DEF Step, QuotesAreSafe, QuoteSteps
=============================================================================
