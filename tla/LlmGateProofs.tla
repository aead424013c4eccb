--------------------------- MODULE LlmGateProofs ---------------------------
(***************************************************************************)
(* Theorems about LlmGate: no slot is lost or made up, each pool is a      *)
(* first-come, first-served turnstile, and no budget is overdrawn, for any *)
(* calls, tenants, limits, estimates and caps and any number of days.      *)
(***************************************************************************)
EXTENDS LlmGate, LinesProofs, SequenceTheorems, FiniteSetTheorems, TLAPS

-----------------------------------------------------------------------------
(* What a step may do to a pool: a call comes, or some go out, are relieved *)
(* by the first in line, and then some who still wait give up.             *)

PoolTrue(p) ==
    /\ Standing(queue[p]) = Queued(p) /\ IsInjective(queue[p])
    /\ inflight[p] = Cardinality(Holders(p)) /\ inflight[p] <= Limit[p]
    /\ queue[p] # <<>> => inflight[p] = Limit[p]

Stays(p) ==
    /\ Holders(p)' = Holders(p) /\ Queued(p)' = Queued(p)
    /\ queue'[p] = queue[p] /\ inflight'[p] = inflight[p]

Enters(p, c) ==
    /\ Pool[c] = p /\ c \notin Holders(p) \cup Standing(queue[p])
    /\ IF inflight[p] < Limit[p]
       THEN /\ Holders(p)' = Holders(p) \cup {c} /\ Queued(p)' = Queued(p)
            /\ queue'[p] = queue[p] /\ inflight'[p] = inflight[p] + 1
       ELSE /\ Holders(p)' = Holders(p) /\ Queued(p)' = Queued(p) \cup {c}
            /\ queue'[p] = Append(queue[p], c) /\ inflight'[p] = inflight[p]

Passed(p, out) ==
    IF Cardinality(out) < Len(queue[p]) THEN Cardinality(out) ELSE Len(queue[p])
Relief(p, out) == FirstOf(queue[p], Passed(p, out))

Leaves(p, out, lost) ==
    /\ out \subseteq Holders(p) /\ lost \subseteq Queued(p) \ Relief(p, out)
    /\ Holders(p)' = (Holders(p) \ out) \cup Relief(p, out)
    /\ Queued(p)' = Queued(p) \ (Relief(p, out) \cup lost)
    /\ queue'[p] = Without(SubSeq(queue[p], Passed(p, out) + 1, Len(queue[p])), lost)
    /\ inflight'[p] = inflight[p] - (Cardinality(out) - Passed(p, out))

PoolMoves(p) ==
    \/ Stays(p)
    \/ \E c \in Calls : Enters(p, c)
    \/ \E out, lost \in SUBSET Calls : Leaves(p, out, lost)

PoolTypes ==
    /\ at \in [Calls -> Phases] /\ queue \in [Pools -> Seq(Calls)] /\ inflight \in [Pools -> Nat]
    /\ runtime \in [Tenants -> {"serving", "cancelled", "closed"}]

\* The calls of a pool are finitely many, and none holds a slot and waits.
LEMMA PoolSets ==
    ASSUME NEW p \in Pools
    PROVE  /\ Holders(p) \subseteq Calls /\ Queued(p) \subseteq Calls
           /\ IsFiniteSet(Holders(p)) /\ Cardinality(Holders(p)) \in Nat
           /\ Holders(p) \cap Queued(p) = {}
<1>1. Holders(p) \subseteq Calls /\ Queued(p) \subseteq Calls /\ Holders(p) \cap Queued(p) = {}
  BY DEF Holders, Queued, Holds
<1>. QED BY <1>1, GateAssumption, FS_Subset, FS_CardinalityType DEF GateAssumption

\* The line as it is after Passed have moved up.
LEMMA AfterRelief ==
    ASSUME PoolTypes, NEW p \in Pools, PoolTrue(p), NEW out, out \subseteq Holders(p)
    PROVE  LET k == Passed(p, out)
               rest == SubSeq(queue[p], k + 1, Len(queue[p]))
           IN  /\ IsFiniteSet(out) /\ Cardinality(out) \in Nat /\ k \in Nat /\ k <= Cardinality(out)
               /\ rest \in Seq(Calls) /\ IsInjective(rest)
               /\ Queued(p) = Relief(p, out) \cup Standing(rest)
               /\ Relief(p, out) \cap Standing(rest) = {}
               /\ IsFiniteSet(Relief(p, out)) /\ Cardinality(Relief(p, out)) = k
               /\ rest # <<>> => queue[p] # <<>> /\ k = Cardinality(out)
<1>. DEFINE k == Passed(p, out)
            rest == SubSeq(queue[p], k + 1, Len(queue[p]))
<1>1. IsFiniteSet(out) /\ Cardinality(out) \in Nat
  BY PoolSets, FS_Subset, FS_CardinalityType
<1>2. queue[p] \in Seq(Calls) /\ Len(queue[p]) \in Nat
  BY DEF PoolTypes
<1>3. k \in 0..Len(queue[p]) /\ k <= Cardinality(out) /\ (k # Cardinality(out) => k = Len(queue[p]))
  BY <1>1, <1>2 DEF Passed
<1>4. rest # <<>> => queue[p] # <<>> /\ k # Len(queue[p])
  BY <1>2, <1>3, SubSeqEmpty, EmptySeq
<1>5. IsInjective(queue[p]) /\ Standing(queue[p]) = Queued(p)
  BY DEF PoolTrue
<1>6. Relief(p, out) = FirstOf(queue[p], k)
  BY DEF Relief
<1>7. /\ rest \in Seq(Calls) /\ IsInjective(rest)
      /\ Standing(queue[p]) = FirstOf(queue[p], k) \cup Standing(rest)
      /\ FirstOf(queue[p], k) \cap Standing(rest) = {}
      /\ IsFiniteSet(FirstOf(queue[p], k)) /\ Cardinality(FirstOf(queue[p], k)) = k
  <2>1. k \in 0..Len(queue[p])
    BY <1>3
  <2>. HIDE DEF k
  <2>. QED BY <1>2, <1>5, <2>1, RestOfLine
<1>. HIDE DEF rest, k
<1>. QED BY <1>1, <1>3, <1>4, <1>5, <1>6, <1>7 DEF rest, k

LEMMA PoolStep ==
    ASSUME PoolTypes, NEW p \in Pools, PoolTrue(p), PoolMoves(p)
    PROVE  PoolTrue(p)' /\ queue'[p] \in Seq(Calls) /\ inflight'[p] \in Nat
<1>0. queue[p] \in Seq(Calls) /\ inflight[p] \in Nat /\ Limit[p] \in Nat \ {0}
  BY GateAssumption DEF PoolTypes, GateAssumption
<1>a. /\ Standing(queue[p]) = Queued(p) /\ IsInjective(queue[p])
      /\ inflight[p] = Cardinality(Holders(p)) /\ inflight[p] <= Limit[p]
      /\ queue[p] # <<>> => inflight[p] = Limit[p]
  BY DEF PoolTrue
<1>b. ASSUME Standing(queue'[p]) = Queued(p)', IsInjective(queue'[p]), queue'[p] \in Seq(Calls),
             inflight'[p] = Cardinality(Holders(p)'), inflight'[p] \in Nat, inflight'[p] <= Limit[p],
             queue'[p] # <<>> => inflight'[p] = Limit[p]
      PROVE  PoolTrue(p)' /\ queue'[p] \in Seq(Calls) /\ inflight'[p] \in Nat
  BY <1>b DEF PoolTrue
<1>1. CASE Stays(p)
  BY <1>0, <1>1, <1>a, <1>b DEF Stays
<1>2. ASSUME NEW c \in Calls, Enters(p, c) PROVE PoolTrue(p)' /\ queue'[p] \in Seq(Calls) /\ inflight'[p] \in Nat
  <2>0. c \notin Holders(p) /\ c \notin Standing(queue[p])
    BY <1>2 DEF Enters
  <2>1. CASE inflight[p] < Limit[p]
    <3>0. /\ Holders(p)' = Holders(p) \cup {c} /\ Queued(p)' = Queued(p)
          /\ queue'[p] = queue[p] /\ inflight'[p] = inflight[p] + 1
      BY <1>2, <2>1 DEF Enters
    <3>1. Cardinality(Holders(p) \cup {c}) = inflight[p] + 1
      <4>1. IsFiniteSet(Holders(p))
        BY PoolSets
      <4>. QED BY <1>a, <2>0, <4>1, FS_AddElement
    <3>2. queue[p] = <<>>
      BY <1>0, <1>a, <2>1
    <3>. QED BY <1>0, <1>a, <1>b, <2>1, <3>0, <3>1, <3>2
  <2>2. CASE ~(inflight[p] < Limit[p])
    <3>0. /\ Holders(p)' = Holders(p) /\ Queued(p)' = Queued(p) \cup {c}
          /\ queue'[p] = Append(queue[p], c) /\ inflight'[p] = inflight[p]
      BY <1>2, <2>2 DEF Enters
    <3>1. /\ Append(queue[p], c) \in Seq(Calls) /\ Len(Append(queue[p], c)) = Len(queue[p]) + 1
          /\ \A i \in 1..Len(queue[p]) : Append(queue[p], c)[i] = queue[p][i]
          /\ Append(queue[p], c)[Len(queue[p]) + 1] = c
          /\ Len(queue[p]) \in Nat
      BY <1>0, AppendProperties
    <3>2. Standing(Append(queue[p], c)) = Standing(queue[p]) \cup {c}
      BY <1>0, <3>1 DEF Standing
    <3>3. IsInjective(Append(queue[p], c))
      BY <1>0, <1>a, <2>0, <3>1 DEF IsInjective, Standing
    <3>. QED BY <1>0, <1>a, <1>b, <2>2, <3>0, <3>1, <3>2, <3>3
  <2>. QED BY <2>1, <2>2
<1>3. ASSUME NEW out \in SUBSET Calls, NEW lost \in SUBSET Calls, Leaves(p, out, lost)
      PROVE  PoolTrue(p)' /\ queue'[p] \in Seq(Calls) /\ inflight'[p] \in Nat
  <2>. DEFINE k == Passed(p, out)
              rest == SubSeq(queue[p], k + 1, Len(queue[p]))
              R == Relief(p, out)
              H == Holders(p)
  <2>1. /\ IsFiniteSet(out) /\ Cardinality(out) \in Nat /\ k \in Nat /\ k <= Cardinality(out)
        /\ rest \in Seq(Calls) /\ IsInjective(rest)
        /\ Queued(p) = R \cup Standing(rest) /\ R \cap Standing(rest) = {}
        /\ IsFiniteSet(R) /\ Cardinality(R) = k
        /\ rest # <<>> => queue[p] # <<>> /\ k = Cardinality(out)
    BY <1>3, AfterRelief DEF Leaves
  <2>2. /\ out \subseteq H /\ Holders(p)' = (H \ out) \cup R /\ Queued(p)' = Queued(p) \ (R \cup lost)
        /\ queue'[p] = Without(rest, lost) /\ inflight'[p] = inflight[p] - (Cardinality(out) - k)
    BY <1>3 DEF Leaves
  <2>3. IsFiniteSet(H) /\ H \cap Queued(p) = {} /\ Cardinality(H) = inflight[p]
    BY <1>a, PoolSets
  <2>. HIDE DEF k, rest, R, H
  <2>4. queue'[p] \in Seq(Calls) /\ Standing(queue'[p]) = Queued(p)' /\ IsInjective(queue'[p])
    BY <2>1, <2>2, WithoutKeeps
  <2>5. Cardinality(Holders(p)') = inflight'[p] /\ inflight'[p] \in Nat /\ inflight'[p] <= inflight[p]
    <3>1. H \cap out = out /\ (H \ out) \cap R = {}
      BY <2>1, <2>2, <2>3
    <3>2. IsFiniteSet(H \ out) /\ Cardinality(H \ out) = inflight[p] - Cardinality(out)
      BY <2>3, <3>1, FS_Difference
    <3>3. Cardinality((H \ out) \cap R) = 0
      BY <3>1, FS_EmptySet
    <3>4. Cardinality((H \ out) \cup R) = inflight[p] - Cardinality(out) + k
      <4>1. Cardinality((H \ out) \cup R) = Cardinality(H \ out) + Cardinality(R) - Cardinality((H \ out) \cap R)
        BY <2>1, <3>2, FS_Union
      <4>2. Cardinality(R) = k
        BY <2>1
      <4>3. Cardinality((H \ out) \cup R) = inflight[p] - Cardinality(out) + k - 0
        BY <3>2, <3>3, <4>1, <4>2
      <4>. QED BY <1>0, <2>1, <4>3
    <3>5. Cardinality(H \ out) \in Nat
      BY <3>2, FS_CardinalityType
    <3>. QED BY <1>0, <2>1, <2>2, <3>2, <3>4, <3>5
  <2>6. ASSUME queue'[p] # <<>> PROVE inflight'[p] = Limit[p]
    <3>1. rest # <<>>
      <4>1. PICK x : x \in Standing(queue'[p])
        <5>1. Len(queue'[p]) # 0 /\ Len(queue'[p]) \in Nat /\ DOMAIN queue'[p] = 1..Len(queue'[p])
          BY <2>4, <2>6, EmptySeq
        <5>2. 1 \in DOMAIN queue'[p]
          BY <5>1
        <5>. QED BY <5>2 DEF Standing
      <4>2. x \in Standing(rest)
        BY <2>1, <2>2, <4>1, WithoutKeeps
      <4>. QED BY <4>2 DEF Standing
    <3>. QED BY <1>0, <1>a, <2>1, <2>2, <3>1
  <2>. QED BY <1>0, <1>a, <1>b, <2>4, <2>5, <2>6
<1>. QED BY <1>1, <1>2, <1>3 DEF PoolMoves

LEMMA FrontOne ==
    ASSUME NEW T, NEW s \in Seq(T)
    PROVE  /\ FirstOf(s, 0) = {} /\ SubSeq(s, 0 + 1, Len(s)) = s
           /\ s # <<>> => /\ Len(s) \in Nat \ {0} /\ FirstOf(s, 1) = {Head(s)}
                          /\ SubSeq(s, 1 + 1, Len(s)) = Tail(s) /\ Tail(s) \in Seq(T)
<1>1. FirstOf(s, 0) = {}
  BY DEF FirstOf
<1>2. SubSeq(s, 1, Len(s)) = s
  BY SubSeqFull
<1>3. ASSUME s # <<>> PROVE Len(s) \in Nat \ {0} /\ FirstOf(s, 1) = {Head(s)} /\ SubSeq(s, 2, Len(s)) = Tail(s) /\ Tail(s) \in Seq(T)
  <2>1. Len(s) \in Nat \ {0} /\ Head(s) = s[1]
    BY <1>3, EmptySeq, HeadTailProperties
  <2>2. FirstOf(s, 1) = {s[1]}
    BY DEF FirstOf
  <2>3. SubSeq(s, 2, Len(s)) = Tail(s)
    BY <1>3
  <2>. QED BY <1>3, <2>1, <2>2, <2>3, HeadTailProperties
<1>. QED BY <1>1, <1>2, <1>3

\* A call that changes phase without taking or giving a slot or a place.
LEMMA MoveStays ==
    ASSUME PoolTypes, NEW c \in Calls, NEW phase \in Phases, Move(c, phase), NEW p \in Pools,
           at[c] # "queued", phase # "queued",
           \/ phase \in {"backoff", "sent"} /\ Holds(c)
           \/ phase = "body" /\ Pool[c] = "vision" /\ Holds(c)
           \/ phase = "done" /\ ~Holds(c)
    PROVE  Stays(p)
<1>1. /\ \A d \in Calls : at'[d] = IF d = c THEN phase ELSE at[d]
      /\ queue' = queue /\ inflight' = inflight
  BY DEF PoolTypes, Move, slotVars
<1>2. \A d \in Calls : Holds(d)' <=> Holds(d)
  BY <1>1 DEF Holds
<1>3. Holders(p)' = Holders(p)
  BY <1>2 DEF Holders
<1>4. Queued(p)' = Queued(p)
  BY <1>1 DEF Queued
<1>. QED BY <1>1, <1>3, <1>4 DEF Stays

LEMMA NothingStays ==
    ASSUME UNCHANGED <<at, slotVars>>, NEW p
    PROVE  Stays(p)
BY DEF slotVars, Stays, Holders, Queued, Holds

LEMMA ReleaseLeaves ==
    ASSUME PoolTypes, NEW c \in Calls, NEW phase \in Phases, ReleaseSlot(c, phase), NEW p \in Pools,
           PoolTrue(Pool[c]), Holds(c),
           phase = "done" \/ (phase = "body" /\ Pool[c] = "chat")
    PROVE  PoolMoves(p)
<1>. DEFINE o == Pool[c]
            q == queue[o]
<1>0. o \in Pools /\ q \in Seq(Calls) /\ inflight[o] \in Nat /\ at[c] # "queued"
  BY GateAssumption DEF GateAssumption, PoolTypes, Holds
<1>1. Cardinality({c}) = 1
  BY FS_Singleton
<1>. HIDE DEF q
<1>2. CASE q = <<>>
  <2>1. /\ \A d \in Calls : at'[d] = IF d = c THEN phase ELSE at[d]
        /\ queue' = queue /\ \A r \in Pools : inflight'[r] = IF r = o THEN inflight[r] - 1 ELSE inflight[r]
    BY <1>2 DEF ReleaseSlot, PoolTypes, q
  <2>2. \A d \in Calls : Holds(d)' <=> Holds(d) /\ d # c
    BY <2>1 DEF Holds
  <2>3. Queued(p)' = Queued(p)
    BY <1>0, <2>1 DEF Queued
  <2>4. CASE p # o
    BY <2>1, <2>2, <2>3, <2>4 DEF Stays, Holders, PoolMoves
  <2>5. CASE p = o
    <3>1. Passed(p, {c}) = 0
      BY <1>1, <1>2, <2>5 DEF Passed, q
    <3>2. Relief(p, {c}) = {} /\ SubSeq(queue[p], 0 + 1, Len(queue[p])) = queue[p]
      BY <1>0, <2>5, <3>1, FrontOne DEF Relief, q
    <3>3. Without(queue[p], {}) = queue[p]
      BY <1>0, <2>5, WithoutNobody DEF q
    <3>4. {c} \subseteq Holders(p) /\ Holders(p)' = (Holders(p) \ {c}) \cup {}
      BY <2>2, <2>5 DEF Holders
    <3>5. inflight'[p] = inflight[p] - (1 - 0)
      BY <1>0, <2>1, <2>5
    <3>6. Leaves(p, {c}, {})
      BY <1>1, <2>1, <2>3, <3>1, <3>2, <3>3, <3>4, <3>5 DEF Leaves
    <3>. QED BY <3>6 DEF PoolMoves
  <2>. QED BY <2>4, <2>5
<1>3. CASE q # <<>>
  <2>. DEFINE h == Head(q)
  <2>0. /\ Len(q) \in Nat \ {0} /\ FirstOf(q, 1) = {h} /\ SubSeq(q, 1 + 1, Len(q)) = Tail(q)
        /\ Tail(q) \in Seq(Calls)
    BY <1>0, <1>3, FrontOne
  <2>a. h \in Queued(o)
    <3>1. h \in Standing(q)
      BY <1>0, <1>3, EmptySeq, HeadTailProperties DEF Standing
    <3>. QED BY <3>1 DEF PoolTrue, q
  <2>b. h \in Calls /\ at[h] = "queued" /\ Pool[h] = o /\ h # c
    BY <1>0, <2>a DEF Queued
  <2>1. /\ \A d \in Calls : at'[d] = IF d = h THEN "granted" ELSE IF d = c THEN phase ELSE at[d]
        /\ inflight' = inflight /\ \A r \in Pools : queue'[r] = IF r = o THEN Tail(q) ELSE queue[r]
    <3>1. at' = [at EXCEPT ![c] = phase, ![h] = "granted"] /\ UNCHANGED inflight
          /\ queue' = [queue EXCEPT ![o] = Tail(@)]
      BY <1>3 DEF ReleaseSlot, q
    <3>. HIDE DEF h
    <3>. QED BY <3>1 DEF PoolTypes, q
  <2>. HIDE DEF h
  <2>2. \A d \in Calls : Holds(d)' <=> (Holds(d) /\ d # c) \/ d = h
    BY <2>1, <2>b DEF Holds
  <2>3. Queued(p)' = Queued(p) \ {h}
    BY <1>0, <2>1 DEF Queued
  <2>4. CASE p # o
    <3>1. h \notin Queued(p)
      BY <2>b, <2>4 DEF Queued
    <3>2. Holders(p)' = Holders(p)
      BY <2>2, <2>b, <2>4 DEF Holders
    <3>. QED BY <2>1, <2>3, <2>4, <3>1, <3>2 DEF Stays, PoolMoves
  <2>5. CASE p = o
    <3>1. Passed(p, {c}) = 1
      <4>1. Len(queue[p]) \in Nat \ {0}
        BY <2>0, <2>5 DEF q
      <4>2. Passed(p, {c}) = IF 1 < Len(queue[p]) THEN 1 ELSE Len(queue[p])
        BY <1>1 DEF Passed
      <4>. QED BY <4>1, <4>2
    <3>2. Relief(p, {c}) = {h} /\ SubSeq(queue[p], 1 + 1, Len(queue[p])) = Tail(q)
      BY <2>0, <2>5, <3>1 DEF Relief, q
    <3>3. Without(Tail(q), {}) = Tail(q)
      <4>1. Standing(Tail(q)) \cap {} = {}
        OBVIOUS
      <4>. QED BY <2>0, <4>1, WithoutNobody
    <3>4. {c} \subseteq Holders(p) /\ Holders(p)' = (Holders(p) \ {c}) \cup {h}
      BY <2>2, <2>5, <2>b DEF Holders
    <3>5. inflight'[p] = inflight[p] - (1 - 1)
      BY <1>0, <2>1, <2>5
    <3>6. Leaves(p, {c}, {})
      BY <1>1, <2>1, <2>3, <2>5, <3>1, <3>2, <3>3, <3>4, <3>5 DEF Leaves
    <3>. QED BY <3>6 DEF PoolMoves
  <2>. QED BY <2>4, <2>5
<1>. QED BY <1>2, <1>3

LEMMA EnterMoves ==
    ASSUME PoolTypes, NEW c \in Calls, CallEnters(c), NEW p \in Pools, PoolTrue(p)
    PROVE  PoolMoves(p)
<1>0. at[c] = "idle" /\ at \in [Calls -> Phases] /\ queue \in [Pools -> Seq(Calls)] /\ inflight \in [Pools -> Nat]
  BY DEF CallEnters, PoolTypes
<1>1. c \notin Holders(p) /\ c \notin Standing(queue[p])
  BY <1>0 DEF PoolTrue, Holders, Queued, Holds
<1>2. CASE inflight[Pool[c]] < Limit[Pool[c]]
  <2>1. /\ \A d \in Calls : at'[d] = IF d = c THEN "granted" ELSE at[d]
        /\ queue' = queue
        /\ \A r \in Pools : inflight'[r] = IF r = Pool[c] THEN inflight[r] + 1 ELSE inflight[r]
    BY <1>0, <1>2 DEF CallEnters
  <2>2. \A d \in Calls : Holds(d)' <=> Holds(d) \/ d = c
    BY <2>1 DEF Holds
  <2>3. Queued(p)' = Queued(p)
    BY <1>0, <2>1 DEF Queued
  <2>4. Holders(p)' = IF p = Pool[c] THEN Holders(p) \cup {c} ELSE Holders(p)
    BY <2>2 DEF Holders
  <2>. QED BY <1>1, <1>2, <2>1, <2>3, <2>4 DEF PoolMoves, Enters, Stays
<1>3. CASE ~(inflight[Pool[c]] < Limit[Pool[c]])
  <2>1. /\ \A d \in Calls : at'[d] = IF d = c THEN "queued" ELSE at[d]
        /\ inflight' = inflight
        /\ \A r \in Pools : queue'[r] = IF r = Pool[c] THEN Append(queue[r], c) ELSE queue[r]
    BY <1>0, <1>3 DEF CallEnters
  <2>2. \A d \in Calls : Holds(d)' <=> Holds(d)
    BY <1>0, <2>1 DEF Holds
  <2>3. Queued(p)' = IF p = Pool[c] THEN Queued(p) \cup {c} ELSE Queued(p)
    BY <1>0, <2>1 DEF Queued
  <2>4. Holders(p)' = Holders(p)
    BY <2>2 DEF Holders
  <2>. QED BY <1>1, <1>3, <2>1, <2>3, <2>4 DEF PoolMoves, Enters, Stays
<1>. QED BY <1>2, <1>3

LEMMA GiveUpMoves ==
    ASSUME PoolTypes, NEW c \in Calls, CallerGivesUp(c), NEW p \in Pools
    PROVE  PoolMoves(p)
<1>1. CASE at[c] # "queued"
  BY <1>1, NothingStays DEF CallerGivesUp, slotVars, PoolMoves
<1>2. CASE at[c] = "queued"
  <2>1. /\ \A d \in Calls : at'[d] = IF d = c THEN "done" ELSE at[d]
        /\ inflight' = inflight
        /\ \A r \in Pools : queue'[r] = IF r = Pool[c] THEN Without(queue[r], {c}) ELSE queue[r]
    BY <1>2 DEF CallerGivesUp, PoolTypes
  <2>2. \A d \in Calls : Holds(d)' <=> Holds(d)
    BY <1>2, <2>1 DEF Holds
  <2>3. Queued(p)' = IF p = Pool[c] THEN Queued(p) \ {c} ELSE Queued(p)
    BY <1>2, <2>1 DEF Queued
  <2>4. Holders(p)' = Holders(p)
    BY <2>2 DEF Holders
  <2>5. CASE p # Pool[c]
    BY <2>1, <2>3, <2>4, <2>5 DEF PoolMoves, Stays
  <2>6. CASE p = Pool[c]
    <3>0. Cardinality({}) = 0 /\ queue[p] \in Seq(Calls) /\ Len(queue[p]) \in Nat /\ inflight[p] \in Nat
      BY FS_EmptySet DEF PoolTypes
    <3>1. Passed(p, {}) = 0
      BY <3>0 DEF Passed
    <3>2. Relief(p, {}) = {} /\ SubSeq(queue[p], 0 + 1, Len(queue[p])) = queue[p]
      BY <3>0, <3>1, FrontOne DEF Relief
    <3>3. inflight'[p] = inflight[p] - (0 - 0)
      BY <2>1, <3>0
    <3>4. {c} \subseteq Queued(p) \ {}
      BY <1>2, <2>6 DEF Queued
    <3>5. Leaves(p, {}, {c})
      BY <2>1, <2>3, <2>4, <2>6, <3>0, <3>1, <3>2, <3>3, <3>4 DEF Leaves
    <3>. QED BY <3>5 DEF PoolMoves
  <2>. QED BY <2>5, <2>6
<1>. QED BY <1>1, <1>2

LEMMA CancelMoves ==
    ASSUME PoolTypes, NEW t \in Tenants, CancelTenant(t), NEW p \in Pools,
           \A r \in Pools : PoolTrue(r)
    PROVE  PoolMoves(p)
<1>. DEFINE mine == {c \in Calls : Of[c] = t}
            due == IF t \in Sandboxes THEN open \cap mine ELSE {}
            out(r) == {c \in due : Pool[c] = r /\ at[c] = "body" /\ Holds(c)}
            heirs == UNION {FirstOf(queue[r], Passed(r, out(r))) : r \in Pools}
            left == {c \in mine : at[c] = "queued"} \ heirs
            rest == SubSeq(queue[p], Passed(p, out(p)) + 1, Len(queue[p]))
            lost == left \cap Queued(p)
<1>1. /\ inflight'[p] = inflight[p] - (Cardinality(out(p)) - Passed(p, out(p)))
      /\ queue'[p] = Without(rest, left)
      /\ \A c \in Calls : at'[c] =
            IF c \in heirs THEN "granted"
            ELSE IF c \in left \/ (c \in due /\ at[c] = "body") THEN "done" ELSE at[c]
  BY DEF CancelTenant, Passed, FirstOf
<1>2. \A r \in Pools : out(r) \subseteq Holders(r)
  BY DEF Holders
<1>3. \A r \in Pools : Relief(r, out(r)) \subseteq Queued(r)
  <2>. HIDE DEF out
  <2>. QED BY <1>2, AfterRelief
<1>4. Queued(p) = Relief(p, out(p)) \cup Standing(rest) /\ Relief(p, out(p)) \cap Standing(rest) = {}
  <2>. HIDE DEF out
  <2>. QED BY <1>2, AfterRelief
<1>5. heirs = UNION {Relief(r, out(r)) : r \in Pools}
  BY DEF Relief
<1>6. \A c \in heirs : c \in Calls /\ at[c] = "queued" /\ (Pool[c] = p <=> c \in Relief(p, out(p)))
  <2>1. \A r \in Pools : \A c \in Relief(r, out(r)) : c \in Calls /\ Pool[c] = r /\ at[c] = "queued"
    BY <1>3 DEF Queued
  <2>. HIDE DEF out, heirs
  <2>. QED BY <1>5, <2>1
<1>7. Relief(p, out(p)) \subseteq heirs
  BY <1>5
<1>8. Holders(p)' = (Holders(p) \ out(p)) \cup Relief(p, out(p))
  <2>0. \A c \in Calls : c \in left => at[c] = "queued"
    OBVIOUS
  <2>1. \A c \in Calls : Pool[c] = p => (c \in out(p) <=> c \in due /\ at[c] = "body" /\ Holds(c))
    BY DEF Holders
  <2>2. out(p) \subseteq Calls /\ Relief(p, out(p)) \subseteq Calls
    BY <1>6, <1>7
  <2>. HIDE DEF out, heirs, left, due
  <2>3. \A c \in Calls : Pool[c] = p =>
            (Holds(c)' <=> (Holds(c) /\ c \notin out(p)) \/ c \in heirs)
    BY <1>1, <1>6, <2>0, <2>1 DEF Holds
  <2>4. \A c \in Relief(p, out(p)) : Pool[c] = p
    BY <1>6, <1>7
  <2>5. \A c \in Calls : c \in Holders(p)' <=> Pool[c] = p /\ Holds(c)'
    BY DEF Holders
  <2>6. \A c \in Calls : c \in Holders(p) <=> Pool[c] = p /\ Holds(c)
    BY DEF Holders
  <2>7. Holders(p)' \subseteq Calls /\ Holders(p) \subseteq Calls
    BY DEF Holders
  <2>. QED BY <1>6, <1>7, <2>2, <2>3, <2>4, <2>5, <2>6, <2>7
<1>9. Queued(p)' = Queued(p) \ (Relief(p, out(p)) \cup lost)
  <2>0. \A c \in Calls : c \in left => at[c] = "queued"
    OBVIOUS
  <2>1. \A c \in Calls : c \in Queued(p) <=> Pool[c] = p /\ at[c] = "queued"
    BY DEF Queued
  <2>2. \A c \in Calls : c \in Queued(p)' <=> Pool[c] = p /\ at'[c] = "queued"
    BY DEF Queued
  <2>3. Queued(p) \subseteq Calls /\ Queued(p)' \subseteq Calls
    BY DEF Queued
  <2>. HIDE DEF out, heirs, left, due
  <2>. QED BY <1>1, <1>6, <1>7, <2>0, <2>1, <2>2, <2>3
<1>10. lost \subseteq Queued(p) \ Relief(p, out(p))
  BY <1>7
<1>11. Without(rest, left) = Without(rest, lost)
  <2>1. \A x \in Standing(rest) : x \in left <=> x \in lost
    BY <1>4
  <2>. HIDE DEF rest, left, lost
  <2>. QED BY <2>1, WithoutOthers
<1>12. out(p) \in SUBSET Calls /\ lost \in SUBSET Calls
  BY DEF Queued
<1>13. Leaves(p, out(p), lost)
  <2>. HIDE DEF out, left, heirs, due, lost
  <2>. QED BY <1>1, <1>2, <1>8, <1>9, <1>10, <1>11 DEF Leaves
<1>. HIDE DEF out, lost
<1>. QED BY <1>12, <1>13 DEF PoolMoves

\* Every step of the gate is, for each pool, one of the three.
LEMMA StepMoves ==
    ASSUME PoolTypes, \A r \in Pools : PoolTrue(r), GateNext, NEW p \in Pools
    PROVE  PoolMoves(p)
<1>1. ASSUME NEW c \in Calls, CallEnters(c) PROVE PoolMoves(p)
  BY <1>1, EnterMoves
<1>2. ASSUME NEW c \in Calls, CallerGivesUp(c) PROVE PoolMoves(p)
  BY <1>2, GiveUpMoves
<1>a. ASSUME NEW c \in Calls PROVE Pool[c] \in Pools /\ PoolTrue(Pool[c])
  BY GateAssumption DEF GateAssumption
<1>b. {"granted", "backoff", "sent", "body", "done"} \subseteq Phases
  BY DEF Phases
<1>c. Stays(p) => PoolMoves(p)
  BY DEF PoolMoves
<1>3. ASSUME NEW c \in Calls, Attempt(c) PROVE PoolMoves(p)
  <2>1. Holds(c) /\ at[c] # "queued"
    BY <1>3 DEF Attempt, Holds
  <2>2. CASE Move(c, "sent")
    <3>. QED BY <1>b, <1>c, <2>1, <2>2, MoveStays
  <2>3. CASE ReleaseSlot(c, "done")
    BY <1>a, <1>b, <2>1, <2>3, ReleaseLeaves
  <2>. QED BY <1>3, <2>2, <2>3 DEF Attempt
<1>4. ASSUME NEW c \in Calls, Answered(c) PROVE PoolMoves(p)
  <2>1. Holds(c) /\ at[c] # "queued"
    BY <1>4 DEF Answered, Holds
  <2>2. CASE Pool[c] = "vision" /\ Move(c, "body")
    BY <1>b, <1>c, <2>1, <2>2, MoveStays
  <2>3. CASE Pool[c] = "chat" /\ ReleaseSlot(c, "body")
    BY <1>a, <1>b, <2>1, <2>3, ReleaseLeaves
  <2>. QED BY <1>4, <1>a, <2>2, <2>3 DEF Answered, Pools
<1>5. ASSUME NEW c \in Calls, Failed(c) PROVE PoolMoves(p)
  <2>1. Holds(c) /\ at[c] # "queued"
    BY <1>5 DEF Failed, Holds
  <2>2. CASE Move(c, "backoff")
    BY <1>b, <1>c, <2>1, <2>2, MoveStays
  <2>3. CASE ReleaseSlot(c, "done")
    BY <1>a, <1>b, <2>1, <2>3, ReleaseLeaves
  <2>. QED BY <1>5, <2>2, <2>3 DEF Failed
<1>6. ASSUME NEW c \in Calls, Parsed(c) PROVE PoolMoves(p)
  <2>1. at[c] = "body"
    BY <1>6 DEF Parsed
  <2>2. CASE Pool[c] = "vision" /\ ReleaseSlot(c, "done")
    <3>1. Holds(c)
      BY <2>1, <2>2 DEF Holds
    <3>. QED BY <1>a, <1>b, <2>2, <3>1, ReleaseLeaves
  <2>3. CASE Pool[c] # "vision" /\ Move(c, "done")
    <3>1. ~Holds(c)
      BY <2>1, <2>3 DEF Holds
    <3>. QED BY <1>b, <1>c, <2>1, <2>3, <3>1, MoveStays
  <2>. QED BY <1>6, <2>2, <2>3 DEF Parsed
<1>7. ASSUME NEW t \in Tenants, CancelTenant(t) PROVE PoolMoves(p)
  BY <1>7, CancelMoves
<1>8. ASSUME NEW t \in Tenants, CloseTenant(t) PROVE PoolMoves(p)
  BY <1>8, <1>c, NothingStays DEF CloseTenant
<1>9. ASSUME Midnight PROVE PoolMoves(p)
  BY <1>9, <1>c, NothingStays DEF Midnight
<1>. QED BY <1>1, <1>2, <1>3, <1>4, <1>5, <1>6, <1>7, <1>8, <1>9 DEF GateNext, CallProceeds

-----------------------------------------------------------------------------
(* Slots add up. *)

LEMMA SameSlots == SlotsAddUp <=> GateTypeOK /\ \A p \in Pools : PoolTrue(p)
BY DEF SlotsAddUp, LineIsTrue, CountIsTrue, PoolTrue, IsInjective

LEMMA SlotsInit == GateInit => SlotsAddUp
<1>. SUFFICES ASSUME GateInit PROVE SlotsAddUp
  OBVIOUS
<1>1. GateTypeOK
  BY DEF GateInit, GateTypeOK, Phases, Pools
<1>2. ASSUME NEW p \in Pools PROVE PoolTrue(p)
  <2>1. Holders(p) = {} /\ Queued(p) = {}
    BY DEF GateInit, Holders, Holds, Queued
  <2>2. queue[p] = <<>> /\ inflight[p] = 0 /\ DOMAIN (<<>>) = {}
    BY DEF GateInit
  <2>3. Limit[p] \in Nat \ {0} /\ Cardinality({}) = 0
    BY GateAssumption, FS_EmptySet DEF GateAssumption
  <2>. QED BY <2>1, <2>2, <2>3 DEF PoolTrue, Standing, IsInjective
<1>. QED BY <1>1, <1>2, SameSlots

LEMMA PoolTypesKept == ASSUME GateTypeOK PROVE PoolTypes
BY DEF GateTypeOK, PoolTypes

\* What is not about lines and counts keeps its type.
LEMMA RestTyped ==
    ASSUME GateTypeOK, GateNext
    PROVE  /\ at' \in [Calls -> Phases] /\ tries' \in [Calls -> Nat] /\ gone' \subseteq Calls
           /\ DOMAIN queue' = Pools /\ DOMAIN inflight' = Pools
           /\ queue' = [p \in Pools |-> queue'[p]] /\ inflight' = [p \in Pools |-> inflight'[p]]
           /\ open' \subseteq Calls /\ fresh' \subseteq open'
           /\ runtime' \in [Tenants -> {"serving", "cancelled", "closed"}]
<1>. USE DEF GateTypeOK
<1>p. /\ "idle" \in Phases /\ "queued" \in Phases /\ "granted" \in Phases /\ "backoff" \in Phases
      /\ "sent" \in Phases /\ "body" \in Phases /\ "done" \in Phases
  BY DEF Phases
<1>. DEFINE Good == /\ at' \in [Calls -> Phases]
                    /\ queue' = [p \in Pools |-> queue'[p]] /\ inflight' = [p \in Pools |-> inflight'[p]]
<1>r. ASSUME NEW c \in Calls, NEW phase \in Phases, ReleaseSlot(c, phase) PROVE Good
  BY <1>p, <1>r DEF ReleaseSlot
<1>m. ASSUME NEW c \in Calls, NEW phase \in Phases, Move(c, phase) PROVE Good
  BY <1>p, <1>m DEF Move, slotVars
<1>s. ASSUME NEW c \in Calls, NEW cost, Settle(c, cost) PROVE open' \subseteq Calls /\ fresh' \subseteq open'
  BY <1>s DEF Settle
<1>t. ASSUME NEW c \in Calls, Reserve(c) PROVE open' \subseteq Calls /\ fresh' \subseteq open'
  BY <1>t DEF Reserve
<1>. DEFINE All == /\ Good /\ tries' \in [Calls -> Nat] /\ gone' \subseteq Calls
                   /\ open' \subseteq Calls /\ fresh' \subseteq open'
                   /\ runtime' \in [Tenants -> {"serving", "cancelled", "closed"}]
<1>1. ASSUME NEW c \in Calls, CallEnters(c) PROVE All
  BY <1>p, <1>1 DEF CallEnters, moneyVars
<1>2. ASSUME NEW c \in Calls, CallerGivesUp(c) PROVE All
  BY <1>p, <1>2 DEF CallerGivesUp, moneyVars
<1>3. ASSUME NEW c \in Calls, Attempt(c) PROVE All
  <2>1. Good
    BY <1>3, <1>p, <1>r, <1>m DEF Attempt
  <2>2. open' \subseteq Calls /\ fresh' \subseteq open'
    BY <1>3, <1>t DEF Attempt, moneyVars
  <2>. HIDE DEF Good
  <2>. QED BY <1>3, <2>1, <2>2 DEF Attempt
<1>4. ASSUME NEW c \in Calls, Answered(c) PROVE All
  <2>1. Good
    BY <1>4, <1>p, <1>r, <1>m DEF Answered
  <2>. HIDE DEF Good
  <2>. QED BY <1>4, <2>1 DEF Answered, moneyVars
<1>5. ASSUME NEW c \in Calls, Failed(c) PROVE All
  <2>1. Good
    BY <1>5, <1>p, <1>r, <1>m DEF Failed
  <2>2. open' \subseteq Calls /\ fresh' \subseteq open'
    BY <1>5, <1>s DEF Failed
  <2>. HIDE DEF Good
  <2>. QED BY <1>5, <2>1, <2>2 DEF Failed
<1>6. ASSUME NEW c \in Calls, Parsed(c) PROVE All
  <2>1. Good
    BY <1>6, <1>p, <1>r, <1>m DEF Parsed
  <2>2. open' \subseteq Calls /\ fresh' \subseteq open'
    BY <1>6, <1>s DEF Parsed
  <2>. HIDE DEF Good
  <2>. QED BY <1>6, <2>1, <2>2 DEF Parsed
<1>7. ASSUME NEW t \in Tenants, CancelTenant(t) PROVE All
  <2>1. at' \in [Calls -> Phases]
    BY <1>7, <1>p DEF CancelTenant
  <2>2. queue' = [p \in Pools |-> queue'[p]] /\ inflight' = [p \in Pools |-> inflight'[p]]
    BY <1>7 DEF CancelTenant
  <2>3. open' \subseteq Calls /\ fresh' \subseteq open'
    BY <1>7 DEF CancelTenant
  <2>4. runtime' \in [Tenants -> {"serving", "cancelled", "closed"}]
    BY <1>7 DEF CancelTenant
  <2>5. UNCHANGED <<tries, gone>>
    BY <1>7 DEF CancelTenant
  <2>. QED BY <2>1, <2>2, <2>3, <2>4, <2>5
<1>8. ASSUME NEW t \in Tenants, CloseTenant(t) PROVE All
  BY <1>8 DEF CloseTenant, slotVars, moneyVars
<1>9. ASSUME Midnight PROVE All
  BY <1>9 DEF Midnight, slotVars
<1>10. All
  <2>. HIDE DEF All
  <2>. QED BY <1>1, <1>2, <1>3, <1>4, <1>5, <1>6, <1>7, <1>8, <1>9 DEF GateNext, CallProceeds
<1>. QED BY <1>10

LEMMA SlotsNext == SlotsAddUp /\ [GateNext]_gateVars => SlotsAddUp'
<1>1. ASSUME SlotsAddUp, GateNext PROVE SlotsAddUp'
  <2>1. GateTypeOK /\ \A p \in Pools : PoolTrue(p)
    BY <1>1, SameSlots
  <2>2. \A p \in Pools : PoolTrue(p)' /\ queue'[p] \in Seq(Calls) /\ inflight'[p] \in Nat
    BY <1>1, <2>1, PoolTypesKept, StepMoves, PoolStep
  <2>3. GateTypeOK'
    BY <1>1, <2>1, <2>2, RestTyped DEF GateTypeOK
  <2>4. SlotsAddUp' <=> (GateTypeOK /\ \A p \in Pools : PoolTrue(p))'
    BY SameSlots, PTL
  <2>. QED BY <2>2, <2>3, <2>4
<1>2. ASSUME SlotsAddUp, UNCHANGED gateVars PROVE SlotsAddUp'
  BY <1>2 DEF gateVars, SlotsAddUp, GateTypeOK, LineIsTrue, CountIsTrue, Queued, Holders, Holds
<1>. QED BY <1>1, <1>2

-----------------------------------------------------------------------------
(* Sums of estimates. *)

Units(S) == UNION {{c} \X (1..Est[c]) : c \in S}

LEMMA UnitsOf ==
    ASSUME NEW c \in Calls
    PROVE  IsFiniteSet({c} \X (1..Est[c])) /\ Cardinality({c} \X (1..Est[c])) = Est[c]
<1>1. Est[c] \in Nat
  BY GateAssumption DEF GateAssumption
<1>2. IsFiniteSet({c}) /\ Cardinality({c}) = 1 /\ IsFiniteSet(1..Est[c]) /\ Cardinality(1..Est[c]) = Est[c]
  <2>1. IsFiniteSet({c}) /\ Cardinality({c}) = 1
    BY FS_Singleton
  <2>2. \A n \in Nat : IsFiniteSet(1..n) /\ Cardinality(1..n) = n
    BY FS_Interval
  <2>. QED BY <1>1, <2>1, <2>2
<1>3. IsFiniteSet({c} \X (1..Est[c])) /\ Cardinality({c} \X (1..Est[c])) = Cardinality({c}) * Cardinality(1..Est[c])
  BY <1>2, FS_Product
<1>. QED BY <1>1, <1>2, <1>3

LEMMA ReservedLaws ==
    /\ \A S \in SUBSET Calls : IsFiniteSet(Units(S)) /\ Reserved(S) \in Nat
    /\ \A S, T \in SUBSET Calls : S \cap T = {} => Reserved(S \cup T) = Reserved(S) + Reserved(T)
    /\ \A c \in Calls : Reserved({c}) = Est[c]
    /\ Reserved({}) = 0
<1>0. \A S : Reserved(S) = Cardinality(Units(S))
  BY DEF Reserved, Units
<1>1. ASSUME NEW S \in SUBSET Calls PROVE IsFiniteSet(Units(S)) /\ Reserved(S) \in Nat
  <2>. DEFINE u == [c \in S |-> {c} \X (1..Est[c])]
              R == {{c} \X (1..Est[c]) : c \in S}
  <2>1. IsFiniteSet(S)
    BY GateAssumption, FS_Subset DEF GateAssumption
  <2>2. u \in Surjection(S, R)
    BY DEF Surjection
  <2>3. IsFiniteSet(R)
    <3>. HIDE DEF u, R
    <3>. QED BY <2>1, <2>2, FS_Surjection
  <2>4. \A x \in R : IsFiniteSet(x)
    BY UnitsOf
  <2>5. IsFiniteSet(UNION R)
    <3>. HIDE DEF R
    <3>. QED BY <2>3, <2>4, FS_UNION
  <2>6. IsFiniteSet(Units(S))
    BY <2>5 DEF Units
  <2>. QED BY <1>0, <2>6, FS_CardinalityType
<1>2. ASSUME NEW S \in SUBSET Calls, NEW T \in SUBSET Calls, S \cap T = {}
      PROVE  Reserved(S \cup T) = Reserved(S) + Reserved(T)
  <2>1. Units(S \cup T) = Units(S) \cup Units(T)
    BY DEF Units
  <2>2. Units(S) \cap Units(T) = {}
    BY <1>2 DEF Units
  <2>3. Cardinality(Units(S) \cup Units(T))
        = Cardinality(Units(S)) + Cardinality(Units(T)) - Cardinality(Units(S) \cap Units(T))
    BY <1>1, FS_Union
  <2>4. Cardinality(Units(S) \cap Units(T)) = 0
    BY <2>2, FS_EmptySet
  <2>5. Reserved(S) \in Nat /\ Reserved(T) \in Nat
    BY <1>1
  <2>6. Reserved(S \cup T) = Reserved(S) + Reserved(T) - 0
    BY <1>0, <2>1, <2>3, <2>4
  <2>. QED BY <2>5, <2>6
<1>3. ASSUME NEW c \in Calls PROVE Reserved({c}) = Est[c]
  <2>1. Units({c}) = {c} \X (1..Est[c])
    BY DEF Units
  <2>. QED BY <1>0, <2>1, UnitsOf
<1>4. Reserved({}) = 0
  <2>1. Units({}) = {}
    BY DEF Units
  <2>. QED BY <1>0, <2>1, FS_EmptySet
<1>. QED BY <1>1, <1>2, <1>3, <1>4

LEMMA ReservedMore ==
    ASSUME NEW S \in SUBSET Calls, NEW c \in Calls
    PROVE  /\ Reserved(S) \in Nat /\ Est[c] \in Nat
           /\ c \notin S => Reserved(S \cup {c}) = Reserved(S) + Est[c]
           /\ c \in S => Reserved(S \ {c}) = Reserved(S) - Est[c] /\ Est[c] <= Reserved(S)
<1>1. Reserved(S) \in Nat /\ Est[c] \in Nat /\ Reserved(S \ {c}) \in Nat
  BY ReservedLaws, GateAssumption DEF GateAssumption
<1>2. c \notin S => Reserved(S \cup {c}) = Reserved(S) + Est[c]
  <2>1. c \notin S => S \cap {c} = {}
    OBVIOUS
  <2>. QED BY <2>1, ReservedLaws
<1>3. ASSUME c \in S PROVE Reserved(S) = Reserved(S \ {c}) + Est[c]
  <2>1. (S \ {c}) \cap {c} = {} /\ (S \ {c}) \cup {c} = S
    BY <1>3
  <2>2. Reserved((S \ {c}) \cup {c}) = Reserved(S \ {c}) + Reserved({c})
    BY <2>1, ReservedLaws
  <2>. QED BY <2>1, <2>2, ReservedLaws
<1>. QED BY <1>1, <1>2, <1>3

LEMMA ReservedLess ==
    ASSUME NEW S \in SUBSET Calls, NEW T \in SUBSET S
    PROVE  Reserved(S \ T) = Reserved(S) - Reserved(T) /\ Reserved(S \ T) <= Reserved(S)
<1>1. Reserved(S) \in Nat /\ Reserved(T) \in Nat /\ Reserved(S \ T) \in Nat
  BY ReservedLaws
<1>2. (S \ T) \cap T = {} /\ (S \ T) \cup T = S
  OBVIOUS
<1>3. Reserved((S \ T) \cup T) = Reserved(S \ T) + Reserved(T)
  BY <1>2, ReservedLaws
<1>4. Reserved((S \ T) \cup T) = Reserved(S)
  BY <1>2
<1>. QED BY <1>1, <1>3, <1>4

-----------------------------------------------------------------------------
(* Budgets hold. *)

\* Only a request under way has a reservation, and a cancelled sandbox has none.
OpenTrue ==
    \A c \in open : at[c] \in {"sent", "body"} /\ (InSandbox(c) => runtime[Of[c]] = "serving")

PoolHolds ==
    /\ pool \in [spent : Nat, held : Nat]
    /\ pool.held = Reserved({c \in open : InSandbox(c)})
    /\ pool.held <= pool.spent /\ pool.spent <= PoolCap

AllowanceHolds ==
    allowance \in [Tenants -> Int] /\ \A t \in Sandboxes : allowance[t] <= TenantCap

\* What is reserved today is within what the day holds, so that settling one
\* call never takes away what another reserved.
DayHolds ==
    /\ day \in [Tenants -> [spent : Nat, held : Nat]] /\ days \in Nat
    /\ days = 0 => open \subseteq fresh
    /\ \A t \in Tenants \ Sandboxes :
        /\ Reserved({c \in fresh : Of[c] = t}) <= day[t].held
        /\ days = 0 => day[t].spent + day[t].held <= DayCap

BudgetInv == OpenTrue /\ PoolHolds /\ AllowanceHolds /\ DayHolds

LEMMA BudgetInit == GateInit => BudgetInv
<1>. SUFFICES ASSUME GateInit PROVE BudgetInv
  OBVIOUS
<1>. USE DEF GateInit
<1>1. PoolCap \in Nat /\ TenantCap \in Nat /\ DayCap \in Nat /\ Sandboxes \subseteq Tenants
  BY GateAssumption DEF GateAssumption
<1>2. {c \in open : InSandbox(c)} = {} /\ \A t \in Tenants : {c \in fresh : Of[c] = t} = {}
  OBVIOUS
<1>3. OpenTrue
  BY DEF OpenTrue
<1>4. PoolHolds
  BY <1>1, <1>2, ReservedLaws DEF PoolHolds
<1>5. AllowanceHolds
  BY <1>1 DEF AllowanceHolds
<1>6. DayHolds
  BY <1>1, <1>2, ReservedLaws DEF DayHolds
<1>. QED BY <1>3, <1>4, <1>5, <1>6 DEF BudgetInv

\* The money part of an attempt that is sent.
LEMMA ReserveHolds ==
    ASSUME GateTypeOK, BudgetInv, NEW c \in Calls, c \notin open, Reserve(c), UNCHANGED days
    PROVE  PoolHolds' /\ AllowanceHolds' /\ DayHolds'
<1>. DEFINE t == Of[c]
            S == {d \in open : InSandbox(d)}
<1>0. /\ t \in Tenants /\ Est[c] \in Nat /\ PoolCap \in Nat /\ TenantCap \in Nat /\ DayCap \in Nat
      /\ open \subseteq Calls /\ fresh \subseteq open /\ Sandboxes \subseteq Tenants
  BY GateAssumption DEF GateAssumption, GateTypeOK
<1>i. PoolHolds /\ AllowanceHolds /\ DayHolds
  BY DEF BudgetInv
<1>1. open' = open \cup {c} /\ fresh' = fresh \cup {c} /\ Affordable(c) /\ c \notin fresh
  BY <1>0 DEF Reserve
<1>2. S' = IF InSandbox(c) THEN S \cup {c} ELSE S
  BY <1>1 DEF InSandbox
<1>3. /\ S \in SUBSET Calls /\ c \notin S
      /\ Reserved(S) \in Nat /\ Reserved(S') = Reserved(S) + (IF InSandbox(c) THEN Est[c] ELSE 0)
  <2>1. S \in SUBSET Calls /\ c \notin S
    BY <1>0
  <2>2. Reserved(S) \in Nat /\ Reserved(S \cup {c}) = Reserved(S) + Est[c]
    <3>. HIDE DEF S
    <3>. QED BY <2>1, ReservedMore
  <2>. HIDE DEF S
  <2>. QED BY <1>2, <2>1, <2>2
<1>4. ASSUME NEW u \in Tenants
      PROVE  /\ Reserved({d \in fresh : Of[d] = u}) \in Nat
             /\ Reserved({d \in fresh' : Of[d] = u})
                = Reserved({d \in fresh : Of[d] = u}) + (IF u = t THEN Est[c] ELSE 0)
  <2>. DEFINE F == {d \in fresh : Of[d] = u}
              G == {d \in fresh' : Of[d] = u}
  <2>1. F \in SUBSET Calls /\ c \notin F /\ G = IF u = t THEN F \cup {c} ELSE F
    BY <1>0, <1>1
  <2>. HIDE DEF F, G
  <2>2. Reserved(F) \in Nat /\ Reserved(F \cup {c}) = Reserved(F) + Est[c]
    BY <2>1, ReservedMore
  <2>3. Reserved(G) = Reserved(F) + (IF u = t THEN Est[c] ELSE 0)
    BY <2>1, <2>2
  <2>. QED BY <2>2, <2>3 DEF F, G
<1>. HIDE DEF S
<1>5. CASE InSandbox(c)
  <2>1. /\ pool' = [spent |-> pool.spent + Est[c], held |-> pool.held + Est[c]]
        /\ allowance' = [allowance EXCEPT ![t] = @ + Est[c]] /\ day' = day
        /\ allowance[t] + Est[c] <= TenantCap /\ pool.spent + Est[c] <= PoolCap
    BY <1>1, <1>5 DEF Reserve, Affordable
  <2>2. PoolHolds'
    <3>1. pool' \in [spent : Nat, held : Nat] /\ pool'.held <= pool'.spent /\ pool'.spent <= PoolCap
      BY <1>0, <1>i, <2>1 DEF PoolHolds
    <3>2. pool'.held = Reserved(S')
      BY <1>3, <1>5, <1>i, <2>1 DEF PoolHolds, S
    <3>. QED BY <3>1, <3>2 DEF PoolHolds, S
  <2>3. AllowanceHolds'
    BY <1>0, <1>i, <2>1 DEF AllowanceHolds
  <2>4. DayHolds'
    <3>1. \A u \in Tenants \ Sandboxes : u # t
      BY <1>5 DEF InSandbox
    <3>2. \A u \in Tenants \ Sandboxes :
             Reserved({d \in fresh' : Of[d] = u}) = Reserved({d \in fresh : Of[d] = u})
      BY <1>4, <3>1
    <3>. QED BY <1>1, <1>i, <2>1, <3>2 DEF DayHolds
  <2>. QED BY <2>2, <2>3, <2>4
<1>6. CASE ~InSandbox(c)
  <2>1. /\ pool' = pool /\ allowance' = allowance
        /\ day' = [day EXCEPT ![t] = [spent |-> @.spent, held |-> @.held + Est[c]]]
        /\ day[t].spent + day[t].held + Est[c] <= DayCap
    BY <1>1, <1>6 DEF Reserve, Affordable
  <2>2. PoolHolds'
    <3>1. Reserved(S') = Reserved(S)
      BY <1>3, <1>6
    <3>. QED BY <1>i, <2>1, <3>1 DEF PoolHolds, S
  <2>3. AllowanceHolds'
    BY <1>i, <2>1 DEF AllowanceHolds
  <2>4. DayHolds'
    <3>1. \A u \in Tenants : day[u] \in [spent : Nat, held : Nat]
      BY <1>i DEF DayHolds
    <3>2. \A u \in Tenants : day'[u] =
             IF u = t THEN [spent |-> day[t].spent, held |-> day[t].held + Est[c]] ELSE day[u]
      BY <1>i, <2>1 DEF DayHolds
    <3>3. day' \in [Tenants -> [spent : Nat, held : Nat]]
      BY <1>0, <1>i, <2>1, <3>1 DEF DayHolds
    <3>4. days' = 0 => open' \subseteq fresh'
      BY <1>1, <1>i DEF DayHolds
    <3>5. ASSUME NEW u \in Tenants \ Sandboxes
          PROVE  /\ Reserved({d \in fresh' : Of[d] = u}) <= day'[u].held
                 /\ days' = 0 => day'[u].spent + day'[u].held <= DayCap
      <4>1. CASE u # t
        <5>1. day'[u] = day[u] /\ Reserved({d \in fresh' : Of[d] = u}) = Reserved({d \in fresh : Of[d] = u})
          BY <1>4, <3>2, <4>1
        <5>. QED BY <1>i, <5>1 DEF DayHolds
      <4>2. CASE u = t
        <5>1. day'[u].held = day[u].held + Est[c] /\ day'[u].spent = day[u].spent
          BY <3>2, <4>2
        <5>2. Reserved({d \in fresh' : Of[d] = u}) = Reserved({d \in fresh : Of[d] = u}) + Est[c]
          BY <1>4, <4>2
        <5>3. Reserved({d \in fresh : Of[d] = u}) <= day[u].held /\ Reserved({d \in fresh : Of[d] = u}) \in Nat
          BY <1>4, <1>i DEF DayHolds
        <5>4. day[u].held \in Nat /\ day[u].spent \in Nat
          BY <3>1
        <5>. QED BY <1>0, <2>1, <4>2, <5>1, <5>2, <5>3, <5>4
      <4>. QED BY <4>1, <4>2
    <3>. QED BY <1>i, <3>3, <3>4, <3>5 DEF DayHolds
  <2>. QED BY <2>2, <2>3, <2>4
<1>. QED BY <1>5, <1>6

\* A day that is not charged holds when reservations of it are dropped.
LEMMA DayKept ==
    ASSUME GateTypeOK, DayHolds, NEW D, open' = open \ D, fresh' = fresh \ D, UNCHANGED <<day, days>>
    PROVE  DayHolds'
<1>1. ASSUME NEW u \in Tenants \ Sandboxes
      PROVE  Reserved({d \in fresh' : Of[d] = u}) <= day[u].held
  <2>. DEFINE F == {d \in fresh : Of[d] = u}
              G == {d \in fresh' : Of[d] = u}
  <2>1. F \in SUBSET Calls /\ F \ D = G /\ F \ (F \cap D) = G /\ F \cap D \in SUBSET F
    BY DEF GateTypeOK
  <2>. HIDE DEF F, G
  <2>2. Reserved(G) <= Reserved(F) /\ Reserved(F) \in Nat /\ Reserved(G) \in Nat
    <3>1. Reserved(F \ (F \cap D)) <= Reserved(F)
      BY <2>1, ReservedLess
    <3>2. G \in SUBSET Calls
      BY <2>1
    <3>. QED BY <2>1, <3>1, <3>2, ReservedLaws
  <2>3. Reserved(F) <= day[u].held /\ day[u].held \in Nat
    BY DEF DayHolds, F
  <2>. QED BY <2>2, <2>3 DEF G
<1>. QED BY <1>1 DEF DayHolds

LEMMA SettleHolds ==
    ASSUME GateTypeOK, BudgetInv, NEW c \in Calls, NEW cost \in 0..Est[c], Settle(c, cost), UNCHANGED days
    PROVE  PoolHolds' /\ AllowanceHolds' /\ DayHolds'
<1>. DEFINE t == Of[c]
            S == {d \in open : InSandbox(d)}
<1>0. /\ t \in Tenants /\ Est[c] \in Nat /\ PoolCap \in Nat /\ TenantCap \in Nat /\ DayCap \in Nat
      /\ open \subseteq Calls /\ fresh \subseteq open /\ Sandboxes \subseteq Tenants
      /\ cost \in Nat /\ cost <= Est[c]
  BY GateAssumption DEF GateAssumption, GateTypeOK
<1>i. PoolHolds /\ AllowanceHolds /\ DayHolds /\ OpenTrue
  BY DEF BudgetInv
<1>1. open' = open \ {c} /\ fresh' = fresh \ {c}
  BY DEF Settle
<1>2. S' = S \ {c} /\ S \in SUBSET Calls
  BY <1>0, <1>1 DEF InSandbox
<1>3. /\ Reserved(S) \in Nat
      /\ c \in S => Reserved(S \ {c}) = Reserved(S) - Est[c] /\ Est[c] <= Reserved(S)
  <2>. HIDE DEF S
  <2>. QED BY <1>2, ReservedMore
<1>4. ASSUME NEW u \in Tenants
      PROVE  /\ Reserved({d \in fresh : Of[d] = u}) \in Nat
             /\ c \in fresh /\ u = t => /\ Est[c] <= Reserved({d \in fresh : Of[d] = u})
                    /\ Reserved({d \in fresh' : Of[d] = u}) = Reserved({d \in fresh : Of[d] = u}) - Est[c]
             /\ c \notin fresh \/ u # t =>
                    Reserved({d \in fresh' : Of[d] = u}) = Reserved({d \in fresh : Of[d] = u})
  <2>. DEFINE F == {d \in fresh : Of[d] = u}
              G == {d \in fresh' : Of[d] = u}
  <2>1. F \in SUBSET Calls /\ G = F \ {c} /\ (c \in F <=> c \in fresh /\ u = t)
    BY <1>0, <1>1
  <2>. HIDE DEF F, G
  <2>2. Reserved(F) \in Nat /\ (c \in F => Reserved(F \ {c}) = Reserved(F) - Est[c] /\ Est[c] <= Reserved(F))
    BY <2>1, ReservedMore
  <2>3. c \notin F => G = F
    BY <2>1
  <2>. QED BY <2>1, <2>2, <2>3 DEF F, G
<1>k. UNCHANGED day => DayHolds'
  BY <1>1, <1>i, DayKept
<1>5. CASE c \notin open \/ runtime[t] = "closed"
  <2>1. UNCHANGED <<pool, allowance, day>>
    BY <1>5 DEF Settle
  <2>2. c \notin S
    BY <1>5, <1>i DEF OpenTrue
  <2>3. S' = S
    BY <1>2, <2>2
  <2>4. PoolHolds'
    BY <1>i, <2>1, <2>3 DEF PoolHolds
  <2>. QED BY <1>i, <1>k, <2>1, <2>4 DEF AllowanceHolds
<1>6. CASE c \in open /\ runtime[t] # "closed" /\ InSandbox(c)
  <2>1. /\ pool' = [spent |-> pool.spent + cost - Est[c], held |-> pool.held - Est[c]]
        /\ allowance' = [allowance EXCEPT ![t] = @ + cost - Est[c]] /\ UNCHANGED day
    BY <1>6 DEF Settle
  <2>2. Reserved(S') = Reserved(S) - Est[c] /\ Est[c] <= Reserved(S)
    BY <1>2, <1>3, <1>6
  <2>. HIDE DEF S
  <2>3. pool.held = Reserved(S) /\ pool.held <= pool.spent /\ pool.spent <= PoolCap /\ pool.spent \in Nat
    BY <1>i DEF PoolHolds, S
  <2>4. PoolHolds'
    <3>1. pool'.held = Reserved(S') /\ pool'.held <= pool'.spent /\ pool'.spent <= PoolCap
      BY <1>0, <1>3, <2>1, <2>2, <2>3
    <3>2. pool' \in [spent : Nat, held : Nat]
      BY <1>0, <1>3, <2>1, <2>2, <2>3
    <3>. QED BY <3>1, <3>2 DEF PoolHolds, S
  <2>5. AllowanceHolds'
    BY <1>0, <1>i, <2>1 DEF AllowanceHolds
  <2>. QED BY <1>k, <2>1, <2>4, <2>5
<1>7. CASE c \in open /\ runtime[t] # "closed" /\ ~InSandbox(c)
  <2>1. UNCHANGED <<pool, allowance>>
    BY <1>7 DEF Settle
  <2>2. S' = S
    BY <1>2, <1>7
  <2>3. PoolHolds' /\ AllowanceHolds'
    BY <1>i, <2>1, <2>2 DEF PoolHolds, AllowanceHolds
  <2>4. CASE runtime[t] # "serving"
    BY <1>7, <1>k, <2>3, <2>4 DEF Settle
  <2>5. CASE runtime[t] = "serving"
    <3>. DEFINE rec == [spent |-> day[t].spent + cost,
                        held |-> IF c \notin fresh THEN day[t].held
                                 ELSE IF day[t].held > Est[c] THEN day[t].held - Est[c] ELSE 0]
    <3>1. \A u \in Tenants : day[u].spent \in Nat /\ day[u].held \in Nat
      BY <1>i DEF DayHolds
    <3>2. day' = [day EXCEPT ![t] = rec]
      BY <1>7, <2>5 DEF Settle
    <3>3. /\ rec \in [spent : Nat, held : Nat] /\ rec.spent = day[t].spent + cost
          /\ c \notin fresh => rec.held = day[t].held
          /\ c \in fresh /\ Est[c] <= day[t].held => rec.held = day[t].held - Est[c]
      BY <1>0, <3>1
    <3>. HIDE DEF rec
    <3>4. day' \in [Tenants -> [spent : Nat, held : Nat]] /\ \A u \in Tenants : day'[u] = IF u = t THEN rec ELSE day[u]
      BY <1>i, <3>2, <3>3 DEF DayHolds
    <3>5. days' = 0 => open' \subseteq fresh'
      BY <1>1, <1>i DEF DayHolds
    <3>6. ASSUME NEW u \in Tenants \ Sandboxes
          PROVE  /\ Reserved({d \in fresh' : Of[d] = u}) <= day'[u].held
                 /\ days' = 0 => day'[u].spent + day'[u].held <= DayCap
      <4>0. Reserved({d \in fresh : Of[d] = u}) <= day[u].held /\ (days = 0 => day[u].spent + day[u].held <= DayCap)
        BY <1>i DEF DayHolds
      <4>1. CASE u # t
        BY <1>4, <3>4, <4>0, <4>1
      <4>2. CASE u = t /\ c \notin fresh
        <5>1. days # 0
          BY <1>7, <1>i, <4>2 DEF DayHolds
        <5>. QED BY <1>4, <3>3, <3>4, <4>0, <4>2, <5>1
      <4>3. CASE u = t /\ c \in fresh
        <5>1. Est[c] <= day[u].held
          <6>. DEFINE r == Reserved({d \in fresh : Of[d] = u})
          <6>1. r \in Nat /\ Est[c] <= r
            BY <1>4, <4>3
          <6>2. r <= day[u].held
            BY <4>0
          <6>3. day[u].held \in Nat
            BY <3>1
          <6>. HIDE DEF r
          <6>. QED BY <1>0, <6>1, <6>2, <6>3
        <5>2. day'[u].held = day[u].held - Est[c] /\ day'[u].spent = day[u].spent + cost
          BY <3>3, <3>4, <4>3, <5>1
        <5>. QED BY <1>0, <1>4, <3>1, <4>0, <4>3, <5>1, <5>2
      <4>. QED BY <4>1, <4>2, <4>3
    <3>7. DayHolds'
      BY <1>i, <3>4, <3>5, <3>6 DEF DayHolds
    <3>. QED BY <2>3, <3>7
  <2>. QED BY <2>4, <2>5
<1>. QED BY <1>5, <1>6, <1>7

LEMMA CancelHolds ==
    ASSUME GateTypeOK, BudgetInv, NEW t \in Tenants, CancelTenant(t)
    PROVE  PoolHolds' /\ AllowanceHolds' /\ DayHolds'
<1>. DEFINE due == IF t \in Sandboxes THEN open \cap {c \in Calls : Of[c] = t} ELSE {}
            S == {d \in open : InSandbox(d)}
<1>1. /\ open' = open \ due /\ fresh' = fresh \ due /\ pool' = [pool EXCEPT !.held = @ - Reserved(due)]
      /\ UNCHANGED <<allowance, day, days>>
  BY DEF CancelTenant
<1>2. due \in SUBSET S /\ S \in SUBSET Calls /\ due \in SUBSET Calls
  BY DEF InSandbox, GateTypeOK
<1>3. S' = S \ due
  BY <1>1 DEF InSandbox
<1>. HIDE DEF due, S
<1>i. PoolHolds /\ AllowanceHolds /\ DayHolds
  BY DEF BudgetInv
<1>4. Reserved(S') = Reserved(S) - Reserved(due) /\ Reserved(S) \in Nat /\ Reserved(due) \in Nat /\ Reserved(S') \in Nat
  <2>1. S' \in SUBSET Calls
    BY <1>2, <1>3
  <2>2. Reserved(S \ due) = Reserved(S) - Reserved(due)
    BY <1>2, ReservedLess
  <2>. QED BY <1>2, <1>3, <2>1, <2>2, ReservedLaws
<1>5. pool.held = Reserved(S) /\ pool.held <= pool.spent /\ pool.spent <= PoolCap /\ pool.spent \in Nat
      /\ pool \in [spent : Nat, held : Nat]
  BY <1>i DEF PoolHolds, S
<1>6. pool'.held = Reserved(S') /\ pool'.spent = pool.spent /\ pool' \in [spent : Nat, held : Nat]
  BY <1>1, <1>4, <1>5
<1>7. PoolHolds'
  <2>1. PoolCap \in Nat
    BY GateAssumption DEF GateAssumption
  <2>2. pool'.held <= pool'.spent /\ pool'.spent <= PoolCap
    BY <1>4, <1>5, <1>6, <2>1
  <2>. QED BY <1>6, <2>2 DEF PoolHolds, S
<1>. QED BY <1>1, <1>7, <1>i, DayKept DEF AllowanceHolds

LEMMA MidnightHolds ==
    ASSUME GateTypeOK, BudgetInv, Midnight
    PROVE  PoolHolds' /\ AllowanceHolds' /\ DayHolds'
<1>. USE DEF Midnight
<1>1. PoolHolds'
  <2>1. pool \in [spent : Nat, held : Nat] /\ pool.held <= pool.spent /\ pool.spent <= PoolCap /\ PoolCap \in Nat
    BY GateAssumption DEF BudgetInv, PoolHolds, GateAssumption
  <2>2. pool' = [pool EXCEPT !.spent = pool.held] /\ open' = open
    OBVIOUS
  <2>3. pool' \in [spent : Nat, held : Nat] /\ pool'.held = pool.held /\ pool'.spent = pool.held
    BY <2>1, <2>2
  <2>. QED BY <2>1, <2>2, <2>3 DEF BudgetInv, PoolHolds, InSandbox
<1>2. AllowanceHolds'
  BY DEF BudgetInv, AllowanceHolds
<1>3. DayHolds'
  <2>1. days \in Nat /\ days' = days + 1 /\ fresh' = {} /\ day' = [t \in Tenants |-> [spent |-> 0, held |-> 0]]
    BY DEF BudgetInv, DayHolds
  <2>2. \A t : {c \in fresh' : Of[c] = t} = {}
    BY <2>1
  <2>3. Reserved({}) = 0
    BY ReservedLaws
  <2>. QED BY <2>1, <2>2, <2>3 DEF DayHolds
<1>. QED BY <1>1, <1>2, <1>3

LEMMA SameMoney ==
    ASSUME BudgetInv, UNCHANGED <<moneyVars, days>>
    PROVE  PoolHolds' /\ AllowanceHolds' /\ DayHolds'
BY DEF moneyVars, BudgetInv, PoolHolds, AllowanceHolds, DayHolds, InSandbox

LEMMA MoneyNext ==
    ASSUME GateTypeOK, BudgetInv, GateNext
    PROVE  PoolHolds' /\ AllowanceHolds' /\ DayHolds'
<1>. DEFINE Good == PoolHolds' /\ AllowanceHolds' /\ DayHolds'
<1>s. UNCHANGED <<moneyVars, days>> => Good
  BY SameMoney
<1>e. \A c \in Calls : Est[c] \in 0..Est[c]
  BY GateAssumption DEF GateAssumption
<1>. HIDE DEF Good
<1>1. ASSUME NEW c \in Calls, CallEnters(c) PROVE Good
  BY <1>1, <1>s DEF CallEnters
<1>2. ASSUME NEW c \in Calls, CallerGivesUp(c) PROVE Good
  BY <1>2, <1>s DEF CallerGivesUp
<1>3. ASSUME NEW c \in Calls, Attempt(c) PROVE Good
  <2>1. CASE Reserve(c)
    <3>1. c \notin open
      BY <1>3 DEF Attempt, BudgetInv, OpenTrue
    <3>. QED BY <1>3, <2>1, <3>1, ReserveHolds DEF Attempt, Good
  <2>2. CASE UNCHANGED moneyVars
    BY <1>3, <1>s, <2>2 DEF Attempt
  <2>. QED BY <1>3, <2>1, <2>2 DEF Attempt
<1>4. ASSUME NEW c \in Calls, Answered(c) PROVE Good
  BY <1>4, <1>s DEF Answered
<1>5. ASSUME NEW c \in Calls, Failed(c) PROVE Good
  BY <1>5, <1>e, SettleHolds DEF Failed, Good
<1>6. ASSUME NEW c \in Calls, Parsed(c) PROVE Good
  BY <1>6, SettleHolds DEF Parsed, Good
<1>7. ASSUME NEW t \in Tenants, CancelTenant(t) PROVE Good
  BY <1>7, CancelHolds DEF Good
<1>8. ASSUME NEW t \in Tenants, CloseTenant(t) PROVE Good
  BY <1>8, <1>s DEF CloseTenant
<1>9. ASSUME Midnight PROVE Good
  BY <1>9, MidnightHolds DEF Good
<1>10. Good
  BY <1>1, <1>2, <1>3, <1>4, <1>5, <1>6, <1>7, <1>8, <1>9 DEF GateNext, CallProceeds
<1>. QED BY <1>10 DEF Good

\* An open call is on its way, and stays so until its reservation is settled.
LEMMA OpenNext ==
    ASSUME GateTypeOK, \A r \in Pools : PoolTrue(r), OpenTrue, GateNext
    PROVE  OpenTrue'
<1>. DEFINE Out == {"sent", "body"}
<1>0. /\ at \in [Calls -> Phases] /\ open \subseteq Calls /\ runtime \in [Tenants -> {"serving", "cancelled", "closed"}]
      /\ \A c \in open : at[c] \in Out
      /\ \A c \in open : InSandbox(c) => runtime[Of[c]] = "serving"
      /\ \A c \in Calls : Of[c] \in Tenants /\ Pool[c] \in Pools
  BY GateAssumption DEF GateTypeOK, OpenTrue, GateAssumption
<1>a. ASSUME open' \subseteq open, runtime' = runtime, \A c \in open' : at'[c] = at[c] PROVE OpenTrue'
  BY <1>0, <1>a DEF OpenTrue, InSandbox
<1>m. ASSUME NEW c \in Calls, NEW phase, Move(c, phase)
      PROVE  at'[c] = phase /\ \A d \in Calls \ {c} : at'[d] = at[d]
  BY <1>0, <1>m DEF Move
<1>r. ASSUME NEW c \in Calls, NEW phase, ReleaseSlot(c, phase), at[c] # "queued"
      PROVE  at'[c] = phase /\ \A d \in Calls \ {c} : at[d] # "queued" => at'[d] = at[d]
  <2>1. CASE queue[Pool[c]] = <<>>
    BY <1>0, <1>r, <2>1 DEF ReleaseSlot
  <2>2. CASE queue[Pool[c]] # <<>>
    <3>1. at' = [at EXCEPT ![c] = phase, ![Head(queue[Pool[c]])] = "granted"]
      BY <1>r, <2>2 DEF ReleaseSlot
    <3>2. Head(queue[Pool[c]]) \in Standing(queue[Pool[c]])
      <4>1. queue[Pool[c]] \in Seq(Calls)
        BY <1>0 DEF GateTypeOK
      <4>. QED BY <2>2, <4>1, EmptySeq, HeadTailProperties DEF Standing
    <3>3. Head(queue[Pool[c]]) \in Calls /\ at[Head(queue[Pool[c]])] = "queued"
      BY <1>0, <3>2 DEF PoolTrue, Queued
    <3>. QED BY <1>0, <1>r, <3>1, <3>3
  <2>. QED BY <2>1, <2>2
<1>1. ASSUME NEW c \in Calls, CallEnters(c) PROVE OpenTrue'
  <2>1. open' = open /\ runtime' = runtime /\ at[c] = "idle" /\ \A d \in Calls \ {c} : at'[d] = at[d]
    BY <1>0, <1>1 DEF CallEnters, moneyVars
  <2>. QED BY <1>0, <1>a, <2>1
<1>2. ASSUME NEW c \in Calls, CallerGivesUp(c) PROVE OpenTrue'
  <2>1. open' = open /\ runtime' = runtime /\ \A d \in Calls : at[d] # "queued" => at'[d] = at[d]
    BY <1>0, <1>2 DEF CallerGivesUp, moneyVars
  <2>. QED BY <1>0, <1>a, <2>1
<1>3. ASSUME NEW c \in Calls, Attempt(c) PROVE OpenTrue'
  <2>0. at[c] # "queued" /\ c \notin open /\ runtime' = runtime
    BY <1>0, <1>3 DEF Attempt
  <2>1. CASE ~Aborted(c) /\ Reserve(c) /\ Move(c, "sent")
    <3>1. open' = open \cup {c} /\ at'[c] = "sent" /\ \A d \in Calls \ {c} : at'[d] = at[d]
      BY <1>m, <2>1 DEF Reserve
    <3>2. runtime[Of[c]] = "serving"
      BY <2>1 DEF Aborted
    <3>. QED BY <1>0, <2>0, <3>1, <3>2 DEF OpenTrue, InSandbox
  <2>2. CASE ReleaseSlot(c, "done") /\ UNCHANGED moneyVars
    <3>1. open' = open /\ \A d \in Calls \ {c} : at[d] # "queued" => at'[d] = at[d]
      BY <1>r, <2>0, <2>2 DEF moneyVars
    <3>. QED BY <1>0, <1>a, <2>0, <3>1
  <2>. QED BY <1>3, <2>1, <2>2 DEF Attempt
<1>4. ASSUME NEW c \in Calls, Answered(c) PROVE OpenTrue'
  <2>0. at[c] = "sent" /\ open' = open /\ runtime' = runtime
    BY <1>4 DEF Answered, moneyVars
  <2>1. at'[c] = "body" /\ \A d \in Calls \ {c} : at[d] # "queued" => at'[d] = at[d]
    BY <1>4, <1>m, <1>r, <2>0 DEF Answered
  <2>. QED BY <1>0, <2>0, <2>1 DEF OpenTrue, InSandbox
<1>5. ASSUME NEW c \in Calls, Failed(c) PROVE OpenTrue'
  <2>0. at[c] = "sent" /\ open' = open \ {c} /\ runtime' = runtime
    BY <1>5 DEF Failed, Settle
  <2>1. \A d \in Calls \ {c} : at[d] # "queued" => at'[d] = at[d]
    BY <1>5, <1>m, <1>r, <2>0 DEF Failed
  <2>. QED BY <1>0, <1>a, <2>0, <2>1
<1>6. ASSUME NEW c \in Calls, Parsed(c) PROVE OpenTrue'
  <2>0. at[c] = "body" /\ open' = open \ {c} /\ runtime' = runtime
    BY <1>6 DEF Parsed, Settle
  <2>1. \A d \in Calls \ {c} : at[d] # "queued" => at'[d] = at[d]
    BY <1>6, <1>m, <1>r, <2>0 DEF Parsed
  <2>. QED BY <1>0, <1>a, <2>0, <2>1
<1>7. ASSUME NEW t \in Tenants, CancelTenant(t) PROVE OpenTrue'
  <2>. DEFINE mine == {c \in Calls : Of[c] = t}
              due == IF t \in Sandboxes THEN open \cap mine ELSE {}
              out(r) == {c \in due : Pool[c] = r /\ at[c] = "body" /\ Holds(c)}
              heirs == UNION {FirstOf(queue[r], Passed(r, out(r))) : r \in Pools}
              left == {c \in mine : at[c] = "queued"} \ heirs
  <2>1. /\ open' = open \ due /\ runtime' = [runtime EXCEPT ![t] = "cancelled"]
        /\ \A c \in Calls : at'[c] =
            IF c \in heirs THEN "granted"
            ELSE IF c \in left \/ (c \in due /\ at[c] = "body") THEN "done" ELSE at[c]
    BY <1>7 DEF CancelTenant, Passed, FirstOf
  <2>2. \A c \in heirs : at[c] = "queued"
    <3>1. ASSUME NEW r \in Pools PROVE \A c \in Relief(r, out(r)) : at[c] = "queued"
      <4>1. out(r) \subseteq Holders(r)
        BY DEF Holders
      <4>. HIDE DEF out
      <4>2. Relief(r, out(r)) \subseteq Queued(r)
        BY <4>1, AfterRelief, PoolTypesKept
      <4>. QED BY <4>2 DEF Queued
    <3>. HIDE DEF out
    <3>. QED BY <3>1 DEF Relief
  <2>3. \A c \in left : at[c] = "queued"
    OBVIOUS
  <2>4. \A c \in open' : InSandbox(c) => Of[c] # t
    BY <1>0, <2>1 DEF InSandbox
  <2>. HIDE DEF due, heirs, left
  <2>5. \A c \in open' : c \in open /\ c \notin due
    BY <2>1
  <2>6. \A c \in open' : at'[c] = at[c]
    BY <1>0, <2>1, <2>2, <2>3, <2>5
  <2>7. \A c \in open' : InSandbox(c) => runtime'[Of[c]] = runtime[Of[c]]
    BY <1>0, <2>1, <2>4, <2>5
  <2>. QED BY <1>0, <2>5, <2>6, <2>7 DEF OpenTrue, InSandbox
<1>8. ASSUME NEW t \in Tenants, CloseTenant(t) PROVE OpenTrue'
  <2>1. /\ open' = open /\ at' = at /\ runtime[t] = "cancelled"
        /\ \A u \in Tenants : u # t => runtime'[u] = runtime[u]
    BY <1>0, <1>8 DEF CloseTenant, moneyVars
  <2>2. \A c \in open : InSandbox(c) => Of[c] # t
    BY <1>0, <2>1
  <2>. QED BY <1>0, <2>1, <2>2 DEF OpenTrue, InSandbox
<1>9. ASSUME Midnight PROVE OpenTrue'
  BY <1>9, <1>0, <1>a DEF Midnight
<1>. QED BY <1>1, <1>2, <1>3, <1>4, <1>5, <1>6, <1>7, <1>8, <1>9 DEF GateNext, CallProceeds

-----------------------------------------------------------------------------
(* The theorems. *)

GateInv == SlotsAddUp /\ BudgetInv

LEMMA GateInvHolds == GateSpec => []GateInv
<1>1. GateInit => GateInv
  BY SlotsInit, BudgetInit DEF GateInv
<1>2. GateInv /\ [GateNext]_gateVars => GateInv'
  <2>. SUFFICES ASSUME GateInv, [GateNext]_gateVars PROVE BudgetInv'
    BY SlotsNext DEF GateInv
  <2>1. GateTypeOK /\ BudgetInv /\ \A r \in Pools : PoolTrue(r)
    BY SameSlots DEF GateInv
  <2>2. CASE GateNext
    BY <2>1, <2>2, OpenNext, MoneyNext DEF BudgetInv
  <2>3. CASE UNCHANGED gateVars
    <3>1. OpenTrue'
      BY <2>1, <2>3 DEF BudgetInv, OpenTrue, InSandbox, gateVars
    <3>2. UNCHANGED <<moneyVars, days>>
      BY <2>3 DEF gateVars, moneyVars
    <3>. QED BY <2>1, <3>1, <3>2, SameMoney DEF BudgetInv
  <2>. QED BY <2>2, <2>3
<1>. QED BY <1>1, <1>2, PTL DEF GateSpec

\* llm-gate.ts:25 and 74, tenancy/budget.ts, tenancy/sandbox/budget.ts: in every
\* state no slot is lost or made up, nobody waits beside a free slot, the pool of
\* the sandboxes holds what their open calls reserved, and no cap is passed.
THEOREM GateAddsUpHolds == GateSpec => []GateAddsUp
<1>1. GateInv => GateAddsUp
  BY DEF GateInv, GateAddsUp, BudgetsHold, BudgetInv, PoolHolds, AllowanceHolds, DayHolds
<1>. QED BY <1>1, GateInvHolds, PTL

-----------------------------------------------------------------------------
(* Each pool implements Turnstile, step by step. *)

\* The line's operators and the count of a set are the same seen from the turnstile.
LEMMA ChatSameLines ==
    /\ \A S : Chat!Cardinality(S) = Cardinality(S)
    /\ \A s : Chat!Standing(s) = Standing(s)
    /\ \A s, S : Chat!Without(s, S) = Without(s, S)
<1>1. \A S : Chat!Cardinality(S) = Cardinality(S)
  BY DEF Cardinality, Chat!Cardinality
<1>2. \A s : Chat!Standing(s) = Standing(s)
  BY DEF Standing, Chat!Standing
<1>3. \A s, S : Chat!Staying(s, S) = Staying(s, S)
  BY DEF Staying, Chat!Staying
<1>4. \A s, S, i : Chat!Before(s, S, i) = Before(s, S, i)
  BY <1>3 DEF Before, Chat!Before
<1>5. \A s, S, n : Chat!Place(s, S, n) = Place(s, S, n)
  BY <1>1, <1>3, <1>4 DEF Place, Chat!Place
<1>6. \A s, S : Chat!Without(s, S) = Without(s, S)
  BY <1>1, <1>3, <1>5 DEF Without, Chat!Without
<1>. QED BY <1>1, <1>2, <1>6

LEMMA ChatMoves ==
    ASSUME PoolTypes, PoolTrue("chat"), PoolMoves("chat")
    PROVE  [Chat!Next]_<<Holders("chat"), queue["chat"]>>
<1>. DEFINE p == "chat"
<1>0. inflight[p] = Cardinality(Holders(p)) /\ Standing(queue[p]) = Queued(p)
  BY DEF PoolTrue
<1>1. CASE Stays(p)
  BY <1>1 DEF Stays
<1>2. ASSUME NEW c \in Calls, Enters(p, c) PROVE Chat!Arrive(c) /\ Pool[c] = p
  BY <1>0, <1>2, ChatSameLines DEF Enters, Chat!Arrive
<1>3. ASSUME NEW out, NEW lost, Leaves(p, out, lost)
      PROVE  Chat!Depart(out, lost) /\ out \in SUBSET Holders(p) /\ lost \in SUBSET Chat!Standing(queue[p])
  <2>. DEFINE k == Passed(p, out)
              rest == SubSeq(queue[p], k + 1, Len(queue[p]))
  <2>1. k = IF Chat!Cardinality(out) < Len(queue[p]) THEN Chat!Cardinality(out) ELSE Len(queue[p])
    BY ChatSameLines DEF Passed
  <2>2. Relief(p, out) = {queue[p][i] : i \in 1..k}
    BY DEF Relief, FirstOf
  <2>3. out \subseteq Holders(p) /\ lost \subseteq Chat!Standing(queue[p])
    BY <1>0, <1>3, ChatSameLines DEF Leaves
  <2>4. Holders(p)' = (Holders(p) \ out) \cup {queue[p][i] : i \in 1..k}
    BY <1>3, <2>2 DEF Leaves
  <2>5. queue'[p] = Chat!Without(rest, lost)
    BY <1>3, ChatSameLines DEF Leaves
  <2>. HIDE DEF k
  <2>. QED BY <2>1, <2>3, <2>4, <2>5 DEF Chat!Depart
<1>. QED BY <1>1, <1>2, <1>3, ChatSameLines DEF PoolMoves, Chat!Next

LEMMA VisionSameLines ==
    /\ \A S : Vision!Cardinality(S) = Cardinality(S)
    /\ \A s : Vision!Standing(s) = Standing(s)
    /\ \A s, S : Vision!Without(s, S) = Without(s, S)
<1>1. \A S : Vision!Cardinality(S) = Cardinality(S)
  BY DEF Cardinality, Vision!Cardinality
<1>2. \A s : Vision!Standing(s) = Standing(s)
  BY DEF Standing, Vision!Standing
<1>3. \A s, S : Vision!Staying(s, S) = Staying(s, S)
  BY DEF Staying, Vision!Staying
<1>4. \A s, S, i : Vision!Before(s, S, i) = Before(s, S, i)
  BY <1>3 DEF Before, Vision!Before
<1>5. \A s, S, n : Vision!Place(s, S, n) = Place(s, S, n)
  BY <1>1, <1>3, <1>4 DEF Place, Vision!Place
<1>6. \A s, S : Vision!Without(s, S) = Without(s, S)
  BY <1>1, <1>3, <1>5 DEF Without, Vision!Without
<1>. QED BY <1>1, <1>2, <1>6

LEMMA VisionMoves ==
    ASSUME PoolTypes, PoolTrue("vision"), PoolMoves("vision")
    PROVE  [Vision!Next]_<<Holders("vision"), queue["vision"]>>
<1>. DEFINE p == "vision"
<1>0. inflight[p] = Cardinality(Holders(p)) /\ Standing(queue[p]) = Queued(p)
  BY DEF PoolTrue
<1>1. CASE Stays(p)
  BY <1>1 DEF Stays
<1>2. ASSUME NEW c \in Calls, Enters(p, c) PROVE Vision!Arrive(c) /\ Pool[c] = p
  BY <1>0, <1>2, VisionSameLines DEF Enters, Vision!Arrive
<1>3. ASSUME NEW out, NEW lost, Leaves(p, out, lost)
      PROVE  Vision!Depart(out, lost) /\ out \in SUBSET Holders(p) /\ lost \in SUBSET Vision!Standing(queue[p])
  <2>. DEFINE k == Passed(p, out)
              rest == SubSeq(queue[p], k + 1, Len(queue[p]))
  <2>1. k = IF Vision!Cardinality(out) < Len(queue[p]) THEN Vision!Cardinality(out) ELSE Len(queue[p])
    BY VisionSameLines DEF Passed
  <2>2. Relief(p, out) = {queue[p][i] : i \in 1..k}
    BY DEF Relief, FirstOf
  <2>3. out \subseteq Holders(p) /\ lost \subseteq Vision!Standing(queue[p])
    BY <1>0, <1>3, VisionSameLines DEF Leaves
  <2>4. Holders(p)' = (Holders(p) \ out) \cup {queue[p][i] : i \in 1..k}
    BY <1>3, <2>2 DEF Leaves
  <2>5. queue'[p] = Vision!Without(rest, lost)
    BY <1>3, VisionSameLines DEF Leaves
  <2>. HIDE DEF k
  <2>. QED BY <2>1, <2>3, <2>4, <2>5 DEF Vision!Depart
<1>. QED BY <1>1, <1>2, <1>3, VisionSameLines DEF PoolMoves, Vision!Next

\* llm-gate.ts:25: each of the two pools is a first-come, first-served turnstile.
THEOREM IsTurnstileHolds == GateSpec => IsTurnstile
<1>1. GateInit => Chat!Init /\ Vision!Init
  BY DEF GateInit, Chat!Init, Vision!Init, Holders, Holds, Pools
<1>2. GateInv /\ [GateNext]_gateVars
      => [Chat!Next]_<<Holders("chat"), queue["chat"]>> /\ [Vision!Next]_<<Holders("vision"), queue["vision"]>>
  <2>. SUFFICES ASSUME GateInv, [GateNext]_gateVars
                PROVE  /\ [Chat!Next]_<<Holders("chat"), queue["chat"]>>
                       /\ [Vision!Next]_<<Holders("vision"), queue["vision"]>>
    OBVIOUS
  <2>1. CASE GateNext
    <3>1. PoolTypes /\ \A p \in Pools : PoolTrue(p)
      BY SameSlots, PoolTypesKept DEF GateInv
    <3>2. PoolMoves("chat") /\ PoolMoves("vision") /\ PoolTrue("chat") /\ PoolTrue("vision")
      BY <2>1, <3>1, StepMoves DEF Pools
    <3>. QED BY <3>1, <3>2, ChatMoves, VisionMoves
  <2>2. CASE UNCHANGED gateVars
    BY <2>2 DEF gateVars, Holders, Holds
  <2>. QED BY <2>1, <2>2
<1>. QED BY <1>1, <1>2, GateInvHolds, PTL DEF GateSpec, IsTurnstile, Chat!Spec, Vision!Spec
=============================================================================
