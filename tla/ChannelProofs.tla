--------------------------- MODULE ChannelProofs ---------------------------
(***************************************************************************)
(* Theorems about ChannelDelivery: one reply per customer message, a       *)
(* truthful ledger, silence after the end of a segment and under staff, an *)
(* end to crash loops and the order of answers, for any customers,         *)
(* messages, segments, limits, pages, starts and budgets of trouble.       *)
(***************************************************************************)
EXTENDS ChannelDelivery, SequenceTheorems, LinesProofs, FiniteSetTheorems, TLAPS

-----------------------------------------------------------------------------
(* Types, and what belongs to whom. *)

InboxStates == {"none", "done", "abandoned"} \cup InboxOpen
Changes == {"recorded", "replied", "done", "abandoned"}
Results == {"accepted", "rejected", "unknown", "failed"}
Owners == {"ai", "queue", "human"}
Says == {"no", "said", "answered"}
Pcs == {"idle", "attempt", "hear", "think", "plan", "commit", "send", "mark", "marked",
        "unmark", "wait", "taken", "backoff", "finish"}
Marks == {"none", "marked", "not_pending", "absent", "db_unavailable"}
Outcs == {"none", "unknown", "rejected"}

Batch == [say : SUBSET Msgs, ans : SUBSET Msgs, own : Owners \cup {"same"},
          inb : SUBSET (Msgs \X Changes), plan : SUBSET Segs, cancel : SUBSET Segs,
          res : SUBSET (Segs \X Results)]

TurnType == [pc : Pcs, m : 0..N, seen : 0..MaxInboxAttempts, gen : Nat, egen : Nat,
             kind : {"reply", "sorry"}, todo : Seq(Segs), mark : Marks, tries : 0..MaxTries,
             outc : Outcs]

DbTypes ==
    /\ cursor \in 0..N /\ inbox \in [Msgs -> InboxStates] /\ attempts \in [Msgs -> Nat]
    /\ outbound \in [Segs -> OutStatus] /\ conv \in [Msgs -> Says] /\ owner \in [Users -> Owners]
    /\ receipt \in [Segs -> {"none", "received", "done"}]

MemTypes ==
    /\ proc \in {"down", "up", "stopping", "closed"} /\ cur \in 0..N /\ cold \in BOOLEAN
    /\ mout \in [Segs -> OutStatus] /\ mconv \in [Msgs -> Says] /\ mowner \in [Users -> Owners]
    /\ gen \in [Users -> Nat] /\ wq \in [Users -> Seq(Batch)] /\ chain \in [Users -> Seq(Msgs)]
    /\ turn \in [Users -> TurnType]
    /\ poisoned \subseteq Users /\ halted \subseteq Users /\ rtask \subseteq Segs

HistTypes ==
    /\ sent \in [Segs -> Seq(1..MaxBoots)] /\ got \subseteq Segs /\ unsafe \subseteq Segs
    /\ dequeued \in [Msgs -> Nat] /\ worked \in [Msgs -> Nat]
    /\ boots \in Nat /\ boots <= faults.starts
    /\ faults \in [Limits -> Nat] /\ faults.starts <= MaxBoots /\ faults.segs <= NSeg

\* A batch of a conversation is about that conversation.
Owned(u, b) ==
    /\ \A c \in b.inb : From[c[1]] = u
    /\ \A s \in b.plan \cup b.cancel : UserOf(s) = u
    /\ \A r \in b.res : UserOf(r[1]) = u

\* At the head of the chain is what the turn works on; only a request that went
\* out was tried.
Heads == {"mark", "marked", "unmark", "wait", "taken", "backoff"}
Flying == {"wait", "taken", "backoff"}
TurnShape(u) ==
    LET t == turn[u] IN
    /\ t.pc # "idle" => chain[u] # <<>> /\ t.m = Head(chain[u])
    /\ t.pc \in Heads => t.todo # <<>>
    /\ t.pc \notin Flying => t.tries = 0
    /\ t.pc = "backoff" => t.tries < MaxTries /\ t.outc # "none"

\* A process that is down holds nothing.
Down ==
    /\ ~Alive => /\ \A u \in Users : wq[u] = <<>> /\ chain[u] = <<>> /\ turn[u] = NoTurn
                 /\ rtask = {}
    /\ Alive => boots > 0

Shapes ==
    /\ \A u \in Users : \A i \in DOMAIN wq[u] : Owned(u, wq[u][i])
    /\ \A u \in Users : \A i \in DOMAIN chain[u] : From[chain[u][i]] = u
    /\ \A u \in Users : TurnShape(u)
    /\ Down

-----------------------------------------------------------------------------
(* The count of attempts *)

\* A dequeued message is counted once: before its commit or, answer lost, after.
CountTrue(u) ==
    LET t == turn[u] IN
    t.pc = "attempt" =>
        /\ attempts[t.m] \in {t.seen, t.seen + 1} /\ worked[t.m] <= t.seen
        /\ t.seen + 1 <= dequeued[t.m] /\ t.seen < MaxInboxAttempts

-----------------------------------------------------------------------------
(* Rows *)

Past == {"replied", "done", "abandoned"}
Used(s) == mout[s] # "none" \/ outbound[s] # "none" \/ sent[s] # <<>>
InQueue(u, m, st) == \E i \in DOMAIN wq[u] : <<m, st>> \in wq[u][i].inb
PlannedPcs == {"commit", "send", "mark", "marked", "unmark", "wait", "taken", "backoff", "finish"}
HasPlanned(u, m) == turn[u].pc \in PlannedPcs /\ turn[u].m = m

\* What is known of a message comes after its row.
Known ==
    /\ \A u \in Users : \A i \in DOMAIN wq[u] : \A c \in wq[u][i].inb : inbox[c[1]] # "none"
    /\ \A s \in Segs : Used(s) => inbox[MsgOf(s)] # "none" /\ s[2] <= boots

\* A row is in the chain once and until it is finished; until it is planned in this
\* process nothing of this process is sent for it.
ChainTrue(u) ==
    /\ IsInjective(chain[u])
    /\ \A m \in Range(chain[u]) :
        /\ inbox[m] \in InboxOpen /\ ~InQueue(u, m, "done") /\ ~InQueue(u, m, "abandoned")
        /\ ~HasPlanned(u, m) =>
            /\ ~InQueue(u, m, "replied")
            /\ \A s \in Segs : MsgOf(s) = m /\ Used(s) => s[2] < boots

\* The row moves along no later than its segments.
Covered(u, i, m) == inbox[m] \in Past \/ \E j \in 1..i : <<m, "replied">> \in wq[u][j].inb
Ready(u, i, m) == inbox[m] # "received" \/ \E k \in 1..i : <<m, "recorded">> \in wq[u][k].inb

About(b) == b.plan \cup {r[1] : r \in b.res}
QueueOrder ==
    \A u \in Users : \A i \in DOMAIN wq[u] :
        /\ \A s \in About(wq[u][i]) : IsReply(s) => Covered(u, i, MsgOf(s))
        /\ \A m \in Msgs : <<m, "replied">> \in wq[u][i].inb => Ready(u, i, m)

Stored(s) == outbound[s] \notin {"none", "failed"}
Held(s) == mout[s] \notin {"none", "failed"}
RowsTrue ==
    /\ \A s \in Segs : IsReply(s) /\ Stored(s) => inbox[MsgOf(s)] \in Past
    /\ Alive => \A s \in Segs : IsReply(s) /\ Held(s) =>
                    inbox[MsgOf(s)] \in Past \/ InQueue(UserOf(s), MsgOf(s), "replied")

\* A turn that has not planned yet is of a row that is not replied to, recorded before the
\* reply is made.
HearsTrue(u) ==
    LET t == turn[u] IN
    /\ t.pc \in {"hear", "think", "plan"} => inbox[t.m] \in {"received", "recorded"}
    /\ t.pc \in {"think", "plan"} \/ (t.pc = "hear" /\ mconv[t.m] # "no") =>
            inbox[t.m] # "received" \/ InQueue(u, t.m, "recorded")

-----------------------------------------------------------------------------
(* The ledger, the queue and the database *)

Onward == [accepted |-> {"accepted", "failed"}, rejected |-> {"rejected"},
           unknown |-> {"unknown", "accepted", "failed"}, failed |-> {"failed"}]

\* What is queued has happened in memory; nothing ends in the database before.
Agrees(b) ==
    /\ \A s \in b.cancel : mout[s] = "cancelled"
    /\ \A s \in b.plan : mout[s] # "none"
    /\ \A r \in b.res : mout[r[1]] \in Onward[r[2]]
QueueAgrees == \A u \in Users : \A i \in DOMAIN wq[u] : Agrees(wq[u][i])
EndsAgree == Alive => \A s \in Segs : outbound[s] \in NoMoreSends => mout[s] \in NoMoreSends

InFlight(s) == turn[UserOf(s)].pc \in Flying /\ s = Head(turn[UserOf(s)].todo)
Sending == {"commit", "send"} \cup Heads

\* What a turn is still to send nobody was asked to deliver, unless unsafely.
Waits(u, s) ==
    /\ sent[s] = <<>>
    /\ mout[s] = IF turn[u].pc = "unmark" /\ s = Head(turn[u].todo) THEN "sending" ELSE "pending"
TodoTrue(u) ==
    LET t == turn[u] IN
    t.pc \in Sending =>
        /\ IsInjective(t.todo)
        /\ \A s \in Range(t.todo) : MsgOf(s) = t.m /\ mout[s] # "none"
                                    /\ (s \in unsafe \/ InFlight(s) \/ Waits(u, s))
HeadTrue(u) ==
    LET t == turn[u] s == Head(turn[u].todo) IN
    /\ t.pc = "marked" /\ t.mark = "marked" => outbound[s] = "sending" \/ s \in unsafe
    /\ t.pc \in {"wait", "backoff"} /\ s \in got \ unsafe => t.outc = "unknown"
    /\ t.pc \in {"wait", "taken", "backoff"} => sent[s] # <<>>

-----------------------------------------------------------------------------
(* Segments that went out *)

Safe(s) == sent[s] # <<>> /\ s \notin unsafe
Committed == {"sending", "accepted", "unknown", "failed", "rejected"}
SentTrue(s) ==
    Safe(s) =>
        /\ outbound[s] \in Committed /\ (s \in got => outbound[s] # "rejected")
        /\ Alive => /\ mout[s] \in Committed /\ (s \in got => mout[s] # "rejected")
                    /\ mout[s] = "sending" => InFlight(s)
        /\ IsReply(s) => inbox[MsgOf(s)] \in Past
        /\ \A i, j \in DOMAIN sent[s] : sent[s][i] = sent[s][j]
        /\ InFlight(s) => /\ mout[s] # "rejected" /\ outbound[s] # "rejected"
                          /\ \A i \in DOMAIN sent[s] : sent[s][i] = boots

GotSent == \A s \in got : sent[s] # <<>>

\* Of one message the database and the memory know segments of one planning.
QueuedSeg(s) == \E i \in DOMAIN wq[UserOf(s)] : s \in About(wq[UserOf(s)][i])
Live(s) == Stored(s) \/ Safe(s) \/ (Alive /\ Held(s)) \/ QueuedSeg(s)
OneBoot == \A x, y \in Segs : IsReply(x) /\ IsReply(y) /\ MsgOf(x) = MsgOf(y) /\ Live(x) /\ Live(y)
                              => x[2] = y[2]

-----------------------------------------------------------------------------
(* Staff *)

StaffTrue(u) ==
    LET t == turn[u] IN
    /\ t.gen <= gen[u]
    /\ t.pc \in {"think", "plan"} \cup Sending /\ gen[u] = t.gen /\ t.m \notin Withdrawals
            => mowner[u] # "human"

\* What concerns one conversation's turn, and the whole.
Own(u) ==
    /\ CountTrue(u) /\ HearsTrue(u) /\ TodoTrue(u) /\ HeadTrue(u) /\ StaffTrue(u)
    /\ \A s \in Segs : UserOf(s) = u => SentTrue(s)

Rows == Known /\ QueueOrder /\ RowsTrue /\ \A u \in Users : ChainTrue(u)
Ledger == QueueAgrees /\ EndsAgree /\ GotSent /\ OneBoot
Typed == DbTypes /\ MemTypes /\ HistTypes
Sound == Typed /\ Shapes
ChanInv == Sound /\ CrashLoopEnds /\ Rows /\ Ledger /\ \A u \in Users : Own(u)

-----------------------------------------------------------------------------
(* Messages and segments are listed once each, in order. *)

LEMMA MessagesInSequence ==
    ASSUME NEW S \in SUBSET Msgs
    PROVE  /\ InSequence(S) \in Seq(S) /\ InSequence(S) \in Seq(Msgs)
           /\ Range(InSequence(S)) = S /\ IsInjective(InSequence(S))
<1>1. IsFiniteSet(S) /\ \A m \in S : m \in Nat
  <2>1. IsFiniteSet(1..N)
    BY ChannelAssumption, FS_Interval
  <2>2. IsFiniteSet(S)
    BY <2>1, FS_Subset DEF Msgs
  <2>. QED BY <2>2 DEF Msgs
<1>. DEFINE rank == [m \in S |-> m]
<1>2. /\ Listed(S, rank) \in Seq(S) /\ Range(Listed(S, rank)) = S /\ IsInjective(Listed(S, rank))
  <2>1. (\A x \in S : rank[x] \in Nat) /\ \A x, y \in S : rank[x] = rank[y] => x = y
    BY <1>1
  <2>. HIDE DEF rank
  <2>. QED BY <1>1, <2>1, ListedAll
<1>. QED BY <1>2 DEF InSequence

LEMMA Places ==
    ASSUME NEW k \in Nat, NEW a \in Nat, NEW b \in Nat, NEW c \in 0..k, NEW d \in 0..k,
           a * (k + 1) + c = b * (k + 1) + d
    PROVE  a = b /\ c = d
<1>1. ASSUME NEW x \in Nat, NEW y \in Nat, x < y PROVE x * (k + 1) + (k + 1) <= y * (k + 1)
  <2>. DEFINE z == y - (x + 1)
  <2>1. z \in Nat /\ y = (x + 1) + z
    BY <1>1
  <2>2. y * (k + 1) = (x + 1) * (k + 1) + z * (k + 1)
    BY <2>1
  <2>3. z * (k + 1) \in Nat /\ (x + 1) * (k + 1) = x * (k + 1) + (k + 1)
    BY <2>1
  <2>4. x * (k + 1) \in Nat /\ y * (k + 1) \in Nat
    OBVIOUS
  <2>. HIDE DEF z
  <2>. QED BY <2>2, <2>3, <2>4
<1>2. a * (k + 1) \in Nat /\ b * (k + 1) \in Nat
  OBVIOUS
<1>3. ~(a < b) /\ ~(b < a)
  BY <1>1, <1>2
<1>. QED BY <1>2, <1>3

LEMMA SegFields ==
    ASSUME NEW s \in Segs
    PROVE  /\ s[1] \in Msgs /\ s[2] \in 1..MaxBoots /\ s[3] \in 0..NSeg
           /\ s = <<s[1], s[2], s[3]>> /\ MsgOf(s) \in Msgs /\ UserOf(s) \in Users
  BY ChannelAssumption DEF Segs, MsgOf, UserOf, Msgs

LEMMA SegmentsInOrder ==
    ASSUME NEW S \in SUBSET Segs, \A s, x \in S : MsgOf(s) = MsgOf(x)
    PROVE  /\ InOrder(S) \in Seq(S) /\ InOrder(S) \in Seq(Segs)
           /\ Range(InOrder(S)) = S /\ IsInjective(InOrder(S))
<1>1. IsFiniteSet(S)
  <2>1. IsFiniteSet(1..N) /\ IsFiniteSet(1..MaxBoots) /\ IsFiniteSet(0..NSeg)
    BY ChannelAssumption, FS_Interval
  <2>. DEFINE pairs == Msgs \X ((1..MaxBoots) \X (0..NSeg))
              pair == [s \in Segs |-> <<s[1], <<s[2], s[3]>>>>]
  <2>2. IsFiniteSet(pairs)
    <3>1. IsFiniteSet((1..MaxBoots) \X (0..NSeg))
      BY <2>1, FS_Product
    <3>. QED BY <2>1, <3>1, FS_Product DEF Msgs
  <2>3. pair \in Injection(Segs, pairs)
    <3>1. \A s \in Segs : pair[s] \in pairs
      BY SegFields
    <3>2. ASSUME NEW s \in Segs, NEW x \in Segs, pair[s] = pair[x] PROVE s = x
      BY <3>2, SegFields
    <3>. QED BY <3>1, <3>2 DEF Injection, IsInjective
  <2>4. IsFiniteSet(Segs)
    <3>. HIDE DEF pair, pairs
    <3>. QED BY <2>2, <2>3, FS_Injection
  <2>. QED BY <2>4, FS_Subset
<1>. DEFINE rank == [s \in S |-> s[2] * (NSeg + 1) + s[3]]
<1>2. \A x \in S : rank[x] \in Nat
  <2>1. \A a, b, k \in Nat : a * (k + 1) + b \in Nat
    OBVIOUS
  <2>2. ASSUME NEW x \in S PROVE x[2] \in Nat /\ x[3] \in Nat
    BY SegFields, ChannelAssumption
  <2>3. NSeg \in Nat
    BY ChannelAssumption
  <2>. QED BY <2>1, <2>2, <2>3
<1>3. ASSUME NEW x \in S, NEW y \in S, rank[x] = rank[y] PROVE x = y
  <2>1. /\ x[2] \in Nat /\ y[2] \in Nat /\ x[3] \in 0..NSeg /\ y[3] \in 0..NSeg /\ NSeg \in Nat
        /\ x = <<x[1], x[2], x[3]>> /\ y = <<y[1], y[2], y[3]>> /\ x[1] = y[1]
    BY SegFields, ChannelAssumption DEF MsgOf
  <2>2. x[2] * (NSeg + 1) + x[3] = y[2] * (NSeg + 1) + y[3]
    BY <1>3
  <2>3. x[2] = y[2] /\ x[3] = y[3]
    BY <2>1, <2>2, Places
  <2>. QED BY <2>1, <2>3
<1>4. /\ Listed(S, rank) \in Seq(S) /\ Range(Listed(S, rank)) = S /\ IsInjective(Listed(S, rank))
  <2>. HIDE DEF rank
  <2>. QED BY <1>1, <1>2, <1>3, ListedAll
<1>. QED BY <1>4 DEF InOrder

-----------------------------------------------------------------------------
(* Types are kept. *)

\* What an appended batch adds to the queues.
Queued(q, u, b) ==
    /\ q \in [Users -> Seq(Batch)] /\ q[u] = Append(wq[u], b)
    /\ Len(q[u]) = Len(wq[u]) + 1 /\ DOMAIN q[u] = DOMAIN wq[u] \cup {Len(q[u])}
    /\ Len(wq[u]) \in Nat /\ DOMAIN wq[u] = 1..Len(wq[u])
    /\ \A i \in DOMAIN wq[u] : q[u][i] = wq[u][i]
    /\ q[u][Len(q[u])] = b
    /\ \A v \in Users \ {u} : q[v] = wq[v]

LEMMA QueueAdds ==
    ASSUME wq \in [Users -> Seq(Batch)], NEW u \in Users, NEW b \in Batch
    PROVE  Queued(Queue(u, b), u, b)
<1>1. wq[u] \in Seq(Batch)
  OBVIOUS
<1>2. /\ Append(wq[u], b) \in Seq(Batch) /\ Len(Append(wq[u], b)) = Len(wq[u]) + 1
      /\ \A i \in 1..Len(wq[u]) : Append(wq[u], b)[i] = wq[u][i]
      /\ Append(wq[u], b)[Len(wq[u]) + 1] = b
      /\ Len(wq[u]) \in Nat /\ DOMAIN wq[u] = 1..Len(wq[u])
      /\ DOMAIN Append(wq[u], b) = 1..(Len(wq[u]) + 1)
  BY <1>1
<1>3. /\ Queue(u, b) \in [Users -> Seq(Batch)] /\ Queue(u, b)[u] = Append(wq[u], b)
      /\ \A v \in Users \ {u} : Queue(u, b)[v] = wq[v]
  BY <1>2 DEF Queue
<1>4. 1..(Len(wq[u]) + 1) = (1..Len(wq[u])) \cup {Len(wq[u]) + 1}
  BY <1>2
<1>. QED BY <1>2, <1>3, <1>4 DEF Queued

LEMMA QueueOwned ==
    ASSUME wq \in [Users -> Seq(Batch)], NEW u \in Users, NEW b \in Batch, Owned(u, b),
           \A v \in Users : \A i \in DOMAIN wq[v] : Owned(v, wq[v][i])
    PROVE  /\ Queue(u, b) \in [Users -> Seq(Batch)]
           /\ \A v \in Users : \A i \in DOMAIN Queue(u, b)[v] : Owned(v, Queue(u, b)[v][i])
<1>1. Queued(Queue(u, b), u, b)
  BY QueueAdds
<1>. QED BY <1>1 DEF Queued

LEMMA NoBatchType == NoBatch \in Batch /\ \A u \in Users : Owned(u, NoBatch)
  BY DEF NoBatch, Batch, Owned, Owners

LEMMA NoTurnType ==
    /\ NoTurn \in TurnType /\ NoTurn.pc = "idle" /\ NoTurn.tries = 0 /\ NoTurn.outc = "none"
    /\ NoTurn.gen = 0
  BY ChannelAssumption DEF NoTurn, TurnType, Pcs, Marks, Outcs

\* A row that is over leaves the chain.
LEMMA PopKeeps ==
    ASSUME Sound, NEW u \in Users, chain[u] # <<>>, Pop(u)
    PROVE  /\ chain' \in [Users -> Seq(Msgs)] /\ turn' \in [Users -> TurnType]
           /\ turn'[u] = NoTurn /\ chain'[u] = Tail(chain[u])
           /\ \A v \in Users \ {u} : turn'[v] = turn[v] /\ chain'[v] = chain[v]
           /\ \A v \in Users : \A i \in DOMAIN chain'[v] : From[chain'[v][i]] = v
           /\ \A v \in Users : TurnShape(v)'
<1>1. chain[u] \in Seq(Msgs) /\ chain \in [Users -> Seq(Msgs)] /\ turn \in [Users -> TurnType]
  BY DEF Sound, Typed, MemTypes
<1>2. /\ Tail(chain[u]) \in Seq(Msgs) /\ Len(Tail(chain[u])) = Len(chain[u]) - 1
      /\ \A i \in 1..(Len(chain[u]) - 1) : Tail(chain[u])[i] = chain[u][i + 1]
      /\ Len(chain[u]) \in Nat /\ DOMAIN chain[u] = 1..Len(chain[u])
      /\ DOMAIN Tail(chain[u]) = 1..(Len(chain[u]) - 1)
  BY <1>1
<1>3. /\ chain' \in [Users -> Seq(Msgs)] /\ turn' \in [Users -> TurnType]
      /\ turn'[u] = NoTurn /\ chain'[u] = Tail(chain[u])
      /\ \A v \in Users \ {u} : turn'[v] = turn[v] /\ chain'[v] = chain[v]
  BY <1>1, <1>2, NoTurnType DEF Pop
<1>4. ASSUME NEW v \in Users, NEW i \in DOMAIN chain'[v] PROVE From[chain'[v][i]] = v
  <2>1. CASE v = u
    <3>1. i \in 1..(Len(chain[u]) - 1) /\ i + 1 \in DOMAIN chain[u]
      BY <1>2, <1>3, <2>1
    <3>. QED BY <1>2, <1>3, <2>1, <3>1 DEF Sound, Shapes
  <2>2. CASE v # u
    BY <1>3, <2>2 DEF Sound, Shapes
  <2>. QED BY <2>1, <2>2
<1>5. ASSUME NEW v \in Users PROVE TurnShape(v)'
  <2>1. TurnShape(v)
    BY DEF Sound, Shapes
  <2>. QED BY <1>3, <2>1, NoTurnType DEF TurnShape, Heads, Flying
<1>. QED BY <1>3, <1>4, <1>5

LEMMA SetType ==
    ASSUME NEW A, NEW B, NEW f \in [A -> B], NEW S, NEW x \in B
    PROVE  /\ Set(f, S, x) \in [A -> B]
           /\ \A a \in A : Set(f, S, x)[a] = IF a \in S THEN x ELSE f[a]
  BY DEF Set

LEMMA Working ==
    ASSUME Sound, NEW u \in Users, turn[u].pc # "idle"
    PROVE  /\ turn[u] \in TurnType /\ turn[u].m \in Msgs /\ From[turn[u].m] = u
           /\ chain[u] \in Seq(Msgs) /\ chain[u] # <<>> /\ turn[u].m = Head(chain[u])
<1>1. turn[u] \in TurnType /\ chain[u] \in Seq(Msgs)
  BY DEF Sound, Typed, MemTypes
<1>2. chain[u] # <<>> /\ turn[u].m = Head(chain[u])
  BY DEF Sound, Shapes, TurnShape
<1>3. 1 \in DOMAIN chain[u] /\ Head(chain[u]) = chain[u][1]
  BY <1>1, <1>2
<1>4. From[chain[u][1]] = u /\ chain[u][1] \in Msgs
  BY <1>1, <1>3 DEF Sound, Shapes
<1>. QED BY <1>1, <1>2, <1>3, <1>4

LEMMA HeadOfChain ==
    ASSUME Sound, NEW u \in Users, chain[u] # <<>>
    PROVE  Head(chain[u]) \in Msgs /\ From[Head(chain[u])] = u /\ Head(chain[u]) = chain[u][1]
           /\ 1 \in DOMAIN chain[u]
<1>1. chain[u] \in Seq(Msgs)
  BY DEF Sound, Typed, MemTypes
<1>2. 1 \in DOMAIN chain[u] /\ Head(chain[u]) = chain[u][1]
  BY <1>1
<1>. QED BY <1>1, <1>2 DEF Sound, Shapes

LEMMA HeadOfTodo ==
    ASSUME Sound, NEW u \in Users, turn[u].pc \in Heads
    PROVE  /\ turn[u].todo \in Seq(Segs) /\ turn[u].todo # <<>>
           /\ Head(turn[u].todo) \in Segs /\ Head(turn[u].todo) = turn[u].todo[1]
           /\ Head(turn[u].todo) \in Range(turn[u].todo)
           /\ Tail(turn[u].todo) \in Seq(Segs)
<1>1. turn[u] \in TurnType /\ TurnShape(u)
  BY DEF Sound, Typed, MemTypes, Shapes
<1>2. turn[u].todo \in Seq(Segs) /\ turn[u].todo # <<>>
  BY <1>1 DEF TurnType, TurnShape
<1>3. 1 \in DOMAIN turn[u].todo /\ Head(turn[u].todo) = turn[u].todo[1]
  BY <1>2
<1>. QED BY <1>2, <1>3 DEF Range

\* The batches the code queues, by their parts.
Parts(b, say, ans, own, inb, plan, cancel, res) ==
    /\ b \in Batch
    /\ b.say = say /\ b.ans = ans /\ b.own = own /\ b.inb = inb
    /\ b.plan = plan /\ b.cancel = cancel /\ b.res = res

LEMMA TalkParts ==
    ASSUME NEW say \in SUBSET Msgs, NEW ans \in SUBSET Msgs, NEW own \in Owners \cup {"same"},
           NEW inb \in SUBSET (Msgs \X Changes), NEW more \in SUBSET (Msgs \X Changes),
           NEW plan \in SUBSET Segs
    PROVE  LET b == [NoBatch EXCEPT !.say = say, !.inb = inb] IN
           /\ Parts(b, say, {}, "same", inb, {}, {}, {})
           /\ Parts([b EXCEPT !.ans = ans, !.own = own], say, ans, own, inb, {}, {}, {})
           /\ Parts([b EXCEPT !.inb = @ \cup more], say, {}, "same", inb \cup more, {}, {}, {})
           /\ Parts([b EXCEPT !.plan = plan, !.cancel = plan, !.inb = @ \cup more],
                    say, {}, "same", inb \cup more, plan, plan, {})
           /\ Parts([NoBatch EXCEPT !.ans = ans, !.own = own], {}, ans, own, {}, {}, {}, {})
           /\ Parts([NoBatch EXCEPT !.inb = inb], {}, {}, "same", inb, {}, {}, {})
           /\ Parts([NoBatch EXCEPT !.own = own], {}, {}, own, {}, {}, {}, {})
<1>. DEFINE b == [NoBatch EXCEPT !.say = say, !.inb = inb]
<1>1. Parts(b, say, {}, "same", inb, {}, {}, {})
  <2>1. b \in Batch
    BY NoBatchType DEF Batch
  <2>. QED BY <2>1 DEF Parts, NoBatch
<1>2. /\ Parts([NoBatch EXCEPT !.inb = inb], {}, {}, "same", inb, {}, {}, {})
      /\ Parts([NoBatch EXCEPT !.own = own], {}, {}, own, {}, {}, {}, {})
  <2>1. [NoBatch EXCEPT !.inb = inb] \in Batch /\ [NoBatch EXCEPT !.own = own] \in Batch
    BY NoBatchType DEF Batch
  <2>. QED BY <2>1 DEF Parts, NoBatch
<1>3. Parts([NoBatch EXCEPT !.ans = ans, !.own = own], {}, ans, own, {}, {}, {}, {})
  <2>1. [NoBatch EXCEPT !.ans = ans, !.own = own] \in Batch
    BY NoBatchType DEF Batch
  <2>. QED BY <2>1 DEF Parts, NoBatch
<1>. HIDE DEF b
<1>4. Parts([b EXCEPT !.ans = ans, !.own = own], say, ans, own, inb, {}, {}, {})
  <2>1. [b EXCEPT !.ans = ans, !.own = own] \in Batch
    BY <1>1 DEF Batch, Parts
  <2>. QED BY <1>1, <2>1 DEF Parts, Batch
<1>5. Parts([b EXCEPT !.inb = @ \cup more], say, {}, "same", inb \cup more, {}, {}, {})
  <2>1. [b EXCEPT !.inb = @ \cup more] \in Batch
    BY <1>1 DEF Batch, Parts
  <2>. QED BY <1>1, <2>1 DEF Parts, Batch
<1>6. Parts([b EXCEPT !.plan = plan, !.cancel = plan, !.inb = @ \cup more],
            say, {}, "same", inb \cup more, plan, plan, {})
  <2>1. [b EXCEPT !.plan = plan, !.cancel = plan, !.inb = @ \cup more] \in Batch
    BY <1>1 DEF Batch, Parts
  <2>. QED BY <1>1, <2>1 DEF Parts, Batch
<1>. QED BY <1>1, <1>2, <1>3, <1>4, <1>5, <1>6 DEF b

LEMMA LedgerParts ==
    ASSUME NEW inb \in SUBSET (Msgs \X Changes), NEW plan \in SUBSET Segs, NEW cancel \in SUBSET Segs,
           NEW res \in SUBSET (Segs \X Results)
    PROVE  /\ Parts([NoBatch EXCEPT !.plan = plan], {}, {}, "same", {}, plan, {}, {})
           /\ Parts([NoBatch EXCEPT !.plan = plan, !.inb = inb], {}, {}, "same", inb, plan, {}, {})
           /\ Parts([NoBatch EXCEPT !.cancel = cancel], {}, {}, "same", {}, {}, cancel, {})
           /\ Parts([NoBatch EXCEPT !.cancel = cancel, !.inb = inb], {}, {}, "same", inb, {}, cancel, {})
           /\ Parts([NoBatch EXCEPT !.res = res], {}, {}, "same", {}, {}, {}, res)
           /\ Parts([NoBatch EXCEPT !.res = res, !.cancel = cancel], {}, {}, "same", {}, {}, cancel, res)
           /\ Parts(NoBatch, {}, {}, "same", {}, {}, {}, {})
<1>1. /\ [NoBatch EXCEPT !.plan = plan] \in Batch /\ [NoBatch EXCEPT !.cancel = cancel] \in Batch
      /\ [NoBatch EXCEPT !.res = res] \in Batch /\ NoBatch \in Batch
  BY NoBatchType DEF Batch
<1>2. /\ [NoBatch EXCEPT !.plan = plan, !.inb = inb] \in Batch
      /\ [NoBatch EXCEPT !.cancel = cancel, !.inb = inb] \in Batch
      /\ [NoBatch EXCEPT !.res = res, !.cancel = cancel] \in Batch
  BY NoBatchType DEF Batch
<1>3. /\ Parts([NoBatch EXCEPT !.plan = plan], {}, {}, "same", {}, plan, {}, {})
      /\ Parts([NoBatch EXCEPT !.cancel = cancel], {}, {}, "same", {}, {}, cancel, {})
      /\ Parts([NoBatch EXCEPT !.res = res], {}, {}, "same", {}, {}, {}, res)
      /\ Parts(NoBatch, {}, {}, "same", {}, {}, {}, {})
  BY <1>1 DEF Parts, NoBatch
<1>4. /\ Parts([NoBatch EXCEPT !.plan = plan, !.inb = inb], {}, {}, "same", inb, plan, {}, {})
      /\ Parts([NoBatch EXCEPT !.cancel = cancel, !.inb = inb], {}, {}, "same", inb, {}, cancel, {})
      /\ Parts([NoBatch EXCEPT !.res = res, !.cancel = cancel], {}, {}, "same", {}, {}, cancel, res)
  BY <1>2 DEF Parts, NoBatch
<1>. QED BY <1>3, <1>4

-----------------------------------------------------------------------------
(* A step of one conversation.  It queues b or nothing, takes its turn on   *)
(* or the row from the chain, moves segments forth in memory and perhaps    *)
(* between pending and sending in the database, and posts perhaps.          *)

Queues(u, b) ==
    /\ b \in Batch /\ Owned(u, b)
    /\ \/ wq' = wq /\ b = NoBatch
       \/ wq' = Queue(u, b)

GoesOn(u) ==
    /\ chain' = chain /\ turn' \in [Users -> TurnType] /\ TurnShape(u)'
    /\ \A v \in Users \ {u} : turn'[v] = turn[v]
PopsRow(u) == chain[u] # <<>> /\ Pop(u)

AtHead(u, m) == chain[u] # <<>> /\ m = Head(chain[u])
TakesOn(u, b) ==
    /\ \A c \in b.inb : AtHead(u, c[1])
    /\ \A m \in Msgs : <<m, "replied">> \in b.inb =>
          <<m, "recorded">> \in b.inb \/ inbox[m] # "received" \/ InQueue(u, m, "recorded")
    /\ \A s \in b.plan : /\ AtHead(u, MsgOf(s)) /\ ~HasPlanned(u, MsgOf(s))
                         /\ inbox[MsgOf(s)] \in {"received", "recorded"}
    /\ \/ PopsRow(u)
       \/ /\ GoesOn(u)
          /\ \A c \in b.inb : c[2] \in {"recorded", "replied"}
          /\ \A m \in Msgs : \/ HasPlanned(u, m)
                             \/ <<m, "replied">> \in b.inb
                             \/ \E s \in b.plan : MsgOf(s) = m
                             => HasPlanned(u, m)'

Forth == ({"pending", "sending"} \X {"cancelled", "accepted", "rejected", "unknown"})
         \cup {<<"none", "pending">>, <<"none", "cancelled">>, <<"pending", "sending">>,
               <<"sending", "pending">>, <<"unknown", "accepted">>}

Moves(u, b) ==
    /\ mout' \in [Segs -> OutStatus]
    /\ \A s \in Segs : mout'[s] # mout[s] =>
          UserOf(s) = u /\ <<mout[s], mout'[s]>> \in Forth /\ (mout[s] = "none" => s \in b.plan)
    /\ Agrees(b)'
    /\ \A s \in b.plan : mout[s] = "none" /\ s[2] = boots
                         /\ (IsReply(s) => <<MsgOf(s), "replied">> \in b.inb)
    /\ \A r \in b.res : Held(r[1])
    /\ outbound' \in [Segs -> OutStatus]
    /\ \A s \in Segs : outbound'[s] # outbound[s] =>
          UserOf(s) = u /\ {outbound[s], outbound'[s]} = {"pending", "sending"}

Posts(u) ==
    /\ sent' \in [Segs -> Seq(1..MaxBoots)] /\ unsafe \subseteq unsafe' /\ unsafe' \subseteq Segs
    /\ got \subseteq got' /\ got' \subseteq Segs
    /\ \A s \in unsafe' \ unsafe : UserOf(s) = u
    /\ \A s \in got' \ got : UserOf(s) = u /\ sent[s] # <<>>
    /\ \A s \in Segs : sent'[s] # sent[s] =>
          /\ UserOf(s) = u /\ sent'[s] # <<>> /\ mout[s] # "none"
          /\ s \in unsafe' \/ Safe(s) \/ Held(s)

Leaves(u) ==
    /\ UNCHANGED <<cursor, inbox, conv, owner, receipt, proc, cur, cold, rtask, boots>>
    /\ mconv' \in [Msgs -> Says] /\ mowner' \in [Users -> Owners] /\ gen' \in [Users -> Nat]
    /\ \A m \in Msgs : From[m] # u => mconv'[m] = mconv[m]
    /\ \A v \in Users \ {u} : mowner'[v] = mowner[v] /\ gen'[v] = gen[v]
    /\ poisoned' \subseteq Users /\ halted' \subseteq Users
    /\ attempts' \in [Msgs -> Nat] /\ dequeued' \in [Msgs -> Nat] /\ worked' \in [Msgs -> Nat]
    /\ \A m \in Msgs : From[m] # u => /\ attempts'[m] = attempts[m] /\ dequeued'[m] = dequeued[m]
                                      /\ worked'[m] = worked[m]
    /\ faults' \in [Limits -> Nat] /\ faults'.starts = faults.starts /\ faults'.segs = faults.segs

Does(u, b) == Alive /\ Queues(u, b) /\ TakesOn(u, b) /\ Moves(u, b) /\ Posts(u) /\ Leaves(u)

LEMMA DoesSound ==
    ASSUME Sound, NEW u \in Users, NEW b, Does(u, b)
    PROVE  Sound'
<1>1. /\ wq' \in [Users -> Seq(Batch)]
      /\ \A v \in Users : \A i \in DOMAIN wq'[v] : Owned(v, wq'[v][i])
  <2>1. CASE wq' = wq
    BY <2>1 DEF Sound, Typed, MemTypes, Shapes
  <2>2. CASE wq' = Queue(u, b)
    <3>1. b \in Batch /\ Owned(u, b)
      BY DEF Does, Queues
    <3>2. /\ Queue(u, b) \in [Users -> Seq(Batch)]
          /\ \A v \in Users : \A i \in DOMAIN Queue(u, b)[v] : Owned(v, Queue(u, b)[v][i])
      BY <3>1, QueueOwned DEF Sound, Typed, MemTypes, Shapes
    <3>. QED BY <2>2, <3>2
  <2>. QED BY <2>1, <2>2 DEF Does, Queues
<1>2. /\ chain' \in [Users -> Seq(Msgs)] /\ turn' \in [Users -> TurnType]
      /\ \A v \in Users : \A i \in DOMAIN chain'[v] : From[chain'[v][i]] = v
      /\ \A v \in Users : TurnShape(v)'
  <2>1. CASE GoesOn(u)
    <3>1. \A v \in Users : TurnShape(v)'
      BY <2>1 DEF GoesOn, Sound, Shapes, TurnShape
    <3>. QED BY <2>1, <3>1 DEF GoesOn, Sound, Typed, MemTypes, Shapes
  <2>2. CASE PopsRow(u)
    BY <2>2, PopKeeps DEF PopsRow
  <2>. QED BY <2>1, <2>2 DEF Does, TakesOn
<1>3. Down'
  BY DEF Down, Alive, Does, Leaves, Sound, Shapes
<1>4. DbTypes' /\ MemTypes'
  BY <1>1, <1>2 DEF DbTypes, MemTypes, Sound, Typed, Does, Moves, Leaves
<1>5. HistTypes'
  BY DEF HistTypes, Sound, Typed, Does, Posts, Leaves
<1>. QED BY <1>1, <1>2, <1>3, <1>4, <1>5 DEF Sound, Typed, Shapes

\* What was queued is still queued, and b behind it.
LEMMA DoesQueue ==
    ASSUME Sound, NEW u \in Users, NEW b, Does(u, b)
    PROVE  /\ \A v \in Users : /\ DOMAIN wq[v] \subseteq DOMAIN wq'[v]
                               /\ \A i \in DOMAIN wq[v] : wq'[v][i] = wq[v][i]
           /\ \A v \in Users : \A i \in DOMAIN wq'[v] \ DOMAIN wq[v] :
                 /\ v = u /\ wq'[v][i] = b /\ i \in Nat
                 /\ DOMAIN wq'[v] = 1..i /\ \A j \in 1..i : j # i => j \in DOMAIN wq[v]
           /\ wq' # wq => \E i \in DOMAIN wq'[u] : wq'[u][i] = b
           /\ \A v \in Users : wq[v] \in Seq(Batch) /\ wq'[v] \in Seq(Batch)
<1>0. wq \in [Users -> Seq(Batch)]
  BY DEF Sound, Typed, MemTypes
<1>1. CASE wq' = wq
  BY <1>0, <1>1
<1>2. CASE wq' = Queue(u, b)
  <2>1. Queued(wq', u, b)
    BY <1>0, <1>2, QueueAdds DEF Does, Queues
  <2>. DEFINE n == Len(wq[u])
  <2>2. /\ n \in Nat /\ DOMAIN wq[u] = 1..n /\ DOMAIN wq'[u] = (1..n) \cup {n + 1} /\ Len(wq'[u]) = n + 1
        /\ wq'[u][n + 1] = b /\ \A i \in 1..n : wq'[u][i] = wq[u][i]
    BY <2>1 DEF Queued
  <2>3. (1..n) \cup {n + 1} = 1..(n + 1)
    BY <2>2
  <2>4. \A v \in Users : wq'[v] \in Seq(Batch)
    BY <2>1 DEF Queued
  <2>5. \A v \in Users \ {u} : wq'[v] = wq[v]
    BY <2>1 DEF Queued
  <2>. HIDE DEF n
  <2>6. \A v \in Users : DOMAIN wq[v] \subseteq DOMAIN wq'[v] /\ \A i \in DOMAIN wq[v] : wq'[v][i] = wq[v][i]
    BY <2>2, <2>5
  <2>7. ASSUME NEW v \in Users, NEW i \in DOMAIN wq'[v] \ DOMAIN wq[v]
        PROVE  /\ v = u /\ wq'[v][i] = b /\ i \in Nat
               /\ DOMAIN wq'[v] = 1..i /\ \A j \in 1..i : j # i => j \in DOMAIN wq[v]
    <3>1. v = u /\ i = n + 1
      BY <2>2, <2>5, <2>7
    <3>. QED BY <2>2, <2>3, <3>1
  <2>. QED BY <1>0, <2>2, <2>4, <2>6, <2>7
<1>. QED BY <1>1, <1>2 DEF Does, Queues

\* The rows after such a step.
LEMMA DoesKnown ==
    ASSUME ChanInv, NEW u \in Users, NEW b, Does(u, b)
    PROVE  Known'
<1>1. Sound /\ Known /\ inbox' = inbox /\ boots' = boots
  BY DEF ChanInv, Rows, Does, Leaves
<1>2. ASSUME NEW v \in Users, NEW i \in DOMAIN wq'[v], NEW c \in wq'[v][i].inb
      PROVE  inbox[c[1]] # "none"
  <2>1. CASE i \in DOMAIN wq[v]
    BY <1>1, <1>2, <2>1, DoesQueue DEF Known
  <2>2. CASE i \notin DOMAIN wq[v]
    <3>1. c \in b.inb
      BY <1>1, <1>2, <2>2, DoesQueue
    <3>2. chain[u] # <<>> /\ c[1] = Head(chain[u])
      BY <3>1 DEF Does, TakesOn, AtHead
    <3>3. c[1] \in Range(chain[u])
      BY <1>1, <3>2, HeadOfChain DEF Range
    <3>. QED BY <3>3 DEF ChanInv, Rows, ChainTrue, InboxOpen
  <2>. QED BY <2>1, <2>2
<1>3. ASSUME NEW s \in Segs, Used(s)'
      PROVE  inbox[MsgOf(s)] # "none" /\ s[2] <= boots
  <2>1. CASE Used(s)
    BY <1>1, <2>1 DEF Known
  <2>2. CASE ~Used(s)
    <3>1. s \in b.plan
      BY <1>3, <2>2 DEF Used, Does, Moves, Posts
    <3>2. AtHead(u, MsgOf(s)) /\ s[2] = boots
      BY <3>1 DEF Does, TakesOn, Moves
    <3>3. MsgOf(s) \in Range(chain[u])
      BY <1>1, <3>2, HeadOfChain DEF Range, AtHead
    <3>4. boots <= boots
      BY <1>1 DEF Sound, Typed, HistTypes
    <3>. QED BY <3>2, <3>3, <3>4 DEF ChanInv, Rows, ChainTrue, InboxOpen
  <2>. QED BY <2>1, <2>2
<1>. QED BY <1>1, <1>2, <1>3 DEF Known

LEMMA DoesQueueOrder ==
    ASSUME ChanInv, NEW u \in Users, NEW b, Does(u, b)
    PROVE  QueueOrder'
<1>1. Sound /\ QueueOrder /\ RowsTrue /\ inbox' = inbox
  BY DEF ChanInv, Rows, Does, Leaves
<1>2. ASSUME NEW v \in Users, NEW i \in DOMAIN wq[v]
      PROVE  /\ \A s \in About(wq'[v][i]) : IsReply(s) => Covered(v, i, MsgOf(s))'
             /\ \A m \in Msgs : <<m, "replied">> \in wq'[v][i].inb => Ready(v, i, m)'
  <2>1. wq'[v][i] = wq[v][i] /\ \A j \in 1..i : wq'[v][j] = wq[v][j]
    <3>1. i \in 1..Len(wq[v]) /\ DOMAIN wq[v] = 1..Len(wq[v])
      BY <1>1, DoesQueue
    <3>. QED BY <1>1, <3>1, DoesQueue
  <2>. QED BY <1>1, <2>1 DEF QueueOrder, Covered, Ready
<1>3. ASSUME NEW v \in Users, NEW i \in DOMAIN wq'[v] \ DOMAIN wq[v]
      PROVE  /\ \A s \in About(wq'[v][i]) : IsReply(s) => Covered(v, i, MsgOf(s))'
             /\ \A m \in Msgs : <<m, "replied">> \in wq'[v][i].inb => Ready(v, i, m)'
  <2>1. /\ v = u /\ wq'[v][i] = b /\ i \in Nat /\ DOMAIN wq'[v] = 1..i /\ i \in 1..i
        /\ \A j \in 1..i : j # i => j \in DOMAIN wq[v]
    <3>1. /\ v = u /\ wq'[v][i] = b /\ i \in Nat /\ DOMAIN wq'[v] = 1..i
          /\ \A j \in 1..i : j # i => j \in DOMAIN wq[v]
      BY <1>1, <1>3, DoesQueue
    <3>. QED BY <1>3, <3>1
  <2>2. \A j \in DOMAIN wq[v] : j \in 1..i /\ wq'[v][j] = wq[v][j]
    BY <1>1, <2>1, DoesQueue
  <2>3. ASSUME NEW s \in About(b), IsReply(s) PROVE Covered(v, i, MsgOf(s))'
    <3>1. CASE s \in b.plan
      <4>1. <<MsgOf(s), "replied">> \in b.inb
        BY <2>3, <3>1 DEF Does, Moves
      <4>. QED BY <2>1, <4>1 DEF Covered
    <3>2. CASE s \notin b.plan
      <4>1. PICK r \in b.res : s = r[1]
        BY <3>2, <2>3 DEF About
      <4>2. Held(s) /\ Alive /\ UserOf(s) = u /\ s \in Segs
        BY <4>1 DEF Does, Moves, Queues, Owned, Batch
      <4>3. inbox[MsgOf(s)] \in Past \/ InQueue(u, MsgOf(s), "replied")
        BY <1>1, <2>3, <4>2 DEF RowsTrue
      <4>. QED BY <1>1, <2>1, <2>2, <4>3 DEF Covered, InQueue
    <3>. QED BY <3>1, <3>2
  <2>4. ASSUME NEW m \in Msgs, <<m, "replied">> \in b.inb PROVE Ready(v, i, m)'
    <3>1. <<m, "recorded">> \in b.inb \/ inbox[m] # "received" \/ InQueue(u, m, "recorded")
      BY <2>4 DEF Does, TakesOn
    <3>. QED BY <1>1, <2>1, <2>2, <3>1 DEF Ready, InQueue
  <2>. QED BY <2>1, <2>3, <2>4
<1>. QED BY <1>2, <1>3 DEF QueueOrder

LEMMA DoesRowsTrue ==
    ASSUME ChanInv, NEW u \in Users, NEW b, Does(u, b)
    PROVE  RowsTrue'
<1>1. Sound /\ RowsTrue /\ inbox' = inbox /\ Alive /\ Alive'
  BY DEF ChanInv, Rows, Does, Leaves, Alive
<1>2. ASSUME NEW s \in Segs, IsReply(s), Stored(s)' PROVE inbox[MsgOf(s)] \in Past
  <2>1. Stored(s)
    BY <1>2 DEF Stored, Does, Moves
  <2>. QED BY <1>1, <1>2, <2>1 DEF RowsTrue
<1>3. ASSUME NEW s \in Segs, IsReply(s), Held(s)'
      PROVE  inbox[MsgOf(s)] \in Past \/ InQueue(UserOf(s), MsgOf(s), "replied")'
  <2>1. CASE Held(s)
    <3>1. inbox[MsgOf(s)] \in Past \/ InQueue(UserOf(s), MsgOf(s), "replied")
      BY <1>1, <1>3, <2>1 DEF RowsTrue
    <3>2. UserOf(s) \in Users
      BY SegFields
    <3>. QED BY <1>1, <3>1, <3>2, DoesQueue DEF InQueue
  <2>2. CASE ~Held(s)
    <3>1. s \in b.plan /\ UserOf(s) = u
      <4>1. mout'[s] # mout[s]
        BY <1>3, <2>2 DEF Held
      <4>2. UserOf(s) = u /\ <<mout[s], mout'[s]>> \in Forth /\ (mout[s] = "none" => s \in b.plan)
        BY <4>1 DEF Does, Moves
      <4>. QED BY <2>2, <4>2 DEF Held, Forth
    <3>2. <<MsgOf(s), "replied">> \in b.inb
      BY <1>3, <3>1 DEF Does, Moves
    <3>3. \E i \in DOMAIN wq'[u] : wq'[u][i] = b
      <4>1. b # NoBatch
        BY <3>1 DEF NoBatch
      <4>2. wq' # wq
        BY <1>1, <4>1, DoesQueue, QueueAdds DEF Does, Queues, Queued, Sound, Typed, MemTypes
      <4>. QED BY <1>1, <4>2, DoesQueue
    <3>. QED BY <3>1, <3>2, <3>3 DEF InQueue
  <2>. QED BY <2>1, <2>2
<1>. QED BY <1>1, <1>2, <1>3 DEF RowsTrue

LEMMA DoesChain ==
    ASSUME ChanInv, NEW u \in Users, NEW b, Does(u, b), NEW v \in Users
    PROVE  ChainTrue(v)'
<1>1. /\ Sound /\ ChainTrue(v) /\ inbox' = inbox /\ boots' = boots
      /\ \A w \in Users : chain[w] \in Seq(Msgs)
  BY DEF ChanInv, Rows, Does, Leaves, Sound, Typed, MemTypes
<1>2. CASE v # u
  <2>1. chain'[v] = chain[v] /\ turn'[v] = turn[v]
    BY <1>2 DEF Does, TakesOn, GoesOn, PopsRow, Pop, Sound, Typed, MemTypes, ChanInv
  <2>2. ASSUME NEW m, NEW st, InQueue(v, m, st)' PROVE InQueue(v, m, st)
    BY <1>1, <1>2, <2>2, DoesQueue DEF InQueue
  <2>3. ASSUME NEW s \in Segs, MsgOf(s) \in Range(chain[v]), Used(s)' PROVE Used(s)
    <3>1. UserOf(s) # u
      <4>1. From[MsgOf(s)] = v
        BY <1>1, <2>3 DEF Range, Sound, Shapes
      <4>. QED BY <1>2, <4>1 DEF UserOf
    <3>. QED BY <2>3, <3>1 DEF Used, Does, Moves, Posts
  <2>. QED BY <1>1, <2>1, <2>2, <2>3 DEF ChainTrue, HasPlanned
<1>3. CASE v = u /\ PopsRow(u)
  <2>1. chain[u] # <<>> /\ turn'[u] = NoTurn /\ chain'[u] = Tail(chain[u])
    BY <1>1, <1>3, PopKeeps DEF PopsRow
  <2>2. /\ Tail(chain[u]) \in Seq(Msgs) /\ Head(chain[u]) = chain[u][1] /\ Len(chain[u]) \in Nat
        /\ \A i \in 1..(Len(chain[u]) - 1) : Tail(chain[u])[i] = chain[u][i + 1]
        /\ DOMAIN Tail(chain[u]) = 1..(Len(chain[u]) - 1) /\ DOMAIN chain[u] = 1..Len(chain[u])
    BY <1>1, <2>1
  <2>3. \A i \in 1..(Len(chain[u]) - 1) : i + 1 \in 1..Len(chain[u]) /\ i + 1 # 1 /\ 1 \in 1..Len(chain[u])
    BY <2>2
  <2>4. ASSUME NEW m \in Range(chain'[u]) PROVE m \in Range(chain[u]) /\ m # Head(chain[u])
    BY <1>1, <1>3, <2>1, <2>2, <2>3 DEF Range, ChainTrue, IsInjective
  <2>5. IsInjective(chain'[u])
    <3>. SUFFICES ASSUME NEW i \in DOMAIN chain'[u], NEW j \in DOMAIN chain'[u], chain'[u][i] = chain'[u][j]
                  PROVE  i = j
      BY DEF IsInjective
    <3>1. chain[u][i + 1] = chain[u][j + 1] /\ i \in 1..(Len(chain[u]) - 1) /\ j \in 1..(Len(chain[u]) - 1)
      BY <2>1, <2>2
    <3>2. PICK h, k \in DOMAIN chain[u] : h = i + 1 /\ k = j + 1
      BY <2>2, <2>3, <3>1
    <3>3. h = k
      <4>1. IsInjective(chain[u])
        BY <1>1, <1>3 DEF ChainTrue
      <4>. QED BY <3>1, <3>2, <4>1 DEF IsInjective
    <3>4. i \in Int /\ j \in Int
      BY <3>1
    <3>. QED BY <3>2, <3>3, <3>4
  <2>6. ASSUME NEW m \in Range(chain'[u]), NEW st, InQueue(u, m, st)' PROVE InQueue(u, m, st)
    <3>1. \A c \in b.inb : c[1] # m
      BY <2>4 DEF Does, TakesOn, AtHead
    <3>2. PICK i \in DOMAIN wq'[u] : <<m, st>> \in wq'[u][i].inb
      BY <2>6 DEF InQueue
    <3>3. wq'[u][i] # b
      BY <3>1, <3>2
    <3>4. i \in DOMAIN wq[u] /\ wq[u][i] = wq'[u][i]
      <4>1. Sound
        BY <1>1
      <4>. QED BY <3>3, <4>1, DoesQueue
    <3>. QED BY <3>2, <3>4 DEF InQueue
  <2>7. ASSUME NEW m \in Range(chain'[u]) PROVE ~HasPlanned(u, m)
    <3>1. turn[u].pc # "idle" => turn[u].m = Head(chain[u])
      BY <1>1 DEF Sound, Shapes, TurnShape
    <3>. QED BY <2>4, <3>1 DEF HasPlanned, PlannedPcs
  <2>8. ASSUME NEW s \in Segs, MsgOf(s) \in Range(chain'[u]), Used(s)' PROVE Used(s)
    <3>1. s \notin b.plan
      BY <2>4, <2>8 DEF Does, TakesOn, AtHead
    <3>. QED BY <2>8, <3>1 DEF Used, Does, Moves, Posts
  <2>. QED BY <1>1, <1>3, <2>4, <2>5, <2>6, <2>7, <2>8 DEF ChainTrue
<1>4. CASE v = u /\ GoesOn(u) /\ ~PopsRow(u)
  <2>1. /\ chain'[u] = chain[u] /\ \A c \in b.inb : c[2] \in {"recorded", "replied"}
        /\ \A m \in Msgs : HasPlanned(u, m) \/ <<m, "replied">> \in b.inb \/ (\E s \in b.plan : MsgOf(s) = m)
                           => HasPlanned(u, m)'
    BY <1>4 DEF Does, TakesOn, GoesOn
  <2>2. ASSUME NEW m, NEW st, InQueue(u, m, st)' PROVE InQueue(u, m, st) \/ <<m, st>> \in b.inb
    BY <1>1, <2>2, DoesQueue DEF InQueue
  <2>3. ASSUME NEW m \in Range(chain[u]), ~HasPlanned(u, m)'
        PROVE  /\ ~InQueue(u, m, "replied")'
               /\ \A s \in Segs : MsgOf(s) = m /\ Used(s)' => s[2] < boots
    <3>1. m \in Msgs
      BY <1>1 DEF Range
    <3>2. ~HasPlanned(u, m) /\ <<m, "replied">> \notin b.inb /\ \A s \in b.plan : MsgOf(s) # m
      BY <2>1, <2>3, <3>1
    <3>3. \A s \in Segs : MsgOf(s) = m /\ Used(s)' => Used(s)
      BY <3>2 DEF Used, Does, Moves, Posts
    <3>. QED BY <1>1, <1>4, <2>2, <2>3, <3>2, <3>3 DEF ChainTrue
  <2>4. \A m \in Range(chain[u]) : ~InQueue(u, m, "done")' /\ ~InQueue(u, m, "abandoned")'
    <3>1. \A m : <<m, "done">> \notin b.inb /\ <<m, "abandoned">> \notin b.inb
      BY <2>1
    <3>. QED BY <1>1, <1>4, <2>2, <3>1 DEF ChainTrue
  <2>. QED BY <1>1, <1>4, <2>1, <2>3, <2>4 DEF ChainTrue
<1>. QED BY <1>2, <1>3, <1>4 DEF Does, TakesOn

LEMMA ForthPairs ==
    ASSUME NEW x, NEW y, <<x, y>> \in Forth
    PROVE  \/ x \in {"pending", "sending"} /\ y \in {"cancelled", "accepted", "rejected", "unknown"}
           \/ x = "none" /\ y \in {"pending", "cancelled"}
           \/ x = "pending" /\ y = "sending"
           \/ x = "sending" /\ y = "pending"
           \/ x = "unknown" /\ y = "accepted"
  BY DEF Forth

LEMMA OnwardForth ==
    ASSUME NEW x, NEW y, <<x, y>> \in Forth, NEW a \in Results, x \in Onward[a]
    PROVE  y \in Onward[a]
<1>1. CASE x = "unknown" /\ y = "accepted"
  BY <1>1 DEF Onward, Results
<1>2. CASE x \in {"pending", "sending", "none"}
  BY <1>2 DEF Onward, Results
<1>. QED BY <1>1, <1>2, ForthPairs

\* The ledger after such a step.
LEMMA DoesLedger ==
    ASSUME ChanInv, NEW u \in Users, NEW b, Does(u, b)
    PROVE  QueueAgrees' /\ EndsAgree' /\ GotSent'
<1>1. Sound /\ Alive /\ mout \in [Segs -> OutStatus]
  BY DEF ChanInv, Does, Sound, Typed, MemTypes
<1>2. ASSUME NEW c \in Batch, Agrees(c) PROVE Agrees(c)'
  <2>1. c.cancel \subseteq Segs /\ c.plan \subseteq Segs /\ \A r \in c.res : r[1] \in Segs /\ r[2] \in Results
    BY DEF Batch
  <2>2. \A s \in Segs : mout'[s] = mout[s] \/ <<mout[s], mout'[s]>> \in Forth
    BY DEF Does, Moves
  <2>3. \A s \in c.cancel : mout'[s] = "cancelled"
    BY <1>2, <2>1, <2>2, ForthPairs DEF Agrees
  <2>4. \A s \in c.plan : mout'[s] # "none"
    BY <1>2, <2>1, <2>2, ForthPairs DEF Agrees, Held
  <2>5. ASSUME NEW r \in c.res PROVE mout'[r[1]] \in Onward[r[2]]
    BY <1>2, <2>1, <2>2, OnwardForth DEF Agrees
  <2>. QED BY <2>3, <2>4, <2>5 DEF Agrees
<1>3. ASSUME NEW v \in Users, NEW i \in DOMAIN wq'[v] PROVE Agrees(wq[v][i])'
  <2>1. CASE i \in DOMAIN wq[v]
    <3>1. wq'[v][i] = wq[v][i] /\ Agrees(wq[v][i])
      BY <1>1, <2>1, DoesQueue DEF ChanInv, Ledger, QueueAgrees
    <3>2. wq[v][i] \in Batch
      BY <1>1, <2>1, DoesQueue
    <3>3. PICK c \in Batch : c = wq[v][i]
      BY <3>2
    <3>4. Agrees(c)'
      BY <1>2, <3>1, <3>3
    <3>. QED BY <3>1, <3>3, <3>4 DEF Agrees
  <2>2. CASE i \notin DOMAIN wq[v]
    <3>1. wq'[v][i] = b
      BY <1>1, <1>3, <2>2, DoesQueue
    <3>2. Agrees(b)'
      BY DEF Does, Moves
    <3>. QED BY <3>1, <3>2 DEF Agrees
  <2>. QED BY <2>1, <2>2
<1>4. EndsAgree'
  <2>1. \A s \in Segs : mout'[s] = mout[s] \/ <<mout[s], mout'[s]>> \in Forth
    BY DEF Does, Moves
  <2>2. Alive /\ \A s \in Segs : outbound'[s] \in NoMoreSends => outbound[s] \in NoMoreSends
    BY <1>1 DEF Does, Moves, NoMoreSends
  <2>3. \A s \in Segs : mout[s] \in NoMoreSends => mout'[s] \in NoMoreSends
    BY <2>1, ForthPairs DEF NoMoreSends
  <2>. QED BY <2>2, <2>3 DEF EndsAgree, ChanInv, Ledger
<1>5. GotSent'
  BY DEF GotSent, ChanInv, Ledger, Does, Posts, Sound, Typed, HistTypes
<1>. QED BY <1>3, <1>4, <1>5 DEF QueueAgrees

LEMMA DoesOneBoot ==
    ASSUME ChanInv, NEW u \in Users, NEW b, Does(u, b)
    PROVE  OneBoot'
<1>1. Sound /\ Alive /\ Rows /\ OneBoot
  BY DEF ChanInv, Ledger, Does
<1>2. ASSUME NEW s \in Segs, Live(s)' PROVE Live(s) \/ s \in b.plan
  <2>1. CASE Stored(s)'
    BY <2>1 DEF Live, Stored, Does, Moves
  <2>2. CASE Safe(s)'
    BY <1>1, <2>2 DEF Live, Safe, Does, Posts
  <2>3. CASE Held(s)'
    BY <1>1, <2>3 DEF Live, Held, Does, Moves, Forth
  <2>4. CASE QueuedSeg(s)'
    <3>1. UserOf(s) \in Users
      BY SegFields
    <3>2. PICK i \in DOMAIN wq'[UserOf(s)] : s \in About(wq'[UserOf(s)][i])
      BY <2>4 DEF QueuedSeg
    <3>3. CASE i \in DOMAIN wq[UserOf(s)]
      BY <1>1, <3>1, <3>2, <3>3, DoesQueue DEF Live, QueuedSeg
    <3>4. CASE i \notin DOMAIN wq[UserOf(s)]
      <4>1. s \in About(b)
        BY <1>1, <3>1, <3>2, <3>4, DoesQueue
      <4>. QED BY <1>1, <4>1 DEF About, Live, Does, Moves
    <3>. QED BY <3>3, <3>4
  <2>. QED BY <1>2, <2>1, <2>2, <2>3, <2>4 DEF Live
<1>3. ASSUME NEW x \in b.plan, NEW y \in Segs, IsReply(y), MsgOf(y) = MsgOf(x) PROVE ~Live(y)
  <2>. DEFINE m == MsgOf(x)
  <2>1. /\ chain[u] # <<>> /\ m = Head(chain[u]) /\ ~HasPlanned(u, m)
        /\ inbox[m] \in {"received", "recorded"}
    BY DEF Does, TakesOn, AtHead
  <2>2. m \in Range(chain[u]) /\ From[m] = u
    BY <1>1, <2>1, HeadOfChain DEF Range
  <2>3. inbox[m] \notin Past /\ ~InQueue(u, m, "replied")
    BY <1>1, <2>1, <2>2 DEF Past, Rows, ChainTrue
  <2>4. MsgOf(y) = m /\ UserOf(y) = u
    BY <1>3, <2>2 DEF UserOf
  <2>. HIDE DEF m
  <2>5. ~Stored(y) /\ ~Held(y)
    BY <1>1, <1>3, <2>3, <2>4 DEF Rows, RowsTrue
  <2>6. ~Safe(y)
    BY <1>3, <2>3, <2>4 DEF ChanInv, Own, SentTrue
  <2>7. ~QueuedSeg(y)
    <3>1. \A i \in DOMAIN wq[u] : \A j \in 1..i : j \in DOMAIN wq[u]
      <4>1. DOMAIN wq[u] = 1..Len(wq[u]) /\ Len(wq[u]) \in Nat
        BY <1>1 DEF Sound, Typed, MemTypes
      <4>. QED BY <4>1
    <3>. QED BY <1>1, <1>3, <2>3, <2>4, <3>1 DEF QueuedSeg, Rows, QueueOrder, Covered, InQueue
  <2>. QED BY <2>5, <2>6, <2>7 DEF Live
<1>4. \A x \in b.plan : x[2] = boots
  BY DEF Does, Moves
<1>. QED BY <1>1, <1>2, <1>3, <1>4 DEF OneBoot

LEMMA DoesOthers ==
    ASSUME ChanInv, NEW u \in Users, NEW b, Does(u, b), NEW v \in Users \ {u}
    PROVE  Own(v)'
<1>1. Sound /\ Own(v) /\ inbox' = inbox /\ boots' = boots /\ proc' = proc
  BY DEF ChanInv, Does, Leaves
<1>2. turn'[v] = turn[v]
  BY <1>1 DEF Does, TakesOn, GoesOn, PopsRow, Pop, Sound, Typed, MemTypes
<1>3. \A m, st : InQueue(v, m, st) => InQueue(v, m, st)'
  BY <1>1, DoesQueue DEF InQueue
<1>4. ASSUME NEW s \in Segs, UserOf(s) = v
      PROVE  /\ mout'[s] = mout[s] /\ outbound'[s] = outbound[s] /\ sent'[s] = sent[s]
             /\ (s \in unsafe' <=> s \in unsafe) /\ (s \in got' <=> s \in got)
             /\ (InFlight(s)' <=> InFlight(s)) /\ MsgOf(s) \in Msgs
  <2>1. /\ mout'[s] = mout[s] /\ outbound'[s] = outbound[s] /\ sent'[s] = sent[s]
        /\ (s \in unsafe' <=> s \in unsafe) /\ (s \in got' <=> s \in got)
    BY <1>4 DEF Does, Moves, Posts
  <2>2. InFlight(s)' <=> InFlight(s)
    BY <1>2, <1>4 DEF InFlight
  <2>. QED BY <2>1, <2>2, SegFields
<1>5. CASE turn[v].pc # "idle"
  <2>1. turn[v].m \in Msgs /\ From[turn[v].m] = v /\ turn[v].todo \in Seq(Segs)
    BY <1>1, <1>5, Working DEF TurnType
  <2>2. /\ attempts'[turn[v].m] = attempts[turn[v].m] /\ worked'[turn[v].m] = worked[turn[v].m]
        /\ dequeued'[turn[v].m] = dequeued[turn[v].m] /\ mconv'[turn[v].m] = mconv[turn[v].m]
        /\ mowner'[v] = mowner[v] /\ gen'[v] = gen[v]
    BY <2>1 DEF Does, Leaves
  <2>3. CountTrue(v)' /\ StaffTrue(v)'
    BY <1>1, <1>2, <2>2 DEF Own, CountTrue, StaffTrue
  <2>4. HearsTrue(v)'
    BY <1>1, <1>2, <1>3, <2>2 DEF Own, HearsTrue
  <2>5. TodoTrue(v)'
    <3>. SUFFICES ASSUME turn[v].pc \in Sending
                  PROVE  /\ IsInjective(turn[v].todo)
                         /\ \A s \in Range(turn[v].todo) : MsgOf(s) = turn[v].m /\ mout'[s] # "none"
                                 /\ (s \in unsafe' \/ InFlight(s)' \/ Waits(v, s)')
      BY <1>2 DEF TodoTrue
    <3>1. \A s \in Range(turn[v].todo) : s \in Segs /\ UserOf(s) = v
      <4>1. \A s \in Range(turn[v].todo) : s \in Segs /\ MsgOf(s) = turn[v].m
        BY <1>1, <2>1 DEF Range, Own, TodoTrue
      <4>. QED BY <2>1, <4>1 DEF UserOf
    <3>. QED BY <1>1, <1>2, <1>4, <3>1 DEF Own, TodoTrue, Waits
  <2>6. HeadTrue(v)'
    <3>1. CASE turn[v].pc \in Heads
      <4>1. Head(turn[v].todo) \in Segs /\ Head(turn[v].todo) \in Range(turn[v].todo)
        BY <1>1, <3>1, HeadOfTodo
      <4>2. UserOf(Head(turn[v].todo)) = v
        BY <1>1, <2>1, <3>1, <4>1 DEF Own, TodoTrue, Sending, UserOf
      <4>. QED BY <1>1, <1>2, <1>4, <4>1, <4>2 DEF Own, HeadTrue
    <3>2. CASE turn[v].pc \notin Heads
      BY <1>2, <3>2 DEF HeadTrue, Heads
    <3>. QED BY <3>1, <3>2
  <2>. QED BY <2>3, <2>4, <2>5, <2>6, <1>1, <1>4 DEF Own, SentTrue, Safe, Alive
<1>6. CASE turn[v].pc = "idle"
  <2>1. gen'[v] = gen[v]
    BY DEF Does, Leaves
  <2>2. CountTrue(v)' /\ StaffTrue(v)' /\ HearsTrue(v)' /\ TodoTrue(v)' /\ HeadTrue(v)'
    BY <1>1, <1>2, <1>6, <2>1 DEF Own, CountTrue, StaffTrue, HearsTrue, TodoTrue, HeadTrue, Sending, Heads
  <2>. QED BY <2>2, <1>1, <1>4 DEF Own, SentTrue, Safe, Alive
<1>. QED BY <1>5, <1>6

\* What is left to show of such a step: the counts, and the turn and the segments of u.
LEMMA DoesInv ==
    ASSUME ChanInv, NEW u \in Users, NEW b, Does(u, b), CrashLoopEnds', Own(u)'
    PROVE  ChanInv'
<1>1. Sound'
  BY DoesSound DEF ChanInv
<1>2. \A v \in Users : Own(v)'
  BY DoesOthers
<1>3. Rows'
  BY DoesKnown, DoesQueueOrder, DoesRowsTrue, DoesChain DEF Rows
<1>4. Ledger'
  BY DoesLedger, DoesOneBoot DEF Ledger
<1>. QED BY <1>1, <1>2, <1>3, <1>4 DEF ChanInv

-----------------------------------------------------------------------------
(* What most steps leave alone. *)

Spends == faults' = faults \/ \E kind \in Limits \ {"starts", "segs"} : Fault(kind)

LEMMA SpendsKeeps ==
    ASSUME Sound, Spends
    PROVE  faults' \in [Limits -> Nat] /\ faults'.starts = faults.starts /\ faults'.segs = faults.segs
<1>1. faults \in [Limits -> Nat] /\ "starts" \in Limits /\ "segs" \in Limits
  BY DEF Sound, Typed, HistTypes, Limits
<1>2. CASE faults' = faults
  BY <1>1, <1>2
<1>3. CASE \E kind \in Limits \ {"starts", "segs"} : Fault(kind)
  <2>1. PICK kind \in Limits \ {"starts", "segs"} : Fault(kind)
    BY <1>3
  <2>2. faults[kind] > 0 /\ faults[kind] \in Nat /\ faults' = [faults EXCEPT ![kind] = @ - 1]
    BY <1>1, <2>1 DEF Fault
  <2>3. faults[kind] - 1 \in Nat
    BY <2>2
  <2>4. faults' \in [Limits -> Nat]
    BY <1>1, <2>2, <2>3
  <2>. QED BY <1>1, <2>1, <2>2, <2>4
<1>. QED BY <1>2, <1>3 DEF Spends

Apart == UNCHANGED <<cursor, inbox, conv, owner, receipt, proc, cur, cold, rtask, boots>>
NoSpeech == UNCHANGED <<mconv, mowner, gen>>
NoCount == UNCHANGED <<attempts, dequeued, worked>>

LEMMA LeavesRest ==
    ASSUME Sound, NEW u \in Users, Apart, NoSpeech, NoCount, Spends,
           poisoned' \subseteq Users, halted' \subseteq Users
    PROVE  Leaves(u)
  BY SpendsKeeps DEF Apart, NoSpeech, NoCount, Leaves, Sound, Typed, DbTypes, MemTypes, HistTypes

LEMMA NoPosts ==
    ASSUME Sound, NEW u \in Users, UNCHANGED <<sent, got, unsafe>>
    PROVE  Posts(u)
  BY DEF Posts, Sound, Typed, HistTypes

LEMMA NoMoves ==
    ASSUME Sound, NEW u \in Users, NEW b, b.plan = {}, b.cancel = {}, b.res = {},
           UNCHANGED <<mout, outbound>>
    PROVE  Moves(u, b)
  BY DEF Moves, Agrees, Sound, Typed, DbTypes, MemTypes

LEMMA NoQueues ==
    ASSUME NEW u \in Users, wq' = wq
    PROVE  Queues(u, NoBatch)
  BY NoBatchType DEF Queues

LEMMA SameCounts ==
    ASSUME CrashLoopEnds, NoCount
    PROVE  CrashLoopEnds'
  BY DEF CrashLoopEnds, NoCount

\* A segment that no request is about: what went out stays what it is.
SentKeeps(s) ==
    /\ sent'[s] = sent[s] /\ (s \in got' => s \in got)
    /\ Safe(s) => /\ outbound'[s] = outbound[s] \/ outbound'[s] = "sending"
                  /\ \/ mout'[s] = mout[s]
                     \/ /\ mout'[s] \in Committed \ {"sending"}
                        /\ s \in got \/ InFlight(s)' => mout'[s] # "rejected"
                  /\ mout'[s] = "sending" => InFlight(s)'
                  /\ InFlight(s)' => InFlight(s)

LEMMA SentKept ==
    ASSUME ChanInv, NEW u \in Users, NEW b, Does(u, b), NEW s \in Segs, UserOf(s) = u, SentKeeps(s)
    PROVE  SentTrue(s)'
<1>. SUFFICES ASSUME Safe(s)' PROVE SentTrue(s)'
  BY DEF SentTrue
<1>1. Safe(s) /\ SentTrue(s)
  BY DEF Safe, SentKeeps, Does, Posts, ChanInv, Own
<1>2. inbox' = inbox /\ boots' = boots /\ Alive /\ Alive'
  BY DEF Does, Leaves, Alive
<1>3. outbound'[s] \in Committed /\ (s \in got' => outbound'[s] # "rejected")
  BY <1>1 DEF SentKeeps, SentTrue, Committed
<1>4. mout'[s] \in Committed /\ (s \in got' => mout'[s] # "rejected")
  BY <1>1, <1>2 DEF SentKeeps, SentTrue, Committed
<1>. QED BY <1>1, <1>2, <1>3, <1>4 DEF SentKeeps, SentTrue

\* A segment is asked for only while the turn is at it.
LEMMA NotSending ==
    ASSUME ChanInv, Alive, NEW s \in Segs, Safe(s), turn[UserOf(s)].pc \notin Flying
    PROVE  mout[s] \in Committed \ {"sending"} /\ (s \in got => mout[s] # "rejected")
<1>1. UserOf(s) \in Users
  BY SegFields
<1>. QED BY <1>1 DEF ChanInv, Own, SentTrue, InFlight

\* Nothing is asked of a turn that has not begun or is over.
LEMMA Resting ==
    ASSUME NEW u \in Users, turn'[u].pc \in {"idle", "finish"}, turn'[u].gen <= gen'[u],
           \A s \in Segs : UserOf(s) = u => SentTrue(s)'
    PROVE  Own(u)'
  BY DEF Own, CountTrue, HearsTrue, TodoTrue, HeadTrue, StaffTrue, Sending, Heads

LEMMA Popped ==
    ASSUME ChanInv, NEW u \in Users, NEW b, Does(u, b), PopsRow(u),
           \A s \in Segs : UserOf(s) = u => SentTrue(s)'
    PROVE  Own(u)'
<1>1. turn'[u] = NoTurn
  BY PopKeeps DEF PopsRow, ChanInv
<1>2. NoTurn.pc = "idle" /\ NoTurn.gen <= gen'[u]
  BY NoTurnType DEF Does, Leaves
<1>. QED BY <1>1, <1>2, Resting

-----------------------------------------------------------------------------
(* The chain of a conversation, action by action. *)

LEMMA OpenSegs ==
    ASSUME NEW m \in Msgs
    PROVE  /\ OpenSegsOf(m) \in SUBSET Segs /\ PendingOf(m) \subseteq OpenSegsOf(m)
           /\ \A s \in OpenSegsOf(m) : /\ MsgOf(s) = m /\ UserOf(s) = From[m] /\ IsReply(s)
                                       /\ mout[s] \in {"pending", "sending"}
  BY DEF OpenSegsOf, PendingOf, UserOf

\* Segments of a message that are still open are cancelled, and its row is over.
LEMMA CancelsRow ==
    ASSUME ChanInv, NEW u \in Users, chain[u] # <<>>, NEW m \in Msgs, m = Head(chain[u]), Alive,
           NEW C \in SUBSET OpenSegsOf(m), turn[u].pc \notin Flying,
           NEW st \in {"done", "abandoned"},
           mout' = Set(mout, C, "cancelled"),
           wq' = Queue(u, [NoBatch EXCEPT !.cancel = C, !.inb = {<<m, st>>}]),
           Pop(u), UNCHANGED <<sent, got, unsafe, outbound>>, CrashLoopEnds', Leaves(u)
    PROVE  ChanInv'
<1>. DEFINE b == [NoBatch EXCEPT !.cancel = C, !.inb = {<<m, st>>}]
<1>1. Sound /\ From[m] = u /\ mout \in [Segs -> OutStatus]
  BY HeadOfChain DEF ChanInv, Sound, Typed, MemTypes
<1>2. /\ C \in SUBSET Segs
      /\ \A s \in C : UserOf(s) = u /\ mout[s] \in {"pending", "sending"}
  BY <1>1, OpenSegs
<1>3. /\ Parts(b, {}, {}, "same", {<<m, st>>}, {}, C, {})
  <2>1. {<<m, st>>} \in SUBSET (Msgs \X Changes)
    BY DEF Changes
  <2>. QED BY <1>2, <2>1, LedgerParts
<1>4. wq' = Queue(u, b)
  OBVIOUS
<1>. HIDE DEF b
<1>5. Queues(u, b)
  BY <1>1, <1>2, <1>3, <1>4 DEF Queues, Parts, Owned
<1>6. TakesOn(u, b)
  BY <1>3 DEF TakesOn, Parts, AtHead, PopsRow
<1>7. \A s \in Segs : mout'[s] = IF s \in C THEN "cancelled" ELSE mout[s]
  BY <1>1 DEF Set
<1>8. Moves(u, b)
  <2>1. mout' \in [Segs -> OutStatus] /\ outbound' = outbound /\ outbound \in [Segs -> OutStatus]
    BY <1>1 DEF Set, OutStatus, Sound, Typed, DbTypes
  <2>2. Agrees(b)'
    BY <1>2, <1>3, <1>7 DEF Agrees, Parts
  <2>3. \A s \in C : <<mout[s], "cancelled">> \in Forth /\ mout[s] # "none"
    BY <1>2 DEF Forth
  <2>. QED BY <1>2, <1>3, <1>7, <2>1, <2>2, <2>3 DEF Moves, Parts
<1>9. Does(u, b)
  BY <1>1, <1>5, <1>6, <1>8, NoPosts DEF Does
<1>10. ASSUME NEW s \in Segs, UserOf(s) = u PROVE SentTrue(s)'
  <2>1. Safe(s) => mout'[s] = mout[s] /\ mout[s] # "sending"
    BY <1>2, <1>7, <1>10, NotSending DEF Committed
  <2>2. turn'[u].pc \notin Flying
    BY <1>1, PopKeeps, NoTurnType DEF Flying
  <2>3. SentKeeps(s)
    BY <1>10, <2>1, <2>2 DEF SentKeeps, InFlight
  <2>. QED BY <1>9, <1>10, <2>3, SentKept
<1>11. Own(u)'
  BY <1>9, <1>10, Popped DEF PopsRow
<1>. QED BY <1>9, <1>11, DoesInv

\* A row leaves the chain, and nothing else happens.
LEMMA LeavesChain ==
    ASSUME ChanInv, NEW u \in Users, chain[u] # <<>>, Alive, turn[u].pc \notin Flying, Pop(u),
           UNCHANGED <<wq, mout, outbound, sent, got, unsafe>>, CrashLoopEnds', Leaves(u)
    PROVE  ChanInv'
<1>1. Sound
  BY DEF ChanInv
<1>2. Queues(u, NoBatch) /\ Moves(u, NoBatch) /\ Posts(u)
  BY <1>1, NoQueues, NoMoves, NoPosts DEF NoBatch
<1>3. TakesOn(u, NoBatch)
  BY DEF TakesOn, NoBatch, PopsRow
<1>4. Does(u, NoBatch)
  BY <1>2, <1>3 DEF Does
<1>5. ASSUME NEW s \in Segs, UserOf(s) = u PROVE SentTrue(s)'
  <2>1. turn'[u].pc \notin Flying
    BY <1>1, PopKeeps, NoTurnType DEF Flying
  <2>2. SentKeeps(s)
    BY <1>5, <2>1, NotSending DEF SentKeeps, InFlight
  <2>. QED BY <1>4, <1>5, <2>2, SentKept
<1>6. Own(u)'
  BY <1>4, <1>5, Popped DEF PopsRow
<1>. QED BY <1>4, <1>6, DoesInv

\* A turn that goes on without a segment, a batch or a decision.
LEMMA MovesOn ==
    ASSUME ChanInv, NEW u \in Users, NEW b, Does(u, b), UNCHANGED <<sent, got, unsafe, outbound, mout>>,
           turn[u].pc \notin Flying, turn'[u].pc \notin Flying
    PROVE  \A s \in Segs : UserOf(s) = u => SentTrue(s)'
<1>. SUFFICES ASSUME NEW s \in Segs, UserOf(s) = u PROVE SentTrue(s)'
  OBVIOUS
<1>1. SentKeeps(s)
  BY NotSending DEF SentKeeps, InFlight, Does
<1>. QED BY <1>1, SentKept

LEMMA DequeueStep ==
    ASSUME ChanInv, NEW u \in Users, Dequeue(u)
    PROVE  ChanInv'
<1>. DEFINE m == Head(chain[u])
<1>1. /\ Sound /\ Alive /\ chain[u] # <<>> /\ m \in Msgs /\ turn[u].pc = "idle"
      /\ UNCHANGED <<outbound, sent, got, unsafe>>
  BY HeadOfChain DEF ChanInv, Dequeue, At, dbVars
<1>2. /\ Apart /\ NoSpeech /\ Spends /\ UNCHANGED <<attempts, worked, poisoned, halted>>
  BY DEF Dequeue, dbVars, Apart, NoSpeech, Spends
<1>3. CASE u \in halted /\ Pop(u) /\ UNCHANGED <<mout, wq, dequeued>>
  <2>1. NoCount /\ CrashLoopEnds' /\ Leaves(u)
    BY <1>1, <1>2, <1>3, SameCounts, LeavesRest DEF NoCount, ChanInv, Sound, Typed, MemTypes
  <2>. QED BY <1>1, <1>3, <2>1, LeavesChain DEF Flying
<1>4. CASE Abandon(u, m) /\ UNCHANGED dequeued
  <2>1. NoCount /\ CrashLoopEnds' /\ Leaves(u)
    BY <1>1, <1>2, <1>4, SameCounts, LeavesRest DEF NoCount, ChanInv, Sound, Typed, MemTypes
  <2>. QED BY <1>1, <1>4, <2>1, CancelsRow DEF Abandon, Flying
<1>5. CASE /\ u \notin halted /\ ~WornOut(m) /\ ~TooOld(m)
           /\ turn' = [turn EXCEPT ![u] = [NoTurn EXCEPT !.pc = "attempt", !.m = m, !.seen = attempts[m]]]
           /\ dequeued' = [dequeued EXCEPT ![m] = @ + 1]
           /\ UNCHANGED <<chain, mout, wq>>
  <2>. DEFINE t == [NoTurn EXCEPT !.pc = "attempt", !.m = m, !.seen = attempts[m]]
  <2>1. attempts[m] \in Nat /\ attempts[m] < MaxInboxAttempts /\ dequeued[m] \in Nat /\ worked[m] \in Nat
        /\ dequeued \in [Msgs -> Nat] /\ attempts[m] \in 0..MaxInboxAttempts
    BY <1>1, <1>5, ChannelAssumption DEF WornOut, Sound, Typed, DbTypes, HistTypes
  <2>2. /\ t \in TurnType /\ t.pc = "attempt" /\ t.m = m /\ t.seen = attempts[m] /\ t.tries = 0
        /\ t.gen = 0
    <3>1. m \in 0..N /\ NoTurn \in TurnType /\ NoTurn.tries = 0 /\ NoTurn.gen = 0 /\ "attempt" \in Pcs
      BY <1>1, ChannelAssumption, NoTurnType DEF Msgs, Pcs
    <3>2. t \in TurnType
      BY <2>1, <3>1 DEF TurnType
    <3>. QED BY <3>1, <3>2 DEF NoTurn
  <2>. HIDE DEF t
  <2>3. turn' = [turn EXCEPT ![u] = t] /\ turn \in [Users -> TurnType]
    BY <1>1, <1>5 DEF t, Sound, Typed, MemTypes
  <2>4. turn'[u] = t /\ GoesOn(u)
    <3>1. turn'[u] = t /\ turn' \in [Users -> TurnType] /\ \A v \in Users \ {u} : turn'[v] = turn[v]
      BY <2>2, <2>3
    <3>. QED BY <1>1, <1>5, <2>2, <3>1 DEF GoesOn, TurnShape, Heads, Flying
  <2>5. TakesOn(u, NoBatch)
    BY <1>1, <2>4 DEF TakesOn, NoBatch, HasPlanned, PlannedPcs
  <2>6. dequeued' \in [Msgs -> Nat] /\ Leaves(u)
    <3>1. dequeued' \in [Msgs -> Nat]
      <4>1. dequeued[m] + 1 \in Nat
        BY <2>1
      <4>. QED BY <1>5, <2>1, <4>1
    <3>2. From[m] = u
      BY <1>1, HeadOfChain
    <3>. QED BY <1>1, <1>2, <1>5, <3>1, <3>2, SpendsKeeps
         DEF Leaves, Apart, NoSpeech, Sound, Typed, DbTypes, MemTypes, HistTypes
  <2>7. Does(u, NoBatch)
    BY <1>1, <1>5, <2>5, <2>6, NoQueues, NoMoves, NoPosts DEF Does, NoBatch
  <2>8. CrashLoopEnds'
    <3>1. \A x \in Msgs : /\ dequeued[x] \in Nat /\ attempts[x] \in Nat
                          /\ dequeued'[x] = dequeued[x] \/ dequeued'[x] = dequeued[x] + 1
      BY <1>1, <1>5, <2>1 DEF Sound, Typed, DbTypes
    <3>2. \A x \in Msgs : attempts[x] <= dequeued'[x]
      BY <3>1 DEF ChanInv, CrashLoopEnds
    <3>. QED BY <1>2, <3>2 DEF ChanInv, CrashLoopEnds
  <2>9. Own(u)'
    <3>1. CountTrue(u)'
      <4>1. attempts[m] <= dequeued[m] /\ worked[m] <= attempts[m] /\ dequeued'[m] = dequeued[m] + 1
        BY <1>1, <1>5, <2>1 DEF ChanInv, CrashLoopEnds
      <4>. QED BY <1>2, <2>1, <2>2, <2>4, <4>1 DEF CountTrue
    <3>2. HearsTrue(u)' /\ TodoTrue(u)' /\ HeadTrue(u)'
      BY <2>2, <2>4 DEF HearsTrue, TodoTrue, HeadTrue, Sending, Heads
    <3>3. StaffTrue(u)'
      BY <1>1, <1>2, <2>2, <2>4 DEF StaffTrue, Sending, Heads, NoSpeech, Sound, Typed, MemTypes
    <3>4. \A s \in Segs : UserOf(s) = u => SentTrue(s)'
      BY <1>1, <1>5, <2>2, <2>4, <2>7, MovesOn DEF Flying
    <3>. QED BY <3>1, <3>2, <3>3, <3>4 DEF Own
  <2>. QED BY <2>7, <2>8, <2>9, DoesInv
<1>. QED BY <1>3, <1>4, <1>5 DEF Dequeue

\* A turn that takes up a row.
TakesUp(t, pc, u, m, todo) ==
    /\ t \in TurnType /\ t.pc = pc /\ t.m = m /\ t.gen = gen[u] /\ t.tries = 0 /\ t.todo = todo

LEMMA RunParts ==
    ASSUME Sound, NEW u \in Users, NEW m \in Msgs, NEW q \in Seq(Segs)
    PROVE  /\ TakesUp(Run(u, m), "hear", u, m, <<>>)
           /\ TakesUp([Run(u, m) EXCEPT !.pc = "plan"], "plan", u, m, <<>>)
           /\ TakesUp([Run(u, m) EXCEPT !.pc = "send", !.todo = q], "send", u, m, q)
<1>1. /\ gen[u] \in Nat /\ m \in 0..N /\ NoTurn \in TurnType /\ {"hear", "plan", "send"} \subseteq Pcs
  BY NoTurnType, ChannelAssumption DEF Sound, Typed, MemTypes, Msgs, Pcs
<1>2. TakesUp(Run(u, m), "hear", u, m, <<>>)
  <2>1. Run(u, m) \in TurnType
    BY <1>1 DEF Run, TurnType
  <2>. QED BY <2>1 DEF Run, NoTurn, TakesUp
<1>. DEFINE r == Run(u, m)
<1>3. TakesUp(r, "hear", u, m, <<>>)
  BY <1>2
<1>. HIDE DEF r
<1>4. TakesUp([r EXCEPT !.pc = "plan"], "plan", u, m, <<>>)
  <2>1. [r EXCEPT !.pc = "plan"] \in TurnType
    BY <1>1, <1>3 DEF TurnType, TakesUp
  <2>. QED BY <1>3, <2>1 DEF TakesUp, TurnType
<1>5. TakesUp([r EXCEPT !.pc = "send", !.todo = q], "send", u, m, q)
  <2>1. [r EXCEPT !.pc = "send", !.todo = q] \in TurnType
    BY <1>1, <1>3 DEF TurnType, TakesUp
  <2>. QED BY <1>3, <2>1 DEF TakesUp, TurnType
<1>. QED BY <1>2, <1>4, <1>5 DEF r

LEMMA TurnSet ==
    ASSUME Sound, NEW u \in Users, NEW t \in TurnType, turn' = [turn EXCEPT ![u] = t], chain' = chain,
           chain[u] # <<>>, t.m = Head(chain[u]), t.tries = 0, t.pc \notin Heads
    PROVE  GoesOn(u) /\ turn'[u] = t
<1>1. turn \in [Users -> TurnType]
  BY DEF Sound, Typed, MemTypes
<1>2. turn'[u] = t /\ turn' \in [Users -> TurnType] /\ \A v \in Users \ {u} : turn'[v] = turn[v]
  BY <1>1
<1>. QED BY <1>2 DEF GoesOn, TurnShape, Heads, Flying

\* The attempt is counted, and the row is worked on.
Counts(u, m) ==
    /\ At(u, "attempt") /\ m = turn[u].m
    /\ attempts' = [attempts EXCEPT ![m] = Bumped(@, turn[u].seen)]
Counted(u, m) ==
    /\ Counts(u, m)
    /\ worked' = [worked EXCEPT ![m] = @ + 1]
    /\ Apart /\ UNCHANGED <<outbound, mowner, gen, poisoned, halted, sent, got, unsafe, dequeued, faults>>

LEMMA CountedOnce ==
    ASSUME ChanInv, NEW u \in Users, NEW m, Counts(u, m)
    PROVE  /\ Sound /\ Alive /\ m \in Msgs /\ From[m] = u /\ chain[u] # <<>> /\ m = Head(chain[u])
           /\ m \in Range(chain[u]) /\ ~HasPlanned(u, m) /\ turn[u].seen \in Nat
           /\ attempts' \in [Msgs -> Nat] /\ attempts'[m] = turn[u].seen + 1
           /\ \A x \in Msgs : x # m => attempts'[x] = attempts[x]
           /\ worked[m] <= turn[u].seen /\ turn[u].seen + 1 <= dequeued[m]
           /\ turn[u].seen + 1 <= MaxInboxAttempts
<1>1. /\ Sound /\ Alive /\ turn[u].pc = "attempt" /\ CountTrue(u)
  BY DEF ChanInv, Own, At, Counts
<1>2. /\ turn[u] \in TurnType /\ m \in Msgs /\ From[m] = u /\ chain[u] # <<>> /\ m = Head(chain[u])
  BY <1>1, Working DEF Counts
<1>3. m \in Range(chain[u])
  BY <1>1, <1>2, HeadOfChain DEF Range
<1>4. turn[u].seen \in Nat /\ MaxInboxAttempts \in Nat /\ attempts \in [Msgs -> Nat]
  BY <1>1, <1>2, ChannelAssumption DEF TurnType, Sound, Typed, DbTypes
<1>. DEFINE n == turn[u].seen
<1>5. Bumped(attempts[m], n) \in Nat /\ Bumped(attempts[m], n) = n + 1
      /\ attempts[m] \in {n, n + 1} /\ n # n + 1
      /\ worked[m] <= n /\ n + 1 <= dequeued[m] /\ n < MaxInboxAttempts
  BY <1>1, <1>4 DEF Bumped, CountTrue, Counts
<1>6. attempts' \in [Msgs -> Nat] /\ attempts'[m] = n + 1 /\ \A x \in Msgs : x # m => attempts'[x] = attempts[x]
  BY <1>2, <1>4, <1>5 DEF Counts
<1>7. n + 1 <= MaxInboxAttempts
  BY <1>4, <1>5
<1>8. ~HasPlanned(u, m)
  BY <1>1 DEF HasPlanned, PlannedPcs
<1>. QED BY <1>1, <1>2, <1>3, <1>4, <1>5, <1>6, <1>7, <1>8

LEMMA CountedWell ==
    ASSUME ChanInv, NEW u \in Users, NEW m, Counted(u, m), mconv' \in [Msgs -> Says],
           \A x \in Msgs : x # m => mconv'[x] = mconv[x]
    PROVE  /\ Sound /\ Alive /\ m \in Msgs /\ From[m] = u /\ chain[u] # <<>> /\ m = Head(chain[u])
           /\ m \in Range(chain[u]) /\ ~HasPlanned(u, m) /\ turn[u].pc = "attempt"
           /\ CrashLoopEnds' /\ Leaves(u)
<1>1. Counts(u, m) /\ turn[u].pc = "attempt"
  BY DEF Counted, Counts, At
<1>. DEFINE n == turn[u].seen
<1>2. /\ Sound /\ Alive /\ m \in Msgs /\ From[m] = u /\ chain[u] # <<>> /\ m = Head(chain[u])
      /\ m \in Range(chain[u]) /\ ~HasPlanned(u, m)
  BY <1>1, CountedOnce
<1>3. /\ attempts' \in [Msgs -> Nat] /\ attempts'[m] = n + 1 /\ n \in Nat
      /\ \A x \in Msgs : x # m => attempts'[x] = attempts[x]
      /\ worked[m] <= n /\ n + 1 <= dequeued[m] /\ n + 1 <= MaxInboxAttempts
  BY <1>1, CountedOnce
<1>. HIDE DEF n
<1>4. /\ worked \in [Msgs -> Nat] /\ dequeued \in [Msgs -> Nat] /\ dequeued' = dequeued
      /\ worked' = [worked EXCEPT ![m] = @ + 1]
  BY <1>2 DEF Counted, Sound, Typed, HistTypes
<1>5. worked[m] + 1 \in Nat /\ worked[m] + 1 <= n + 1
  BY <1>2, <1>3, <1>4
<1>6. worked' \in [Msgs -> Nat] /\ worked'[m] <= n + 1 /\ \A x \in Msgs : x # m => worked'[x] = worked[x]
  BY <1>2, <1>4, <1>5
<1>7. CrashLoopEnds'
  <2>1. MaxInboxAttempts \in Nat
    BY ChannelAssumption
  <2>2. ASSUME NEW x \in Msgs
        PROVE worked'[x] <= attempts'[x] /\ attempts'[x] <= dequeued'[x] /\ worked'[x] <= MaxInboxAttempts
    <3>1. CASE x = m
      <4>1. worked'[m] \in Nat
        BY <1>2, <1>6
      <4>. QED BY <1>3, <1>4, <1>6, <2>1, <3>1, <4>1
    <3>2. CASE x # m
      BY <1>3, <1>4, <1>6, <3>2 DEF ChanInv, CrashLoopEnds
    <3>. QED BY <3>1, <3>2
  <2>. QED BY <2>2 DEF CrashLoopEnds
<1>8. Leaves(u)
  BY <1>2, <1>3, <1>4, <1>6 DEF Counted, Apart, Leaves, Sound, Typed, DbTypes, MemTypes, HistTypes
<1>. QED BY <1>1, <1>2, <1>7, <1>8

\* The row is heard, its reply planned, or its segments sent.
LEMMA RunsOn ==
    ASSUME ChanInv, NEW u \in Users, NEW m, Counted(u, m), mconv' \in [Msgs -> Says],
           \A x \in Msgs : x # m => mconv'[x] = mconv[x],
           NEW b, Queues(u, b), b.plan = {}, b.cancel = {}, b.res = {},
           b.inb \subseteq {<<m, "recorded">>},
           NEW pc \in {"hear", "plan", "send"}, NEW q, NEW t, TakesUp(t, pc, u, m, q),
           turn' = [turn EXCEPT ![u] = t], UNCHANGED <<chain, mout>>,
           pc # "send" => inbox[m] \in {"received", "recorded"},
           pc # "send" /\ mconv'[m] # "no" => inbox[m] # "received" \/ <<m, "recorded">> \in b.inb,
           pc = "plan" => mconv'[m] # "no",
           pc = "send" => /\ q \in Seq(Segs) /\ IsInjective(q)
                          /\ \A s \in Range(q) : s \in Segs /\ MsgOf(s) = m /\ mout[s] = "pending",
           pc # "hear" => mowner[u] # "human"
    PROVE  ChanInv'
<1>1. /\ Sound /\ Alive /\ m \in Msgs /\ From[m] = u /\ chain[u] # <<>> /\ m = Head(chain[u])
      /\ turn[u].pc = "attempt" /\ CrashLoopEnds' /\ Leaves(u)
  BY CountedWell
<1>2. /\ UNCHANGED <<outbound, sent, got, unsafe>> /\ inbox' = inbox /\ mowner' = mowner /\ gen' = gen
  BY DEF Counted, Apart
<1>3. t.pc = pc /\ t \in TurnType /\ t.m = m /\ t.gen = gen[u] /\ t.tries = 0 /\ t.todo = q
  BY DEF TakesUp
<1>4. GoesOn(u) /\ turn'[u] = t
  BY <1>1, <1>3, TurnSet DEF Heads
<1>5. TakesOn(u, b)
  BY <1>1, <1>4 DEF TakesOn, AtHead, HasPlanned, PlannedPcs
<1>6. Does(u, b)
  BY <1>1, <1>2, <1>5, NoMoves, NoPosts DEF Does
<1>7. CountTrue(u)' /\ HeadTrue(u)'
  BY <1>3, <1>4 DEF CountTrue, HeadTrue
<1>8. HearsTrue(u)'
  <2>1. <<m, "recorded">> \in b.inb => InQueue(u, m, "recorded")'
    <3>. SUFFICES ASSUME <<m, "recorded">> \in b.inb PROVE InQueue(u, m, "recorded")'
      OBVIOUS
    <3>1. b # NoBatch
      BY DEF NoBatch
    <3>2. Queued(wq', u, b)
      BY <1>1, <3>1, QueueAdds DEF Queues, Sound, Typed, MemTypes
    <3>. QED BY <3>2 DEF Queued, InQueue
  <2>. QED BY <1>2, <1>3, <1>4, <2>1 DEF HearsTrue
<1>9. StaffTrue(u)'
  BY <1>1, <1>2, <1>3, <1>4 DEF StaffTrue, Sending, Heads, Sound, Typed, MemTypes
<1>10. TodoTrue(u)'
  <2>1. CASE pc = "send"
    <3>1. \A s \in Range(q) : s \in Segs /\ UserOf(s) = u /\ mout[s] = "pending"
      BY <1>1, <2>1 DEF UserOf
    <3>2. \A s \in Range(q) : s \in unsafe \/ sent[s] = <<>>
      BY <1>1, <3>1 DEF ChanInv, Own, SentTrue, Safe, Committed
    <3>. QED BY <1>2, <1>3, <1>4, <2>1, <3>1, <3>2 DEF TodoTrue, Waits
  <2>2. CASE pc # "send"
    BY <1>3, <1>4, <2>2 DEF TodoTrue, Sending, Heads
  <2>. QED BY <2>1, <2>2
<1>11. \A s \in Segs : UserOf(s) = u => SentTrue(s)'
  BY <1>1, <1>2, <1>3, <1>4, <1>6, MovesOn DEF Flying
<1>. QED BY <1>1, <1>6, <1>7, <1>8, <1>9, <1>10, <1>11, DoesInv DEF Own

LEMMA ResumeReceivedStep ==
    ASSUME ChanInv, NEW u \in Users, NEW m, Counted(u, m), Effective(m) = "received",
           ResumeReceived(u, m)
    PROVE  ChanInv'
<1>1. mconv' = mconv /\ mconv \in [Msgs -> Says]
  BY DEF ResumeReceived, ChanInv, Sound, Typed, MemTypes
<1>2. Sound /\ m \in Msgs
  BY <1>1, CountedWell
<1>3. inbox[m] = "received" /\ mconv[m] = "no"
  BY DEF Effective
<1>4. Queues(u, NoBatch)
  <2>1. wq' = wq
    BY DEF ResumeReceived
  <2>. QED BY <2>1, NoQueues
<1>5. TakesUp(Run(u, m), "hear", u, m, <<>>)
  <2>1. <<>> \in Seq(Segs)
    OBVIOUS
  <2>. QED BY <1>2, <2>1, RunParts
<1>. DEFINE t == Run(u, m)
            b == NoBatch
<1>6. /\ turn' = [turn EXCEPT ![u] = t] /\ UNCHANGED <<chain, mout>> /\ TakesUp(t, "hear", u, m, <<>>)
      /\ b.plan = {} /\ b.cancel = {} /\ b.res = {} /\ b.inb = {} /\ Queues(u, b)
  BY <1>4, <1>5 DEF ResumeReceived, NoBatch
<1>. HIDE DEF t, b
<1>. QED BY <1>1, <1>3, <1>6, RunsOn

LEMMA ResumeRepliedStep ==
    ASSUME ChanInv, NEW u \in Users, NEW m, Counted(u, m), ResumeReplied(u, m)
    PROVE  ChanInv'
<1>1. mconv' = mconv /\ mconv \in [Msgs -> Says]
  BY DEF ResumeReplied, ChanInv, Sound, Typed, MemTypes
<1>2. /\ Sound /\ Alive /\ m \in Msgs /\ From[m] = u /\ chain[u] # <<>> /\ m = Head(chain[u])
      /\ turn[u].pc = "attempt" /\ CrashLoopEnds' /\ Leaves(u)
  BY <1>1, CountedWell
<1>3. CASE PendingOf(m) # {} /\ mowner[u] # "human"
  <2>. DEFINE q == InOrder(PendingOf(m))
              t == [Run(u, m) EXCEPT !.pc = "send", !.todo = q]
              b == NoBatch
  <2>1. /\ PendingOf(m) \in SUBSET Segs
        /\ \A s \in PendingOf(m) : s \in Segs /\ MsgOf(s) = m /\ mout[s] = "pending"
    BY DEF PendingOf
  <2>2. q \in Seq(Segs) /\ Range(q) = PendingOf(m) /\ IsInjective(q)
    BY <2>1, SegmentsInOrder
  <2>3. TakesUp(t, "send", u, m, q)
    BY <1>2, <2>2, RunParts
  <2>4. Queues(u, NoBatch)
    BY <1>3, NoQueues DEF ResumeReplied
  <2>5. /\ turn' = [turn EXCEPT ![u] = t] /\ UNCHANGED <<chain, mout>>
        /\ b.plan = {} /\ b.cancel = {} /\ b.res = {} /\ b.inb = {} /\ Queues(u, b)
    BY <1>3, <2>4 DEF ResumeReplied, NoBatch
  <2>. HIDE DEF q, t, b
  <2>. QED BY <1>1, <1>3, <2>1, <2>2, <2>3, <2>5, RunsOn
<1>4. CASE ~(PendingOf(m) # {} /\ mowner[u] # "human")
  <2>1. PendingOf(m) \in SUBSET OpenSegsOf(m)
    BY <1>2, OpenSegs
  <2>2. /\ mout' = Set(mout, PendingOf(m), "cancelled")
        /\ wq' = Queue(u, [NoBatch EXCEPT !.cancel = PendingOf(m), !.inb = {<<m, "done">>}])
        /\ Pop(u)
    BY <1>4 DEF ResumeReplied
  <2>3. UNCHANGED <<sent, got, unsafe, outbound>>
    BY DEF Counted
  <2>. QED BY <1>2, <2>1, <2>2, <2>3, CancelsRow DEF Flying
<1>. QED BY <1>3, <1>4

\* The row is over: what has happened to it is queued, with a plan that is cancelled at once or none.
LEMMA EndsRow ==
    ASSUME ChanInv, NEW u \in Users, NEW m \in Msgs, Alive, From[m] = u, chain[u] # <<>>, m = Head(chain[u]),
           turn[u].pc \notin Flying, ~HasPlanned(u, m), NEW b, NEW say \in SUBSET Msgs,
           NEW inb \in SUBSET ({m} \X Changes), NEW S \in SUBSET Segs,
           Parts(b, say, {}, "same", inb, S, S, {}), wq' = Queue(u, b), Pop(u),
           <<m, "replied">> \in inb => <<m, "recorded">> \in inb \/ inbox[m] # "received",
           S # {} => <<m, "replied">> \in inb /\ inbox[m] \in {"received", "recorded"},
           \A s \in S : MsgOf(s) = m /\ s[2] = boots,
           mout' = Set(mout, S, "cancelled"), UNCHANGED <<sent, got, unsafe, outbound>>,
           CrashLoopEnds', Leaves(u)
    PROVE  ChanInv'
<1>1. Sound /\ mout \in [Segs -> OutStatus] /\ m \in Range(chain[u])
  BY HeadOfChain DEF ChanInv, Sound, Typed, MemTypes, Range
<1>2. \A s \in S : UserOf(s) = u /\ mout[s] = "none" /\ sent[s] = <<>>
  BY <1>1 DEF UserOf, ChanInv, Rows, ChainTrue, Used, Sound, Typed, HistTypes
<1>3. \A s \in Segs : mout'[s] = IF s \in S THEN "cancelled" ELSE mout[s]
  BY <1>1 DEF Set
<1>4. b \in Batch /\ b.inb = inb /\ b.plan = S /\ b.cancel = S /\ b.res = {}
  BY DEF Parts
<1>5. Queues(u, b)
  BY <1>2, <1>4 DEF Queues, Owned
<1>6. TakesOn(u, b)
  BY <1>4 DEF TakesOn, AtHead, PopsRow
<1>7. Moves(u, b)
  <2>1. mout' \in [Segs -> OutStatus] /\ outbound' = outbound /\ outbound \in [Segs -> OutStatus]
    BY <1>1 DEF Set, OutStatus, Sound, Typed, DbTypes
  <2>2. Agrees(b)'
    BY <1>3, <1>4 DEF Agrees, Held
  <2>3. <<"none", "cancelled">> \in Forth
    BY DEF Forth
  <2>. QED BY <1>2, <1>3, <1>4, <2>1, <2>2, <2>3 DEF Moves
<1>8. Does(u, b)
  BY <1>1, <1>5, <1>6, <1>7, NoPosts DEF Does
<1>9. ASSUME NEW s \in Segs, UserOf(s) = u PROVE SentTrue(s)'
  <2>1. Safe(s) => mout'[s] = mout[s] /\ mout[s] # "sending"
    BY <1>2, <1>3, <1>9, NotSending DEF Safe
  <2>2. turn'[u].pc \notin Flying
    BY <1>1, PopKeeps, NoTurnType DEF Flying
  <2>3. SentKeeps(s)
    BY <1>9, <2>1, <2>2 DEF SentKeeps, InFlight
  <2>. QED BY <1>8, <1>9, <2>3, SentKept
<1>10. Own(u)'
  BY <1>8, <1>9, Popped DEF PopsRow
<1>. QED BY <1>8, <1>10, DoesInv

\* The segments of a plan of this process.
LEMMA NewSegs ==
    ASSUME Sound, Alive, NEW m \in Msgs, NEW n \in 0..faults.segs
    PROVE  /\ {<<m, boots, i>> : i \in 1..n} \in SUBSET Segs
           /\ \A s \in {<<m, boots, i>> : i \in 1..n} : MsgOf(s) = m /\ s[2] = boots /\ IsReply(s)
           /\ <<m, boots, 0>> \in Segs
<1>0. /\ boots \in Nat /\ boots > 0 /\ boots <= faults.starts /\ faults.starts <= MaxBoots
      /\ faults.starts \in Nat /\ faults.segs \in Nat /\ faults.segs <= NSeg
      /\ NSeg \in Nat /\ MaxBoots \in Nat
  BY ChannelAssumption DEF Sound, Typed, HistTypes, Shapes, Down, Limits
<1>1. boots \in 1..MaxBoots
  BY <1>0
<1>2. \A i \in 1..n : i \in 0..NSeg /\ i > 0
  BY <1>0
<1>3. 0 \in 0..NSeg
  BY ChannelAssumption
<1>. QED BY <1>1, <1>2, <1>3 DEF Segs, MsgOf, IsReply

LEMMA ResumeRecordedStep ==
    ASSUME ChanInv, NEW u \in Users, NEW m, Counted(u, m), Effective(m) = "recorded",
           ResumeRecorded(u, m)
    PROVE  ChanInv'
<1>. DEFINE restore == IF mconv[m] = "no" THEN {m} ELSE {}
            upgrade == IF inbox[m] = "received" THEN {<<m, "recorded">>} ELSE {}
            base == [NoBatch EXCEPT !.say = restore, !.inb = upgrade]
<1>1. Sound /\ mconv \in [Msgs -> Says] /\ mconv' = Set(mconv, restore, "said") /\ m \in Msgs
  BY CountedOnce DEF Counted, ResumeRecorded, ChanInv, Sound, Typed, MemTypes
<1>2. /\ mconv' \in [Msgs -> Says] /\ \A x \in Msgs : x # m => mconv'[x] = mconv[x]
      /\ mconv'[m] # "no" /\ (mconv[m] # "no" => mconv'[m] = mconv[m])
  BY <1>1 DEF Set, Says
<1>3. /\ Sound /\ Alive /\ m \in Msgs /\ From[m] = u /\ chain[u] # <<>> /\ m = Head(chain[u])
      /\ turn[u].pc = "attempt" /\ CrashLoopEnds' /\ Leaves(u) /\ ~HasPlanned(u, m)
  BY <1>2, CountedWell
<1>4. inbox[m] \in {"received", "recorded"} /\ (inbox[m] = "received" <=> <<m, "recorded">> \in upgrade)
  BY DEF Effective
<1>5. restore \in SUBSET Msgs /\ upgrade \in SUBSET (Msgs \X Changes) /\ upgrade \in SUBSET ({m} \X Changes)
      /\ upgrade \subseteq {<<m, "recorded">>}
  BY <1>3 DEF Changes
<1>6. /\ restore \in SUBSET Msgs /\ UNCHANGED <<sent, got, unsafe, outbound>>
      /\ {"recorded", "replied", "done"} \subseteq Changes
  BY <1>5 DEF Counted, Changes
<1>. DEFINE Notes == wq' = IF base = NoBatch THEN wq ELSE Queue(u, base)
<1>7. \/ mconv[m] = "answered" /\ mowner[u] # "human" /\ Notes /\ UNCHANGED <<chain, mout>>
         /\ turn' = [turn EXCEPT ![u] = [Run(u, m) EXCEPT !.pc = "plan"]]
      \/ mconv[m] = "answered" /\ Pop(u) /\ \E n \in 1..faults.segs :
            LET S == {<<m, boots, i>> : i \in 1..n} IN
            /\ mout' = Set(mout, S, "cancelled")
            /\ wq' = Queue(u, [base EXCEPT !.plan = S, !.cancel = S,
                                           !.inb = @ \cup {<<m, "replied">>, <<m, "done">>}])
      \/ Pop(u) /\ mout' = mout /\ wq' = Queue(u, [base EXCEPT !.inb = @ \cup {<<m, "done">>}])
      \/ turn' = [turn EXCEPT ![u] = Run(u, m)] /\ Notes /\ UNCHANGED <<chain, mout>>
  BY DEF ResumeRecorded
<1>8. /\ Parts(base, restore, {}, "same", upgrade, {}, {}, {})
      /\ \A more \in SUBSET (Msgs \X Changes) : \A S \in SUBSET Segs :
            /\ Parts([base EXCEPT !.inb = @ \cup more], restore, {}, "same", upgrade \cup more, {}, {}, {})
            /\ Parts([base EXCEPT !.plan = S, !.cancel = S, !.inb = @ \cup more],
                     restore, {}, "same", upgrade \cup more, S, S, {})
  <2>1. ASSUME NEW more \in SUBSET (Msgs \X Changes), NEW S \in SUBSET Segs
        PROVE  /\ Parts(base, restore, {}, "same", upgrade, {}, {}, {})
               /\ Parts([base EXCEPT !.inb = @ \cup more], restore, {}, "same", upgrade \cup more, {}, {}, {})
               /\ Parts([base EXCEPT !.plan = S, !.cancel = S, !.inb = @ \cup more],
                        restore, {}, "same", upgrade \cup more, S, S, {})
    <3>1. "same" \in Owners \cup {"same"} /\ {} \in SUBSET Msgs
      OBVIOUS
    <3>. HIDE DEF restore, upgrade
    <3>. QED BY <1>5, <3>1, TalkParts
  <2>2. {} \in SUBSET (Msgs \X Changes) /\ {} \in SUBSET Segs
    OBVIOUS
  <2>. HIDE DEF base, restore, upgrade
  <2>. QED BY <2>1, <2>2
<1>9. /\ base.plan = {} /\ base.cancel = {} /\ base.res = {} /\ base.inb = upgrade
      /\ base \in Batch
  BY <1>8 DEF Parts
<1>10. Notes => Queues(u, base)
  <2>1. Owned(u, base)
    <3>. HIDE DEF base, restore
    <3>. QED BY <1>3, <1>5, <1>9 DEF Owned
  <2>. HIDE DEF base
  <2>. QED BY <1>9, <2>1 DEF Queues
<1>. HIDE DEF base, restore, upgrade
<1>11. <<>> \in Seq(Segs)
  OBVIOUS
<1>12. CASE /\ mconv[m] = "answered" /\ mowner[u] # "human" /\ Notes /\ UNCHANGED <<chain, mout>>
            /\ turn' = [turn EXCEPT ![u] = [Run(u, m) EXCEPT !.pc = "plan"]]
  <2>. DEFINE t == [Run(u, m) EXCEPT !.pc = "plan"]
  <2>1. TakesUp(t, "plan", u, m, <<>>)
    BY <1>3, <1>11, RunParts
  <2>2. turn' = [turn EXCEPT ![u] = t]
    BY <1>12
  <2>. HIDE DEF t
  <2>3. /\ Queues(u, base) /\ base.plan = {} /\ base.cancel = {} /\ base.res = {}
        /\ base.inb \subseteq {<<m, "recorded">>} /\ UNCHANGED <<chain, mout>>
    BY <1>5, <1>9, <1>10, <1>12
  <2>4. /\ inbox[m] \in {"received", "recorded"} /\ mconv'[m] # "no"
        /\ inbox[m] # "received" \/ <<m, "recorded">> \in base.inb
    BY <1>2, <1>4, <1>9
  <2>5. mconv' \in [Msgs -> Says] /\ \A x \in Msgs : x # m => mconv'[x] = mconv[x]
    BY <1>2
  <2>. DEFINE pc == "plan"
              q == <<>>
  <2>6. /\ pc \in {"hear", "plan", "send"} /\ TakesUp(t, pc, u, m, q) /\ pc # "send" /\ mowner[u] # "human"
    BY <1>12, <2>1
  <2>. HIDE DEF pc, q
  <2>. QED BY <2>2, <2>3, <2>4, <2>5, <2>6, RunsOn
<1>13. CASE turn' = [turn EXCEPT ![u] = Run(u, m)] /\ Notes /\ UNCHANGED <<chain, mout>>
  <2>. DEFINE t == Run(u, m)
  <2>1. TakesUp(t, "hear", u, m, <<>>)
    BY <1>3, <1>11, RunParts
  <2>2. turn' = [turn EXCEPT ![u] = t]
    BY <1>13
  <2>. HIDE DEF t
  <2>3. /\ Queues(u, base) /\ base.plan = {} /\ base.cancel = {} /\ base.res = {}
        /\ base.inb \subseteq {<<m, "recorded">>} /\ UNCHANGED <<chain, mout>>
    BY <1>5, <1>9, <1>10, <1>13
  <2>4. /\ inbox[m] \in {"received", "recorded"} /\ mconv'[m] # "no"
        /\ inbox[m] # "received" \/ <<m, "recorded">> \in base.inb
    BY <1>2, <1>4, <1>9
  <2>5. mconv' \in [Msgs -> Says] /\ \A x \in Msgs : x # m => mconv'[x] = mconv[x]
    BY <1>2
  <2>. DEFINE pc == "hear"
              q == <<>>
  <2>6. /\ pc \in {"hear", "plan", "send"} /\ TakesUp(t, pc, u, m, q) /\ ~(pc # "hear")
        /\ pc # "plan" /\ pc # "send"
    BY <2>1
  <2>. HIDE DEF pc, q
  <2>. QED BY <2>2, <2>3, <2>4, <2>5, <2>6, RunsOn
<1>14. CASE Pop(u) /\ mout' = mout /\ wq' = Queue(u, [base EXCEPT !.inb = @ \cup {<<m, "done">>}])
  <2>. DEFINE more == {<<m, "done">>}
              b == [base EXCEPT !.inb = @ \cup more]
  <2>1. more \in SUBSET (Msgs \X Changes) /\ more \in SUBSET ({m} \X Changes) /\ <<m, "replied">> \notin more
    BY <1>3, <1>6
  <2>2. Parts(b, restore, {}, "same", upgrade \cup more, {}, {}, {}) /\ wq' = Queue(u, b)
    BY <1>8, <1>14, <2>1
  <2>3. mout' = Set(mout, {}, "cancelled")
    BY <1>1, <1>14 DEF Set, Sound, Typed, MemTypes
  <2>. DEFINE inb == upgrade \cup more
  <2>4. inb \in SUBSET ({m} \X Changes) /\ <<m, "replied">> \notin inb
    BY <1>5, <2>1
  <2>5. Parts(b, restore, {}, "same", inb, {}, {}, {})
    BY <2>2
  <2>. DEFINE S == {}
  <2>6. /\ S \in SUBSET Segs /\ mout' = Set(mout, S, "cancelled") /\ Parts(b, restore, {}, "same", inb, S, S, {})
        /\ (\A s \in S : MsgOf(s) = m /\ s[2] = boots) /\ ~(S # {})
    BY <2>3, <2>5
  <2>7. turn[u].pc \notin Flying
    BY <1>3 DEF Flying
  <2>. HIDE DEF more, b, inb, S
  <2>. QED BY <1>3, <1>6, <1>14, <2>2, <2>4, <2>6, <2>7, EndsRow
<1>15. CASE mconv[m] = "answered" /\ Pop(u) /\ \E n \in 1..faults.segs :
            LET S == {<<m, boots, i>> : i \in 1..n} IN
            /\ mout' = Set(mout, S, "cancelled")
            /\ wq' = Queue(u, [base EXCEPT !.plan = S, !.cancel = S,
                                           !.inb = @ \cup {<<m, "replied">>, <<m, "done">>}])
  <2>1. PICK n \in 1..faults.segs :
            LET S == {<<m, boots, i>> : i \in 1..n} IN
            /\ mout' = Set(mout, S, "cancelled")
            /\ wq' = Queue(u, [base EXCEPT !.plan = S, !.cancel = S,
                                           !.inb = @ \cup {<<m, "replied">>, <<m, "done">>}])
    BY <1>15
  <2>. DEFINE S == {<<m, boots, i>> : i \in 1..n}
              more == {<<m, "replied">>, <<m, "done">>}
              b == [base EXCEPT !.plan = S, !.cancel = S, !.inb = @ \cup more]
              inb == upgrade \cup more
  <2>2. n \in 0..faults.segs
    BY <2>1
  <2>3. S \in SUBSET Segs /\ \A s \in S : MsgOf(s) = m /\ s[2] = boots
    BY <1>3, <2>2, NewSegs
  <2>4. more \in SUBSET (Msgs \X Changes) /\ inb \in SUBSET ({m} \X Changes)
        /\ <<m, "replied">> \in inb /\ (inbox[m] = "received" => <<m, "recorded">> \in inb)
    BY <1>3, <1>4, <1>5, <1>6
  <2>5. mout' = Set(mout, S, "cancelled") /\ wq' = Queue(u, b)
    BY <2>1
  <2>6. Parts(b, restore, {}, "same", inb, S, S, {})
    <3>. HIDE DEF S, more
    <3>. QED BY <1>8, <2>3, <2>4
  <2>. HIDE DEF S, more, b, inb
  <2>. QED BY <1>3, <1>4, <1>6, <1>15, <2>3, <2>4, <2>5, <2>6, EndsRow DEF Flying
<1>. QED BY <1>7, <1>12, <1>13, <1>14, <1>15

LEMMA StaysOn ==
    ASSUME Sound, NEW u \in Users, NEW b, b.inb = {}, b.plan = {}, UNCHANGED <<chain, turn>>
    PROVE  TakesOn(u, b)
<1>1. GoesOn(u)
  BY DEF GoesOn, Sound, Typed, MemTypes, Shapes, TurnShape
<1>. QED BY <1>1 DEF TakesOn, HasPlanned

LEMMA AttemptStep ==
    ASSUME ChanInv, NEW u \in Users, Attempt(u)
    PROVE  ChanInv'
<1>. DEFINE m == turn[u].m
<1>1. Counts(u, m) /\ Apart /\ UNCHANGED <<outbound, mowner, gen, poisoned, halted, sent, got, unsafe, dequeued>>
  BY DEF Attempt, Counts, Apart
<1>2. CASE worked' = [worked EXCEPT ![m] = @ + 1] /\ Resume(u, m) /\ UNCHANGED faults
  <2>1. Counted(u, m)
    BY <1>1, <1>2 DEF Counted
  <2>. HIDE DEF m
  <2>. QED BY <1>2, <2>1, ResumeReceivedStep, ResumeRecordedStep, ResumeRepliedStep DEF Resume
<1>3. CASE Fault("ack") /\ UNCHANGED <<chain, turn, mout, mconv, wq, worked>>
  <2>1. /\ Sound /\ Alive /\ m \in Msgs /\ From[m] = u /\ turn[u].seen \in Nat
        /\ attempts' \in [Msgs -> Nat] /\ attempts'[m] = turn[u].seen + 1
        /\ \A x \in Msgs : x # m => attempts'[x] = attempts[x]
        /\ worked[m] <= turn[u].seen /\ turn[u].seen + 1 <= dequeued[m]
        /\ turn[u].seen + 1 <= MaxInboxAttempts
    BY <1>1, CountedOnce
  <2>2. turn[u].pc = "attempt" /\ turn' = turn /\ CountTrue(u) /\ StaffTrue(u)
    BY <1>1, <1>3 DEF Counts, At, ChanInv, Own
  <2>3. Spends
    BY <1>3 DEF Spends, Limits
  <2>4. Leaves(u)
    BY <1>1, <1>3, <2>1, <2>3, SpendsKeeps DEF Leaves, Apart, Sound, Typed, DbTypes, MemTypes, HistTypes
  <2>5. TakesOn(u, NoBatch) /\ Queues(u, NoBatch) /\ Moves(u, NoBatch) /\ Posts(u)
    BY <1>1, <1>3, <2>1, StaysOn, NoQueues, NoMoves, NoPosts DEF NoBatch
  <2>6. Does(u, NoBatch)
    BY <2>1, <2>4, <2>5 DEF Does
  <2>7. CrashLoopEnds'
    <3>1. worked[m] \in Nat /\ worked' = worked /\ dequeued' = dequeued
      BY <1>1, <1>3, <2>1 DEF Sound, Typed, HistTypes
    <3>2. worked[m] <= turn[u].seen + 1 /\ worked[m] <= MaxInboxAttempts
      BY <2>1, <3>1 DEF ChanInv, CrashLoopEnds
    <3>3. ASSUME NEW x \in Msgs
          PROVE  worked[x] <= attempts'[x] /\ attempts'[x] <= dequeued[x] /\ worked[x] <= MaxInboxAttempts
      BY <2>1, <3>2 DEF ChanInv, CrashLoopEnds
    <3>. QED BY <3>1, <3>3 DEF CrashLoopEnds
  <2>8. CountTrue(u)'
    BY <1>1, <1>3, <2>1, <2>2 DEF CountTrue
  <2>9. HearsTrue(u)' /\ TodoTrue(u)' /\ HeadTrue(u)'
    BY <2>2 DEF HearsTrue, TodoTrue, HeadTrue, Sending, Heads
  <2>10. StaffTrue(u)'
    BY <1>1, <2>2 DEF StaffTrue
  <2>11. \A s \in Segs : UserOf(s) = u => SentTrue(s)'
    BY <1>1, <1>3, <2>2, <2>6, MovesOn DEF Flying
  <2>. QED BY <2>6, <2>7, <2>8, <2>9, <2>10, <2>11, DoesInv DEF Own
<1>. QED BY <1>2, <1>3 DEF Attempt

LEMMA AttemptHaltsStep ==
    ASSUME ChanInv, NEW u \in Users, AttemptHalts(u)
    PROVE  ChanInv'
<1>1. Sound /\ Alive /\ turn[u].pc = "attempt" /\ chain[u] # <<>>
  BY Working DEF ChanInv, AttemptHalts, At
<1>2. Spends
  BY DEF Spends, Limits, AttemptHalts
<1>3. /\ Apart /\ NoSpeech /\ NoCount /\ poisoned' = poisoned /\ halted' = halted \cup {u} /\ Pop(u)
      /\ UNCHANGED <<wq, mout, outbound, sent, got, unsafe>>
  BY DEF AttemptHalts, dbVars, Apart, NoSpeech, NoCount
<1>4. Leaves(u) /\ CrashLoopEnds'
  BY <1>1, <1>2, <1>3, LeavesRest, SameCounts DEF ChanInv, Sound, Typed, MemTypes
<1>. QED BY <1>1, <1>3, <1>4, LeavesChain DEF Flying

\* The row of a turn that has ended is done.
LEMMA FinishStep ==
    ASSUME ChanInv, NEW u \in Users, Finish(u)
    PROVE  ChanInv'
<1>. DEFINE m == turn[u].m
<1>1. /\ Sound /\ Alive /\ turn[u].pc = "finish" /\ chain[u] # <<>> /\ m \in Msgs /\ m = Head(chain[u])
      /\ From[m] = u
  BY Working DEF ChanInv, Finish, At
<1>2. /\ Apart /\ NoSpeech /\ NoCount /\ Spends /\ UNCHANGED <<poisoned, halted>> /\ Pop(u)
      /\ UNCHANGED <<mout, outbound, sent, got, unsafe>>
      /\ wq' = Queue(u, [NoBatch EXCEPT !.inb = {<<m, "done">>}])
  BY DEF Finish, FinishRow, dbVars, histVars, Apart, NoSpeech, NoCount, Spends
<1>3. Leaves(u) /\ CrashLoopEnds'
  BY <1>1, <1>2, LeavesRest, SameCounts DEF ChanInv, Sound, Typed, MemTypes
<1>. DEFINE b == [NoBatch EXCEPT !.inb = {<<m, "done">>}]
<1>4. Parts(b, {}, {}, "same", {<<m, "done">>}, {}, {}, {})
  <2>1. {<<m, "done">>} \in SUBSET (Msgs \X Changes) /\ {} \in SUBSET Msgs /\ {} \in SUBSET Segs
        /\ {} \in SUBSET (Msgs \X Changes) /\ "same" \in Owners \cup {"same"}
    BY <1>1 DEF Changes
  <2>. QED BY <2>1, TalkParts
<1>5. wq' = Queue(u, b)
  BY <1>2
<1>. HIDE DEF b
<1>6. Queues(u, b) /\ TakesOn(u, b) /\ Moves(u, b) /\ Posts(u)
  <2>1. Queues(u, b)
    BY <1>1, <1>4, <1>5 DEF Queues, Parts, Owned
  <2>2. TakesOn(u, b)
    BY <1>1, <1>2, <1>4 DEF TakesOn, Parts, AtHead, PopsRow
  <2>3. Moves(u, b) /\ Posts(u)
    BY <1>1, <1>2, <1>4, NoMoves, NoPosts DEF Parts
  <2>. QED BY <2>1, <2>2, <2>3
<1>7. Does(u, b)
  BY <1>1, <1>3, <1>6 DEF Does
<1>8. turn'[u].pc \notin Flying
  BY <1>1, <1>2, PopKeeps, NoTurnType DEF Flying
<1>9. \A s \in Segs : UserOf(s) = u => SentTrue(s)'
  BY <1>1, <1>2, <1>7, <1>8, MovesOn DEF Flying
<1>10. Own(u)'
  BY <1>1, <1>2, <1>7, <1>9, Popped DEF PopsRow
<1>. QED BY <1>3, <1>7, <1>10, DoesInv

\* The turn goes on at pc.
Steps(u, pc) ==
    /\ GoesOn(u) /\ turn'[u].pc = pc /\ turn'[u].m = turn[u].m /\ turn'[u].gen = turn[u].gen
    /\ turn'[u].todo = turn[u].todo

LEMMA GoesTo ==
    ASSUME Sound, NEW u \in Users, turn[u].pc # "idle", NEW pc \in Pcs, pc \notin {"idle"} \cup Flying,
           turn[u].tries = 0, pc \in Heads => turn[u].todo # <<>>, chain' = chain,
           \/ GoTo(u, pc)
           \/ turn' = [turn EXCEPT ![u].pc = pc, ![u].egen = gen[u]]
    PROVE  Steps(u, pc) /\ turn'[u].mark = turn[u].mark /\ turn'[u].tries = 0
<1>1. /\ turn \in [Users -> TurnType] /\ turn[u] \in TurnType /\ gen[u] \in Nat /\ TurnShape(u)
      /\ chain[u] # <<>> /\ turn[u].m = Head(chain[u])
  BY Working DEF Sound, Typed, MemTypes, Shapes
<1>2. CASE GoTo(u, pc)
  <2>. DEFINE t == [turn[u] EXCEPT !.pc = pc]
  <2>1. t \in TurnType /\ t.pc = pc /\ t.m = turn[u].m /\ t.gen = turn[u].gen /\ t.todo = turn[u].todo
        /\ t.mark = turn[u].mark /\ t.tries = turn[u].tries
    BY <1>1 DEF TurnType
  <2>2. turn' = [turn EXCEPT ![u] = t]
    BY <1>1, <1>2 DEF GoTo
  <2>. HIDE DEF t
  <2>3. turn'[u] = t /\ turn' \in [Users -> TurnType] /\ \A v \in Users \ {u} : turn'[v] = turn[v]
    BY <1>1, <2>1, <2>2
  <2>4. GoesOn(u)
    BY <1>1, <2>1, <2>3 DEF GoesOn, TurnShape, Flying
  <2>. QED BY <2>1, <2>3, <2>4 DEF Steps
<1>3. CASE turn' = [turn EXCEPT ![u].pc = pc, ![u].egen = gen[u]]
  <2>. DEFINE t == [turn[u] EXCEPT !.pc = pc, !.egen = gen[u]]
  <2>1. t \in TurnType
    BY <1>1 DEF TurnType
  <2>2. t.pc = pc /\ t.m = turn[u].m /\ t.gen = turn[u].gen /\ t.todo = turn[u].todo
        /\ t.mark = turn[u].mark /\ t.tries = turn[u].tries
    BY <1>1 DEF TurnType
  <2>3. /\ turn'[u] = t /\ DOMAIN turn' = Users /\ \A v \in Users \ {u} : turn'[v] = turn[v]
        /\ turn' = [v \in Users |-> turn'[v]]
    BY <1>1, <1>3
  <2>. HIDE DEF t
  <2>4. turn' \in [Users -> TurnType]
    BY <1>1, <2>1, <2>3
  <2>5. GoesOn(u)
    BY <1>1, <2>1, <2>2, <2>3, <2>4 DEF GoesOn, TurnShape, Flying
  <2>. QED BY <2>2, <2>3, <2>5 DEF Steps
<1>. QED BY <1>2, <1>3

\* What is queued is in the queue.
LEMMA InTheQueue ==
    ASSUME Sound, NEW u \in Users, NEW b, Queues(u, b), NEW m, NEW st, <<m, st>> \in b.inb
    PROVE  InQueue(u, m, st)'
<1>1. b # NoBatch
  BY DEF NoBatch
<1>2. Queued(wq', u, b)
  BY <1>1, QueueAdds DEF Queues, Sound, Typed, MemTypes
<1>. QED BY <1>2 DEF Queued, InQueue

LEMMA StillInQueue ==
    ASSUME Sound, NEW u \in Users, NEW b, Queues(u, b), NEW m, NEW st, InQueue(u, m, st)
    PROVE  InQueue(u, m, st)'
<1>1. CASE wq' = wq
  BY <1>1 DEF InQueue
<1>2. CASE wq' # wq
  <2>1. Queued(wq', u, b)
    BY <1>2, QueueAdds DEF Queues, Sound, Typed, MemTypes
  <2>. QED BY <2>1 DEF Queued, InQueue
<1>. QED BY <1>1, <1>2

\* The customer's message or the reply enters the conversation.
Talks(u, m, pc, b) ==
    /\ Alive /\ turn[u].pc \in {"hear", "think"} /\ m = turn[u].m /\ Steps(u, pc) /\ Queues(u, b)
    /\ b.plan = {} /\ b.cancel = {} /\ b.res = {} /\ b.inb \subseteq {<<m, "recorded">>}
    /\ mconv' \in [Msgs -> Says] /\ \A x \in Msgs : x # m => mconv'[x] = mconv[x]
    /\ mowner' \in [Users -> Owners] /\ \A v \in Users \ {u} : mowner'[v] = mowner[v]
    /\ Apart /\ NoCount /\ Spends
    /\ UNCHANGED <<gen, poisoned, halted, outbound, mout, sent, got, unsafe>>

LEMMA TalksOn ==
    ASSUME ChanInv, NEW u \in Users, NEW m, NEW pc \in {"think", "plan", "finish"}, NEW b, Talks(u, m, pc, b),
           pc # "finish" => \/ inbox[m] # "received"
                            \/ InQueue(u, m, "recorded") \/ <<m, "recorded">> \in b.inb,
           pc # "finish" /\ gen[u] = turn[u].gen /\ m \notin Withdrawals => mowner'[u] # "human"
    PROVE  ChanInv'
<1>1. /\ Sound /\ Alive /\ turn[u].pc \in {"hear", "think"} /\ chain[u] # <<>> /\ m \in Msgs
      /\ m = Head(chain[u]) /\ From[m] = u /\ m = turn[u].m
  BY Working DEF ChanInv, Talks
<1>2. /\ GoesOn(u) /\ turn'[u].pc = pc /\ turn'[u].m = m /\ turn'[u].gen = turn[u].gen
  BY <1>1 DEF Talks, Steps
<1>3. TakesOn(u, b)
  BY <1>1, <1>2 DEF Talks, TakesOn, AtHead, HasPlanned, PlannedPcs
<1>4. CrashLoopEnds'
  BY SameCounts DEF Talks, ChanInv
<1>5. Leaves(u)
  BY <1>1, SpendsKeeps DEF Talks, Leaves, Apart, NoCount, Sound, Typed, DbTypes, MemTypes, HistTypes
<1>6. Does(u, b)
  BY <1>1, <1>3, <1>5, NoMoves, NoPosts DEF Talks, Does
<1>7. CountTrue(u)' /\ TodoTrue(u)' /\ HeadTrue(u)'
  BY <1>2 DEF CountTrue, TodoTrue, HeadTrue, Sending, Heads
<1>8. HearsTrue(u)'
  <2>1. inbox' = inbox /\ inbox[m] \in {"received", "recorded"}
    BY <1>1 DEF Talks, Apart, ChanInv, Own, HearsTrue
  <2>2. Queues(u, b)
    BY DEF Talks
  <2>3. pc # "finish" => inbox[m] # "received" \/ InQueue(u, m, "recorded")'
    BY <1>1, <2>2, InTheQueue, StillInQueue
  <2>. QED BY <1>2, <2>1, <2>3 DEF HearsTrue
<1>9. StaffTrue(u)'
  <2>1. gen' = gen /\ turn[u].gen <= gen[u]
    BY DEF Talks, ChanInv, Own, StaffTrue
  <2>. QED BY <1>2, <2>1 DEF StaffTrue, Sending, Heads
<1>10. \A s \in Segs : UserOf(s) = u => SentTrue(s)'
  BY <1>1, <1>2, <1>6, MovesOn DEF Talks, Flying
<1>. QED BY <1>4, <1>6, <1>7, <1>8, <1>9, <1>10, DoesInv DEF Own

LEMMA HearStep ==
    ASSUME ChanInv, NEW u \in Users, Hear(u)
    PROVE  ChanInv'
<1>. DEFINE m == turn[u].m
            new == IF mconv[m] = "no" THEN {m} ELSE {}
            inb == {<<x, "recorded">> : x \in new}
            b == [NoBatch EXCEPT !.say = new, !.inb = inb]
            to(pc) == turn' = [turn EXCEPT ![u].pc = pc, ![u].egen = gen[u]]
            said(own) == [b EXCEPT !.ans = {m}, !.own = own]
<1>1. /\ Sound /\ Alive /\ turn[u].pc = "hear" /\ m \in Msgs /\ From[m] = u /\ turn[u].tries = 0
      /\ mconv \in [Msgs -> Says] /\ mowner \in [Users -> Owners]
  <2>1. Sound /\ Alive /\ turn[u].pc = "hear"
    BY DEF ChanInv, Hear, At
  <2>2. m \in Msgs /\ From[m] = u /\ TurnShape(u)
    BY <2>1, Working DEF Sound, Shapes
  <2>. QED BY <2>1, <2>2 DEF TurnShape, Flying, Sound, Typed, MemTypes
<1>2. /\ Apart /\ NoCount /\ Spends /\ chain' = chain
      /\ UNCHANGED <<gen, poisoned, halted, outbound, mout, sent, got, unsafe>>
  BY DEF Hear, dbVars, histVars, Apart, NoCount, Spends
<1>3. new \in SUBSET Msgs /\ inb \in SUBSET (Msgs \X Changes) /\ inb \subseteq {<<m, "recorded">>}
      /\ (mconv[m] = "no" => <<m, "recorded">> \in inb)
  BY <1>1 DEF Changes
<1>4. \A own \in Owners \cup {"same"} :
          /\ Parts(b, new, {}, "same", inb, {}, {}, {})
          /\ Parts(said(own), new, {m}, own, inb, {}, {}, {})
  <2>. SUFFICES ASSUME NEW own \in Owners \cup {"same"}
                PROVE  /\ Parts(b, new, {}, "same", inb, {}, {}, {})
                       /\ Parts(said(own), new, {m}, own, inb, {}, {}, {})
    OBVIOUS
  <2>1. {m} \in SUBSET Msgs /\ {} \in SUBSET Segs
    BY <1>1
  <2>. HIDE DEF new, inb, m
  <2>. QED BY <1>3, <2>1, TalkParts
<1>5. inbox[m] # "received" \/ InQueue(u, m, "recorded") \/ <<m, "recorded">> \in inb
  BY <1>1, <1>3 DEF ChanInv, Own, HearsTrue
<1>6. \A pc \in {"think", "plan", "finish"} : to(pc) => Steps(u, pc)
  <2>. SUFFICES ASSUME NEW pc \in {"think", "plan", "finish"}, to(pc) PROVE Steps(u, pc)
    OBVIOUS
  <2>1. pc \in Pcs /\ pc \notin {"idle"} \cup Flying /\ pc \notin Heads
    BY DEF Pcs, Flying, Heads
  <2>. QED BY <1>1, <1>2, <2>1, GoesTo
<1>7. \/ /\ mowner[u] = "ai" \/ m \in Withdrawals
         /\ \E own \in {"same", "queue"} :
                /\ wq' = Queue(u, said(own))
                /\ mowner' = [mowner EXCEPT ![u] = IF own = "same" THEN @ ELSE own]
         /\ mconv' = [mconv EXCEPT ![m] = "answered"] /\ to("plan")
      \/ /\ mconv' = Set(mconv, new, "said")
         /\ wq' = IF new = {} THEN wq ELSE Queue(u, b)
         /\ IF mowner[u] = "ai" THEN to("think") ELSE to("finish")
         /\ mowner' = mowner
  BY DEF Hear
<1>. HIDE DEF to
<1>8. CASE /\ mowner[u] = "ai" \/ m \in Withdrawals
           /\ \E own \in {"same", "queue"} :
                  /\ wq' = Queue(u, said(own))
                  /\ mowner' = [mowner EXCEPT ![u] = IF own = "same" THEN @ ELSE own]
           /\ mconv' = [mconv EXCEPT ![m] = "answered"] /\ to("plan")
  <2>1. PICK own \in {"same", "queue"} :
                  /\ wq' = Queue(u, said(own))
                  /\ mowner' = [mowner EXCEPT ![u] = IF own = "same" THEN @ ELSE own]
    BY <1>8
  <2>2. own \in Owners \cup {"same"}
    BY DEF Owners
  <2>. DEFINE c == said(own)
  <2>3. Parts(c, new, {m}, own, inb, {}, {}, {}) /\ wq' = Queue(u, c)
    BY <1>4, <2>1, <2>2
  <2>. HIDE DEF c, new, inb
  <2>4. Queues(u, c)
    BY <1>1, <1>3, <2>3 DEF Queues, Parts, Owned
  <2>5. mowner' \in [Users -> Owners] /\ \A v \in Users \ {u} : mowner'[v] = mowner[v]
    BY <1>1, <2>1 DEF Owners
  <2>6. m \notin Withdrawals => mowner'[u] # "human"
    BY <1>1, <1>8, <2>1
  <2>7. mconv' \in [Msgs -> Says] /\ \A x \in Msgs : x # m => mconv'[x] = mconv[x]
    BY <1>1, <1>8 DEF Says
  <2>8. Talks(u, m, "plan", c)
    BY <1>1, <1>2, <1>3, <1>6, <1>8, <2>3, <2>4, <2>5, <2>7 DEF Talks, Parts
  <2>9. <<m, "recorded">> \in inb => <<m, "recorded">> \in c.inb
    BY <2>3 DEF Parts
  <2>. HIDE DEF m
  <2>. QED BY <1>5, <2>6, <2>8, <2>9, TalksOn
<1>9. CASE /\ mconv' = Set(mconv, new, "said")
           /\ wq' = IF new = {} THEN wq ELSE Queue(u, b)
           /\ IF mowner[u] = "ai" THEN to("think") ELSE to("finish")
           /\ mowner' = mowner
  <2>. DEFINE c == IF new = {} THEN NoBatch ELSE b
  <2>1. "same" \in Owners \cup {"same"}
    OBVIOUS
  <2>2. c.plan = {} /\ c.cancel = {} /\ c.res = {} /\ c.inb = inb
    <3>1. new = {} => inb = {}
      OBVIOUS
    <3>2. Parts(b, new, {}, "same", inb, {}, {}, {})
      BY <1>4, <2>1
    <3>. HIDE DEF b, new, inb
    <3>. QED BY <3>1, <3>2 DEF Parts, NoBatch
  <2>3. Queues(u, c)
    <3>1. Parts(b, new, {}, "same", inb, {}, {}, {})
      BY <1>4, <2>1
    <3>. HIDE DEF b, new, inb
    <3>. QED BY <1>1, <1>3, <1>9, <3>1, NoBatchType DEF Parts, Queues, Owned
  <2>. HIDE DEF c
  <2>4. mconv' \in [Msgs -> Says] /\ \A x \in Msgs : x # m => mconv'[x] = mconv[x]
    BY <1>1, <1>9 DEF Says, Set
  <2>. DEFINE pc == IF mowner[u] = "ai" THEN "think" ELSE "finish"
  <2>5. pc \in {"think", "plan", "finish"} /\ Steps(u, pc) /\ (pc # "finish" => mowner'[u] # "human")
    BY <1>6, <1>9
  <2>. HIDE DEF pc, new, inb
  <2>6. Talks(u, m, pc, c)
    BY <1>1, <1>2, <1>3, <1>9, <2>2, <2>3, <2>4, <2>5 DEF Talks
  <2>. HIDE DEF m
  <2>. QED BY <1>5, <2>2, <2>5, <2>6, TalksOn
<1>. QED BY <1>7, <1>8, <1>9

LEMMA ThinkStep ==
    ASSUME ChanInv, NEW u \in Users, Think(u)
    PROVE  ChanInv'
<1>. DEFINE m == turn[u].m
            said(own) == [NoBatch EXCEPT !.ans = {m}, !.own = own]
<1>1. /\ Sound /\ Alive /\ turn[u].pc = "think" /\ m \in Msgs /\ From[m] = u /\ turn[u].tries = 0
      /\ mconv \in [Msgs -> Says] /\ mowner \in [Users -> Owners]
  <2>1. Sound /\ Alive /\ turn[u].pc = "think"
    BY DEF ChanInv, Think, At
  <2>2. m \in Msgs /\ From[m] = u /\ TurnShape(u)
    BY <2>1, Working DEF Sound, Shapes
  <2>. QED BY <2>1, <2>2 DEF TurnShape, Flying, Sound, Typed, MemTypes
<1>2. /\ Apart /\ NoCount /\ Spends /\ chain' = chain
      /\ UNCHANGED <<gen, poisoned, halted, outbound, mout, sent, got, unsafe>>
  BY DEF Think, dbVars, histVars, Apart, NoCount, Spends
<1>3. inbox[m] # "received" \/ InQueue(u, m, "recorded")
  BY <1>1 DEF ChanInv, Own, HearsTrue
<1>4. \A pc \in {"plan", "finish"} : GoTo(u, pc) => Steps(u, pc)
  <2>. SUFFICES ASSUME NEW pc \in {"plan", "finish"}, GoTo(u, pc) PROVE Steps(u, pc)
    OBVIOUS
  <2>1. pc \in Pcs /\ pc \notin {"idle"} \cup Flying /\ pc \notin Heads
    BY DEF Pcs, Flying, Heads
  <2>. QED BY <1>1, <1>2, <2>1, GoesTo
<1>5. CASE GoTo(u, "finish") /\ UNCHANGED <<mconv, mowner, wq>>
  <2>1. Queues(u, NoBatch)
    BY <1>5, NoQueues
  <2>2. Talks(u, m, "finish", NoBatch)
    BY <1>1, <1>2, <1>4, <1>5, <2>1 DEF Talks, NoBatch
  <2>. HIDE DEF m
  <2>. QED BY <2>2, TalksOn
<1>6. CASE \E own \in {"same", "queue"} :
            /\ mconv' = [mconv EXCEPT ![turn[u].m] = "answered"]
            /\ mowner' = [mowner EXCEPT ![u] = IF own = "same" THEN @ ELSE own]
            /\ wq' = Queue(u, [NoBatch EXCEPT !.ans = {turn[u].m}, !.own = own])
            /\ GoTo(u, "plan")
  <2>1. PICK own \in {"same", "queue"} :
            /\ mconv' = [mconv EXCEPT ![turn[u].m] = "answered"]
            /\ mowner' = [mowner EXCEPT ![u] = IF own = "same" THEN @ ELSE own]
            /\ wq' = Queue(u, [NoBatch EXCEPT !.ans = {turn[u].m}, !.own = own])
            /\ GoTo(u, "plan")
    BY <1>6
  <2>. DEFINE c == said(own)
  <2>2. Parts(c, {}, {m}, own, {}, {}, {}, {})
    <3>1. /\ {m} \in SUBSET Msgs /\ {} \in SUBSET Msgs /\ {} \in SUBSET Segs /\ {} \in SUBSET (Msgs \X Changes)
          /\ own \in Owners \cup {"same"}
      BY <1>1 DEF Owners
    <3>. HIDE DEF m
    <3>. QED BY <3>1, TalkParts
  <2>3. wq' = Queue(u, c)
    BY <2>1
  <2>. HIDE DEF c
  <2>4. Queues(u, c)
    BY <2>2, <2>3 DEF Queues, Parts, Owned
  <2>5. mowner' \in [Users -> Owners] /\ \A v \in Users \ {u} : mowner'[v] = mowner[v]
    BY <1>1, <2>1 DEF Owners
  <2>6. gen[u] = turn[u].gen /\ m \notin Withdrawals => mowner'[u] # "human"
    BY <1>1, <2>1 DEF ChanInv, Own, StaffTrue
  <2>7. mconv' \in [Msgs -> Says] /\ \A x \in Msgs : x # m => mconv'[x] = mconv[x]
    BY <1>1, <2>1 DEF Says
  <2>8. Steps(u, "plan")
    BY <1>4, <2>1
  <2>9. Talks(u, m, "plan", c)
    BY <1>1, <1>2, <2>2, <2>4, <2>5, <2>7, <2>8 DEF Talks, Parts
  <2>. HIDE DEF m
  <2>. QED BY <1>3, <2>6, <2>9, TalksOn
<1>. QED BY <1>5, <1>6 DEF Think

\* A group is planned.
Group(m, S, q, inb) ==
    /\ S \in SUBSET Segs /\ \A s \in S : MsgOf(s) = m /\ s[2] = boots
    /\ q \in Seq(Segs) /\ Range(q) = S /\ IsInjective(q)
    /\ inb \in SUBSET {<<m, "replied">>} /\ \A s \in S : IsReply(s) => <<m, "replied">> \in inb
PlansNow(u, m, S, q, inb, b, t) ==
    /\ Alive /\ turn[u].pc \in {"think", "plan"} /\ m = turn[u].m
    /\ Parts(b, {}, {}, "same", inb, S, {}, {}) /\ wq' = Queue(u, b)
    /\ mout' = Set(mout, S, "pending") /\ chain' = chain
    /\ t \in TurnType /\ turn' = [turn EXCEPT ![u] = t] /\ t.pc = "commit" /\ t.m = m
    /\ t.gen = turn[u].gen /\ t.todo = q /\ t.tries = 0
    /\ Apart /\ NoSpeech /\ NoCount /\ Spends
    /\ UNCHANGED <<poisoned, halted, outbound, sent, got, unsafe>>

LEMMA PlansGroup ==
    ASSUME ChanInv, NEW u \in Users, NEW m, NEW S, NEW q, NEW inb, NEW b, NEW t,
           Group(m, S, q, inb), PlansNow(u, m, S, q, inb, b, t)
    PROVE  ChanInv'
<1>0. /\ Alive /\ turn[u].pc \in {"think", "plan"} /\ m = turn[u].m
      /\ Parts(b, {}, {}, "same", inb, S, {}, {}) /\ wq' = Queue(u, b)
      /\ mout' = Set(mout, S, "pending") /\ chain' = chain
      /\ t \in TurnType /\ turn' = [turn EXCEPT ![u] = t] /\ t.pc = "commit" /\ t.m = m
      /\ t.gen = turn[u].gen /\ t.todo = q /\ t.tries = 0
      /\ Apart /\ NoSpeech /\ NoCount /\ Spends
      /\ UNCHANGED <<poisoned, halted, outbound, sent, got, unsafe>>
      /\ S \in SUBSET Segs /\ (\A s \in S : MsgOf(s) = m /\ s[2] = boots)
      /\ q \in Seq(Segs) /\ Range(q) = S /\ IsInjective(q)
      /\ inb \in SUBSET {<<m, "replied">>} /\ \A s \in S : IsReply(s) => <<m, "replied">> \in inb
  BY DEF Group, PlansNow
<1>1. /\ Sound /\ chain[u] # <<>> /\ m \in Msgs /\ m = Head(chain[u]) /\ From[m] = u
      /\ mout \in [Segs -> OutStatus]
  BY <1>0, Working DEF ChanInv, Sound, Typed, MemTypes
<1>2. /\ inbox[m] \in {"received", "recorded"} /\ ~HasPlanned(u, m) /\ m \in Range(chain[u])
      /\ inbox[m] # "received" \/ InQueue(u, m, "recorded")
  <2>1. HearsTrue(u)
    BY DEF ChanInv, Own
  <2>2. m \in Range(chain[u])
    BY <1>0, <1>1, HeadOfChain DEF Range
  <2>. QED BY <1>0, <2>1, <2>2 DEF HearsTrue, HasPlanned, PlannedPcs
<1>3. \A s \in S : UserOf(s) = u /\ mout[s] = "none" /\ sent[s] = <<>>
  <2>1. ChainTrue(u) /\ boots \in Nat
    BY <1>0, <1>1 DEF ChanInv, Rows, Sound, Typed, HistTypes
  <2>. QED BY <1>0, <1>1, <1>2, <2>1 DEF UserOf, ChainTrue, Used
<1>4. \A s \in Segs : mout'[s] = IF s \in S THEN "pending" ELSE mout[s]
  BY <1>0, <1>1 DEF Set
<1>5. b \in Batch /\ b.inb = inb /\ b.plan = S /\ b.cancel = {} /\ b.res = {}
  BY <1>0, <1>0 DEF Parts
<1>6. GoesOn(u) /\ turn'[u] = t
  BY <1>0, <1>1, TurnSet DEF Heads
<1>7. Queues(u, b)
  BY <1>0, <1>1, <1>3, <1>5 DEF Queues, Owned
<1>8. TakesOn(u, b)
  BY <1>0, <1>1, <1>2, <1>5, <1>6 DEF TakesOn, AtHead, HasPlanned, PlannedPcs
<1>9. Moves(u, b)
  <2>1. mout' \in [Segs -> OutStatus] /\ outbound' = outbound /\ outbound \in [Segs -> OutStatus]
    BY <1>0, <1>1 DEF Set, OutStatus, Sound, Typed, DbTypes
  <2>2. Agrees(b)'
    BY <1>0, <1>4, <1>5 DEF Agrees, Held
  <2>3. <<"none", "pending">> \in Forth
    BY DEF Forth
  <2>. QED BY <1>0, <1>3, <1>4, <1>5, <2>1, <2>2, <2>3 DEF Moves
<1>10. Leaves(u) /\ CrashLoopEnds'
  BY <1>0, <1>1, LeavesRest, SameCounts DEF ChanInv, Sound, Typed, MemTypes
<1>11. Does(u, b)
  BY <1>0, <1>1, <1>7, <1>8, <1>9, <1>10, NoPosts DEF Does
<1>12. ASSUME NEW s \in Segs, UserOf(s) = u PROVE SentTrue(s)'
  <2>1. Safe(s) => mout'[s] = mout[s] /\ mout[s] # "sending"
    BY <1>0, <1>3, <1>4, <1>12, NotSending DEF Safe, Flying
  <2>2. SentKeeps(s)
    BY <1>0, <1>6, <1>12, <2>1 DEF SentKeeps, InFlight, Flying
  <2>. QED BY <1>0, <1>11, <1>12, <2>2, SentKept
<1>13. CountTrue(u)' /\ HearsTrue(u)' /\ HeadTrue(u)'
  BY <1>0, <1>6 DEF CountTrue, HearsTrue, HeadTrue
<1>14. TodoTrue(u)'
  BY <1>0, <1>3, <1>4, <1>6 DEF TodoTrue, Waits
<1>15. StaffTrue(u)'
  BY <1>0, <1>6 DEF ChanInv, Own, StaffTrue, Sending, NoSpeech
<1>. QED BY <1>0, <1>10, <1>11, <1>12, <1>13, <1>14, <1>15, DoesInv DEF Own

LEMMA ThrowStep ==
    ASSUME ChanInv, NEW u \in Users, Throw(u)
    PROVE  ChanInv'
<1>. DEFINE m == turn[u].m
            s == <<m, boots, 0>>
            b == [NoBatch EXCEPT !.plan = {s}]
            t == [turn[u] EXCEPT !.pc = "commit", !.kind = "sorry", !.todo = <<s>>]
<1>1. /\ Sound /\ Alive /\ turn[u].pc = "think" /\ m \in Msgs /\ turn[u] \in TurnType
      /\ turn \in [Users -> TurnType] /\ mout \in [Segs -> OutStatus] /\ turn[u].tries = 0
  <2>1. Sound /\ Alive /\ turn[u].pc = "think"
    BY DEF ChanInv, Throw, At
  <2>2. m \in Msgs /\ TurnShape(u)
    BY <2>1, Working DEF Sound, Shapes
  <2>. QED BY <2>1, <2>2 DEF TurnShape, Flying, Sound, Typed, MemTypes
<1>2. s \in Segs /\ ~IsReply(s) /\ MsgOf(s) = m /\ s[2] = boots
  <2>1. 0 \in 0..faults.segs
    BY <1>1 DEF Sound, Typed, HistTypes, Limits
  <2>2. s \in Segs
    BY <1>1, <2>1, NewSegs
  <2>. QED BY <2>2 DEF IsReply, MsgOf
<1>3. /\ Apart /\ NoSpeech /\ NoCount /\ Spends /\ chain' = chain
      /\ UNCHANGED <<poisoned, halted, outbound, sent, got, unsafe>>
  BY DEF Throw, dbVars, histVars, Apart, NoSpeech, NoCount, Spends
<1>4. /\ mout' = [mout EXCEPT ![s] = "pending"] /\ wq' = Queue(u, b)
      /\ turn' = [turn EXCEPT ![u].pc = "commit", ![u].kind = "sorry", ![u].todo = <<s>>]
  BY DEF Throw
<1>5. t \in TurnType
  <2>1. <<s>> \in Seq(Segs)
    BY <1>2
  <2>. HIDE DEF s
  <2>. QED BY <1>1, <2>1 DEF TurnType, Pcs
<1>6. t.pc = "commit" /\ t.m = m /\ t.gen = turn[u].gen /\ t.todo = <<s>> /\ t.tries = 0
  <2>. HIDE DEF s
  <2>. QED BY <1>1 DEF TurnType
<1>7. turn' = [turn EXCEPT ![u] = t]
  <2>. HIDE DEF s
  <2>. QED BY <1>1, <1>4
<1>. DEFINE S == {s}
            q == <<s>>
            inb == {}
<1>8. S \in SUBSET Segs /\ \A x \in S : MsgOf(x) = m /\ x[2] = boots /\ ~IsReply(x)
  BY <1>2
<1>9. q \in Seq(Segs) /\ Range(q) = S /\ IsInjective(q)
  <2>1. q \in Seq(Segs) /\ DOMAIN q = {1} /\ q[1] = s
    <3>. HIDE DEF s
    <3>. QED BY <1>2
  <2>. HIDE DEF q, s
  <2>. QED BY <2>1 DEF Range, IsInjective
<1>10. mout' = Set(mout, S, "pending")
  <2>. HIDE DEF s
  <2>. QED BY <1>1, <1>4 DEF Set
<1>11. Parts(b, {}, {}, "same", {}, S, {}, {})
  <2>1. {} \in SUBSET (Msgs \X Changes) /\ {} \in SUBSET Segs /\ {} \in SUBSET (Segs \X Results)
    OBVIOUS
  <2>. HIDE DEF s
  <2>. QED BY <1>8, <2>1, LedgerParts
<1>12. inb \in SUBSET {<<m, "replied">>} /\ Parts(b, {}, {}, "same", inb, S, {}, {}) /\ t.todo = q
  BY <1>6, <1>11
<1>. HIDE DEF S, q, inb, b, t
<1>13. Group(m, S, q, inb)
  BY <1>8, <1>9, <1>12 DEF Group
<1>14. PlansNow(u, m, S, q, inb, b, t)
  BY <1>1, <1>3, <1>4, <1>5, <1>6, <1>7, <1>10, <1>12 DEF PlansNow
<1>. QED BY <1>13, <1>14, PlansGroup

\* The turn ends with its row still to be finished, or waits at the next segment.
LEMMA StopsSending ==
    ASSUME ChanInv, NEW u \in Users, Alive, turn[u].pc # "idle", turn[u].pc \notin Flying,
           Steps(u, "finish"), UNCHANGED <<mout, wq>>,
           Apart, NoSpeech, NoCount, Spends,
           UNCHANGED <<poisoned, halted, outbound, sent, got, unsafe>>
    PROVE  ChanInv'
<1>1. /\ Sound /\ GoesOn(u) /\ turn'[u].pc = "finish" /\ turn'[u].m = turn[u].m
      /\ turn'[u].gen = turn[u].gen /\ turn[u].gen <= gen[u] /\ gen' = gen
  BY DEF ChanInv, Steps, Own, StaffTrue, NoSpeech
<1>2. TakesOn(u, NoBatch)
  BY <1>1 DEF TakesOn, NoBatch, HasPlanned, PlannedPcs
<1>3. Leaves(u) /\ CrashLoopEnds'
  BY <1>1, LeavesRest, SameCounts DEF ChanInv, Sound, Typed, MemTypes
<1>4. Does(u, NoBatch)
  BY <1>1, <1>2, <1>3, NoQueues, NoMoves, NoPosts DEF Does, NoBatch
<1>5. \A s \in Segs : UserOf(s) = u => SentTrue(s)'
  BY <1>1, <1>4, MovesOn DEF Flying
<1>6. Own(u)'
  BY <1>1, <1>5, Resting
<1>. QED BY <1>3, <1>4, <1>6, DoesInv

LEMMA PlanStep ==
    ASSUME ChanInv, NEW u \in Users, Plan(u)
    PROVE  ChanInv'
<1>. DEFINE m == turn[u].m
            seg(n) == {<<m, boots, i>> : i \in 1..n}
<1>1. /\ Sound /\ Alive /\ turn[u].pc = "plan" /\ m \in Msgs /\ turn[u] \in TurnType
      /\ turn \in [Users -> TurnType] /\ turn[u].tries = 0 /\ From[m] = u /\ chain[u] # <<>>
      /\ m = Head(chain[u])
  <2>1. Sound /\ Alive /\ turn[u].pc = "plan"
    BY DEF ChanInv, Plan, At
  <2>2. m \in Msgs /\ TurnShape(u) /\ From[m] = u /\ chain[u] # <<>> /\ m = Head(chain[u])
    BY <2>1, Working DEF Sound, Shapes
  <2>. QED BY <2>1, <2>2 DEF TurnShape, Flying, Sound, Typed, MemTypes
<1>2. /\ Apart /\ NoSpeech /\ NoCount /\ Spends /\ chain' = chain
      /\ UNCHANGED <<poisoned, halted, outbound, sent, got, unsafe>>
  BY DEF Plan, dbVars, histVars, Apart, NoSpeech, NoCount, Spends
<1>3. CASE \E n \in 1..faults.segs :
               /\ mout' = Set(mout, seg(n), "pending")
               /\ wq' = Queue(u, PlanBatch(seg(n), m))
               /\ turn' = [turn EXCEPT ![u].pc = "commit", ![u].todo = InOrder(seg(n))]
  <2>1. PICK n \in 1..faults.segs :
               /\ mout' = Set(mout, seg(n), "pending")
               /\ wq' = Queue(u, PlanBatch(seg(n), m))
               /\ turn' = [turn EXCEPT ![u].pc = "commit", ![u].todo = InOrder(seg(n))]
    BY <1>3
  <2>. DEFINE S == seg(n)
              q == InOrder(S)
              inb == {<<m, "replied">>}
              b == PlanBatch(S, m)
              t == [turn[u] EXCEPT !.pc = "commit", !.todo = q]
  <2>2. n \in 0..faults.segs
    BY <2>1
  <2>3. S \in SUBSET Segs /\ \A s \in S : MsgOf(s) = m /\ s[2] = boots
    BY <1>1, <2>2, NewSegs
  <2>4. mout' = Set(mout, S, "pending") /\ wq' = Queue(u, b)
        /\ turn' = [turn EXCEPT ![u].pc = "commit", ![u].todo = q]
    BY <2>1
  <2>. HIDE DEF S
  <2>5. q \in Seq(Segs) /\ Range(q) = S /\ IsInjective(q)
    BY <2>3, SegmentsInOrder
  <2>. HIDE DEF q
  <2>6. t \in TurnType
    BY <1>1, <2>5 DEF TurnType, Pcs
  <2>7. t.pc = "commit" /\ t.m = m /\ t.gen = turn[u].gen /\ t.todo = q /\ t.tries = 0
    BY <1>1 DEF TurnType
  <2>8. turn' = [turn EXCEPT ![u] = t]
    BY <1>1, <2>4
  <2>9. Parts(b, {}, {}, "same", inb, S, {}, {})
    <3>1. inb \in SUBSET (Msgs \X Changes) /\ {} \in SUBSET Segs /\ {} \in SUBSET (Segs \X Results)
      BY <1>1 DEF Changes
    <3>2. b = [NoBatch EXCEPT !.plan = S, !.inb = inb]
      BY DEF PlanBatch
    <3>. HIDE DEF b, inb
    <3>. QED BY <2>3, <3>1, <3>2, LedgerParts
  <2>10. inb \in SUBSET {<<m, "replied">>} /\ <<m, "replied">> \in inb
    OBVIOUS
  <2>. HIDE DEF inb, b, t
  <2>11. Group(m, S, q, inb)
    BY <2>3, <2>5, <2>10 DEF Group
  <2>12. PlansNow(u, m, S, q, inb, b, t)
    BY <1>1, <1>2, <2>4, <2>6, <2>7, <2>8, <2>9 DEF PlansNow
  <2>. QED BY <2>11, <2>12, PlansGroup
<1>4. CASE GoTo(u, "finish") /\ UNCHANGED <<mout, wq>>
  <2>1. Steps(u, "finish")
    <3>1. "finish" \in Pcs /\ "finish" \notin {"idle"} \cup Flying /\ "finish" \notin Heads
      BY DEF Pcs, Flying, Heads
    <3>. QED BY <1>1, <1>2, <1>4, <3>1, GoesTo
  <2>. QED BY <1>1, <1>2, <1>4, <2>1, StopsSending DEF Flying
<1>. QED BY <1>3, <1>4 DEF Plan

-----------------------------------------------------------------------------
(* The tables of transitions, by what they allow. *)

LEMMA Table ==
    ASSUME NEW from, NEW to, NEW w
    PROVE  CanMove(from, to, {w}) <=>
             \/ w = "plan" /\ from = "none" /\ to = "pending"
             \/ w = "mark" /\ from = "pending" /\ to = "sending"
             \/ w = "unmark" /\ from = "sending" /\ to = "pending"
             \/ w = "cancel" /\ from \in {"pending", "sending"} /\ to = "cancelled"
             \/ w = "recover" /\ from = "pending" /\ to = "cancelled"
             \/ w = "recover" /\ from = "sending" /\ to = "unknown"
             \/ w = "settle" /\ from \in {"none", "pending", "sending"} /\ to \in {"accepted", "rejected", "unknown"}
             \/ w = "settle" /\ from = "unknown" /\ to \in {"accepted", "unknown"}
             \/ w = "receipt" /\ from \in {"none", "pending", "sending", "accepted", "unknown"} /\ to = "failed"
<1>1. CanMove(from, to, {w}) <=> <<from, to, w>> \in OutboundTransitions
  BY DEF CanMove
<1>. QED BY <1>1 DEF OutboundTransitions

LEMMA SettleTable ==
    ASSUME NEW from, NEW to
    PROVE  CanMove(from, to, {"settle"}) <=>
             \/ from \in {"none", "pending", "sending"} /\ to \in {"accepted", "rejected", "unknown"}
             \/ from = "unknown" /\ to \in {"accepted", "unknown"}
<1>1. CanMove(from, to, {"settle"}) <=> <<from, to, "settle">> \in OutboundTransitions
  BY DEF CanMove
<1>. QED BY <1>1 DEF OutboundTransitions

LEMMA TableTypes ==
    ASSUME NEW from \in OutStatus, NEW to \in OutStatus, NEW W
    PROVE  Moved(from, to, W) \in OutStatus /\ Moved(from, to, W) = IF CanMove(from, to, W) THEN to ELSE from
  BY DEF Moved

-----------------------------------------------------------------------------
(* Sending a group, action by action. *)

\* Only what is waited for on the head of the group has been asked for.
LEMMA AtTheHead ==
    ASSUME ChanInv, NEW u \in Users, turn[u].pc \in Heads, NEW s, s = Head(turn[u].todo)
    PROVE  /\ Sound /\ Alive /\ s \in Segs /\ UserOf(s) = u /\ MsgOf(s) = turn[u].m /\ s \in Range(turn[u].todo)
           /\ mout[s] \in OutStatus \ {"none"} /\ (InFlight(s) <=> turn[u].pc \in Flying)
           /\ (s \in unsafe \/ InFlight(s) \/ Waits(u, s))
           /\ \A x \in Range(turn[u].todo) : x \in Segs /\ UserOf(x) = u /\ MsgOf(x) = turn[u].m
                  /\ mout[x] # "none" /\ (x # s => x \in unsafe \/ (sent[x] = <<>> /\ mout[x] = "pending"))
<1>1. Sound /\ TodoTrue(u)
  BY DEF ChanInv, Own
<1>2. Alive
  BY <1>1, NoTurnType DEF Sound, Shapes, Down, Heads
<1>3. s \in Segs /\ s \in Range(turn[u].todo) /\ turn[u].todo \in Seq(Segs)
  BY <1>1, HeadOfTodo
<1>4. turn[u].pc \in Sending
  BY DEF Sending
<1>5. From[turn[u].m] = u
  BY <1>1, Working DEF Heads
<1>6. \A x \in Range(turn[u].todo) : x \in Segs /\ MsgOf(x) = turn[u].m /\ UserOf(x) = u /\ mout[x] # "none"
                                    /\ (x \in unsafe \/ InFlight(x) \/ Waits(u, x))
  BY <1>1, <1>3, <1>4, <1>5 DEF TodoTrue, UserOf, Range
<1>7. InFlight(s) <=> turn[u].pc \in Flying
  BY <1>3, <1>6 DEF InFlight
<1>8. \A x \in Range(turn[u].todo) : x # s => ~InFlight(x)
  BY <1>6 DEF InFlight
<1>9. mout[s] \in OutStatus
  BY <1>1, <1>3 DEF Sound, Typed, MemTypes
<1>. QED BY <1>1, <1>2, <1>3, <1>6, <1>7, <1>8, <1>9 DEF Waits

\* The rest of a group.
LEMMA RestOfTodo ==
    ASSUME ChanInv, NEW u \in Users, turn[u].pc \in Heads
    PROVE  /\ Tail(turn[u].todo) \in Seq(Segs) /\ IsInjective(Tail(turn[u].todo))
           /\ \A x \in Range(Tail(turn[u].todo)) : x \in Range(turn[u].todo) /\ x # Head(turn[u].todo)
<1>. DEFINE q == turn[u].todo
<1>1. q \in Seq(Segs) /\ q # <<>> /\ IsInjective(q)
  BY HeadOfTodo DEF ChanInv, Own, TodoTrue, Sending
<1>. HIDE DEF q
<1>2. /\ Tail(q) \in Seq(Segs) /\ Head(q) = q[1] /\ Len(q) \in Nat /\ DOMAIN q = 1..Len(q)
      /\ DOMAIN Tail(q) = 1..(Len(q) - 1) /\ \A i \in 1..(Len(q) - 1) : Tail(q)[i] = q[i + 1]
      /\ 1 \in 1..Len(q)
  BY <1>1
<1>3. \A i \in 1..(Len(q) - 1) : i + 1 \in 1..Len(q) /\ i + 1 # 1
  BY <1>2
<1>4. ASSUME NEW i \in DOMAIN Tail(q), NEW j \in DOMAIN Tail(q), Tail(q)[i] = Tail(q)[j] PROVE i = j
  <2>1. i + 1 = j + 1
    BY <1>1, <1>2, <1>3, <1>4 DEF IsInjective
  <2>. QED BY <1>2, <2>1
<1>5. ASSUME NEW x \in Range(Tail(q)) PROVE x \in Range(q) /\ x # Head(q)
  <2>1. PICK i \in 1..(Len(q) - 1) : x = q[i + 1]
    BY <1>2, <1>5 DEF Range
  <2>2. i + 1 \in DOMAIN q /\ i + 1 # 1 /\ 1 \in DOMAIN q
    BY <1>2, <1>3
  <2>. QED BY <1>1, <1>2, <2>1, <2>2 DEF Range, IsInjective
<1>6. IsInjective(Tail(q))
  BY <1>4 DEF IsInjective
<1>. QED BY <1>2, <1>5, <1>6 DEF q

\* A turn that goes on sending, nothing being asked for: commit, send, mark.
SendsOn(u, pc) ==
    /\ Alive /\ turn[u].pc \in {"commit", "send"} /\ pc \in {"send", "mark"} /\ Steps(u, pc)
    /\ Apart /\ NoSpeech /\ NoCount /\ Spends
    /\ UNCHANGED <<mout, wq, poisoned, halted, outbound, sent, got, unsafe>>

LEMMA SendsOnKeeps ==
    ASSUME ChanInv, NEW u \in Users, NEW pc, SendsOn(u, pc)
    PROVE  ChanInv'
<1>0. /\ Alive /\ turn[u].pc \in {"commit", "send"} /\ pc \in {"send", "mark"}
      /\ Apart /\ NoSpeech /\ NoCount /\ Spends
      /\ UNCHANGED <<mout, wq, poisoned, halted, outbound, sent, got, unsafe>>
  BY DEF SendsOn
<1>1. /\ Sound /\ GoesOn(u) /\ turn'[u].pc = pc /\ turn'[u].m = turn[u].m
      /\ turn'[u].gen = turn[u].gen /\ turn'[u].todo = turn[u].todo
  BY DEF ChanInv, SendsOn, Steps
<1>2. TakesOn(u, NoBatch)
  BY <1>0, <1>1 DEF TakesOn, NoBatch, HasPlanned, PlannedPcs
<1>3. Leaves(u) /\ CrashLoopEnds'
  BY <1>0, <1>1, LeavesRest, SameCounts DEF ChanInv, Sound, Typed, MemTypes
<1>4. Does(u, NoBatch)
  BY <1>0, <1>1, <1>2, <1>3, NoQueues, NoMoves, NoPosts DEF Does, NoBatch
<1>5. \A s \in Segs : UserOf(s) = u => SentTrue(s)'
  BY <1>0, <1>1, <1>4, MovesOn DEF Flying
<1>6. CountTrue(u)' /\ HearsTrue(u)' /\ HeadTrue(u)'
  BY <1>0, <1>1 DEF CountTrue, HearsTrue, HeadTrue
<1>7. StaffTrue(u)'
  BY <1>0, <1>1 DEF ChanInv, Own, StaffTrue, Sending, Heads, NoSpeech
<1>8. TodoTrue(u)'
  <2>1. TodoTrue(u) /\ turn[u].todo \in Seq(Segs) /\ From[turn[u].m] = u
    BY <1>0, <1>1, Working DEF ChanInv, Own, TurnType
  <2>2. ASSUME NEW s \in Range(turn[u].todo)
        PROVE  MsgOf(s) = turn[u].m /\ mout[s] # "none" /\ (s \in unsafe \/ Waits(u, s)')
    <3>1. MsgOf(s) = turn[u].m /\ mout[s] # "none" /\ (s \in unsafe \/ InFlight(s) \/ Waits(u, s))
      BY <1>0, <2>1 DEF TodoTrue, Sending
    <3>2. ~InFlight(s)
      BY <1>0, <2>1, <3>1 DEF InFlight, UserOf, Flying
    <3>. QED BY <1>0, <1>1, <3>1, <3>2 DEF Waits
  <2>. QED BY <1>0, <1>1, <2>1, <2>2 DEF TodoTrue, Sending
<1>. QED BY <1>3, <1>4, <1>5, <1>6, <1>7, <1>8, DoesInv DEF Own

LEMMA CommitOutboundStep ==
    ASSUME ChanInv, NEW u \in Users, CommitOutbound(u)
    PROVE  ChanInv'
<1>1. /\ Sound /\ Alive /\ turn[u].pc = "commit" /\ turn[u].tries = 0
  BY DEF ChanInv, CommitOutbound, At, Sound, Shapes, TurnShape, Flying
<1>2. Spends
  BY DEF CommitOutbound, Spends, Limits
<1>3. /\ Apart /\ NoSpeech /\ NoCount /\ chain' = chain /\ GoTo(u, "send")
      /\ UNCHANGED <<mout, wq, poisoned, halted, outbound, sent, got, unsafe>>
  BY DEF CommitOutbound, dbVars, Apart, NoSpeech, NoCount
<1>4. Steps(u, "send")
  <2>1. "send" \in Pcs /\ "send" \notin {"idle"} \cup Flying /\ "send" \notin Heads
    BY DEF Pcs, Flying, Heads
  <2>. QED BY <1>1, <1>3, <2>1, GoesTo
<1>5. SendsOn(u, "send")
  BY <1>1, <1>2, <1>3, <1>4 DEF SendsOn
<1>. QED BY <1>5, SendsOnKeeps

\* What is left of a group that stops at the deadline is left to the next start.
LEMMA DeferredKeeps ==
    ASSUME ChanInv, NEW u \in Users, Alive, turn[u].pc \in {"send", "marked"}, Deferred(u),
           Apart, NoSpeech, NoCount, Spends,
           UNCHANGED <<mout, wq, poisoned, halted, outbound, sent, got, unsafe>>
    PROVE  ChanInv'
<1>1. /\ Sound /\ turn[u].pc # "idle" /\ turn[u].pc \notin Flying /\ turn[u].tries = 0 /\ chain[u] # <<>>
  <2>1. Sound /\ turn[u].pc \notin Flying
    BY DEF ChanInv, Flying
  <2>. QED BY <2>1, Working DEF Sound, Shapes, TurnShape
<1>2. CASE GoTo(u, "finish") /\ UNCHANGED chain
  <2>1. "finish" \in Pcs /\ "finish" \notin {"idle"} \cup Flying /\ "finish" \notin Heads
    BY DEF Pcs, Flying, Heads
  <2>2. Steps(u, "finish")
    BY <1>1, <1>2, <2>1, GoesTo
  <2>. QED BY <1>1, <2>2, StopsSending
<1>3. CASE Pop(u)
  <2>1. Leaves(u) /\ CrashLoopEnds'
    BY <1>1, LeavesRest, SameCounts DEF ChanInv, Sound, Typed, MemTypes
  <2>. QED BY <1>1, <1>3, <2>1, LeavesChain
<1>. QED BY <1>2, <1>3 DEF Deferred

\* Taken over: what is left of the group is cancelled.
LEMMA DropsRest ==
    ASSUME ChanInv, NEW u \in Users, Alive, turn[u].pc \in {"send", "marked"},
           NEW C, C = {s \in Range(turn[u].todo) : mout[s] \in {"pending", "sending"}},
           mout' = Set(mout, C, "cancelled"), wq' = Queue(u, [NoBatch EXCEPT !.cancel = C]),
           GoTo(u, "finish"), chain' = chain,
           Apart, NoSpeech, NoCount, Spends,
           UNCHANGED <<poisoned, halted, outbound, sent, got, unsafe>>
    PROVE  ChanInv'
<1>. DEFINE b == [NoBatch EXCEPT !.cancel = C]
<1>1. /\ Sound /\ turn[u].pc # "idle" /\ turn[u].pc \notin Flying /\ turn[u].tries = 0 /\ chain[u] # <<>>
      /\ From[turn[u].m] = u /\ turn[u].todo \in Seq(Segs) /\ turn[u].pc \in Sending
      /\ mout \in [Segs -> OutStatus]
  <2>1. Sound /\ turn[u].pc \notin Flying /\ turn[u].pc \in Sending
    BY DEF ChanInv, Flying, Sending, Heads
  <2>2. turn[u].pc # "idle" /\ chain[u] # <<>> /\ From[turn[u].m] = u /\ turn[u].todo \in Seq(Segs)
    BY <2>1, Working DEF TurnType
  <2>. QED BY <2>1, <2>2 DEF Sound, Shapes, TurnShape, Typed, MemTypes
<1>2. \A s \in C : /\ s \in Segs /\ UserOf(s) = u /\ mout[s] \in {"pending", "sending"}
                   /\ s \in unsafe \/ sent[s] = <<>>
  <2>. SUFFICES ASSUME NEW s \in C
                PROVE  /\ s \in Segs /\ UserOf(s) = u /\ mout[s] \in {"pending", "sending"}
                       /\ s \in unsafe \/ sent[s] = <<>>
    OBVIOUS
  <2>1. s \in Range(turn[u].todo) /\ mout[s] \in {"pending", "sending"}
    OBVIOUS
  <2>2. MsgOf(s) = turn[u].m /\ s \in Segs /\ (s \in unsafe \/ InFlight(s) \/ Waits(u, s))
    BY <1>1, <2>1 DEF ChanInv, Own, TodoTrue, Range
  <2>3. UserOf(s) = u
    BY <1>1, <2>2 DEF UserOf
  <2>. QED BY <1>1, <2>1, <2>2, <2>3 DEF InFlight, Waits
<1>3. C \in SUBSET Segs
  BY <1>2
<1>4. Parts(b, {}, {}, "same", {}, {}, C, {})
  <2>1. {} \in SUBSET (Msgs \X Changes) /\ {} \in SUBSET Segs /\ {} \in SUBSET (Segs \X Results)
    OBVIOUS
  <2>. QED BY <1>3, <2>1, LedgerParts
<1>5. wq' = Queue(u, b)
  OBVIOUS
<1>. HIDE DEF b
<1>6. Queues(u, b)
  BY <1>2, <1>4, <1>5 DEF Queues, Parts, Owned
<1>7. Steps(u, "finish")
  <2>1. "finish" \in Pcs /\ "finish" \notin {"idle"} \cup Flying /\ "finish" \notin Heads
    BY DEF Pcs, Flying, Heads
  <2>. QED BY <1>1, <2>1, GoesTo
<1>8. TakesOn(u, b)
  BY <1>1, <1>4, <1>7 DEF TakesOn, Parts, Steps, HasPlanned, PlannedPcs
<1>9. \A s \in Segs : mout'[s] = IF s \in C THEN "cancelled" ELSE mout[s]
  BY <1>1 DEF Set
<1>10. Moves(u, b)
  <2>1. mout' \in [Segs -> OutStatus] /\ outbound' = outbound /\ outbound \in [Segs -> OutStatus]
    BY <1>1 DEF Set, OutStatus, Sound, Typed, DbTypes
  <2>2. Agrees(b)'
    BY <1>3, <1>4, <1>9 DEF Agrees, Parts
  <2>3. \A s \in C : <<mout[s], "cancelled">> \in Forth /\ mout[s] # "none"
    BY <1>2 DEF Forth
  <2>. QED BY <1>2, <1>4, <1>9, <2>1, <2>2, <2>3 DEF Moves, Parts
<1>11. Leaves(u) /\ CrashLoopEnds'
  BY <1>1, LeavesRest, SameCounts DEF ChanInv, Sound, Typed, MemTypes
<1>12. Does(u, b)
  BY <1>1, <1>6, <1>8, <1>10, <1>11, NoPosts DEF Does
<1>13. ASSUME NEW s \in Segs, UserOf(s) = u PROVE SentTrue(s)'
  <2>1. Safe(s) => mout'[s] = mout[s] /\ mout[s] # "sending"
    BY <1>1, <1>2, <1>9, <1>13, NotSending DEF Safe
  <2>2. SentKeeps(s)
    BY <1>7, <1>13, <2>1 DEF SentKeeps, InFlight, Steps, Flying
  <2>. QED BY <1>12, <1>13, <2>2, SentKept
<1>14. Own(u)'
  <2>1. turn'[u].gen = turn[u].gen /\ turn[u].gen <= gen[u] /\ gen' = gen /\ turn'[u].pc = "finish"
    BY <1>7 DEF Steps, ChanInv, Own, StaffTrue, NoSpeech
  <2>. QED BY <1>13, <2>1, Resting
<1>. QED BY <1>11, <1>12, <1>14, DoesInv

LEMMA NextSegmentStep ==
    ASSUME ChanInv, NEW u \in Users, NextSegment(u)
    PROVE  ChanInv'
<1>1. /\ Sound /\ Alive /\ turn[u].pc = "send" /\ turn[u].tries = 0
  BY DEF ChanInv, NextSegment, At, Sound, Shapes, TurnShape, Flying
<1>2. /\ Apart /\ NoSpeech /\ NoCount /\ Spends
      /\ UNCHANGED <<poisoned, halted, outbound, sent, got, unsafe>>
  BY DEF NextSegment, dbVars, histVars, Apart, NoSpeech, NoCount, Spends
<1>3. CASE GoTo(u, "finish") /\ UNCHANGED <<chain, mout, wq>>
  <2>1. "finish" \in Pcs /\ "finish" \notin {"idle"} \cup Flying /\ "finish" \notin Heads
    BY DEF Pcs, Flying, Heads
  <2>2. Steps(u, "finish")
    BY <1>1, <1>3, <2>1, GoesTo
  <2>. QED BY <1>1, <1>2, <1>3, <2>2, StopsSending DEF Flying
<1>4. CASE Deferred(u) /\ UNCHANGED <<mout, wq>>
  BY <1>1, <1>2, <1>4, DeferredKeeps
<1>5. CASE DropRest(u, Range(turn[u].todo))
  <2>. DEFINE C == {s \in Range(turn[u].todo) : CanMove(mout[s], "cancelled", {"cancel"})}
              D == {s \in Range(turn[u].todo) : mout[s] \in {"pending", "sending"}}
  <2>1. C = D
    BY Table
  <2>2. mout' = Set(mout, C, "cancelled") /\ wq' = Queue(u, [NoBatch EXCEPT !.cancel = C])
        /\ GoTo(u, "finish") /\ chain' = chain
    BY <1>5 DEF DropRest
  <2>. HIDE DEF C
  <2>. QED BY <1>1, <1>2, <2>1, <2>2, DropsRest
<1>6. CASE turn[u].todo # <<>> /\ GoTo(u, "mark") /\ UNCHANGED <<chain, mout, wq>>
  <2>1. "mark" \in Pcs /\ "mark" \notin {"idle"} \cup Flying
    BY DEF Pcs, Flying
  <2>2. Steps(u, "mark")
    BY <1>1, <1>6, <2>1, GoesTo
  <2>3. SendsOn(u, "mark")
    BY <1>1, <1>2, <1>6, <2>2 DEF SendsOn
  <2>. QED BY <2>3, SendsOnKeeps
<1>. QED BY <1>3, <1>4, <1>5, <1>6 DEF NextSegment

\* The head of the group is settled, and the turn goes on to the next segment.
Settles(u, s, result) ==
    /\ turn[u].pc \in {"mark", "wait", "taken", "backoff"} /\ s = Head(turn[u].todo) /\ Settle(u, result)
    /\ result \in {"accepted", "rejected", "unknown"} /\ chain' = chain
    /\ Apart /\ NoSpeech /\ NoCount /\ Spends
    /\ UNCHANGED <<poisoned, halted, outbound, sent, got, unsafe>>

\* The turn of the next segment.
NextTurn(u) ==
    /\ GoesOn(u) /\ turn'[u].pc = "send" /\ turn'[u].m = turn[u].m /\ turn'[u].gen = turn[u].gen
    /\ turn'[u].todo = Tail(turn[u].todo)

LEMMA TurnsToNext ==
    ASSUME ChanInv, NEW u \in Users, turn[u].pc \in Heads, chain' = chain,
           \/ turn' = [turn EXCEPT ![u].pc = "send", ![u].todo = Tail(@), ![u].tries = 0,
                                   ![u].outc = "none", ![u].mark = "none"]
           \/ turn[u].tries = 0 /\ turn' = [turn EXCEPT ![u].pc = "send", ![u].todo = Tail(@)]
    PROVE  NextTurn(u)
<1>1. /\ Sound /\ turn \in [Users -> TurnType] /\ turn[u] \in TurnType /\ Tail(turn[u].todo) \in Seq(Segs)
      /\ chain[u] # <<>> /\ turn[u].m = Head(chain[u]) /\ turn[u].pc # "idle"
  <2>1. Sound /\ turn[u].pc # "idle"
    BY DEF ChanInv, Heads
  <2>2. chain[u] # <<>> /\ turn[u].m = Head(chain[u])
    BY <2>1, Working
  <2>. QED BY <2>1, <2>2, RestOfTodo DEF Sound, Typed, MemTypes
<1>2. /\ "send" \in Pcs /\ 0 \in 0..MaxTries /\ "none" \in Outcs /\ "none" \in Marks /\ "send" \notin Heads
      /\ "send" \notin Flying
  BY ChannelAssumption DEF Pcs, Outcs, Marks, Heads, Flying
<1>3. CASE turn' = [turn EXCEPT ![u].pc = "send", ![u].todo = Tail(@), ![u].tries = 0,
                                ![u].outc = "none", ![u].mark = "none"]
  <2>. DEFINE t == [turn[u] EXCEPT !.pc = "send", !.todo = Tail(@), !.tries = 0,
                                   !.outc = "none", !.mark = "none"]
  <2>1. t \in TurnType
    BY <1>1, <1>2 DEF TurnType
  <2>2. /\ t.pc = "send" /\ t.m = turn[u].m /\ t.gen = turn[u].gen /\ t.todo = Tail(turn[u].todo)
        /\ t.tries = 0
    BY <1>1 DEF TurnType
  <2>3. turn' = [turn EXCEPT ![u] = t]
    BY <1>1, <1>3
  <2>. HIDE DEF t
  <2>4. t.m = Head(chain[u]) /\ t.pc \notin Heads
    BY <1>1, <1>2, <2>2
  <2>5. GoesOn(u) /\ turn'[u] = t
    BY <1>1, <2>1, <2>2, <2>3, <2>4, TurnSet
  <2>. QED BY <2>2, <2>5 DEF NextTurn
<1>4. CASE turn[u].tries = 0 /\ turn' = [turn EXCEPT ![u].pc = "send", ![u].todo = Tail(@)]
  <2>. DEFINE t == [turn[u] EXCEPT !.pc = "send", !.todo = Tail(@)]
  <2>1. t \in TurnType
    BY <1>1, <1>2 DEF TurnType
  <2>2. /\ t.pc = "send" /\ t.m = turn[u].m /\ t.gen = turn[u].gen /\ t.todo = Tail(turn[u].todo)
        /\ t.tries = 0
    BY <1>1, <1>4 DEF TurnType
  <2>3. turn' = [turn EXCEPT ![u] = t]
    BY <1>1, <1>4
  <2>. HIDE DEF t
  <2>4. t.m = Head(chain[u]) /\ t.pc \notin Heads
    BY <1>1, <1>2, <2>2
  <2>5. GoesOn(u) /\ turn'[u] = t
    BY <1>1, <2>1, <2>2, <2>3, <2>4, TurnSet
  <2>. QED BY <2>2, <2>5 DEF NextTurn
<1>. QED BY <1>3, <1>4

\* What the next turn is still to send is what this one was, but for the head.
LEMMA NextTodo ==
    ASSUME ChanInv, NEW u \in Users, turn[u].pc \in Heads, NEW s, s = Head(turn[u].todo), NextTurn(u),
           \A x \in Segs : x # s => mout'[x] = mout[x], UNCHANGED <<sent, unsafe>>
    PROVE  TodoTrue(u)'
<1>1. /\ IsInjective(turn'[u].todo) /\ \A x \in Range(turn'[u].todo) : x \in Range(turn[u].todo) /\ x # s
  BY RestOfTodo DEF NextTurn
<1>2. \A x \in Range(turn'[u].todo) :
        x \in Segs /\ MsgOf(x) = turn[u].m /\ mout'[x] # "none"
        /\ (x \in unsafe \/ (sent[x] = <<>> /\ mout'[x] = "pending"))
  BY <1>1, AtTheHead
<1>. QED BY <1>1, <1>2 DEF TodoTrue, NextTurn, Waits

LEMMA SettlesKeeps ==
    ASSUME ChanInv, NEW u \in Users, NEW s, NEW result, Settles(u, s, result),
           result = "rejected" => s \notin got \/ ~Safe(s)
    PROVE  ChanInv'
<1>0. /\ turn[u].pc \in {"mark", "wait", "taken", "backoff"} /\ turn[u].pc \in Heads /\ s = Head(turn[u].todo)
      /\ result \in {"accepted", "rejected", "unknown"} /\ chain' = chain
      /\ Apart /\ NoSpeech /\ NoCount /\ Spends
      /\ UNCHANGED <<poisoned, halted, outbound, sent, got, unsafe>>
  BY DEF Settles, Heads
<1>1. /\ Sound /\ Alive /\ s \in Segs /\ UserOf(s) = u /\ mout[s] \in OutStatus \ {"none"}
      /\ mout \in [Segs -> OutStatus] /\ result \in OutStatus
      /\ (s \in unsafe \/ turn[u].pc \in Flying \/ sent[s] = <<>>)
  BY <1>0, AtTheHead DEF Sound, Typed, MemTypes, OutStatus, Waits
<1>. DEFINE moves == CanMove(mout[s], result, {"settle"})
            b == [NoBatch EXCEPT !.res = {<<s, result>>}]
<1>c. PICK c : c = IF moves THEN b ELSE NoBatch
  OBVIOUS
<1>2. /\ mout' = [mout EXCEPT ![s] = Moved(@, result, {"settle"})]
      /\ wq' = IF moves THEN Queue(u, b) ELSE wq
      /\ turn' = [turn EXCEPT ![u].pc = "send", ![u].todo = Tail(@),
                              ![u].tries = 0, ![u].outc = "none", ![u].mark = "none"]
  BY <1>0 DEF Settles, Settle
<1>3. moves <=> mout[s] \in {"pending", "sending"} \/ (mout[s] = "unknown" /\ result \in {"accepted", "unknown"})
  <2>1. \A from, to : CanMove(from, to, {"settle"}) <=>
            \/ from \in {"none", "pending", "sending"} /\ to \in {"accepted", "rejected", "unknown"}
            \/ from = "unknown" /\ to \in {"accepted", "unknown"}
    BY SettleTable
  <2>. QED BY <1>0, <1>1, <2>1
<1>4. /\ \A x \in Segs : x # s => mout'[x] = mout[x]
      /\ mout'[s] = IF moves THEN result ELSE mout[s]
      /\ mout' \in [Segs -> OutStatus]
  BY <1>1, <1>2, TableTypes DEF Moved
<1>5. /\ c.inb = {} /\ c.plan = {} /\ c.cancel = {} /\ c \in Batch
      /\ c.res = IF moves THEN {<<s, result>>} ELSE {}
  <2>1. {<<s, result>>} \in SUBSET (Segs \X Results) /\ {} \in SUBSET (Msgs \X Changes) /\ {} \in SUBSET Segs
    BY <1>0, <1>1 DEF Results
  <2>2. Parts(b, {}, {}, "same", {}, {}, {}, {<<s, result>>})
    BY <2>1, LedgerParts
  <2>. HIDE DEF moves, b
  <2>. QED BY <1>c, <2>2, NoBatchType DEF Parts, NoBatch
<1>6. Queues(u, c)
  <2>1. Owned(u, c)
    <3>. HIDE DEF moves
    <3>. QED BY <1>1, <1>5 DEF Owned
  <2>2. (wq' = wq /\ c = NoBatch) \/ wq' = Queue(u, c)
    BY <1>2, <1>c
  <2>. HIDE DEF moves, b
  <2>. QED BY <1>5, <2>1, <2>2 DEF Queues
<1>. HIDE DEF moves, b
<1>7. NextTurn(u)
  BY <1>0, <1>2, TurnsToNext
<1>8. TakesOn(u, c)
  BY <1>0, <1>5, <1>7 DEF TakesOn, NextTurn, HasPlanned, PlannedPcs
<1>9. Moves(u, c)
  <2>1. Agrees(c)'
    <3>1. ASSUME NEW r \in c.res PROVE mout'[r[1]] \in Onward[r[2]]
      <4>1. moves /\ r = <<s, result>>
        BY <1>5, <3>1
      <4>2. r[1] = s /\ r[2] = result /\ mout'[s] = result
        BY <1>4, <4>1
      <4>3. "accepted" \in Onward.accepted /\ "rejected" \in Onward.rejected /\ "unknown" \in Onward.unknown
        BY DEF Onward
      <4>. QED BY <1>0, <4>2, <4>3
    <3>. QED BY <1>5, <3>1 DEF Agrees
  <2>2. \A x \in Segs : mout'[x] # mout[x] => UserOf(x) = u /\ <<mout[x], mout'[x]>> \in Forth /\ mout[x] # "none"
    BY <1>0, <1>1, <1>3, <1>4 DEF Forth
  <2>3. \A r \in c.res : Held(r[1])
    BY <1>3, <1>5 DEF Held
  <2>. QED BY <1>0, <1>1, <1>4, <1>5, <2>1, <2>2, <2>3 DEF Moves, Sound, Typed, DbTypes
<1>10. Leaves(u) /\ CrashLoopEnds'
  BY <1>0, <1>1, LeavesRest, SameCounts DEF ChanInv, Sound, Typed, MemTypes
<1>11. Does(u, c)
  BY <1>0, <1>1, <1>6, <1>8, <1>9, <1>10, NoPosts DEF Does
<1>12. ASSUME NEW x \in Segs, UserOf(x) = u PROVE SentTrue(x)'
  <2>1. ~InFlight(x)'
    BY <1>7, <1>12 DEF NextTurn, InFlight, Flying
  <2>2. Safe(x) => mout[x] \in Committed /\ (x # s => mout[x] # "sending")
    BY <1>0, <1>1, <1>12 DEF ChanInv, Own, SentTrue, InFlight
  <2>3. SentKeeps(x)
    BY <1>0, <1>3, <1>4, <1>12, <2>1, <2>2 DEF SentKeeps, Committed
  <2>. QED BY <1>11, <1>12, <2>3, SentKept
<1>13. CountTrue(u)' /\ HearsTrue(u)' /\ HeadTrue(u)'
  BY <1>7 DEF NextTurn, CountTrue, HearsTrue, HeadTrue
<1>14. StaffTrue(u)'
  BY <1>0, <1>7 DEF NextTurn, ChanInv, Own, StaffTrue, Sending, NoSpeech
<1>15. TodoTrue(u)'
  BY <1>0, <1>4, <1>7, NextTodo
<1>. QED BY <1>10, <1>11, <1>12, <1>13, <1>14, <1>15, DoesInv DEF Own

LEMMA TokenFailsStep ==
    ASSUME ChanInv, NEW u \in Users, TokenFails(u)
    PROVE  ChanInv'
<1>. DEFINE s == Head(turn[u].todo)
<1>1. Settles(u, s, "rejected")
  BY DEF TokenFails, At, dbVars, histVars, Settles, Apart, NoSpeech, NoCount, Spends
<1>2. ~Safe(s)
  <2>1. turn[u].pc = "mark"
    BY DEF TokenFails, At
  <2>. QED BY <2>1, AtTheHead DEF Heads, Flying, Safe, Waits
<1>. HIDE DEF s
<1>. QED BY <1>1, <1>2, SettlesKeeps

\* A turn that goes on waiting for the same segment.
SameFlight(u) ==
    /\ GoesOn(u) /\ turn[u].pc \in Flying /\ turn'[u].pc \in Flying /\ turn'[u].m = turn[u].m
    /\ turn'[u].gen = turn[u].gen /\ turn'[u].todo = turn[u].todo

LEMMA FlightGoesOn ==
    ASSUME ChanInv, NEW u \in Users, SameFlight(u), UNCHANGED <<mowner, gen>>, unsafe \subseteq unsafe',
           \A x \in Segs : x # Head(turn[u].todo) => sent'[x] = sent[x] /\ mout'[x] = mout[x],
           mout'[Head(turn[u].todo)] # "none"
    PROVE  /\ CountTrue(u)' /\ HearsTrue(u)' /\ StaffTrue(u)' /\ TodoTrue(u)'
           /\ \A x \in Segs : UserOf(x) = u => (InFlight(x)' <=> InFlight(x))
<1>. DEFINE s == Head(turn[u].todo)
<1>1. /\ turn[u].pc \in Flying /\ turn'[u].pc \in Flying /\ turn[u].pc \in Heads
      /\ turn'[u].m = turn[u].m /\ turn'[u].gen = turn[u].gen /\ turn'[u].todo = turn[u].todo
  BY DEF SameFlight, Flying, Heads
<1>2. CountTrue(u)' /\ HearsTrue(u)'
  BY <1>1 DEF CountTrue, HearsTrue, Flying
<1>3. StaffTrue(u)'
  BY <1>1 DEF ChanInv, Own, StaffTrue, Sending, Heads, Flying
<1>4. \A x \in Segs : UserOf(x) = u => (InFlight(x)' <=> InFlight(x))
  BY <1>1 DEF InFlight
<1>5. TodoTrue(u)'
  <2>1. TodoTrue(u)
    BY DEF ChanInv, Own
  <2>2. ASSUME NEW x \in Range(turn[u].todo)
        PROVE  MsgOf(x) = turn[u].m /\ mout'[x] # "none" /\ (x \in unsafe \/ InFlight(x)' \/ Waits(u, x)')
    <3>1. x \in Segs /\ UserOf(x) = u /\ MsgOf(x) = turn[u].m /\ mout[x] # "none"
          /\ (x # s => x \in unsafe \/ (sent[x] = <<>> /\ mout[x] = "pending"))
          /\ InFlight(s) /\ s \in Segs /\ UserOf(s) = u
      BY <1>1, <2>2, AtTheHead
    <3>. QED BY <1>1, <1>4, <3>1 DEF Waits, Flying
  <2>. QED BY <1>1, <2>1, <2>2 DEF TodoTrue, Sending, Heads
<1>. QED BY <1>2, <1>3, <1>4, <1>5

LEMMA WecomTakesStep ==
    ASSUME ChanInv, NEW u \in Users, WecomTakes(u)
    PROVE  ChanInv'
<1>. DEFINE s == Head(turn[u].todo)
<1>1. turn[u].pc = "wait" /\ turn[u].pc \in Heads /\ turn[u].pc \in Flying
  BY DEF WecomTakes, Heads, Flying
<1>2. Sound /\ Alive /\ s \in Segs /\ UserOf(s) = u /\ InFlight(s) /\ sent[s] # <<>> /\ mout[s] # "none"
  BY <1>1, AtTheHead DEF ChanInv, Own, HeadTrue
<1>3. /\ Apart /\ NoSpeech /\ NoCount /\ Spends /\ chain' = chain /\ GoTo(u, "taken") /\ got' = got \cup {s}
      /\ UNCHANGED <<mout, wq, poisoned, halted, outbound, sent, unsafe>>
  BY DEF WecomTakes, GoTo, dbVars, Apart, NoSpeech, NoCount, Spends
<1>4. SameFlight(u) /\ turn'[u].pc = "taken"
  <2>1. turn \in [Users -> TurnType] /\ turn[u] \in TurnType /\ TurnShape(u)
    BY <1>2 DEF Sound, Typed, MemTypes, Shapes
  <2>. DEFINE t == [turn[u] EXCEPT !.pc = "taken"]
  <2>2. t \in TurnType /\ t.pc = "taken" /\ t.m = turn[u].m /\ t.gen = turn[u].gen /\ t.todo = turn[u].todo
    BY <2>1 DEF TurnType, Pcs
  <2>3. turn' = [turn EXCEPT ![u] = t]
    BY <1>3, <2>1 DEF GoTo
  <2>. HIDE DEF t
  <2>4. turn'[u] = t /\ turn' \in [Users -> TurnType] /\ \A v \in Users \ {u} : turn'[v] = turn[v]
    BY <2>1, <2>2, <2>3
  <2>5. GoesOn(u)
    BY <1>1, <1>3, <2>1, <2>2, <2>4 DEF GoesOn, TurnShape, Flying, Heads
  <2>. QED BY <1>1, <2>2, <2>4, <2>5 DEF SameFlight, Flying
<1>5. TakesOn(u, NoBatch)
  BY <1>1, <1>4 DEF TakesOn, NoBatch, HasPlanned, PlannedPcs, SameFlight
<1>6. Leaves(u) /\ CrashLoopEnds'
  BY <1>2, <1>3, LeavesRest, SameCounts DEF ChanInv, Sound, Typed, MemTypes
<1>7. Posts(u)
  BY <1>2, <1>3 DEF Posts, Sound, Typed, HistTypes
<1>8. Does(u, NoBatch)
  BY <1>2, <1>3, <1>5, <1>6, <1>7, NoQueues, NoMoves DEF Does, NoBatch
<1>9. /\ CountTrue(u)' /\ HearsTrue(u)' /\ StaffTrue(u)' /\ TodoTrue(u)'
      /\ \A x \in Segs : UserOf(x) = u => (InFlight(x)' <=> InFlight(x))
  BY <1>2, <1>3, <1>4, FlightGoesOn DEF NoSpeech
<1>10. HeadTrue(u)'
  BY <1>2, <1>3, <1>4 DEF HeadTrue, SameFlight
<1>11. ASSUME NEW x \in Segs, UserOf(x) = u PROVE SentTrue(x)'
  <2>1. SentTrue(x) /\ (x \in got' => x \in got \/ InFlight(x))
    BY <1>2, <1>3, <1>11 DEF ChanInv, Own
  <2>2. inbox' = inbox /\ boots' = boots /\ proc' = proc /\ (Safe(x)' <=> Safe(x))
    BY <1>3 DEF Apart, Safe
  <2>. QED BY <1>2, <1>3, <1>9, <1>11, <2>1, <2>2 DEF SentTrue, Alive
<1>. QED BY <1>6, <1>8, <1>9, <1>10, <1>11, DoesInv DEF Own

LEMMA FlightTurn ==
    ASSUME Sound, NEW u \in Users, turn[u].pc \in Flying, NEW t \in TurnType, chain' = chain,
           turn' = [turn EXCEPT ![u] = t], t.pc \in Flying, t.m = turn[u].m, t.gen = turn[u].gen,
           t.todo = turn[u].todo, t.pc = "backoff" => t.tries < MaxTries /\ t.outc # "none"
    PROVE  SameFlight(u) /\ turn'[u] = t
<1>1. turn \in [Users -> TurnType] /\ TurnShape(u)
  BY DEF Sound, Typed, MemTypes, Shapes
<1>2. turn'[u] = t /\ turn' \in [Users -> TurnType] /\ \A v \in Users \ {u} : turn'[v] = turn[v]
  BY <1>1
<1>3. GoesOn(u)
  BY <1>1, <1>2 DEF GoesOn, TurnShape, Flying, Heads
<1>. QED BY <1>2, <1>3 DEF SameFlight

\* Another attempt is made after a pause; what is known by then is noted.
Pauses(u, s, outc, b) ==
    /\ turn[u].pc \in {"wait", "taken"} /\ s = Head(turn[u].todo) /\ turn[u].tries < MaxTries
    /\ turn' = [turn EXCEPT ![u].pc = "backoff", ![u].outc = outc] /\ outc \in {"unknown", "rejected"}
    /\ s \in got \ unsafe => outc = "unknown"
    /\ \/ UNCHANGED <<mout, wq>> /\ b = NoBatch
       \/ /\ mout[s] \in {"pending", "sending", "unknown"} /\ mout' = [mout EXCEPT ![s] = "unknown"]
          /\ wq' = Queue(u, b) /\ b = [NoBatch EXCEPT !.res = {<<s, "unknown">>}]
    /\ chain' = chain /\ Apart /\ NoSpeech /\ NoCount /\ Spends
    /\ UNCHANGED <<poisoned, halted, outbound, sent, got, unsafe>>

LEMMA PausesKeeps ==
    ASSUME ChanInv, NEW u \in Users, NEW s, NEW outc, NEW b, Pauses(u, s, outc, b)
    PROVE  ChanInv'
<1>0. /\ turn[u].pc \in {"wait", "taken"} /\ turn[u].pc \in Heads /\ turn[u].pc \in Flying
      /\ s = Head(turn[u].todo) /\ turn[u].tries < MaxTries /\ outc \in {"unknown", "rejected"}
      /\ turn' = [turn EXCEPT ![u].pc = "backoff", ![u].outc = outc]
      /\ s \in got \ unsafe => outc = "unknown"
      /\ chain' = chain /\ Apart /\ NoSpeech /\ NoCount /\ Spends
      /\ UNCHANGED <<poisoned, halted, outbound, sent, got, unsafe>>
  BY DEF Pauses, Heads, Flying
<1>1. Sound /\ Alive /\ s \in Segs /\ UserOf(s) = u /\ InFlight(s) /\ mout[s] # "none" /\ sent[s] # <<>>
      /\ mout \in [Segs -> OutStatus] /\ outbound \in [Segs -> OutStatus]
  BY <1>0, AtTheHead DEF ChanInv, Own, HeadTrue, Sound, Typed, MemTypes, DbTypes
<1>2. SameFlight(u) /\ turn'[u].pc = "backoff" /\ turn'[u].outc = outc
  <2>1. turn \in [Users -> TurnType] /\ turn[u] \in TurnType
    BY <1>1 DEF Sound, Typed, MemTypes
  <2>. DEFINE t == [turn[u] EXCEPT !.pc = "backoff", !.outc = outc]
  <2>2. t \in TurnType /\ t.pc = "backoff" /\ t.m = turn[u].m /\ t.gen = turn[u].gen /\ t.todo = turn[u].todo
        /\ t.tries = turn[u].tries /\ t.outc = outc
    BY <1>0, <2>1 DEF TurnType, Pcs, Outcs
  <2>3. turn' = [turn EXCEPT ![u] = t]
    BY <1>0, <2>1
  <2>. HIDE DEF t
  <2>4. t.pc \in Flying /\ t.outc # "none"
    BY <1>0, <2>2 DEF Flying
  <2>5. SameFlight(u) /\ turn'[u] = t
    BY <1>0, <1>1, <2>2, <2>3, <2>4, FlightTurn
  <2>. QED BY <2>2, <2>5
<1>3. /\ b \in Batch /\ b.inb = {} /\ b.plan = {} /\ b.cancel = {}
      /\ b.res = {} \/ (b.res = {<<s, "unknown">>} /\ mout'[s] = "unknown" /\ mout[s] # "failed")
      /\ (wq' = wq /\ b = NoBatch) \/ wq' = Queue(u, b)
  <2>1. CASE UNCHANGED <<mout, wq>> /\ b = NoBatch
    BY <2>1, NoBatchType DEF NoBatch
  <2>2. CASE /\ mout[s] \in {"pending", "sending", "unknown"} /\ mout' = [mout EXCEPT ![s] = "unknown"]
             /\ wq' = Queue(u, b) /\ b = [NoBatch EXCEPT !.res = {<<s, "unknown">>}]
    <3>1. {<<s, "unknown">>} \in SUBSET (Segs \X Results) /\ {} \in SUBSET (Msgs \X Changes) /\ {} \in SUBSET Segs
      BY <1>1 DEF Results
    <3>2. Parts(b, {}, {}, "same", {}, {}, {}, {<<s, "unknown">>})
      BY <2>2, <3>1, LedgerParts
    <3>. QED BY <1>1, <2>2, <3>2 DEF Parts
  <2>. QED BY <2>1, <2>2 DEF Pauses
<1>4. /\ mout' \in [Segs -> OutStatus] /\ \A x \in Segs : x # s => mout'[x] = mout[x]
      /\ mout'[s] = mout[s] \/ (mout[s] \in {"pending", "sending"} /\ mout'[s] = "unknown")
  BY <1>1 DEF Pauses, OutStatus
<1>5. Queues(u, b)
  <2>1. Owned(u, b)
    BY <1>1, <1>3 DEF Owned
  <2>. QED BY <1>3, <2>1 DEF Queues
<1>6. TakesOn(u, b)
  BY <1>0, <1>2, <1>3 DEF TakesOn, HasPlanned, PlannedPcs, SameFlight
<1>7. Moves(u, b)
  <2>1. Agrees(b)'
    <3>1. ASSUME NEW r \in b.res PROVE mout'[r[1]] \in Onward[r[2]]
      <4>1. r = <<s, "unknown">> /\ mout'[s] = "unknown"
        BY <1>3, <3>1
      <4>2. "unknown" \in Onward.unknown
        BY DEF Onward
      <4>. QED BY <4>1, <4>2
    <3>. QED BY <1>3, <3>1 DEF Agrees
  <2>2. \A x \in Segs : mout'[x] # mout[x] => UserOf(x) = u /\ <<mout[x], mout'[x]>> \in Forth /\ mout[x] # "none"
    BY <1>1, <1>4 DEF Forth
  <2>3. \A r \in b.res : Held(r[1])
    BY <1>1, <1>3 DEF Held
  <2>. QED BY <1>0, <1>1, <1>3, <1>4, <2>1, <2>2, <2>3 DEF Moves
<1>8. Leaves(u) /\ CrashLoopEnds'
  BY <1>0, <1>1, LeavesRest, SameCounts DEF ChanInv, Sound, Typed, MemTypes
<1>9. Does(u, b)
  BY <1>0, <1>1, <1>5, <1>6, <1>7, <1>8, NoPosts DEF Does
<1>10. /\ CountTrue(u)' /\ HearsTrue(u)' /\ StaffTrue(u)' /\ TodoTrue(u)'
       /\ \A x \in Segs : UserOf(x) = u => (InFlight(x)' <=> InFlight(x))
  <2>1. mout'[s] # "none"
    BY <1>1, <1>4
  <2>. QED BY <1>0, <1>1, <1>2, <1>4, <2>1, FlightGoesOn DEF NoSpeech
<1>11. HeadTrue(u)'
  BY <1>0, <1>1, <1>2 DEF HeadTrue, SameFlight
<1>12. ASSUME NEW x \in Segs, UserOf(x) = u PROVE SentTrue(x)'
  <2>1. SentTrue(x)
    BY <1>12 DEF ChanInv, Own
  <2>2. inbox' = inbox /\ boots' = boots /\ proc' = proc /\ (Safe(x)' <=> Safe(x))
    BY <1>0 DEF Apart, Safe
  <2>3. mout'[x] = mout[x] \/ (mout'[x] = "unknown" /\ x = s)
    BY <1>4
  <2>. QED BY <1>0, <1>1, <1>10, <1>12, <2>1, <2>2, <2>3 DEF SentTrue, Alive, Committed
<1>. QED BY <1>8, <1>9, <1>10, <1>11, <1>12, DoesInv DEF Own

LEMMA AnsweredStep ==
    ASSUME ChanInv, NEW u \in Users, Answered(u)
    PROVE  ChanInv'
<1>. DEFINE s == Head(turn[u].todo)
<1>1. /\ chain' = chain /\ Apart /\ NoSpeech /\ NoCount /\ Spends
      /\ UNCHANGED <<poisoned, halted, outbound, sent, got, unsafe>>
  BY DEF Answered, dbVars, histVars, Apart, NoSpeech, NoCount, Spends
<1>2. turn[u].pc = "wait" => (s \in got \ unsafe => turn[u].outc = "unknown")
  BY DEF ChanInv, Own, HeadTrue
<1>3. CASE At(u, "taken") /\ Settle(u, "accepted")
  <2>1. Settles(u, s, "accepted")
    BY <1>1, <1>3 DEF Settles, At
  <2>. HIDE DEF s
  <2>. QED BY <2>1, SettlesKeeps
<1>4. CASE At(u, "wait") /\ Settle(u, Worse(turn[u].outc))
  <2>1. PICK r : r = Worse(turn[u].outc)
    OBVIOUS
  <2>2. r \in {"unknown", "rejected"} /\ (r = "rejected" => s \notin got \ unsafe)
    BY <1>2, <1>4, <2>1 DEF Worse, At
  <2>3. Settles(u, s, r)
    BY <1>1, <1>4, <2>1, <2>2 DEF Settles, At
  <2>4. r = "rejected" => s \notin got \/ ~Safe(s)
    BY <2>2 DEF Safe
  <2>. HIDE DEF s
  <2>. QED BY <2>3, <2>4, SettlesKeeps
<1>5. CASE /\ At(u, "wait") /\ MayTryAgain(u) /\ UNCHANGED <<mout, wq>>
           /\ turn' = [turn EXCEPT ![u].pc = "backoff", ![u].outc = Worse(@)]
  <2>1. PICK r : r = Worse(turn[u].outc)
    OBVIOUS
  <2>2. r \in {"unknown", "rejected"} /\ (s \in got \ unsafe => r = "unknown")
    BY <1>2, <1>5, <2>1 DEF Worse, At
  <2>3. turn \in [Users -> TurnType] /\ turn[u] \in TurnType
    BY DEF ChanInv, Sound, Typed, MemTypes
  <2>4. turn' = [turn EXCEPT ![u].pc = "backoff", ![u].outc = r]
    BY <1>5, <2>1, <2>3 DEF TurnType
  <2>5. Pauses(u, s, r, NoBatch)
    BY <1>1, <1>5, <2>2, <2>4 DEF Pauses, At, MayTryAgain
  <2>. HIDE DEF s
  <2>. QED BY <2>5, PausesKeeps
<1>. QED BY <1>3, <1>4, <1>5 DEF Answered

LEMMA AnswerLostStep ==
    ASSUME ChanInv, NEW u \in Users, AnswerLost(u)
    PROVE  ChanInv'
<1>. DEFINE s == Head(turn[u].todo)
<1>1. /\ turn[u].pc \in {"wait", "taken"} /\ turn[u].pc \in Heads
      /\ chain' = chain /\ Apart /\ NoSpeech /\ NoCount /\ Spends
      /\ UNCHANGED <<poisoned, halted, outbound, sent, got, unsafe>>
  BY DEF AnswerLost, At, dbVars, histVars, Apart, NoSpeech, NoCount, Spends, Heads
<1>2. s \in Segs /\ mout[s] \in OutStatus \ {"none"} /\ mout \in [Segs -> OutStatus]
  BY <1>1, AtTheHead DEF ChanInv, Sound, Typed, MemTypes
<1>3. CASE MayTryAgain(u)
  <2>. DEFINE b == [NoBatch EXCEPT !.res = {<<s, "unknown">>}]
  <2>1. /\ mout' = [mout EXCEPT ![s] = Moved(@, "unknown", {"settle"})]
        /\ wq' = IF CanMove(mout[s], "unknown", {"settle"}) THEN Queue(u, b) ELSE wq
        /\ turn' = [turn EXCEPT ![u].pc = "backoff", ![u].outc = "unknown"]
    BY <1>3 DEF AnswerLost
  <2>2. CanMove(mout[s], "unknown", {"settle"}) <=> mout[s] \in {"pending", "sending", "unknown"}
    <3>1. \A from, to : CanMove(from, to, {"settle"}) <=>
              \/ from \in {"none", "pending", "sending"} /\ to \in {"accepted", "rejected", "unknown"}
              \/ from = "unknown" /\ to \in {"accepted", "unknown"}
      BY SettleTable
    <3>. QED BY <1>2, <3>1
  <2>3. CASE CanMove(mout[s], "unknown", {"settle"})
    <3>1. PICK c : c = b
      OBVIOUS
    <3>2. mout' = [mout EXCEPT ![s] = "unknown"]
      BY <1>2, <2>1, <2>3 DEF Moved
    <3>3. Pauses(u, s, "unknown", c)
      BY <1>1, <1>3, <2>1, <2>2, <2>3, <3>1, <3>2 DEF Pauses, MayTryAgain
    <3>. HIDE DEF s, b
    <3>. QED BY <3>3, PausesKeeps
  <2>4. CASE ~CanMove(mout[s], "unknown", {"settle"})
    <3>1. mout' = mout
      BY <1>2, <2>1, <2>4 DEF Moved
    <3>2. Pauses(u, s, "unknown", NoBatch)
      BY <1>1, <1>3, <2>1, <2>4, <3>1 DEF Pauses, MayTryAgain
    <3>. HIDE DEF s, b
    <3>. QED BY <3>2, PausesKeeps
  <2>. QED BY <2>3, <2>4
<1>4. CASE ~MayTryAgain(u)
  <2>1. Settles(u, s, "unknown")
    BY <1>1, <1>4 DEF Settles, AnswerLost
  <2>. HIDE DEF s
  <2>. QED BY <2>1, SettlesKeeps
<1>. QED BY <1>3, <1>4

\* A request goes out.
LEMMA AsksAgain ==
    ASSUME Sound, Alive, NEW s \in Segs, sent' = [sent EXCEPT ![s] = Append(@, boots)]
    PROVE  /\ sent' \in [Segs -> Seq(1..MaxBoots)] /\ sent'[s] # <<>> /\ sent'[s] # sent[s]
           /\ \A x \in Segs : x # s => sent'[x] = sent[x]
           /\ \A i \in DOMAIN sent'[s] :
                 sent'[s][i] = boots \/ (i \in DOMAIN sent[s] /\ sent'[s][i] = sent[s][i])
<1>1. sent \in [Segs -> Seq(1..MaxBoots)] /\ sent[s] \in Seq(1..MaxBoots) /\ boots \in 1..MaxBoots
  <2>1. boots > 0 /\ boots \in Nat /\ boots <= faults.starts /\ faults.starts <= MaxBoots
        /\ faults.starts \in Nat /\ MaxBoots \in Nat
    BY ChannelAssumption DEF Sound, Shapes, Down, Typed, HistTypes, Limits
  <2>. QED BY <2>1 DEF Sound, Typed, HistTypes
<1>2. sent'[s] = Append(sent[s], boots) /\ \A x \in Segs : x # s => sent'[x] = sent[x]
  BY <1>1
<1>. DEFINE q == sent[s]
<1>3. /\ Append(q, boots) \in Seq(1..MaxBoots) /\ Append(q, boots) # <<>> /\ Append(q, boots) # q
      /\ \A i \in DOMAIN Append(q, boots) :
            Append(q, boots)[i] = boots \/ (i \in DOMAIN q /\ Append(q, boots)[i] = q[i])
  <2>1. q \in Seq(1..MaxBoots)
    BY <1>1
  <2>. HIDE DEF q
  <2>2. /\ Len(Append(q, boots)) = Len(q) + 1 /\ Len(q) \in Nat
        /\ DOMAIN Append(q, boots) = 1..(Len(q) + 1) /\ DOMAIN q = 1..Len(q)
        /\ \A i \in 1..Len(q) : Append(q, boots)[i] = q[i]
        /\ Append(q, boots)[Len(q) + 1] = boots
        /\ Append(q, boots) \in Seq(1..MaxBoots)
    BY <1>1, <2>1
  <2>3. Append(q, boots) # q /\ Append(q, boots) # <<>>
    <3>1. Len(Append(q, boots)) # Len(q) /\ Len(Append(q, boots)) # 0
      <4>1. PICK n : n = Len(q)
        OBVIOUS
      <4>2. PICK k : k = Len(Append(q, boots))
        OBVIOUS
      <4>3. n \in Nat /\ k = n + 1
        BY <2>2, <4>1, <4>2
      <4>4. k # n /\ k # 0
        BY <4>3
      <4>. QED BY <4>1, <4>2, <4>4
    <3>2. Len(<<>>) = 0
      OBVIOUS
    <3>. QED BY <3>1, <3>2
  <2>4. \A i \in 1..(Len(q) + 1) : i = Len(q) + 1 \/ i \in 1..Len(q)
    BY <2>2
  <2>. QED BY <2>2, <2>3, <2>4
<1>. QED BY <1>1, <1>2, <1>3

LEMMA RetryStep ==
    ASSUME ChanInv, NEW u \in Users, Retry(u)
    PROVE  ChanInv'
<1>. DEFINE s == Head(turn[u].todo)
<1>1. /\ turn[u].pc = "backoff" /\ turn[u].pc \in Heads /\ turn[u].pc \in Flying
      /\ Apart /\ NoSpeech /\ NoCount /\ Spends /\ chain' = chain
      /\ UNCHANGED <<poisoned, halted, outbound, got>>
  BY DEF Retry, At, dbVars, Apart, NoSpeech, NoCount, Spends, Heads, Flying
<1>2. /\ Sound /\ Alive /\ s \in Segs /\ UserOf(s) = u /\ InFlight(s) /\ sent[s] # <<>> /\ mout[s] # "none"
      /\ (s \in got \ unsafe => turn[u].outc = "unknown")
  BY <1>1, AtTheHead DEF ChanInv, Own, HeadTrue
<1>3. turn[u] \in TurnType /\ turn \in [Users -> TurnType] /\ turn[u].tries < MaxTries /\ turn[u].outc # "none"
  BY <1>1, <1>2 DEF Sound, Typed, MemTypes, Shapes, TurnShape
<1>4. CASE Settle(u, turn[u].outc) /\ UNCHANGED <<sent, unsafe>>
  <2>1. PICK r : r = turn[u].outc
    OBVIOUS
  <2>2. r \in {"unknown", "rejected"} /\ (r = "rejected" => s \notin got \/ ~Safe(s))
    BY <1>2, <1>3, <2>1 DEF TurnType, Outcs, Safe
  <2>3. Settles(u, s, r)
    BY <1>1, <1>4, <2>1, <2>2 DEF Settles
  <2>. HIDE DEF s
  <2>. QED BY <2>2, <2>3, SettlesKeeps
<1>5. CASE Post(u) /\ UNCHANGED <<mout, wq>>
  <2>1. /\ sent' = [sent EXCEPT ![s] = Append(@, boots)]
        /\ unsafe' = IF turn[u].mark = "marked" THEN unsafe ELSE unsafe \cup {s}
        /\ turn' = [turn EXCEPT ![u].pc = "wait", ![u].tries = @ + 1]
    BY <1>5 DEF Post
  <2>. HIDE DEF s
  <2>2. /\ sent' \in [Segs -> Seq(1..MaxBoots)] /\ sent'[s] # <<>> /\ sent'[s] # sent[s]
        /\ \A x \in Segs : x # s => sent'[x] = sent[x]
        /\ \A i \in DOMAIN sent'[s] :
                 sent'[s][i] = boots \/ (i \in DOMAIN sent[s] /\ sent'[s][i] = sent[s][i])
    BY <1>2, <2>1, AsksAgain
  <2>3. SameFlight(u) /\ turn'[u].pc = "wait" /\ turn'[u].outc = turn[u].outc
    <3>. DEFINE t == [turn[u] EXCEPT !.pc = "wait", !.tries = @ + 1]
    <3>1. t \in TurnType /\ t.pc = "wait" /\ t.m = turn[u].m /\ t.gen = turn[u].gen /\ t.todo = turn[u].todo
          /\ t.outc = turn[u].outc
      <4>1. turn[u].tries + 1 \in 0..MaxTries
        BY <1>3, ChannelAssumption DEF TurnType
      <4>. QED BY <1>3, <4>1 DEF TurnType, Pcs
    <3>2. turn' = [turn EXCEPT ![u] = t]
      BY <1>3, <2>1
    <3>. HIDE DEF t
    <3>3. t.pc \in Flying /\ t.pc # "backoff"
      BY <3>1 DEF Flying
    <3>. QED BY <1>1, <1>2, <3>1, <3>2, <3>3, FlightTurn
  <2>4. unsafe \subseteq unsafe' /\ unsafe' \subseteq unsafe \cup {s} /\ unsafe \subseteq Segs
    BY <1>2, <2>1 DEF Sound, Typed, HistTypes
  <2>5. TakesOn(u, NoBatch)
    BY <1>1, <2>3 DEF TakesOn, NoBatch, HasPlanned, PlannedPcs, SameFlight
  <2>6. Leaves(u) /\ CrashLoopEnds'
    BY <1>1, <1>2, LeavesRest, SameCounts DEF ChanInv, Sound, Typed, MemTypes
  <2>7. Posts(u)
    BY <1>1, <1>2, <2>2, <2>4 DEF Posts, Safe, Sound, Typed, HistTypes
  <2>8. Does(u, NoBatch)
    BY <1>1, <1>2, <1>5, <2>5, <2>6, <2>7, NoQueues, NoMoves DEF Does, NoBatch
  <2>9. /\ CountTrue(u)' /\ HearsTrue(u)' /\ StaffTrue(u)' /\ TodoTrue(u)'
        /\ \A x \in Segs : UserOf(x) = u => (InFlight(x)' <=> InFlight(x))
    BY <1>1, <1>2, <1>5, <2>2, <2>3, <2>4, FlightGoesOn DEF NoSpeech, s
  <2>10. HeadTrue(u)'
    BY <1>1, <1>2, <2>2, <2>3, <2>4 DEF HeadTrue, SameFlight, s
  <2>11. ASSUME NEW x \in Segs, UserOf(x) = u PROVE SentTrue(x)'
    <3>1. SentTrue(x)
      BY <2>11 DEF ChanInv, Own
    <3>2. inbox' = inbox /\ boots' = boots /\ proc' = proc
      BY <1>1 DEF Apart
    <3>3. Safe(x)' => Safe(x)
      BY <1>2, <2>2, <2>4 DEF Safe
    <3>4. x = s /\ Safe(x) => \A i \in DOMAIN sent'[x] : sent'[x][i] = boots
      BY <1>2, <2>2, <3>1 DEF SentTrue
    <3>. QED BY <1>1, <1>5, <2>2, <2>9, <2>11, <3>1, <3>2, <3>3, <3>4 DEF SentTrue, Alive
  <2>. QED BY <2>6, <2>8, <2>9, <2>10, <2>11, DoesInv DEF Own
<1>. QED BY <1>4, <1>5 DEF Retry

\* A turn that stays at its segment.
LEMMA HeadTurn ==
    ASSUME Sound, NEW u \in Users, turn[u].pc \in Heads, NEW t \in TurnType, chain' = chain,
           turn' = [turn EXCEPT ![u] = t], t.pc \in Heads \ {"backoff"}, t.m = turn[u].m,
           t.todo = turn[u].todo, t.pc \notin Flying => t.tries = 0
    PROVE  GoesOn(u) /\ turn'[u] = t
<1>1. turn \in [Users -> TurnType] /\ TurnShape(u)
  BY DEF Sound, Typed, MemTypes, Shapes
<1>2. turn'[u] = t /\ turn' \in [Users -> TurnType] /\ \A v \in Users \ {u} : turn'[v] = turn[v]
  BY <1>1
<1>. QED BY <1>1, <1>2 DEF GoesOn, TurnShape, Heads

SameHead(u) ==
    /\ GoesOn(u) /\ turn[u].pc \in Heads \ Flying /\ turn'[u].pc \in Heads /\ turn'[u].m = turn[u].m
    /\ turn'[u].gen = turn[u].gen /\ turn'[u].todo = turn[u].todo

LEMMA HeadGoesOn ==
    ASSUME ChanInv, NEW u \in Users, SameHead(u), UNCHANGED <<mowner, gen>>, unsafe \subseteq unsafe',
           NEW s, s = Head(turn[u].todo),
           \A x \in Segs : x # s => sent'[x] = sent[x] /\ mout'[x] = mout[x],
           mout'[s] # "none", s \in unsafe' \/ InFlight(s)' \/ Waits(u, s)'
    PROVE  /\ CountTrue(u)' /\ HearsTrue(u)' /\ StaffTrue(u)' /\ TodoTrue(u)'
           /\ \A x \in Segs : UserOf(x) = u /\ x # s => ~InFlight(x)'
<1>1. /\ turn[u].pc \in Heads /\ turn'[u].pc \in Heads /\ turn[u].pc \notin Flying
      /\ turn'[u].m = turn[u].m /\ turn'[u].gen = turn[u].gen /\ turn'[u].todo = turn[u].todo
  BY DEF SameHead
<1>2. CountTrue(u)' /\ HearsTrue(u)'
  BY <1>1 DEF CountTrue, HearsTrue, Heads
<1>3. StaffTrue(u)'
  BY <1>1 DEF ChanInv, Own, StaffTrue, Sending
<1>4. \A x \in Segs : UserOf(x) = u /\ x # s => ~InFlight(x)'
  BY <1>1 DEF InFlight
<1>5. TodoTrue(u)'
  <2>1. TodoTrue(u)
    BY DEF ChanInv, Own
  <2>2. ASSUME NEW x \in Range(turn[u].todo)
        PROVE  MsgOf(x) = turn[u].m /\ mout'[x] # "none" /\ (x \in unsafe' \/ InFlight(x)' \/ Waits(u, x)')
    <3>1. x \in Segs /\ UserOf(x) = u /\ MsgOf(x) = turn[u].m /\ mout[x] # "none"
          /\ (x # s => x \in unsafe \/ (sent[x] = <<>> /\ mout[x] = "pending"))
      BY <1>1, <2>2, AtTheHead
    <3>2. CASE x # s
      BY <1>1, <3>1, <3>2 DEF Waits
    <3>. QED BY <3>1, <3>2
  <2>. QED BY <1>1, <2>1, <2>2 DEF TodoTrue, Sending
<1>. QED BY <1>2, <1>3, <1>4, <1>5

LEMMA MarkSendingStep ==
    ASSUME ChanInv, NEW u \in Users, MarkSending(u)
    PROVE  ChanInv'
<1>s. PICK s : s = Head(turn[u].todo)
  OBVIOUS
<1>. DEFINE marked == [outbound EXCEPT ![s] = Moved(@, "sending", {"mark"})]
<1>1. /\ turn[u].pc = "mark" /\ turn[u].pc \in Heads /\ turn[u].pc \notin Flying
      /\ Apart /\ NoSpeech /\ NoCount /\ Spends /\ chain' = chain
      /\ UNCHANGED <<mout, wq, poisoned, halted, sent, got, unsafe>>
  BY DEF MarkSending, At, Apart, NoSpeech, NoCount, Spends, Heads, Flying, Limits
<1>2. /\ Sound /\ Alive /\ s \in Segs /\ UserOf(s) = u /\ mout[s] # "none"
      /\ (s \in unsafe \/ Waits(u, s))
  BY <1>1, <1>s, AtTheHead
<1>3. /\ turn[u] \in TurnType /\ turn \in [Users -> TurnType] /\ turn[u].tries = 0
      /\ outbound \in [Segs -> OutStatus]
  BY <1>1, <1>2 DEF Sound, Typed, MemTypes, DbTypes, Shapes, TurnShape
<1>4. PICK k \in {MarkResult(outbound[s]), "db_unavailable"} :
         /\ turn' = [turn EXCEPT ![u].pc = "marked", ![u].mark = k]
         /\ outbound' \in {outbound, marked}
         /\ k = "marked" => outbound[s] = "pending" /\ outbound' = marked
  BY <1>s DEF MarkSending, MarkResult
<1>5. marked[s] = (IF outbound[s] = "pending" THEN "sending" ELSE outbound[s])
      /\ \A x \in Segs : x # s => marked[x] = outbound[x]
  <2>1. \A from, to : CanMove(from, to, {"mark"}) <=> from = "pending" /\ to = "sending"
    BY DEF CanMove, OutboundTransitions
  <2>. QED BY <1>2, <1>3, <2>1 DEF Moved
<1>6. marked \in [Segs -> OutStatus]
  BY <1>3, <1>5 DEF OutStatus
<1>. HIDE DEF marked
<1>7. /\ outbound' \in [Segs -> OutStatus] /\ \A x \in Segs : x # s => outbound'[x] = outbound[x]
      /\ outbound'[s] = outbound[s] \/ (outbound[s] = "pending" /\ outbound'[s] = "sending")
      /\ k = "marked" => outbound'[s] = "sending"
  BY <1>3, <1>4, <1>5, <1>6
<1>8. SameHead(u) /\ turn'[u].pc = "marked" /\ turn'[u].mark = k
  <2>. DEFINE t == [turn[u] EXCEPT !.pc = "marked", !.mark = k]
  <2>1. k \in Marks
    BY <1>4 DEF MarkResult, Marks
  <2>2. t \in TurnType /\ t.pc = "marked" /\ t.mark = k /\ t.m = turn[u].m /\ t.gen = turn[u].gen
        /\ t.todo = turn[u].todo /\ t.tries = 0
    BY <1>3, <2>1 DEF TurnType, Pcs
  <2>3. turn' = [turn EXCEPT ![u] = t]
    BY <1>3, <1>4
  <2>. HIDE DEF t
  <2>4. t.pc \in Heads \ {"backoff"}
    BY <2>2 DEF Heads
  <2>5. GoesOn(u) /\ turn'[u] = t
    BY <1>1, <1>2, <2>2, <2>3, <2>4, HeadTurn
  <2>. QED BY <1>1, <2>2, <2>4, <2>5 DEF SameHead
<1>9. TakesOn(u, NoBatch)
  BY <1>1, <1>8 DEF TakesOn, NoBatch, HasPlanned, PlannedPcs, SameHead
<1>10. Moves(u, NoBatch)
  <2>1. \A x \in Segs : outbound'[x] # outbound[x] => x = s /\ {outbound[x], outbound'[x]} = {"pending", "sending"}
    BY <1>7
  <2>2. Agrees(NoBatch)'
    BY DEF Agrees, NoBatch
  <2>. QED BY <1>1, <1>2, <1>7, <2>1, <2>2 DEF Moves, NoBatch, Sound, Typed, MemTypes
<1>11. Leaves(u) /\ CrashLoopEnds'
  BY <1>1, <1>2, LeavesRest, SameCounts DEF ChanInv, Sound, Typed, MemTypes
<1>12. Does(u, NoBatch)
  BY <1>1, <1>2, <1>9, <1>10, <1>11, NoQueues, NoPosts DEF Does
<1>13. /\ CountTrue(u)' /\ HearsTrue(u)' /\ StaffTrue(u)' /\ TodoTrue(u)'
       /\ \A x \in Segs : UserOf(x) = u => ~InFlight(x)'
  <2>1. s \in unsafe' \/ InFlight(s)' \/ Waits(u, s)'
    BY <1>1, <1>2, <1>8 DEF Waits, SameHead
  <2>2. ~InFlight(s)'
    BY <1>2, <1>8 DEF InFlight, Flying, SameHead
  <2>3. UNCHANGED <<mowner, gen>>
    BY <1>1 DEF NoSpeech
  <2>. QED BY <1>1, <1>2, <1>8, <1>s, <2>1, <2>2, <2>3, HeadGoesOn
<1>14. HeadTrue(u)'
  BY <1>7, <1>8, <1>s DEF HeadTrue, SameHead
<1>15. ASSUME NEW x \in Segs, UserOf(x) = u PROVE SentTrue(x)'
  <2>1. Safe(x) => mout[x] # "sending"
    BY <1>1, <1>2, <1>15, NotSending
  <2>2. SentKeeps(x)
    BY <1>1, <1>7, <1>13, <1>15, <2>1 DEF SentKeeps
  <2>. QED BY <1>12, <1>15, <2>2, SentKept
<1>. QED BY <1>11, <1>12, <1>13, <1>14, <1>15, DoesInv DEF Own

\* What sendSegment knows when the answer of markSending is there.
AtPost(u, s, now) ==
    /\ turn[u].pc = "marked" /\ s = Head(turn[u].todo)
    /\ now = IF turn[u].mark = "marked" THEN [mout EXCEPT ![s] = Moved(@, "sending", {"mark"})] ELSE mout
    /\ Apart /\ NoSpeech /\ NoCount /\ Spends
    /\ UNCHANGED <<poisoned, halted, outbound, got>>

LEMMA PostFacts ==
    ASSUME ChanInv, NEW u \in Users, NEW s, NEW now, AtPost(u, s, now)
    PROVE  /\ turn[u].pc \in Heads /\ turn[u].pc \notin Flying /\ turn[u].pc # "idle"
           /\ Sound /\ Alive /\ s \in Segs /\ UserOf(s) = u /\ mout[s] # "none"
           /\ (s \in unsafe \/ (sent[s] = <<>> /\ mout[s] = "pending")) /\ ~Safe(s)
           /\ turn[u] \in TurnType /\ turn \in [Users -> TurnType] /\ turn[u].tries = 0
           /\ mout \in [Segs -> OutStatus] /\ outbound \in [Segs -> OutStatus]
           /\ now \in [Segs -> OutStatus] /\ \A x \in Segs : x # s => now[x] = mout[x]
           /\ now[s] = IF turn[u].mark = "marked" /\ mout[s] = "pending" THEN "sending" ELSE mout[s]
<1>1. turn[u].pc \in Heads /\ turn[u].pc \notin Flying /\ turn[u].pc # "idle" /\ turn[u].pc # "unmark"
      /\ s = Head(turn[u].todo)
  BY DEF AtPost, Heads, Flying
<1>2. /\ Sound /\ Alive /\ s \in Segs /\ UserOf(s) = u /\ mout[s] # "none"
      /\ (s \in unsafe \/ (sent[s] = <<>> /\ mout[s] = "pending"))
  BY <1>1, AtTheHead DEF Waits
<1>3. /\ turn[u] \in TurnType /\ turn \in [Users -> TurnType] /\ turn[u].tries = 0
      /\ outbound \in [Segs -> OutStatus] /\ mout \in [Segs -> OutStatus]
  BY <1>1, <1>2 DEF Sound, Typed, MemTypes, DbTypes, Shapes, TurnShape
<1>4. \A from, to : CanMove(from, to, {"mark"}) <=> from = "pending" /\ to = "sending"
  BY DEF CanMove, OutboundTransitions
<1>5. /\ now \in [Segs -> OutStatus] /\ \A x \in Segs : x # s => now[x] = mout[x]
      /\ now[s] = IF turn[u].mark = "marked" /\ mout[s] = "pending" THEN "sending" ELSE mout[s]
  <2>1. Moved(mout[s], "sending", {"mark"}) = IF mout[s] = "pending" THEN "sending" ELSE mout[s]
    BY <1>4 DEF Moved
  <2>. QED BY <1>2, <1>3, <2>1 DEF AtPost, OutStatus
<1>. QED BY <1>1, <1>2, <1>3, <1>5 DEF Safe

\* The segment is sending in memory, and its request goes out or is held back at the deadline.
HeadMoves(u, s, now) ==
    /\ AtPost(u, s, now) /\ mout' = now /\ wq' = wq /\ SameHead(u)

LEMMA HeadMovesDoes ==
    ASSUME ChanInv, NEW u \in Users, NEW s, NEW now, HeadMoves(u, s, now), Posts(u)
    PROVE  Does(u, NoBatch) /\ CrashLoopEnds'
<1>1. AtPost(u, s, now) /\ mout' = now /\ wq' = wq /\ SameHead(u)
  BY DEF HeadMoves
<1>2. /\ turn[u].pc \in Heads /\ Sound /\ Alive /\ s \in Segs /\ UserOf(s) = u /\ mout[s] # "none"
      /\ mout \in [Segs -> OutStatus] /\ outbound \in [Segs -> OutStatus]
      /\ now \in [Segs -> OutStatus] /\ \A x \in Segs : x # s => now[x] = mout[x]
      /\ now[s] = IF turn[u].mark = "marked" /\ mout[s] = "pending" THEN "sending" ELSE mout[s]
  BY <1>1, PostFacts
<1>3. /\ Apart /\ NoSpeech /\ NoCount /\ Spends /\ UNCHANGED <<poisoned, halted, outbound, got>>
  BY <1>1 DEF AtPost
<1>4. TakesOn(u, NoBatch)
  BY <1>1 DEF TakesOn, NoBatch, HasPlanned, PlannedPcs, SameHead, Heads
<1>5. Moves(u, NoBatch)
  <2>1. \A x \in Segs : mout'[x] # mout[x] => x = s /\ <<mout[x], mout'[x]>> \in Forth
    BY <1>1, <1>2 DEF Forth
  <2>2. Agrees(NoBatch)'
    BY DEF Agrees, NoBatch
  <2>. QED BY <1>1, <1>2, <1>3, <2>1, <2>2 DEF Moves, NoBatch
<1>6. Leaves(u) /\ CrashLoopEnds'
  BY <1>2, <1>3, LeavesRest, SameCounts DEF ChanInv, Sound, Typed, MemTypes
<1>. QED BY <1>1, <1>2, <1>4, <1>5, <1>6, NoQueues DEF Does

LEMMA FirstRequestKeeps ==
    ASSUME ChanInv, NEW u \in Users, NEW s, NEW now, AtPost(u, s, now), mout' = now, wq' = wq,
           chain' = chain, Post(u)
    PROVE  ChanInv'
<1>1. /\ turn[u].pc \in Heads /\ turn[u].pc \notin Flying
      /\ Sound /\ Alive /\ s \in Segs /\ UserOf(s) = u /\ mout[s] # "none"
      /\ (s \in unsafe \/ (sent[s] = <<>> /\ mout[s] = "pending"))
      /\ turn[u] \in TurnType /\ turn \in [Users -> TurnType] /\ turn[u].tries = 0
      /\ now \in [Segs -> OutStatus] /\ \A x \in Segs : x # s => now[x] = mout[x]
      /\ now[s] = IF turn[u].mark = "marked" /\ mout[s] = "pending" THEN "sending" ELSE mout[s]
  BY PostFacts
<1>2. /\ s = Head(turn[u].todo) /\ turn[u].pc = "marked"
      /\ Apart /\ NoSpeech /\ NoCount /\ Spends /\ UNCHANGED <<poisoned, halted, outbound, got>>
  BY DEF AtPost
<1>3. /\ sent' = [sent EXCEPT ![s] = Append(@, boots)]
      /\ unsafe' = IF turn[u].mark = "marked" THEN unsafe ELSE unsafe \cup {s}
      /\ turn' = [turn EXCEPT ![u].pc = "wait", ![u].tries = @ + 1]
  BY <1>2 DEF Post
<1>4. /\ sent' \in [Segs -> Seq(1..MaxBoots)] /\ sent'[s] # <<>> /\ sent'[s] # sent[s]
      /\ \A x \in Segs : x # s => sent'[x] = sent[x]
      /\ \A i \in DOMAIN sent'[s] :
            sent'[s][i] = boots \/ (i \in DOMAIN sent[s] /\ sent'[s][i] = sent[s][i])
  BY <1>1, <1>3, AsksAgain
<1>5. SameHead(u) /\ turn'[u].pc = "wait"
  <2>. DEFINE t == [turn[u] EXCEPT !.pc = "wait", !.tries = @ + 1]
  <2>1. turn[u].tries + 1 \in 0..MaxTries
    BY <1>1, ChannelAssumption
  <2>2. t \in TurnType /\ t.pc = "wait" /\ t.m = turn[u].m /\ t.gen = turn[u].gen /\ t.todo = turn[u].todo
    <3>1. turn[u] \in TurnType
      BY <1>1
    <3>. QED BY <2>1, <3>1 DEF TurnType, Pcs
  <2>3. turn' = [turn EXCEPT ![u] = t]
    BY <1>1, <1>3
  <2>. HIDE DEF t
  <2>4. t.pc \in Heads \ {"backoff"} /\ t.pc \in Flying
    BY <2>2 DEF Heads, Flying
  <2>5. GoesOn(u) /\ turn'[u] = t
    BY <1>1, <2>2, <2>3, <2>4, HeadTurn
  <2>. QED BY <1>1, <2>2, <2>4, <2>5 DEF SameHead
<1>6. /\ unsafe \subseteq unsafe' /\ unsafe' \subseteq unsafe \cup {s} /\ unsafe \subseteq Segs
      /\ turn[u].mark # "marked" => s \in unsafe'
  BY <1>1, <1>3 DEF Sound, Typed, HistTypes
<1>7. Posts(u)
  <2>1. s \in unsafe' \/ Held(s)
    BY <1>1, <1>6 DEF Held
  <2>. QED BY <1>1, <1>2, <1>4, <1>6, <2>1 DEF Posts, Sound, Typed, HistTypes
<1>8. Does(u, NoBatch) /\ CrashLoopEnds'
  BY <1>5, <1>7, HeadMovesDoes DEF HeadMoves
<1>9. InFlight(s)'
  BY <1>1, <1>2, <1>5 DEF InFlight, Flying, SameHead
<1>10. /\ CountTrue(u)' /\ HearsTrue(u)' /\ StaffTrue(u)' /\ TodoTrue(u)'
       /\ \A x \in Segs : UserOf(x) = u /\ x # s => ~InFlight(x)'
  <2>1. mout'[s] # "none"
    BY <1>1
  <2>. QED BY <1>1, <1>2, <1>4, <1>5, <1>6, <1>9, <2>1, HeadGoesOn DEF NoSpeech
<1>11. s \notin unsafe' =>
          /\ turn[u].mark = "marked" /\ sent[s] = <<>> /\ mout'[s] = "sending" /\ outbound'[s] = "sending"
          /\ s \notin got
  <2>1. HeadTrue(u) /\ GotSent
    BY DEF ChanInv, Own, Ledger
  <2>2. s \notin unsafe' => turn[u].mark = "marked" /\ sent[s] = <<>> /\ mout'[s] = "sending"
    BY <1>1, <1>6
  <2>. QED BY <1>2, <1>6, <2>1, <2>2 DEF HeadTrue, GotSent
<1>12. HeadTrue(u)'
  BY <1>2, <1>4, <1>5, <1>11 DEF HeadTrue, SameHead
<1>13. ASSUME NEW x \in Segs, UserOf(x) = u PROVE SentTrue(x)'
  <2>1. CASE x # s
    <3>1. Safe(x) => mout[x] # "sending"
      BY <1>1, <1>13, NotSending
    <3>2. SentKeeps(x)
      BY <1>1, <1>2, <1>4, <1>10, <1>13, <2>1, <3>1 DEF SentKeeps
    <3>. QED BY <1>8, <1>13, <3>2, SentKept
  <2>2. CASE x = s
    <3>1. s \notin unsafe' /\ IsReply(s) => inbox[MsgOf(s)] \in Past /\ inbox' = inbox
      BY <1>1, <1>2, <1>11 DEF ChanInv, Rows, RowsTrue, Stored, Apart
    <3>2. s \notin unsafe' => \A i \in DOMAIN sent'[s] : sent'[s][i] = boots /\ boots' = boots
      BY <1>2, <1>4, <1>11 DEF Apart
    <3>. QED BY <1>2, <1>9, <1>11, <2>2, <3>1, <3>2 DEF SentTrue, Safe, Committed
  <2>. QED BY <2>1, <2>2
<1>. QED BY <1>8, <1>10, <1>12, <1>13, DoesInv DEF Own

LEMMA HoldsBackKeeps ==
    ASSUME ChanInv, NEW u \in Users, NEW s, NEW now, AtPost(u, s, now), mout' = now, wq' = wq,
           chain' = chain, GoTo(u, "unmark"), turn[u].mark = "marked", UNCHANGED <<sent, unsafe>>
    PROVE  ChanInv'
<1>1. /\ turn[u].pc \in Heads /\ turn[u].pc \notin Flying /\ turn[u].pc # "idle"
      /\ Sound /\ Alive /\ s \in Segs /\ UserOf(s) = u /\ mout[s] # "none"
      /\ (s \in unsafe \/ (sent[s] = <<>> /\ mout[s] = "pending")) /\ ~Safe(s)
      /\ turn[u] \in TurnType /\ turn \in [Users -> TurnType] /\ turn[u].tries = 0
      /\ now \in [Segs -> OutStatus] /\ \A x \in Segs : x # s => now[x] = mout[x]
      /\ now[s] = IF turn[u].mark = "marked" /\ mout[s] = "pending" THEN "sending" ELSE mout[s]
  BY PostFacts
<1>2. /\ s = Head(turn[u].todo) /\ turn[u].pc = "marked"
      /\ Apart /\ NoSpeech /\ NoCount /\ Spends /\ UNCHANGED <<poisoned, halted, outbound, got>>
  BY DEF AtPost
<1>3. SameHead(u) /\ turn'[u].pc = "unmark"
  <2>1. turn[u].todo # <<>>
    BY <1>1, HeadOfTodo
  <2>2. "unmark" \in Pcs /\ "unmark" \notin {"idle"} \cup Flying /\ "unmark" \in Heads
    BY DEF Pcs, Flying, Heads
  <2>3. Steps(u, "unmark")
    BY <1>1, <2>1, <2>2, GoesTo
  <2>. QED BY <1>1, <2>2, <2>3 DEF Steps, SameHead
<1>4. Does(u, NoBatch) /\ CrashLoopEnds'
  <2>1. Posts(u)
    BY <1>1, <1>2, NoPosts
  <2>. QED BY <1>3, <2>1, HeadMovesDoes DEF HeadMoves
<1>5. s \in unsafe' \/ Waits(u, s)'
  BY <1>1, <1>2, <1>3 DEF Waits, SameHead
<1>6. /\ CountTrue(u)' /\ HearsTrue(u)' /\ StaffTrue(u)' /\ TodoTrue(u)'
       /\ \A x \in Segs : UserOf(x) = u /\ x # s => ~InFlight(x)'
  <2>1. mout'[s] # "none"
    BY <1>1
  <2>. QED BY <1>1, <1>2, <1>3, <1>5, <2>1, HeadGoesOn DEF NoSpeech
<1>7. HeadTrue(u)'
  BY <1>3 DEF HeadTrue
<1>8. ASSUME NEW x \in Segs, UserOf(x) = u PROVE SentTrue(x)'
  <2>1. Safe(x) => mout[x] # "sending" /\ x # s
    BY <1>1, <1>8, NotSending
  <2>2. ~InFlight(x)'
    BY <1>3, <1>8 DEF InFlight, Flying
  <2>3. SentKeeps(x)
    BY <1>1, <1>2, <1>8, <2>1, <2>2 DEF SentKeeps
  <2>. QED BY <1>4, <1>8, <2>3, SentKept
<1>. QED BY <1>4, <1>6, <1>7, <1>8, DoesInv DEF Own

\* The segment is no longer pending in the database: the turn goes on to the next.
LEMMA SkipsKeeps ==
    ASSUME ChanInv, NEW u \in Users, NEW s, NEW now, AtPost(u, s, now), UNCHANGED <<mout, wq, chain, sent, unsafe>>,
           turn' = [turn EXCEPT ![u].pc = "send", ![u].todo = Tail(@)]
    PROVE  ChanInv'
<1>1. /\ turn[u].pc \in Heads /\ turn[u].pc \notin Flying /\ turn[u].pc # "idle" /\ turn[u].tries = 0
      /\ Sound /\ Alive
  BY PostFacts
<1>2. /\ s = Head(turn[u].todo) /\ turn[u].pc = "marked"
      /\ Apart /\ NoSpeech /\ NoCount /\ Spends /\ UNCHANGED <<poisoned, halted, outbound, got>>
  BY DEF AtPost
<1>3. NextTurn(u)
  BY <1>1, TurnsToNext
<1>4. TakesOn(u, NoBatch)
  BY <1>1, <1>2, <1>3 DEF TakesOn, NoBatch, HasPlanned, PlannedPcs, NextTurn
<1>5. Leaves(u) /\ CrashLoopEnds'
  BY <1>1, <1>2, LeavesRest, SameCounts DEF ChanInv, Sound, Typed, MemTypes
<1>6. Does(u, NoBatch)
  BY <1>1, <1>2, <1>4, <1>5, NoQueues, NoMoves, NoPosts DEF Does, NoBatch
<1>7. \A x \in Segs : UserOf(x) = u => SentTrue(x)'
  BY <1>1, <1>2, <1>3, <1>6, MovesOn DEF NextTurn, Flying
<1>8. TodoTrue(u)'
  BY <1>1, <1>2, <1>3, NextTodo
<1>9. CountTrue(u)' /\ HearsTrue(u)' /\ HeadTrue(u)'
  BY <1>3 DEF NextTurn, CountTrue, HearsTrue, HeadTrue
<1>10. StaffTrue(u)'
  BY <1>1, <1>2, <1>3 DEF NextTurn, ChanInv, Own, StaffTrue, Sending, NoSpeech
<1>. QED BY <1>5, <1>6, <1>7, <1>8, <1>9, <1>10, DoesInv DEF Own

LEMMA FirstPostStep ==
    ASSUME ChanInv, NEW u \in Users, FirstPost(u)
    PROVE  ChanInv'
<1>s. PICK s : s = Head(turn[u].todo)
  OBVIOUS
<1>n. PICK now : now = IF turn[u].mark = "marked"
                       THEN [mout EXCEPT ![s] = Moved(@, "sending", {"mark"})] ELSE mout
  OBVIOUS
<1>c. PICK C : C = {x \in Range(turn[u].todo) : CanMove(now[x], "cancelled", {"cancel"})}
  OBVIOUS
<1>1. AtPost(u, s, now)
  BY <1>s, <1>n DEF FirstPost, At, AtPost, dbVars, Apart, NoSpeech, NoCount, Spends
<1>2. \/ /\ turn' = [turn EXCEPT ![u].pc = "send", ![u].todo = Tail(@)]
         /\ UNCHANGED <<mout, wq, chain, sent, unsafe>>
      \/ /\ mout' = Set(now, C, "cancelled") /\ wq' = Queue(u, [NoBatch EXCEPT !.cancel = C])
         /\ GoTo(u, "finish") /\ UNCHANGED <<chain, sent, unsafe>>
      \/ mout' = now /\ wq' = wq /\ Post(u) /\ chain' = chain
      \/ /\ mout' = now /\ wq' = wq /\ turn[u].mark = "marked" /\ GoTo(u, "unmark")
         /\ UNCHANGED <<chain, sent, unsafe>>
      \/ mout' = now /\ wq' = wq /\ turn[u].mark # "marked" /\ Deferred(u) /\ UNCHANGED <<sent, unsafe>>
  BY <1>s, <1>n, <1>c DEF FirstPost
<1>3. /\ turn[u].pc = "marked" /\ turn[u].pc \in Heads /\ Alive /\ s \in Range(turn[u].todo)
      /\ Apart /\ NoSpeech /\ NoCount /\ Spends /\ UNCHANGED <<poisoned, halted, outbound, got>>
      /\ \A x \in Range(turn[u].todo) : x \in Segs
      /\ now \in [Segs -> OutStatus] /\ \A x \in Segs : x # s => now[x] = mout[x]
      /\ now[s] = IF turn[u].mark = "marked" /\ mout[s] = "pending" THEN "sending" ELSE mout[s]
      /\ mout \in [Segs -> OutStatus]
  BY <1>1, <1>s, PostFacts, AtTheHead DEF AtPost
<1>4. CASE /\ mout' = Set(now, C, "cancelled") /\ wq' = Queue(u, [NoBatch EXCEPT !.cancel = C])
           /\ GoTo(u, "finish") /\ UNCHANGED <<chain, sent, unsafe>>
  <2>1. C = {x \in Range(turn[u].todo) : mout[x] \in {"pending", "sending"}}
    <3>1. \A from, to : CanMove(from, to, {"cancel"}) <=> from \in {"pending", "sending"} /\ to = "cancelled"
      BY DEF CanMove, OutboundTransitions
    <3>2. \A x \in Range(turn[u].todo) : now[x] \in {"pending", "sending"} <=> mout[x] \in {"pending", "sending"}
      BY <1>3
    <3>. QED BY <1>c, <3>1, <3>2
  <2>2. mout' = Set(mout, C, "cancelled")
    <3>1. \A x \in Segs : x \notin C => now[x] = mout[x]
      BY <1>3, <2>1
    <3>. QED BY <1>3, <1>4, <3>1 DEF Set
  <2>. QED BY <1>3, <1>4, <2>1, <2>2, DropsRest
<1>5. CASE mout' = now /\ wq' = wq /\ turn[u].mark # "marked" /\ Deferred(u) /\ UNCHANGED <<sent, unsafe>>
  BY <1>3, <1>5, <1>n, DeferredKeeps
<1>. QED BY <1>1, <1>2, <1>4, <1>5, FirstRequestKeeps, HoldsBackKeeps, SkipsKeeps

LEMMA UnmarkStep ==
    ASSUME ChanInv, NEW u \in Users, Unmark(u)
    PROVE  ChanInv'
<1>s. PICK s : s = Head(turn[u].todo)
  OBVIOUS
<1>1. /\ turn[u].pc = "unmark" /\ turn[u].pc \in Heads /\ turn[u].pc \notin Flying /\ turn[u].pc # "idle"
      /\ Apart /\ NoSpeech /\ NoCount /\ Spends /\ UNCHANGED <<wq, poisoned, halted, sent, got, unsafe>>
      /\ Deferred(u)
      /\ outbound' \in {outbound, [outbound EXCEPT ![s] = Moved(@, "pending", {"unmark"})]}
      /\ mout' \in {mout, [mout EXCEPT ![s] = Moved(@, "pending", {"unmark"})]}
  BY <1>s DEF Unmark, At, Apart, NoSpeech, NoCount, Spends, Heads, Flying, Limits
<1>2. /\ Sound /\ Alive /\ s \in Segs /\ UserOf(s) = u /\ mout[s] # "none" /\ ~Safe(s)
      /\ mout \in [Segs -> OutStatus] /\ outbound \in [Segs -> OutStatus]
      /\ turn[u].tries = 0 /\ chain[u] # <<>>
  <2>1. Sound /\ Alive /\ s \in Segs /\ UserOf(s) = u /\ mout[s] # "none" /\ ~Safe(s)
    BY <1>1, <1>s, AtTheHead DEF Waits, Safe
  <2>. QED BY <1>1, <2>1, Working DEF Sound, Typed, MemTypes, DbTypes, Shapes, TurnShape
<1>3. /\ mout' \in [Segs -> OutStatus] /\ outbound' \in [Segs -> OutStatus]
      /\ \A x \in Segs : x # s => mout'[x] = mout[x] /\ outbound'[x] = outbound[x]
      /\ mout'[s] = mout[s] \/ (mout[s] = "sending" /\ mout'[s] = "pending")
      /\ outbound'[s] = outbound[s] \/ (outbound[s] = "sending" /\ outbound'[s] = "pending")
  <2>1. \A from, to : CanMove(from, to, {"unmark"}) <=> from = "sending" /\ to = "pending"
    BY DEF CanMove, OutboundTransitions
  <2>. QED BY <1>1, <1>2, <2>1 DEF Moved, OutStatus
<1>4. Moves(u, NoBatch)
  <2>1. \A x \in Segs : outbound'[x] # outbound[x] => x = s /\ {outbound[x], outbound'[x]} = {"pending", "sending"}
    BY <1>3
  <2>2. \A x \in Segs : mout'[x] # mout[x] => x = s /\ <<mout[x], mout'[x]>> \in Forth
    BY <1>3 DEF Forth
  <2>3. Agrees(NoBatch)'
    BY DEF Agrees, NoBatch
  <2>. QED BY <1>2, <1>3, <2>1, <2>2, <2>3 DEF Moves, NoBatch
<1>5. Leaves(u) /\ CrashLoopEnds' /\ Posts(u) /\ Queues(u, NoBatch)
  BY <1>1, <1>2, LeavesRest, SameCounts, NoPosts, NoQueues DEF ChanInv, Sound, Typed, MemTypes
<1>6. ASSUME Does(u, NoBatch), turn'[u].pc \notin Flying, NEW x \in Segs, UserOf(x) = u PROVE SentTrue(x)'
  <2>1. Safe(x) => mout[x] # "sending" /\ x # s
    BY <1>1, <1>2, <1>6, NotSending
  <2>2. ~InFlight(x)'
    BY <1>6 DEF InFlight
  <2>3. SentKeeps(x)
    BY <1>1, <1>3, <1>6, <2>1, <2>2 DEF SentKeeps
  <2>. QED BY <1>6, <2>3, SentKept
<1>7. CASE GoTo(u, "finish") /\ UNCHANGED chain
  <2>1. "finish" \in Pcs /\ "finish" \notin {"idle"} \cup Flying /\ "finish" \notin Heads
    BY DEF Pcs, Flying, Heads
  <2>2. Steps(u, "finish")
    BY <1>1, <1>2, <1>7, <2>1, GoesTo
  <2>3. TakesOn(u, NoBatch)
    BY <2>2 DEF TakesOn, NoBatch, HasPlanned, PlannedPcs, Steps
  <2>4. Does(u, NoBatch)
    BY <1>2, <1>4, <1>5, <2>3 DEF Does
  <2>5. turn'[u].pc = "finish" /\ turn'[u].gen <= gen'[u]
    BY <1>1, <2>2 DEF Steps, ChanInv, Own, StaffTrue, NoSpeech
  <2>6. Own(u)'
    BY <1>6, <2>1, <2>4, <2>5, Resting
  <2>. QED BY <1>5, <2>4, <2>6, DoesInv
<1>8. CASE Pop(u)
  <2>1. PopsRow(u) /\ turn'[u].pc \notin Flying
    BY <1>2, <1>8, PopKeeps, NoTurnType DEF PopsRow, Flying
  <2>2. TakesOn(u, NoBatch)
    BY <2>1 DEF TakesOn, NoBatch
  <2>3. Does(u, NoBatch)
    BY <1>2, <1>4, <1>5, <2>2 DEF Does
  <2>4. Own(u)'
    BY <1>6, <2>1, <2>3, Popped
  <2>. QED BY <1>5, <2>3, <2>4, DoesInv
<1>. QED BY <1>1, <1>7, <1>8 DEF Deferred

-----------------------------------------------------------------------------
(* Staff, and a conversation whose main transaction stops. *)

\* Whatever a batch adds, a turn and its segments stay what they are.
Stays(u) ==
    /\ UNCHANGED <<chain, turn, outbound, mout, sent, got, unsafe, mconv, halted>>
    /\ Apart /\ NoCount /\ Spends /\ poisoned' \subseteq Users
    /\ mowner' \in [Users -> Owners] /\ gen' \in [Users -> Nat]
    /\ \A v \in Users \ {u} : mowner'[v] = mowner[v] /\ gen'[v] = gen[v]

LEMMA StaysKeeps ==
    ASSUME ChanInv, Alive, NEW u \in Users, NEW b, Queues(u, b), Stays(u), StaffTrue(u)',
           b.inb = {}, b.plan = {}, b.cancel = {}, b.res = {}
    PROVE  ChanInv'
<1>1. /\ UNCHANGED <<chain, turn, outbound, mout, sent, got, unsafe, mconv, halted>>
      /\ Apart /\ NoCount /\ Spends /\ poisoned' \subseteq Users
      /\ mowner' \in [Users -> Owners] /\ gen' \in [Users -> Nat]
      /\ \A v \in Users \ {u} : mowner'[v] = mowner[v] /\ gen'[v] = gen[v]
      /\ Sound
  BY DEF Stays, ChanInv
<1>2. Leaves(u) /\ CrashLoopEnds'
  <2>1. CrashLoopEnds'
    BY <1>1, SameCounts DEF ChanInv
  <2>. QED BY <1>1, <2>1, SpendsKeeps DEF Leaves, Apart, NoCount, Sound, Typed, DbTypes, MemTypes, HistTypes
<1>3. Does(u, b)
  BY <1>1, <1>2, StaysOn, NoMoves, NoPosts DEF Does
<1>4. inbox' = inbox /\ boots' = boots /\ proc' = proc
  BY <1>1 DEF Apart
<1>5. CountTrue(u)' /\ TodoTrue(u)' /\ HeadTrue(u)'
  BY <1>1 DEF ChanInv, Own, CountTrue, TodoTrue, HeadTrue, NoCount, InFlight, Waits
<1>6. HearsTrue(u)'
  <2>1. HearsTrue(u)
    BY DEF ChanInv, Own
  <2>2. InQueue(u, turn[u].m, "recorded") => InQueue(u, turn[u].m, "recorded")'
    <3>1. PICK m : m = turn[u].m
      OBVIOUS
    <3>2. InQueue(u, m, "recorded") => InQueue(u, m, "recorded")'
      BY <1>1, StillInQueue
    <3>3. turn'[u].m = m
      BY <1>1, <3>1
    <3>. QED BY <3>1, <3>2, <3>3 DEF InQueue
  <2>. QED BY <1>1, <1>4, <2>1, <2>2 DEF HearsTrue
<1>7. \A x \in Segs : UserOf(x) = u => SentTrue(x)'
  BY <1>1, <1>4 DEF ChanInv, Own, SentTrue, Safe, InFlight, Alive
<1>. QED BY <1>2, <1>3, <1>5, <1>6, <1>7, DoesInv DEF Own

LEMMA PoisonStep ==
    ASSUME ChanInv, NEW u \in Users, Poison(u)
    PROVE  ChanInv'
<1>1. Alive /\ Stays(u) /\ gen' = gen /\ mowner' = mowner /\ turn' = turn /\ wq' = wq
  BY DEF Poison, Stays, dbVars, Apart, NoCount, Spends, Limits, ChanInv, Sound, Typed, MemTypes
<1>2. StaffTrue(u)'
  BY <1>1 DEF ChanInv, Own, StaffTrue
<1>. QED BY <1>1, <1>2, NoQueues, StaysKeeps DEF NoBatch

\* The owner of a conversation is written with its next batch.
LEMMA OwnsBatch ==
    ASSUME Sound, NEW u \in Users, NEW own \in Owners, wq' = Queue(u, [NoBatch EXCEPT !.own = own])
    PROVE  \E b : Queues(u, b) /\ b.inb = {} /\ b.plan = {} /\ b.cancel = {} /\ b.res = {}
<1>1. PICK b : b = [NoBatch EXCEPT !.own = own]
  OBVIOUS
<1>2. Parts(b, {}, {}, own, {}, {}, {}, {})
  BY <1>1, TalkParts
<1>3. Queues(u, b)
  BY <1>1, <1>2 DEF Queues, Parts, Owned
<1>. QED BY <1>2, <1>3 DEF Parts

LEMMA TakeoverStep ==
    ASSUME ChanInv, NEW u \in Users, Takeover(u)
    PROVE  ChanInv'
<1>1. /\ Alive /\ Sound /\ turn' = turn /\ wq' = Queue(u, [NoBatch EXCEPT !.own = "human"])
      /\ gen \in [Users -> Nat] /\ gen'[u] = gen[u] + 1
  BY DEF Takeover, ChanInv, Sound, Typed, MemTypes
<1>2. Stays(u)
  <2>1. /\ UNCHANGED <<chain, turn, outbound, mout, sent, got, unsafe, mconv, halted, poisoned>>
        /\ Apart /\ NoCount
    BY DEF Takeover, dbVars, Apart, NoCount
  <2>2. Spends
    BY DEF Takeover, Spends, Limits
  <2>3. /\ mowner' = [mowner EXCEPT ![u] = "human"] /\ gen' = [gen EXCEPT ![u] = @ + 1]
        /\ mowner \in [Users -> Owners] /\ poisoned \subseteq Users
    BY <1>1 DEF Takeover, Sound, Typed, MemTypes
  <2>4. /\ mowner' \in [Users -> Owners] /\ \A v \in Users \ {u} : mowner'[v] = mowner[v]
    BY <2>3 DEF Owners
  <2>5. gen' \in [Users -> Nat] /\ \A v \in Users \ {u} : gen'[v] = gen[v]
    BY <1>1, <2>3
  <2>. QED BY <2>1, <2>2, <2>3, <2>4, <2>5 DEF Stays
<1>3. StaffTrue(u)'
  <2>1. turn[u].gen \in Nat /\ turn[u].gen <= gen[u] /\ gen[u] \in Nat
    BY <1>1 DEF ChanInv, Own, StaffTrue, Sound, Typed, MemTypes, TurnType
  <2>2. turn[u].gen <= gen'[u] /\ gen'[u] # turn[u].gen
    BY <1>1, <2>1
  <2>. QED BY <1>1, <2>2 DEF StaffTrue
<1>. QED BY <1>1, <1>2, <1>3, OwnsBatch, StaysKeeps DEF Owners

LEMMA HandBackStep ==
    ASSUME ChanInv, NEW u \in Users, HandBack(u)
    PROVE  ChanInv'
<1>1. /\ Alive /\ Sound /\ turn' = turn /\ wq' = Queue(u, [NoBatch EXCEPT !.own = "ai"])
      /\ gen' = gen /\ mowner'[u] = "ai"
  BY DEF HandBack, ChanInv, Sound, Typed, MemTypes
<1>2. Stays(u)
  BY DEF HandBack, Stays, dbVars, histVars, Apart, NoCount, Spends, ChanInv, Sound, Typed, MemTypes, Owners
<1>3. StaffTrue(u)'
  BY <1>1 DEF ChanInv, Own, StaffTrue
<1>. QED BY <1>1, <1>2, <1>3, OwnsBatch, StaysKeeps DEF Owners

-----------------------------------------------------------------------------
(* Stopping and starting. *)

LEMMA StopStep ==
    ASSUME ChanInv, Stop
    PROVE  ChanInv'
<1>1. /\ Alive /\ Alive' /\ proc' \in {"down", "up", "stopping", "closed"}
      /\ UNCHANGED <<cursor, inbox, attempts, outbound, conv, owner, receipt>>
      /\ UNCHANGED <<cur, cold, mout, mconv, mowner, gen, wq, poisoned, chain, turn, halted, rtask>>
      /\ UNCHANGED <<sent, got, unsafe, dequeued, worked, boots, faults>>
  BY DEF Stop, Alive, dbVars, histVars
<1>2. Sound'
  BY <1>1 DEF ChanInv, Sound, Typed, DbTypes, MemTypes, HistTypes, Shapes, TurnShape, Down
<1>3. CrashLoopEnds'
  BY <1>1 DEF ChanInv, CrashLoopEnds
<1>4. Known' /\ QueueOrder'
  BY <1>1 DEF ChanInv, Rows, Known, Used, QueueOrder, Covered, Ready
<1>5. RowsTrue'
  BY <1>1 DEF ChanInv, Rows, RowsTrue, Stored, Held, InQueue
<1>6. \A u \in Users : ChainTrue(u)'
  BY <1>1 DEF ChanInv, Rows, ChainTrue, HasPlanned, InQueue, Used
<1>7. QueueAgrees' /\ EndsAgree' /\ GotSent'
  BY <1>1 DEF ChanInv, Ledger, QueueAgrees, Agrees, Held, EndsAgree, GotSent
<1>8. OneBoot'
  BY <1>1 DEF ChanInv, Ledger, OneBoot, Live, Stored, Safe, Held, QueuedSeg
<1>9. ASSUME NEW u \in Users PROVE Own(u)'
  <2>1. CountTrue(u)' /\ HearsTrue(u)' /\ TodoTrue(u)' /\ HeadTrue(u)' /\ StaffTrue(u)'
    BY <1>1 DEF ChanInv, Own, CountTrue, HearsTrue, InQueue, TodoTrue, InFlight, Waits, HeadTrue, StaffTrue
  <2>2. \A s \in Segs : UserOf(s) = u => SentTrue(s)'
    BY <1>1 DEF ChanInv, Own, SentTrue, Safe, InFlight
  <2>. QED BY <2>1, <2>2 DEF Own
<1>. QED BY <1>2, <1>3, <1>4, <1>5, <1>6, <1>7, <1>8, <1>9 DEF ChanInv, Rows, Ledger

\* An end of the process, planned or not: what was in memory is gone.
LEMMA ForgetKeeps ==
    ASSUME ChanInv, Forget, conv' \in [Msgs -> Says], owner' \in [Users -> Owners]
    PROVE  ChanInv'
<1>1. /\ ~Alive' /\ proc' = "down" /\ Sound
      /\ \A u \in Users : wq'[u] = <<>> /\ chain'[u] = <<>> /\ turn'[u] = NoTurn
      /\ wq' = [u \in Users |-> <<>>] /\ chain' = [u \in Users |-> <<>>] /\ turn' = [u \in Users |-> NoTurn]
      /\ rtask' = {} /\ halted' = {} /\ poisoned' = {}
      /\ UNCHANGED <<cursor, inbox, attempts, outbound, receipt, cur, cold, mout, mconv, mowner, gen>>
      /\ UNCHANGED <<sent, got, unsafe, dequeued, worked, boots, faults>>
  BY DEF Forget, Alive, histVars, ChanInv
<1>2. NoTurn \in TurnType /\ NoTurn.pc = "idle" /\ NoTurn.tries = 0 /\ NoTurn.outc = "none" /\ NoTurn.gen = 0
  BY NoTurnType
<1>3. Sound'
  <2>1. DbTypes' /\ HistTypes'
    BY <1>1 DEF Sound, Typed, DbTypes, HistTypes
  <2>2. MemTypes'
    BY <1>1, <1>2 DEF Sound, Typed, MemTypes
  <2>3. Shapes'
    BY <1>1, <1>2 DEF Shapes, TurnShape, Heads, Flying, Down
  <2>. QED BY <2>1, <2>2, <2>3 DEF Sound, Typed
<1>4. CrashLoopEnds'
  BY <1>1 DEF ChanInv, CrashLoopEnds
<1>5. Known' /\ QueueOrder'
  BY <1>1 DEF ChanInv, Rows, Known, Used, QueueOrder
<1>6. RowsTrue'
  BY <1>1 DEF ChanInv, Rows, RowsTrue, Stored
<1>7. \A u \in Users : ChainTrue(u)'
  <2>1. Range(<<>>) = {} /\ IsInjective(<<>>)
    BY DEF Range, IsInjective
  <2>. QED BY <1>1, <2>1 DEF ChainTrue
<1>8. QueueAgrees' /\ EndsAgree' /\ GotSent'
  BY <1>1 DEF ChanInv, Ledger, QueueAgrees, EndsAgree, GotSent
<1>9. OneBoot'
  <2>1. ASSUME NEW s \in Segs, Live(s)' PROVE Live(s)
    <3>1. ~QueuedSeg(s)'
      BY <1>1, SegFields DEF QueuedSeg
    <3>. QED BY <1>1, <2>1, <3>1 DEF Live, Stored, Safe
  <2>. QED BY <2>1 DEF ChanInv, Ledger, OneBoot
<1>10. ASSUME NEW u \in Users PROVE Own(u)'
  <2>1. ASSUME NEW s \in Segs, UserOf(s) = u PROVE SentTrue(s)'
    <3>1. ~InFlight(s)'
      BY <1>1, <1>2, <2>1 DEF InFlight, Flying
    <3>. QED BY <1>1, <2>1, <3>1 DEF ChanInv, Own, SentTrue, Safe
  <2>2. turn'[u].pc = "idle" /\ turn'[u].gen <= gen'[u]
    BY <1>1, <1>2 DEF Sound, Typed, MemTypes
  <2>. QED BY <2>1, <2>2, Resting
<1>. QED BY <1>3, <1>4, <1>5, <1>6, <1>7, <1>8, <1>9, <1>10 DEF ChanInv, Rows, Ledger

LEMMA CrashStep ==
    ASSUME ChanInv, Crash \/ Exit
    PROVE  ChanInv'
<1>1. /\ conv \in [Msgs -> Says] /\ owner \in [Users -> Owners]
      /\ mconv \in [Msgs -> Says] /\ mowner \in [Users -> Owners]
  BY DEF ChanInv, Sound, Typed, DbTypes, MemTypes
<1>2. Forget /\ conv' \in [Msgs -> Says] /\ owner' \in [Users -> Owners]
  BY <1>1 DEF Crash, Exit
<1>. QED BY <1>2, ForgetKeeps

\* What recovery makes of a segment's row.
ChangedTo(u, to) == {s \in Segs : UserOf(s) = u /\ outbound[s] # to /\ OutboundRecovery(s) = to}
LostOf(u) == {<<s, "unknown">> : s \in ChangedTo(u, "unknown")}
BootBatch(u) == [NoBatch EXCEPT !.res = LostOf(u), !.cancel = ChangedTo(u, "cancelled")]

LEMMA RecoveryTable ==
    ASSUME Sound, NEW s \in Segs
    PROVE  LET r == OutboundRecovery(s) IN
           /\ r \in OutStatus /\ (r \notin {"none", "failed"} => Stored(s)) /\ r # "sending"
           /\ r = "none" <=> outbound[s] = "none"
           /\ outbound[s] \in NoMoreSends => r \in NoMoreSends
           /\ outbound[s] \in Committed => r \in Committed
           /\ outbound[s] # "rejected" => r # "rejected"
<1>1. outbound[s] \in OutStatus
  BY DEF Sound, Typed, DbTypes
<1>2. \A from, to : CanMove(from, to, {"receipt"}) <=>
         from \in {"none", "pending", "sending", "accepted", "unknown"} /\ to = "failed"
  BY DEF CanMove, OutboundTransitions
<1>. DEFINE r == OutboundRecovery(s)
<1>3. \/ outbound[s] \in {"pending", "sending", "accepted", "unknown"} /\ r = "failed"
      \/ outbound[s] = "sending" /\ r = "unknown"
      \/ outbound[s] = "pending" /\ r = "cancelled"
      \/ outbound[s] # "sending" /\ r = outbound[s]
  BY <1>1, <1>2 DEF OutboundRecovery, Moved, OutStatus
<1>. HIDE DEF r
<1>4. /\ r \in OutStatus /\ (r \notin {"none", "failed"} => Stored(s)) /\ r # "sending"
      /\ r = "none" <=> outbound[s] = "none"
  BY <1>1, <1>3 DEF OutStatus, Stored
<1>5. /\ outbound[s] \in NoMoreSends => r \in NoMoreSends
      /\ outbound[s] \in Committed => r \in Committed
      /\ outbound[s] # "rejected" => r # "rejected"
  BY <1>1, <1>3 DEF NoMoreSends, Committed
<1>. QED BY <1>4, <1>5 DEF r

LEMMA BootBatches ==
    ASSUME Sound, NEW u \in Users
    PROVE  /\ BootBatch(u) \in Batch /\ Owned(u, BootBatch(u))
           /\ BootBatch(u).inb = {} /\ BootBatch(u).plan = {}
           /\ BootBatch(u).cancel = ChangedTo(u, "cancelled") /\ BootBatch(u).res = LostOf(u)
           /\ \A s \in ChangedTo(u, "unknown") : s \in Segs /\ Stored(s)
<1>1. /\ LostOf(u) \in SUBSET (Segs \X Results) /\ ChangedTo(u, "cancelled") \in SUBSET Segs
      /\ {} \in SUBSET (Msgs \X Changes) /\ {} \in SUBSET Segs
  BY DEF LostOf, ChangedTo, Results
<1>2. Parts(BootBatch(u), {}, {}, "same", {}, {}, ChangedTo(u, "cancelled"), LostOf(u))
  BY <1>1, LedgerParts DEF BootBatch
<1>3. \A s \in ChangedTo(u, "unknown") : s \in Segs /\ UserOf(s) = u /\ Stored(s)
  BY RecoveryTable DEF ChangedTo
<1>4. \A s \in ChangedTo(u, "cancelled") : UserOf(s) = u
  BY DEF ChangedTo
<1>5. \A x \in LostOf(u) : UserOf(x[1]) = u
  BY <1>3 DEF LostOf
<1>. QED BY <1>2, <1>3, <1>4, <1>5 DEF Parts, Owned

LEMMA BootStep ==
    ASSUME ChanInv, Boot
    PROVE  ChanInv'
<1>1. /\ ~Alive /\ Alive' /\ proc' = "up" /\ boots' = boots + 1 /\ boots < faults.starts
      /\ cur' = cursor /\ cold' = (cursor = 0) /\ mconv' = conv /\ mowner' = owner
      /\ mout' = [s \in Segs |-> OutboundRecovery(s)]
      /\ chain' = [u \in Users |-> OpenRows(u)]
      /\ rtask' = {s \in Segs : receipt[s] = "received"}
      /\ UNCHANGED <<cursor, inbox, attempts, outbound, conv, owner, receipt>>
      /\ UNCHANGED <<gen, poisoned, turn, halted, sent, got, unsafe, dequeued, worked>>
  BY DEF Boot, Alive, dbVars
<1>2. wq' = [u \in Users |-> IF ChangedTo(u, "unknown") \cup ChangedTo(u, "cancelled") = {} THEN <<>>
                              ELSE <<BootBatch(u)>>]
  BY DEF Boot, BootBatch, LostOf, ChangedTo
<1>3. /\ Sound /\ Known /\ QueueOrder /\ RowsTrue /\ Down
      /\ turn \in [Users -> TurnType] /\ gen \in [Users -> Nat]
      /\ boots \in Nat /\ \A u \in Users : turn[u] = NoTurn
  BY <1>1 DEF ChanInv, Rows, Sound, Shapes, Down, Typed, MemTypes, HistTypes
<1>4. NoTurn \in TurnType /\ NoTurn.pc = "idle" /\ NoTurn.tries = 0 /\ NoTurn.outc = "none" /\ NoTurn.gen = 0
  BY NoTurnType
<1>5. \A s \in Segs : mout'[s] = OutboundRecovery(s)
  BY <1>1
<1>6. ASSUME NEW u \in Users, NEW i \in DOMAIN wq'[u]
      PROVE  wq'[u][i] = BootBatch(u) /\ wq'[u] \in Seq(Batch)
  BY <1>2, <1>3, <1>6, BootBatches
<1>7. wq' \in [Users -> Seq(Batch)]
  <2>1. \A u \in Users : BootBatch(u) \in Batch
    BY <1>3, BootBatches
  <2>. QED BY <1>2, <2>1
<1>8. ASSUME NEW u \in Users
      PROVE  /\ chain'[u] \in Seq(Msgs) /\ IsInjective(chain'[u])
             /\ Range(chain'[u]) = OpenRowsOf(u)
  <2>1. OpenRowsOf(u) \in SUBSET Msgs
    BY DEF OpenRowsOf
  <2>. QED BY <1>1, <2>1, MessagesInSequence DEF OpenRows
<1>9. Sound'
  <2>1. DbTypes'
    BY <1>1, <1>3 DEF Sound, Typed, DbTypes
  <2>2. MemTypes'
    <3>1. mout' \in [Segs -> OutStatus]
      BY <1>1, <1>3, RecoveryTable
    <3>2. chain' \in [Users -> Seq(Msgs)]
      BY <1>1, <1>8
    <3>3. cur' \in 0..N /\ cold' \in BOOLEAN /\ mconv' \in [Msgs -> Says] /\ mowner' \in [Users -> Owners]
      BY <1>1, <1>3 DEF Sound, Typed, DbTypes
    <3>. QED BY <1>1, <1>3, <1>7, <3>1, <3>2, <3>3 DEF MemTypes, Sound, Typed
  <2>3. HistTypes'
    <3>1. faults' \in [Limits -> Nat] /\ faults'.starts = faults.starts /\ faults'.segs = faults.segs
      <4>1. faults \in [Limits -> Nat] /\ cursor \in Nat
        BY <1>3, ChannelAssumption DEF Sound, Typed, HistTypes, DbTypes
      <4>2. faults.sleep \in Nat /\ (faults.sleep > 0 => faults.sleep - 1 \in Nat)
        BY <4>1 DEF Limits
      <4>3. CASE faults' = faults
        BY <4>1, <4>3
      <4>4. CASE faults.sleep > 0 /\ faults' = [faults EXCEPT !.sleep = @ - 1, !.old = cursor]
        BY <4>1, <4>2, <4>4 DEF Limits
      <4>. QED BY <4>3, <4>4 DEF Boot
    <3>2. boots' \in Nat /\ boots' <= faults.starts
      BY <1>1, <1>3 DEF Sound, Typed, HistTypes, Limits
    <3>. QED BY <1>1, <1>3, <3>1, <3>2 DEF Sound, Typed, HistTypes
  <2>4. Shapes'
    <3>1. \A u \in Users : \A i \in DOMAIN wq'[u] : Owned(u, wq'[u][i])
      BY <1>3, <1>6, BootBatches
    <3>2. \A u \in Users : \A i \in DOMAIN chain'[u] : From[chain'[u][i]] = u
      BY <1>8 DEF Range, OpenRowsOf
    <3>3. \A u \in Users : TurnShape(u)'
      BY <1>1, <1>3, <1>4 DEF TurnShape, Heads, Flying
    <3>4. Down'
      BY <1>1, <1>3 DEF Down
    <3>. QED BY <3>1, <3>2, <3>3, <3>4 DEF Shapes
  <2>. QED BY <2>1, <2>2, <2>3, <2>4 DEF Sound, Typed
<1>10. CrashLoopEnds'
  BY <1>1 DEF ChanInv, CrashLoopEnds
<1>11. \A u \in Users : \A i \in DOMAIN wq'[u] :
          /\ wq'[u][i].inb = {} /\ wq'[u][i].plan = {}
          /\ wq'[u][i].cancel = ChangedTo(u, "cancelled") /\ wq'[u][i].res = LostOf(u)
          /\ \A s \in About(wq'[u][i]) : s \in Segs /\ Stored(s)
  <2>1. \A u \in Users : \A r \in LostOf(u) : r[1] \in ChangedTo(u, "unknown")
    BY DEF LostOf
  <2>. QED BY <1>3, <1>6, <2>1, BootBatches DEF About
<1>12. Known'
  <2>1. ASSUME NEW s \in Segs, Used(s)' PROVE inbox'[MsgOf(s)] # "none" /\ s[2] <= boots'
    <3>1. Used(s)
      BY <1>1, <1>3, <1>5, <2>1, RecoveryTable DEF Used
    <3>2. inbox[MsgOf(s)] # "none" /\ s[2] <= boots /\ s[2] \in Nat
      BY <1>3, <3>1, SegFields DEF Known
    <3>. QED BY <1>1, <1>3, <3>2
  <2>. QED BY <1>11, <2>1 DEF Known
<1>13. QueueOrder'
  <2>1. \A s \in Segs : IsReply(s) /\ Stored(s) => inbox'[MsgOf(s)] \in Past
    BY <1>1, <1>3 DEF RowsTrue
  <2>. QED BY <1>11, <2>1 DEF QueueOrder, Covered
<1>14. RowsTrue'
  <2>1. \A s \in Segs : (Stored(s)' => Stored(s)) /\ (Held(s)' => Stored(s))
    BY <1>1, <1>3, <1>5, RecoveryTable DEF Stored, Held
  <2>. QED BY <1>1, <1>3, <2>1 DEF RowsTrue
<1>15. ASSUME NEW u \in Users PROVE ChainTrue(u)'
  <2>1. ASSUME NEW m \in Range(chain'[u])
        PROVE  /\ inbox'[m] \in InboxOpen /\ ~InQueue(u, m, "done")' /\ ~InQueue(u, m, "abandoned")'
               /\ ~InQueue(u, m, "replied")'
               /\ \A s \in Segs : MsgOf(s) = m /\ Used(s)' => s[2] < boots'
    <3>1. inbox'[m] \in InboxOpen
      BY <1>1, <1>8, <2>1 DEF OpenRowsOf
    <3>2. ~InQueue(u, m, "done")' /\ ~InQueue(u, m, "abandoned")' /\ ~InQueue(u, m, "replied")'
      BY <1>11 DEF InQueue
    <3>3. ASSUME NEW s \in Segs, Used(s)' PROVE s[2] < boots'
      <4>1. Used(s)
        BY <1>1, <1>3, <1>5, <3>3, RecoveryTable DEF Used
      <4>2. s[2] <= boots /\ s[2] \in Nat
        BY <1>3, <4>1, SegFields DEF Known
      <4>. QED BY <1>1, <1>3, <4>2
    <3>. QED BY <3>1, <3>2, <3>3
  <2>. QED BY <1>8, <2>1 DEF ChainTrue
<1>16. QueueAgrees' /\ EndsAgree' /\ GotSent'
  <2>1. ASSUME NEW u \in Users, NEW i \in DOMAIN wq'[u] PROVE Agrees(wq[u][i])'
    <3>1. \A s \in ChangedTo(u, "cancelled") : mout'[s] = "cancelled"
      BY <1>5 DEF ChangedTo
    <3>2. \A r \in LostOf(u) : mout'[r[1]] = "unknown" /\ r[2] = "unknown"
      BY <1>5 DEF LostOf, ChangedTo
    <3>3. "unknown" \in Onward.unknown
      BY DEF Onward
    <3>. QED BY <1>11, <3>1, <3>2, <3>3 DEF Agrees
  <2>2. EndsAgree'
    BY <1>1, <1>3, <1>5, RecoveryTable DEF EndsAgree
  <2>3. GotSent'
    BY <1>1 DEF ChanInv, Ledger, GotSent
  <2>. QED BY <2>1, <2>2, <2>3 DEF QueueAgrees
<1>17. OneBoot'
  <2>1. ASSUME NEW s \in Segs, Live(s)' PROVE Live(s)
    <3>1. QueuedSeg(s)' => Stored(s)
      BY <1>11, SegFields DEF QueuedSeg
    <3>2. Held(s)' => Stored(s)
      BY <1>3, <1>5, RecoveryTable DEF Held
    <3>. QED BY <1>1, <2>1, <3>1, <3>2 DEF Live, Stored, Safe
  <2>. QED BY <2>1 DEF ChanInv, Ledger, OneBoot
<1>18. ASSUME NEW u \in Users PROVE Own(u)'
  <2>1. ASSUME NEW s \in Segs, UserOf(s) = u PROVE SentTrue(s)'
    <3>1. ~InFlight(s)'
      BY <1>1, <1>3, <1>4, <2>1 DEF InFlight, Flying
    <3>2. SentTrue(s) /\ (Safe(s)' <=> Safe(s))
      BY <1>1, <2>1 DEF ChanInv, Own, Safe
    <3>3. Safe(s) => /\ mout'[s] \in Committed /\ mout'[s] # "sending"
                     /\ (s \in got => mout'[s] # "rejected")
      BY <1>3, <1>5, <3>2, RecoveryTable DEF SentTrue
    <3>. QED BY <1>1, <3>1, <3>2, <3>3 DEF SentTrue
  <2>2. turn'[u].pc = "idle" /\ turn'[u].gen <= gen'[u]
    BY <1>1, <1>3, <1>4
  <2>. QED BY <2>1, <2>2, Resting
<1>. QED BY <1>9, <1>10, <1>12, <1>13, <1>14, <1>15, <1>16, <1>17, <1>18 DEF ChanInv, Rows, Ledger

-----------------------------------------------------------------------------
(* What a committed batch does to the rows. *)

LEMMA RowTable ==
    ASSUME NEW x, NEW to
    PROVE  <<x, to>> \in InboxTransitions <=>
             \/ x = "none" /\ to \in {"received", "done", "abandoned"}
             \/ x = "received" /\ to = "recorded"
             \/ x = "recorded" /\ to = "replied"
             \/ x \in InboxOpen /\ to \in {"done", "abandoned"}
<1>1. <<x, to>> \in {<<f, t>> : f \in InboxOpen, t \in {"done", "abandoned"}}
         <=> x \in InboxOpen /\ to \in {"done", "abandoned"}
  OBVIOUS
<1>2. <<x, to>> \in {<<"none", "received">>, <<"none", "done">>, <<"none", "abandoned">>,
                     <<"received", "recorded">>, <<"recorded", "replied">>}
         <=> \/ x = "none" /\ to \in {"received", "done", "abandoned"}
             \/ x = "received" /\ to = "recorded"
             \/ x = "recorded" /\ to = "replied"
  OBVIOUS
<1>. QED BY <1>1, <1>2 DEF InboxTransitions

LEMMA RowWritten ==
    ASSUME NEW st \in InboxStates \ {"none"}, NEW ch \in SUBSET Changes
    PROVE  LET a == InboxAfter(st, ch) IN
           /\ a \in InboxStates \ {"none"}
           /\ st \in Past => a \in Past
           /\ st \in InboxOpen /\ ch \cap {"done", "abandoned"} = {} => a \in InboxOpen
           /\ st \in {"received", "recorded"} /\ ch \subseteq {"recorded"} => a \in {"received", "recorded"}
           /\ st # "received" \/ "recorded" \in ch => a # "received"
           /\ "replied" \in ch /\ (st # "received" \/ "recorded" \in ch) => a \in Past
           /\ st \in {"done", "abandoned"} \/ ch \cap {"done", "abandoned"} # {} => a \in {"done", "abandoned"}
<1>. DEFINE move(x, to) == IF to \in ch THEN InboxMoved(x, to) ELSE x
            a1 == move(st, "recorded")
            a2 == move(a1, "replied")
            a3 == move(a2, "done")
            a4 == move(a3, "abandoned")
<1>1. a1 = IF "recorded" \in ch /\ st = "received" THEN "recorded" ELSE st
  BY RowTable DEF InboxMoved
<1>2. a2 = IF "replied" \in ch /\ a1 = "recorded" THEN "replied" ELSE a1
  <2>. HIDE DEF a1
  <2>. QED BY RowTable DEF InboxMoved
<1>3. a3 = IF "done" \in ch /\ a2 \in InboxOpen \cup {"none"} THEN "done" ELSE a2
  <2>. HIDE DEF a2
  <2>. QED BY RowTable DEF InboxMoved
<1>4. a4 = IF "abandoned" \in ch /\ a3 \in InboxOpen \cup {"none"} THEN "abandoned" ELSE a3
  <2>. HIDE DEF a3
  <2>. QED BY RowTable DEF InboxMoved
<1>5. InboxAfter(st, ch) = a4
  BY DEF InboxAfter
<1>. HIDE DEF a1, a2, a3, a4
<1>. QED BY <1>1, <1>2, <1>3, <1>4, <1>5 DEF InboxStates, InboxOpen, Past

LEMMA RowUntouched ==
    ASSUME NEW st
    PROVE  InboxAfter(st, {}) = st
  BY DEF InboxAfter

LEMMA FlushTable ==
    ASSUME NEW from, NEW to
    PROVE  CanMove(from, to, FlushWriters) <=>
             \/ from = "none" /\ to \in {"pending", "accepted", "rejected", "unknown", "failed"}
             \/ from = "unknown" /\ to \in {"accepted", "unknown", "failed"}
             \/ from \in {"pending", "sending"}
                   /\ to \in {"cancelled", "accepted", "rejected", "unknown", "failed"}
             \/ from = "accepted" /\ to = "failed"
<1>1. CanMove(from, to, FlushWriters) <=>
         \/ <<from, to, "plan">> \in OutboundTransitions \/ <<from, to, "settle">> \in OutboundTransitions
         \/ <<from, to, "cancel">> \in OutboundTransitions \/ <<from, to, "receipt">> \in OutboundTransitions
  BY DEF CanMove, FlushWriters
<1>2. <<from, to, "plan">> \in OutboundTransitions <=> from = "none" /\ to = "pending"
  BY DEF OutboundTransitions
<1>3. <<from, to, "settle">> \in OutboundTransitions <=>
         \/ from \in {"none", "pending", "sending"} /\ to \in {"accepted", "rejected", "unknown"}
         \/ from = "unknown" /\ to \in {"accepted", "unknown"}
  BY DEF OutboundTransitions
<1>4. <<from, to, "cancel">> \in OutboundTransitions <=> from \in {"pending", "sending"} /\ to = "cancelled"
  BY DEF OutboundTransitions
<1>5. <<from, to, "receipt">> \in OutboundTransitions <=>
         from \in {"none", "pending", "sending", "accepted", "unknown"} /\ to = "failed"
  BY DEF OutboundTransitions
<1>. QED BY <1>1, <1>2, <1>3, <1>4, <1>5

LEMMA SegmentWritten ==
    ASSUME NEW st \in OutStatus, NEW s \in Segs, NEW b \in Batch, NEW R, R \subseteq b.res
    PROVE  LET o == OutboundAfter(st, s, b, R) IN
           /\ o \in OutStatus /\ (st # "none" => o # "none")
           /\ o # st => \/ (s \in b.plan /\ st = "none") \/ s \in b.cancel
                        \/ \E r \in b.res : r[1] = s
           /\ o # st /\ st \in {"none", "failed"} => s \in About(b) /\ st = "none"
           /\ o \in NoMoreSends => \/ st \in NoMoreSends \/ (o = "cancelled" /\ s \in b.cancel)
                                   \/ <<s, o>> \in b.res
           /\ st \in Committed => o \in Committed \/ s \in b.cancel
           /\ o = "rejected" => st = "rejected" \/ <<s, "rejected">> \in b.res
<1>. DEFINE p == IF s \in b.plan THEN Moved(st, "pending", FlushWriters) ELSE st
            c == IF s \in b.cancel THEN Moved(p, "cancelled", FlushWriters) ELSE p
            mine == {r \in R : r[1] = s}
            last == (CHOOSE r \in mine : TRUE)[2]
            o == IF mine = {} THEN c ELSE Moved(c, last, FlushWriters)
<1>1. p = IF s \in b.plan /\ st = "none" THEN "pending" ELSE st
  BY FlushTable DEF Moved
<1>2. c = IF s \in b.cancel /\ p \in {"pending", "sending"} THEN "cancelled" ELSE p
  <2>. HIDE DEF p
  <2>. QED BY FlushTable DEF Moved
<1>3. mine # {} => last \in Results /\ <<s, last>> \in b.res /\ \E r \in b.res : r[1] = s
  <2>1. b.res \subseteq Segs \X Results
    BY DEF Batch
  <2>2. mine # {} => (CHOOSE r \in mine : TRUE) \in mine
    OBVIOUS
  <2>. QED BY <2>1, <2>2
<1>4. o = c \/ (mine # {} /\ o = last /\ CanMove(c, last, FlushWriters))
  <2>. HIDE DEF c, last, mine
  <2>. QED BY DEF Moved
<1>5. OutboundAfter(st, s, b, R) = o
  BY DEF OutboundAfter
<1>6. o = c \/ /\ o \in Results /\ <<s, o>> \in b.res /\ (\E r \in b.res : r[1] = s)
               /\ c \in {"none", "pending", "sending", "unknown", "accepted"}
               /\ (c = "accepted" => o = "failed") /\ (c = "unknown" => o # "rejected")
  <2>. HIDE DEF c, last, mine, o
  <2>. QED BY <1>3, <1>4, FlushTable
<1>. HIDE DEF p, c, mine, last, o
<1>7. (\E r \in b.res : r[1] = s) => s \in About(b)
  BY DEF About
<1>8. s \in b.plan => s \in About(b)
  BY DEF About
<1>9. /\ o \in OutStatus /\ (st # "none" => o # "none")
      /\ o # st => \/ (s \in b.plan /\ st = "none") \/ s \in b.cancel
                   \/ \E r \in b.res : r[1] = s
      /\ o = "rejected" => st = "rejected" \/ <<s, "rejected">> \in b.res
  BY <1>1, <1>2, <1>6 DEF OutStatus, Results
<1>10. o # st /\ st \in {"none", "failed"} => s \in About(b) /\ st = "none"
  BY <1>1, <1>2, <1>6, <1>7, <1>8
<1>11. o \in NoMoreSends => \/ st \in NoMoreSends \/ (o = "cancelled" /\ s \in b.cancel)
                            \/ <<s, o>> \in b.res
  BY <1>1, <1>2, <1>6 DEF NoMoreSends, OutStatus
<1>12. st \in Committed => o \in Committed \/ s \in b.cancel
  BY <1>1, <1>2, <1>6 DEF Committed, Results
<1>. QED BY <1>5, <1>9, <1>10, <1>11, <1>12

-----------------------------------------------------------------------------
(* The first batch of a conversation commits. *)

Commits(u, b, R) ==
    /\ Alive /\ wq[u] # <<>> /\ b = Head(wq[u]) /\ R \subseteq b.res /\ WriteChannel(b, R)
    /\ wq' = [wq EXCEPT ![u] = Tail(@)]
    /\ conv' \in [Msgs -> Says] /\ owner' \in [Users -> Owners] /\ Spends
    /\ UNCHANGED <<cursor, attempts, receipt, proc, cur, cold, mout, mconv, mowner, gen, poisoned, chain,
                   turn, halted, rtask, sent, got, unsafe, dequeued, worked, boots>>

LEMMA FlushCommits ==
    ASSUME ChanInv, NEW u \in Users, Flush(u)
    PROVE  \E b, R : Commits(u, b, R)
<1>b. PICK b : b = Head(wq[u])
  OBVIOUS
<1>1. /\ wq[u] # <<>> /\ wq[u] \in Seq(Batch) /\ conv \in [Msgs -> Says] /\ owner \in [Users -> Owners]
  BY DEF Flush, ChanInv, Sound, Typed, DbTypes, MemTypes
<1>2. b \in Batch
  BY <1>1, <1>b
<1>3. conv' \in [Msgs -> Says] /\ owner' \in [Users -> Owners]
  <2>1. CASE UNCHANGED <<conv, owner>>
    BY <1>1, <2>1
  <2>2. CASE WriteConversation(u, b)
    BY <1>1, <1>2, <2>2 DEF WriteConversation, Says, Batch
  <2>. QED BY <1>b, <2>1, <2>2 DEF Flush
<1>4. PICK R : R \subseteq b.res /\ WriteChannel(b, R) /\ Spends
  BY <1>b DEF Flush, Spends, Limits
<1>5. Commits(u, b, R)
  BY <1>1, <1>3, <1>4, <1>b DEF Commits, Flush
<1>. QED BY <1>5

LEMMA FlushShifts ==
    ASSUME ChanInv, NEW u \in Users, NEW b, NEW R, Commits(u, b, R)
    PROVE  /\ b \in Batch /\ Owned(u, b) /\ Agrees(b) /\ 1 \in DOMAIN wq[u] /\ b = wq[u][1]
           /\ wq' \in [Users -> Seq(Batch)] /\ \A v \in Users \ {u} : wq'[v] = wq[v]
           /\ \A i \in DOMAIN wq'[u] : i \in Nat /\ i >= 1 /\ i + 1 \in DOMAIN wq[u] /\ wq'[u][i] = wq[u][i + 1]
           /\ \A j \in DOMAIN wq[u] : j = 1 \/ (j - 1 \in DOMAIN wq'[u] /\ wq'[u][j - 1] = wq[u][j])
<1>1. /\ wq \in [Users -> Seq(Batch)] /\ wq[u] # <<>> /\ b = Head(wq[u]) /\ wq' = [wq EXCEPT ![u] = Tail(@)]
  BY DEF Commits, ChanInv, Sound, Typed, MemTypes
<1>2. wq[u] \in Seq(Batch) /\ Tail(wq[u]) \in Seq(Batch)
  BY <1>1
<1>3. /\ b \in Batch /\ b = wq[u][1] /\ 1 \in DOMAIN wq[u]
      /\ Len(wq[u]) \in Nat /\ Len(wq[u]) >= 1 /\ DOMAIN wq[u] = 1..Len(wq[u])
  BY <1>1, <1>2
<1>4. /\ Len(Tail(wq[u])) = Len(wq[u]) - 1 /\ DOMAIN Tail(wq[u]) = 1..(Len(wq[u]) - 1)
      /\ \A i \in 1..(Len(wq[u]) - 1) : Tail(wq[u])[i] = wq[u][i + 1]
  BY <1>1, <1>2, <1>3
<1>5. /\ wq' \in [Users -> Seq(Batch)] /\ wq'[u] = Tail(wq[u]) /\ \A v \in Users \ {u} : wq'[v] = wq[v]
  BY <1>1, <1>2
<1>6. Owned(u, b) /\ Agrees(b)
  BY <1>3 DEF ChanInv, Sound, Shapes, Ledger, QueueAgrees
<1>7. ASSUME NEW i \in DOMAIN wq'[u]
      PROVE  i \in Nat /\ i >= 1 /\ i + 1 \in DOMAIN wq[u] /\ wq'[u][i] = wq[u][i + 1]
  <2>1. i \in 1..(Len(wq[u]) - 1)
    BY <1>4, <1>5
  <2>2. i \in Nat /\ i >= 1 /\ i + 1 \in 1..Len(wq[u])
    BY <1>3, <2>1
  <2>. QED BY <1>3, <1>4, <1>5, <2>1, <2>2
<1>8. ASSUME NEW j \in DOMAIN wq[u], j # 1
      PROVE  j - 1 \in DOMAIN wq'[u] /\ wq'[u][j - 1] = wq[u][j]
  <2>1. j - 1 \in 1..(Len(wq[u]) - 1) /\ (j - 1) + 1 = j
    BY <1>3, <1>8
  <2>. QED BY <1>4, <1>5, <2>1
<1>. QED BY <1>3, <1>5, <1>6, <1>7, <1>8

\* What a commit does to a row.
RowFacts(m, b) ==
    /\ inbox'[m] \in InboxStates /\ (inbox[m] # "none" => inbox'[m] # "none")
    /\ inbox[m] \in Past => inbox'[m] \in Past
    /\ inbox[m] \in InboxOpen /\ <<m, "done">> \notin b.inb /\ <<m, "abandoned">> \notin b.inb
           => inbox'[m] \in InboxOpen
    /\ inbox[m] \in {"received", "recorded"} /\ <<m, "done">> \notin b.inb
           /\ <<m, "abandoned">> \notin b.inb /\ <<m, "replied">> \notin b.inb
           => inbox'[m] \in {"received", "recorded"}
    /\ inbox[m] # "none" /\ (inbox[m] # "received" \/ <<m, "recorded">> \in b.inb) => inbox'[m] # "received"
    /\ <<m, "replied">> \in b.inb /\ (inbox[m] # "received" \/ <<m, "recorded">> \in b.inb)
           => inbox'[m] \in Past
    /\ inbox[m] \in {"done", "abandoned"} \/ <<m, "done">> \in b.inb \/ <<m, "abandoned">> \in b.inb
           => inbox'[m] \in {"done", "abandoned"}

LEMMA FlushRows ==
    ASSUME ChanInv, NEW u \in Users, NEW b, NEW R, Commits(u, b, R), NEW m \in Msgs
    PROVE  RowFacts(m, b)
<1>. DEFINE ch == {c[2] : c \in {x \in b.inb : x[1] = m}}
<1>1. b \in Batch /\ inbox \in [Msgs -> InboxStates] /\ inbox[m] \in InboxStates
      /\ \A c \in b.inb : inbox[c[1]] # "none"
  BY FlushShifts DEF ChanInv, Sound, Typed, DbTypes, Rows, Known
<1>2. inbox'[m] = InboxAfter(inbox[m], ch)
  BY DEF Commits, WriteChannel
<1>3. b.inb \subseteq Msgs \X Changes
  BY <1>1 DEF Batch
<1>4. ch \in SUBSET Changes /\ \A st : st \in ch <=> <<m, st>> \in b.inb
  <2>1. \A c \in b.inb : c = <<c[1], c[2]>> /\ c[2] \in Changes
    BY <1>3
  <2>. QED BY <2>1
<1>5. ch # {} => inbox[m] # "none"
  BY <1>1
<1>. HIDE DEF ch
<1>6. CASE inbox[m] = "none"
  <2>1. ch = {} /\ inbox'[m] = "none" /\ \A st : <<m, st>> \notin b.inb
    BY <1>2, <1>4, <1>5, <1>6, RowUntouched
  <2>. QED BY <1>4, <1>6, <2>1 DEF RowFacts, InboxStates, InboxOpen, Past
<1>7. CASE inbox[m] # "none"
  <2>. DEFINE a == InboxAfter(inbox[m], ch)
  <2>1. /\ a \in InboxStates \ {"none"}
        /\ inbox[m] \in Past => a \in Past
        /\ inbox[m] \in InboxOpen /\ ch \cap {"done", "abandoned"} = {} => a \in InboxOpen
        /\ inbox[m] \in {"received", "recorded"} /\ ch \subseteq {"recorded"} => a \in {"received", "recorded"}
        /\ inbox[m] # "received" \/ "recorded" \in ch => a # "received"
        /\ "replied" \in ch /\ (inbox[m] # "received" \/ "recorded" \in ch) => a \in Past
        /\ inbox[m] \in {"done", "abandoned"} \/ ch \cap {"done", "abandoned"} # {}
              => a \in {"done", "abandoned"}
    BY <1>1, <1>4, <1>7, RowWritten
  <2>2. a = inbox'[m]
    BY <1>2
  <2>. HIDE DEF a
  <2>3. "done" \notin ch /\ "abandoned" \notin ch => ch \cap {"done", "abandoned"} = {}
    OBVIOUS
  <2>4. "done" \notin ch /\ "abandoned" \notin ch /\ "replied" \notin ch => ch \subseteq {"recorded"}
    BY <1>4 DEF Changes
  <2>. QED BY <1>4, <1>7, <2>1, <2>2, <2>3, <2>4 DEF RowFacts
<1>. QED BY <1>6, <1>7

\* What a commit does to a segment.
SegFacts(s, b) ==
    /\ outbound'[s] \in OutStatus /\ (outbound[s] # "none" => outbound'[s] # "none")
    /\ outbound'[s] # outbound[s] =>
          mout[s] # "none" /\ ((outbound[s] = "none" /\ s \in b.plan) \/ mout[s] \notin {"pending", "sending"})
    /\ outbound'[s] # outbound[s] /\ outbound[s] \in {"none", "failed"} => s \in About(b) /\ outbound[s] = "none"
    /\ outbound'[s] \in NoMoreSends => outbound[s] \in NoMoreSends \/ mout[s] \in NoMoreSends
    /\ outbound[s] \in Committed => outbound'[s] \in Committed \/ mout[s] = "cancelled"
    /\ outbound'[s] = "rejected" => outbound[s] = "rejected" \/ mout[s] = "rejected"

LEMMA FlushSegs ==
    ASSUME ChanInv, NEW u \in Users, NEW b, NEW R, Commits(u, b, R), NEW s \in Segs
    PROVE  SegFacts(s, b)
<1>1. /\ b \in Batch /\ Agrees(b) /\ outbound[s] \in OutStatus /\ R \subseteq b.res
      /\ outbound'[s] = OutboundAfter(outbound[s], s, b, R)
  <2>1. b \in Batch /\ Agrees(b)
    BY FlushShifts
  <2>2. outbound[s] \in OutStatus
    BY DEF ChanInv, Sound, Typed, DbTypes
  <2>3. R \subseteq b.res /\ WriteChannel(b, R)
    BY DEF Commits
  <2>4. outbound'[s] = OutboundAfter(outbound[s], s, b, R)
    BY <2>3 DEF WriteChannel
  <2>. QED BY <2>1, <2>2, <2>3, <2>4
<1>2. /\ outbound'[s] \in OutStatus /\ (outbound[s] # "none" => outbound'[s] # "none")
      /\ outbound'[s] # outbound[s] => \/ (s \in b.plan /\ outbound[s] = "none") \/ s \in b.cancel
                                       \/ \E r \in b.res : r[1] = s
      /\ outbound'[s] # outbound[s] /\ outbound[s] \in {"none", "failed"} => s \in About(b) /\ outbound[s] = "none"
      /\ outbound'[s] \in NoMoreSends =>
            \/ outbound[s] \in NoMoreSends \/ (outbound'[s] = "cancelled" /\ s \in b.cancel)
            \/ <<s, outbound'[s]>> \in b.res
      /\ outbound[s] \in Committed => outbound'[s] \in Committed \/ s \in b.cancel
      /\ outbound'[s] = "rejected" => outbound[s] = "rejected" \/ <<s, "rejected">> \in b.res
  BY <1>1, SegmentWritten
<1>3. s \in b.cancel => mout[s] = "cancelled"
  BY <1>1 DEF Agrees
<1>4. s \in b.plan => mout[s] # "none"
  BY <1>1 DEF Agrees, Held
<1>5. ASSUME NEW x, <<s, x>> \in b.res
      PROVE  /\ mout[s] \in {"accepted", "rejected", "unknown", "failed"}
             /\ x \in NoMoreSends => mout[s] \in NoMoreSends
             /\ x = "rejected" => mout[s] = "rejected"
  <2>1. mout[s] \in Onward[x]
    BY <1>1, <1>5 DEF Agrees
  <2>2. x \in Results
    BY <1>1, <1>5 DEF Batch
  <2>3. \A y \in Results : \/ y = "accepted" /\ Onward[y] = {"accepted", "failed"}
                           \/ y = "rejected" /\ Onward[y] = {"rejected"}
                           \/ y = "unknown" /\ Onward[y] = {"unknown", "accepted", "failed"}
                           \/ y = "failed" /\ Onward[y] = {"failed"}
    BY DEF Onward, Results
  <2>. QED BY <2>1, <2>2, <2>3 DEF NoMoreSends
<1>6. (\E r \in b.res : r[1] = s) => mout[s] \in {"accepted", "rejected", "unknown", "failed"}
  <2>1. \A r \in b.res : r = <<r[1], r[2]>>
    BY <1>1 DEF Batch
  <2>. QED BY <1>5, <2>1
<1>7. outbound'[s] # outbound[s] =>
          mout[s] # "none" /\ ((outbound[s] = "none" /\ s \in b.plan) \/ mout[s] \notin {"pending", "sending"})
  BY <1>2, <1>3, <1>4, <1>6
<1>8. outbound'[s] \in NoMoreSends => outbound[s] \in NoMoreSends \/ mout[s] \in NoMoreSends
  BY <1>2, <1>3, <1>5 DEF NoMoreSends
<1>9. outbound'[s] = "rejected" => outbound[s] = "rejected" \/ mout[s] = "rejected"
  BY <1>2, <1>5
<1>. QED BY <1>2, <1>3, <1>7, <1>8, <1>9 DEF SegFacts

\* The queues after a commit hold what they held, but for the batch.
LEMMA FlushQueues ==
    ASSUME ChanInv, NEW u \in Users, NEW b, NEW R, Commits(u, b, R)
    PROVE  /\ \A v \in Users : \A i \in DOMAIN wq'[v] :
                 \E k \in DOMAIN wq[v] : wq'[v][i] = wq[v][k]
           /\ \A v \in Users : \A m, st : InQueue(v, m, st)' => InQueue(v, m, st)
           /\ \A v \in Users : \A m, st : InQueue(v, m, st) => InQueue(v, m, st)' \/ <<m, st>> \in b.inb
           /\ \A m, st : <<m, st>> \in b.inb => m \in Msgs /\ From[m] = u /\ InQueue(u, m, st)
           /\ \A s \in About(b) : s \in Segs /\ UserOf(s) = u /\ QueuedSeg(s)
<1>1. /\ b \in Batch /\ Owned(u, b) /\ 1 \in DOMAIN wq[u] /\ b = wq[u][1]
      /\ \A v \in Users \ {u} : wq'[v] = wq[v]
      /\ \A i \in DOMAIN wq'[u] : i + 1 \in DOMAIN wq[u] /\ wq'[u][i] = wq[u][i + 1]
      /\ \A j \in DOMAIN wq[u] : j = 1 \/ (j - 1 \in DOMAIN wq'[u] /\ wq'[u][j - 1] = wq[u][j])
  BY FlushShifts
<1>2. ASSUME NEW v \in Users, NEW i \in DOMAIN wq'[v]
      PROVE  \E k \in DOMAIN wq[v] : wq'[v][i] = wq[v][k]
  <2>1. CASE v = u
    BY <1>1, <1>2, <2>1
  <2>2. CASE v # u
    BY <1>1, <1>2, <2>2
  <2>. QED BY <2>1, <2>2
<1>3. ASSUME NEW v \in Users, NEW m, NEW st, InQueue(v, m, st)'
      PROVE  InQueue(v, m, st)
  BY <1>2, <1>3 DEF InQueue
<1>4. ASSUME NEW v \in Users, NEW m, NEW st, InQueue(v, m, st)
      PROVE  InQueue(v, m, st)' \/ <<m, st>> \in b.inb
  <2>1. PICK j \in DOMAIN wq[v] : <<m, st>> \in wq[v][j].inb
    BY <1>4 DEF InQueue
  <2>2. CASE v = u
    BY <1>1, <2>1, <2>2 DEF InQueue
  <2>3. CASE v # u
    BY <1>1, <2>1, <2>3 DEF InQueue
  <2>. QED BY <2>2, <2>3
<1>5. ASSUME NEW m, NEW st, <<m, st>> \in b.inb
      PROVE  m \in Msgs /\ From[m] = u /\ InQueue(u, m, st)
  <2>1. m \in Msgs
    BY <1>1, <1>5 DEF Batch
  <2>2. From[m] = u
    BY <1>1, <1>5 DEF Owned
  <2>3. InQueue(u, m, st)
    BY <1>1, <1>5 DEF InQueue
  <2>. QED BY <2>1, <2>2, <2>3
<1>6. ASSUME NEW s \in About(b)
      PROVE  s \in Segs /\ UserOf(s) = u /\ QueuedSeg(s)
  <2>1. s \in Segs /\ UserOf(s) = u
    BY <1>1, <1>6 DEF About, Owned, Batch
  <2>. QED BY <1>1, <1>6, <2>1 DEF QueuedSeg
<1>. QED BY <1>2, <1>3, <1>4, <1>5, <1>6

\* A row and its recording and reply shift up with the queue.
LEMMA FlushReady ==
    ASSUME ChanInv, NEW u \in Users, NEW b, NEW R, Commits(u, b, R), NEW m \in Msgs
    PROVE  /\ <<m, "replied">> \in b.inb => inbox'[m] \in Past
           /\ Covered(u, 1, m) => inbox'[m] \in Past
           /\ \A i \in DOMAIN wq'[u] : /\ Covered(u, i + 1, m) => Covered(u, i, m)'
                                       /\ inbox[m] # "none" /\ Ready(u, i + 1, m) => Ready(u, i, m)'
<1>1. /\ b = wq[u][1] /\ 1 \in DOMAIN wq[u] /\ wq' \in [Users -> Seq(Batch)] /\ wq \in [Users -> Seq(Batch)]
      /\ \A i \in DOMAIN wq'[u] : i \in Nat /\ i >= 1 /\ i + 1 \in DOMAIN wq[u]
      /\ \A j \in DOMAIN wq[u] : j = 1 \/ (j - 1 \in DOMAIN wq'[u] /\ wq'[u][j - 1] = wq[u][j])
  BY FlushShifts DEF ChanInv, Sound, Typed, MemTypes
<1>2. RowFacts(m, b)
  BY FlushRows
<1>3. ASSUME <<m, "replied">> \in b.inb PROVE inbox'[m] \in Past
  <2>1. Ready(u, 1, m)
    BY <1>1, <1>3 DEF ChanInv, Rows, QueueOrder
  <2>2. inbox[m] # "received" \/ <<m, "recorded">> \in b.inb
    BY <1>1, <2>1 DEF Ready
  <2>. QED BY <1>2, <1>3, <2>2 DEF RowFacts
<1>4. ASSUME Covered(u, 1, m) PROVE inbox'[m] \in Past
  <2>1. inbox[m] \in Past \/ <<m, "replied">> \in b.inb
    BY <1>1, <1>4 DEF Covered
  <2>. QED BY <1>2, <1>3, <2>1 DEF RowFacts
<1>5. ASSUME NEW i \in DOMAIN wq'[u], NEW j \in 1..(i + 1)
      PROVE  i \in Nat /\ j \in DOMAIN wq[u] /\ (j # 1 => j - 1 \in 1..i /\ wq'[u][j - 1] = wq[u][j])
  <2>1. i \in Nat /\ i >= 1 /\ i + 1 \in DOMAIN wq[u]
    BY <1>1
  <2>2. PICK n \in Nat : DOMAIN wq[u] = 1..n
    BY <1>1
  <2>3. j \in DOMAIN wq[u] /\ (j # 1 => j - 1 \in 1..i)
    BY <2>1, <2>2
  <2>. QED BY <1>1, <2>1, <2>3
<1>6. ASSUME NEW i \in DOMAIN wq'[u], Covered(u, i + 1, m) PROVE Covered(u, i, m)'
  <2>1. CASE inbox[m] \in Past
    BY <1>2, <2>1 DEF Covered, RowFacts
  <2>2. CASE \E j \in 1..(i + 1) : <<m, "replied">> \in wq[u][j].inb
    <3>1. PICK j \in 1..(i + 1) : <<m, "replied">> \in wq[u][j].inb
      BY <2>2
    <3>2. CASE j = 1
      BY <1>1, <1>3, <3>1, <3>2 DEF Covered
    <3>3. CASE j # 1
      <4>1. PICK k : k = j - 1
        OBVIOUS
      <4>2. k \in 1..i /\ <<m, "replied">> \in wq'[u][k].inb
        BY <1>5, <1>6, <3>1, <3>3, <4>1
      <4>. QED BY <4>2 DEF Covered
    <3>. QED BY <3>2, <3>3
  <2>. QED BY <1>6, <2>1, <2>2 DEF Covered
<1>7. ASSUME NEW i \in DOMAIN wq'[u], inbox[m] # "none", Ready(u, i + 1, m) PROVE Ready(u, i, m)'
  <2>1. CASE inbox[m] # "received"
    BY <1>2, <1>7, <2>1 DEF Ready, RowFacts
  <2>2. CASE \E j \in 1..(i + 1) : <<m, "recorded">> \in wq[u][j].inb
    <3>1. PICK j \in 1..(i + 1) : <<m, "recorded">> \in wq[u][j].inb
      BY <2>2
    <3>2. CASE j = 1
      BY <1>1, <1>2, <1>7, <3>1, <3>2 DEF Ready, RowFacts
    <3>3. CASE j # 1
      <4>1. PICK k : k = j - 1
        OBVIOUS
      <4>2. k \in 1..i /\ <<m, "recorded">> \in wq'[u][k].inb
        BY <1>5, <1>7, <3>1, <3>3, <4>1
      <4>. QED BY <4>2 DEF Ready
    <3>. QED BY <3>2, <3>3
  <2>. QED BY <1>7, <2>1, <2>2 DEF Ready
<1>. QED BY <1>3, <1>4, <1>6, <1>7

LEMMA CommitsSound ==
    ASSUME ChanInv, NEW u \in Users, NEW b, NEW R, Commits(u, b, R)
    PROVE  Sound'
<1>1. /\ Sound /\ Spends /\ WriteChannel(b, R) /\ conv' \in [Msgs -> Says] /\ owner' \in [Users -> Owners]
      /\ Alive
      /\ UNCHANGED <<cursor, attempts, receipt, proc, cur, cold, mout, mconv, mowner, gen, poisoned, chain,
                     turn, halted, rtask, sent, got, unsafe, dequeued, worked, boots>>
  BY DEF Commits, ChanInv
<1>2. wq' \in [Users -> Seq(Batch)]
  BY FlushShifts
<1>3. DbTypes'
  <2>1. \A m \in Msgs : inbox'[m] \in InboxStates
    BY FlushRows DEF RowFacts
  <2>2. \A s \in Segs : outbound'[s] \in OutStatus
    BY FlushSegs DEF SegFacts
  <2>3. inbox' \in [Msgs -> InboxStates]
    BY <1>1, <2>1 DEF WriteChannel
  <2>4. outbound' \in [Segs -> OutStatus]
    BY <1>1, <2>2 DEF WriteChannel
  <2>. QED BY <1>1, <2>3, <2>4 DEF Sound, Typed, DbTypes
<1>4. MemTypes'
  BY <1>1, <1>2 DEF Sound, Typed, MemTypes
<1>5. HistTypes'
  <2>1. faults' \in [Limits -> Nat] /\ faults'.starts = faults.starts /\ faults'.segs = faults.segs
    BY <1>1, SpendsKeeps
  <2>. QED BY <1>1, <2>1 DEF Sound, Typed, HistTypes
<1>6. Shapes'
  <2>1. ASSUME NEW v \in Users, NEW i \in DOMAIN wq'[v] PROVE Owned(v, wq'[v][i])
    <3>1. PICK k \in DOMAIN wq[v] : wq'[v][i] = wq[v][k]
      BY FlushQueues
    <3>. QED BY <1>1, <3>1 DEF Sound, Shapes
  <2>2. \A v \in Users : \A i \in DOMAIN chain'[v] : From[chain'[v][i]] = v
    BY <1>1 DEF Sound, Shapes
  <2>3. \A v \in Users : TurnShape(v)'
    BY <1>1 DEF Sound, Shapes, TurnShape
  <2>4. Down'
    BY <1>1 DEF Sound, Shapes, Down, Alive
  <2>. QED BY <2>1, <2>2, <2>3, <2>4 DEF Shapes
<1>. QED BY <1>3, <1>4, <1>5, <1>6 DEF Sound, Typed

LEMMA CommitsRows ==
    ASSUME ChanInv, NEW u \in Users, NEW b, NEW R, Commits(u, b, R)
    PROVE  Rows'
<1>1. /\ Sound /\ Known /\ QueueOrder /\ RowsTrue /\ Alive /\ (\A v \in Users : ChainTrue(v))
      /\ UNCHANGED <<mout, chain, turn, sent, boots, proc>>
  BY DEF Commits, ChanInv, Rows
<1>2. /\ \A m \in Msgs : RowFacts(m, b)
      /\ \A s \in Segs : SegFacts(s, b)
  BY FlushRows, FlushSegs
<1>3. \A s \in Segs : Used(s)' => Used(s)
  BY <1>1, <1>2 DEF Used, SegFacts
<1>4. Known'
  <2>1. ASSUME NEW v \in Users, NEW i \in DOMAIN wq'[v], NEW c \in wq'[v][i].inb
        PROVE  inbox'[c[1]] # "none"
    <3>1. PICK k \in DOMAIN wq[v] : wq'[v][i] = wq[v][k]
      BY FlushQueues
    <3>2. inbox[c[1]] # "none" /\ c[1] \in Msgs
      <4>1. wq[v][k] \in Batch
        BY <1>1 DEF Sound, Typed, MemTypes
      <4>. QED BY <1>1, <2>1, <3>1, <4>1 DEF Known, Batch
    <3>. QED BY <1>2, <3>2 DEF RowFacts
  <2>2. ASSUME NEW s \in Segs, Used(s)' PROVE inbox'[MsgOf(s)] # "none" /\ s[2] <= boots'
    BY <1>1, <1>2, <1>3, <2>2, SegFields DEF Known, RowFacts
  <2>. QED BY <2>1, <2>2 DEF Known
<1>5. QueueOrder'
  <2>1. ASSUME NEW v \in Users, NEW i \in DOMAIN wq'[v], v # u
        PROVE  /\ \A s \in About(wq'[v][i]) : IsReply(s) => Covered(v, i, MsgOf(s))'
               /\ \A m \in Msgs : <<m, "replied">> \in wq'[v][i].inb => Ready(v, i, m)'
    <3>1. wq'[v] = wq[v] /\ i \in DOMAIN wq[v] /\ wq[v][i] \in Batch
      <4>1. wq'[v] = wq[v]
        BY <2>1, FlushShifts
      <4>. QED BY <1>1, <2>1, <4>1 DEF Sound, Typed, MemTypes
    <3>2. ASSUME NEW s \in About(wq'[v][i]), IsReply(s) PROVE Covered(v, i, MsgOf(s))'
      <4>1. s \in Segs /\ Covered(v, i, MsgOf(s)) /\ MsgOf(s) \in Msgs
        BY <1>1, <3>1, <3>2, SegFields DEF QueueOrder, About, Batch
      <4>2. RowFacts(MsgOf(s), b)
        BY <1>2, <4>1
      <4>. QED BY <3>1, <4>1, <4>2 DEF Covered, RowFacts
    <3>3. ASSUME NEW m \in Msgs, <<m, "replied">> \in wq'[v][i].inb PROVE Ready(v, i, m)'
      <4>1. Ready(v, i, m) /\ inbox[m] # "none"
        BY <1>1, <3>1, <3>3 DEF QueueOrder, Known
      <4>2. RowFacts(m, b)
        BY <1>2
      <4>. QED BY <3>1, <4>1, <4>2 DEF Ready, RowFacts
    <3>. QED BY <3>2, <3>3
  <2>2. ASSUME NEW i \in DOMAIN wq'[u]
        PROVE  /\ \A s \in About(wq'[u][i]) : IsReply(s) => Covered(u, i, MsgOf(s))'
               /\ \A m \in Msgs : <<m, "replied">> \in wq'[u][i].inb => Ready(u, i, m)'
    <3>1. i + 1 \in DOMAIN wq[u] /\ wq'[u][i] = wq[u][i + 1]
      BY FlushShifts
    <3>2. wq[u][i + 1] \in Batch
      BY <1>1, <3>1 DEF Sound, Typed, MemTypes
    <3>3. ASSUME NEW s \in About(wq'[u][i]), IsReply(s) PROVE Covered(u, i, MsgOf(s))'
      <4>1. s \in Segs /\ Covered(u, i + 1, MsgOf(s)) /\ MsgOf(s) \in Msgs
        BY <1>1, <3>1, <3>2, <3>3, SegFields DEF QueueOrder, About, Batch
      <4>. QED BY <4>1, FlushReady
    <3>4. ASSUME NEW m \in Msgs, <<m, "replied">> \in wq'[u][i].inb PROVE Ready(u, i, m)'
      <4>1. Ready(u, i + 1, m) /\ inbox[m] # "none"
        BY <1>1, <3>1, <3>4 DEF QueueOrder, Known
      <4>. QED BY <4>1, FlushReady
    <3>. QED BY <3>3, <3>4
  <2>3. ASSUME NEW v \in Users, NEW i \in DOMAIN wq'[v]
        PROVE  /\ \A s \in About(wq'[v][i]) : IsReply(s) => Covered(v, i, MsgOf(s))'
               /\ \A m \in Msgs : <<m, "replied">> \in wq'[v][i].inb => Ready(v, i, m)'
    BY <2>1, <2>2, <2>3
  <2>. QED BY <2>3 DEF QueueOrder
<1>6. RowsTrue'
  <2>1. ASSUME NEW s \in Segs, IsReply(s), Stored(s)' PROVE inbox'[MsgOf(s)] \in Past
    <3>1. MsgOf(s) \in Msgs
      BY SegFields
    <3>2. CASE Stored(s)
      BY <1>1, <1>2, <2>1, <3>1, <3>2 DEF RowsTrue, RowFacts
    <3>3. CASE ~Stored(s)
      <4>1. outbound'[s] # outbound[s] /\ outbound[s] \in {"none", "failed"}
        BY <2>1, <3>3 DEF Stored
      <4>2. s \in About(b)
        BY <1>2, <4>1 DEF SegFacts
      <4>3. 1 \in DOMAIN wq[u] /\ b = wq[u][1]
        BY FlushShifts
      <4>4. Covered(u, 1, MsgOf(s))
        BY <1>1, <2>1, <4>2, <4>3 DEF QueueOrder
      <4>. QED BY <3>1, <4>4, FlushReady
    <3>. QED BY <3>2, <3>3
  <2>2. ASSUME NEW s \in Segs, IsReply(s), Held(s)'
        PROVE  inbox'[MsgOf(s)] \in Past \/ InQueue(UserOf(s), MsgOf(s), "replied")'
    <3>1. MsgOf(s) \in Msgs /\ UserOf(s) \in Users /\ Held(s)
      BY <1>1, <2>2, SegFields DEF Held
    <3>2. CASE inbox[MsgOf(s)] \in Past
      BY <1>2, <3>1, <3>2 DEF RowFacts
    <3>3. CASE InQueue(UserOf(s), MsgOf(s), "replied")
      <4>1. InQueue(UserOf(s), MsgOf(s), "replied")' \/ <<MsgOf(s), "replied">> \in b.inb
        BY <3>1, <3>3, FlushQueues
      <4>2. <<MsgOf(s), "replied">> \in b.inb => inbox'[MsgOf(s)] \in Past
        BY <3>1, FlushReady
      <4>. QED BY <4>1, <4>2
    <3>. QED BY <1>1, <2>2, <3>1, <3>2, <3>3 DEF RowsTrue
  <2>. QED BY <2>1, <2>2 DEF RowsTrue
<1>7. ASSUME NEW v \in Users PROVE ChainTrue(v)'
  <2>1. ASSUME NEW m \in Range(chain[v])
        PROVE  /\ inbox'[m] \in InboxOpen /\ ~InQueue(v, m, "done")' /\ ~InQueue(v, m, "abandoned")'
               /\ ~HasPlanned(v, m)' =>
                   /\ ~InQueue(v, m, "replied")'
                   /\ \A s \in Segs : MsgOf(s) = m /\ Used(s)' => s[2] < boots'
    <3>1. m \in Msgs /\ From[m] = v
      BY <1>1, <2>1 DEF Sound, Shapes, Typed, MemTypes, Range
    <3>2. /\ inbox[m] \in InboxOpen /\ ~InQueue(v, m, "done") /\ ~InQueue(v, m, "abandoned")
          /\ ~HasPlanned(v, m) =>
              /\ ~InQueue(v, m, "replied")
              /\ \A s \in Segs : MsgOf(s) = m /\ Used(s) => s[2] < boots
      BY <1>1, <2>1 DEF ChainTrue
    <3>3. <<m, "done">> \notin b.inb /\ <<m, "abandoned">> \notin b.inb
      BY <3>1, <3>2, FlushQueues
    <3>4. inbox'[m] \in InboxOpen
      BY <1>2, <3>1, <3>2, <3>3 DEF RowFacts
    <3>5. \A st : InQueue(v, m, st)' => InQueue(v, m, st)
      BY FlushQueues
    <3>6. HasPlanned(v, m)' <=> HasPlanned(v, m)
      BY <1>1 DEF HasPlanned
    <3>. QED BY <1>1, <1>3, <3>2, <3>4, <3>5, <3>6
  <2>. QED BY <1>1, <2>1 DEF ChainTrue
<1>. QED BY <1>4, <1>5, <1>6, <1>7 DEF Rows

LEMMA CommitsLedger ==
    ASSUME ChanInv, NEW u \in Users, NEW b, NEW R, Commits(u, b, R)
    PROVE  Ledger'
<1>1. /\ Sound /\ QueueAgrees /\ EndsAgree /\ GotSent /\ OneBoot /\ Alive
      /\ UNCHANGED <<mout, sent, got, unsafe, proc>>
  BY DEF Commits, ChanInv, Ledger
<1>2. \A s \in Segs : SegFacts(s, b)
  BY FlushSegs
<1>3. QueueAgrees'
  <2>1. ASSUME NEW v \in Users, NEW i \in DOMAIN wq'[v] PROVE Agrees(wq[v][i])'
    <3>1. PICK k \in DOMAIN wq[v] : wq'[v][i] = wq[v][k]
      BY FlushQueues
    <3>2. PICK x : x = wq[v][k]
      OBVIOUS
    <3>3. Agrees(x)
      BY <1>1, <3>2 DEF QueueAgrees
    <3>4. Agrees(x)'
      BY <1>1, <3>3 DEF Agrees, Held
    <3>. QED BY <3>1, <3>2, <3>4 DEF Agrees
  <2>. QED BY <2>1 DEF QueueAgrees
<1>4. EndsAgree' /\ GotSent'
  BY <1>1, <1>2 DEF EndsAgree, GotSent, SegFacts, Alive
<1>5. OneBoot'
  <2>1. ASSUME NEW s \in Segs, Live(s)' PROVE Live(s)
    <3>1. Stored(s)' => Stored(s) \/ QueuedSeg(s)
      <4>1. outbound'[s] # outbound[s] /\ outbound[s] \in {"none", "failed"} => s \in About(b)
        BY <1>2 DEF SegFacts
      <4>. QED BY <4>1, FlushQueues DEF Stored
    <3>2. QueuedSeg(s)' => QueuedSeg(s)
      <4>1. UserOf(s) \in Users
        BY SegFields
      <4>. QED BY <4>1, FlushQueues DEF QueuedSeg
    <3>3. (Held(s)' <=> Held(s)) /\ (Safe(s)' <=> Safe(s)) /\ (Alive' <=> Alive)
      BY <1>1 DEF Held, Safe, Alive
    <3>. QED BY <2>1, <3>1, <3>2, <3>3 DEF Live
  <2>. QED BY <1>1, <2>1 DEF OneBoot
<1>. QED BY <1>3, <1>4, <1>5 DEF Ledger

LEMMA CommitsOwn ==
    ASSUME ChanInv, NEW u \in Users, NEW b, NEW R, Commits(u, b, R), NEW v \in Users
    PROVE  Own(v)'
<1>1. /\ Sound /\ Own(v) /\ ChainTrue(v) /\ Alive
      /\ UNCHANGED <<mout, turn, sent, got, unsafe, proc, boots, gen, mowner, mconv, attempts, worked, dequeued>>
  BY DEF Commits, ChanInv, Rows
<1>2. /\ \A m \in Msgs : RowFacts(m, b)
      /\ \A s \in Segs : SegFacts(s, b)
  BY FlushRows, FlushSegs
<1>3. CountTrue(v)' /\ StaffTrue(v)'
  BY <1>1 DEF Own, CountTrue, StaffTrue
<1>4. TodoTrue(v)'
  BY <1>1 DEF Own, TodoTrue, InFlight, Waits
<1>5. HearsTrue(v)'
  <2>0. PICK m : m = turn[v].m
    OBVIOUS
  <2>1. CASE turn[v].pc \in {"hear", "think", "plan"}
    <3>1. m \in Msgs /\ From[m] = v /\ m \in Range(chain[v]) /\ ~HasPlanned(v, m)
      <4>1. turn[v].pc # "idle" /\ turn[v].pc \notin PlannedPcs
        BY <2>1 DEF PlannedPcs
      <4>2. m \in Msgs /\ From[m] = v /\ chain[v] # <<>> /\ m = Head(chain[v])
        BY <1>1, <2>0, <4>1, Working
      <4>3. m = chain[v][1] /\ 1 \in DOMAIN chain[v]
        BY <1>1, <4>2, HeadOfChain
      <4>. QED BY <4>1, <4>2, <4>3 DEF Range, HasPlanned
    <3>2. ~InQueue(v, m, "done") /\ ~InQueue(v, m, "abandoned") /\ ~InQueue(v, m, "replied")
      BY <1>1, <3>1 DEF ChainTrue
    <3>3. <<m, "done">> \notin b.inb /\ <<m, "abandoned">> \notin b.inb /\ <<m, "replied">> \notin b.inb
      BY <3>1, <3>2, FlushQueues
    <3>4. inbox[m] \in {"received", "recorded"}
      BY <1>1, <2>0, <2>1 DEF Own, HearsTrue
    <3>5. inbox'[m] \in {"received", "recorded"}
      BY <1>2, <3>1, <3>3, <3>4 DEF RowFacts
    <3>6. inbox[m] # "received" \/ InQueue(v, m, "recorded")
             => inbox'[m] # "received" \/ InQueue(v, m, "recorded")'
      <4>1. InQueue(v, m, "recorded") => InQueue(v, m, "recorded")' \/ <<m, "recorded">> \in b.inb
        BY FlushQueues
      <4>2. inbox[m] # "none"
        BY <3>4
      <4>. QED BY <1>2, <3>1, <4>1, <4>2 DEF RowFacts
    <3>7. turn[v].pc \in {"think", "plan"} \/ (turn[v].pc = "hear" /\ mconv[m] # "no")
             => inbox[m] # "received" \/ InQueue(v, m, "recorded")
      BY <1>1, <2>0 DEF Own, HearsTrue
    <3>8. turn'[v] = turn[v] /\ mconv' = mconv
      BY <1>1
    <3>. QED BY <2>0, <3>5, <3>6, <3>7, <3>8 DEF HearsTrue
  <2>2. CASE turn[v].pc \notin {"hear", "think", "plan"}
    BY <1>1, <2>2 DEF HearsTrue
  <2>. QED BY <2>1, <2>2
<1>6. HeadTrue(v)'
  <2>0. PICK s : s = Head(turn[v].todo)
    OBVIOUS
  <2>1. ASSUME turn[v].pc = "marked", turn[v].mark = "marked", s \notin unsafe
        PROVE  outbound'[s] = "sending"
    <3>1. turn[v].pc \in Heads /\ turn[v].pc \in Sending /\ turn[v].pc \notin Flying
      BY <2>1 DEF Heads, Sending, Flying
    <3>2. s \in Segs /\ s \in Range(turn[v].todo)
      BY <1>1, <2>0, <3>1, HeadOfTodo
    <3>3. From[turn[v].m] = v /\ MsgOf(s) = turn[v].m
      BY <1>1, <3>1, <3>2, Working DEF Own, TodoTrue, Heads
    <3>4. ~InFlight(s)
      BY <3>1, <3>3 DEF InFlight, UserOf
    <3>5. mout[s] = "pending"
      BY <1>1, <2>1, <3>1, <3>2, <3>4 DEF Own, TodoTrue, Waits
    <3>6. outbound[s] = "sending"
      BY <1>1, <2>0, <2>1 DEF Own, HeadTrue
    <3>. QED BY <1>2, <3>2, <3>5, <3>6 DEF SegFacts
  <2>. QED BY <1>1, <2>0, <2>1 DEF Own, HeadTrue
<1>7. ASSUME NEW s \in Segs, UserOf(s) = v PROVE SentTrue(s)'
  <2>1. SentTrue(s) /\ MsgOf(s) \in Msgs
    BY <1>1, <1>7, SegFields DEF Own
  <2>2. (Safe(s)' <=> Safe(s)) /\ (InFlight(s)' <=> InFlight(s)) /\ (Alive' <=> Alive)
    BY <1>1 DEF Safe, InFlight, Alive
  <2>3. Safe(s) => /\ outbound'[s] \in Committed
                   /\ (s \in got => outbound'[s] # "rejected")
                   /\ (InFlight(s) => outbound'[s] # "rejected")
    <3>1. mout[s] \in Committed => mout[s] # "cancelled"
      BY DEF Committed
    <3>. QED BY <1>1, <1>2, <2>1, <3>1 DEF SentTrue, SegFacts
  <2>4. Safe(s) /\ IsReply(s) => inbox'[MsgOf(s)] \in Past
    BY <1>2, <2>1 DEF SentTrue, RowFacts
  <2>. QED BY <1>1, <2>1, <2>2, <2>3, <2>4 DEF SentTrue
<1>. QED BY <1>3, <1>4, <1>5, <1>6, <1>7 DEF Own

LEMMA FlushStep ==
    ASSUME ChanInv, NEW u \in Users, Flush(u)
    PROVE  ChanInv'
<1>1. PICK b, R : Commits(u, b, R)
  BY FlushCommits
<1>2. Sound' /\ Rows' /\ Ledger' /\ \A v \in Users : Own(v)'
  BY <1>1, CommitsSound, CommitsRows, CommitsLedger, CommitsOwn
<1>3. CrashLoopEnds'
  BY <1>1 DEF Commits, ChanInv, CrashLoopEnds
<1>. QED BY <1>2, <1>3 DEF ChanInv

-----------------------------------------------------------------------------
(* A page of new messages. *)

LEMMA ChainGrows ==
    ASSUME NEW p \in Seq(Msgs), NEW q \in Seq(Msgs), IsInjective(p), IsInjective(q),
           \A m \in Range(q) : m \notin Range(p)
    PROVE  /\ p \o q \in Seq(Msgs) /\ IsInjective(p \o q)
           /\ Range(p \o q) = Range(p) \cup Range(q)
           /\ p # <<>> => p \o q # <<>> /\ Head(p \o q) = Head(p)
<1>1. PICK n \in Nat : n = Len(p)
  OBVIOUS
<1>2. PICK k \in Nat : k = Len(q)
  OBVIOUS
<1>. DEFINE r == p \o q
<1>3. /\ r \in Seq(Msgs) /\ DOMAIN r = 1..(n + k) /\ DOMAIN p = 1..n /\ DOMAIN q = 1..k
      /\ \A i \in 1..n : r[i] = p[i]
      /\ \A i \in 1..(n + k) : i > n => r[i] = q[i - n]
  BY <1>1, <1>2
<1>. HIDE DEF r
<1>4. ASSUME NEW i \in 1..(n + k), i > n
      PROVE  i - n \in DOMAIN q /\ r[i] = q[i - n] /\ r[i] \in Range(q)
  <2>1. i - n \in 1..k
    BY <1>4
  <2>. QED BY <1>3, <1>4, <2>1 DEF Range
<1>5. ASSUME NEW i \in 1..(n + k), ~(i > n)
      PROVE  i \in DOMAIN p /\ r[i] = p[i] /\ r[i] \in Range(p)
  <2>1. i \in 1..n
    BY <1>5
  <2>. QED BY <1>3, <2>1 DEF Range
<1>6. IsInjective(r)
  <2>1. ASSUME NEW i \in 1..(n + k), NEW j \in 1..(n + k), r[i] = r[j]
        PROVE  i = j
    <3>1. CASE i > n /\ j > n
      <4>1. i - n = j - n
        BY <1>4, <2>1, <3>1 DEF IsInjective
      <4>. QED BY <4>1
    <3>2. CASE ~(i > n) /\ ~(j > n)
      BY <1>5, <2>1, <3>2 DEF IsInjective
    <3>3. CASE i > n /\ ~(j > n)
      BY <1>4, <1>5, <2>1, <3>3
    <3>4. CASE ~(i > n) /\ j > n
      BY <1>4, <1>5, <2>1, <3>4
    <3>. QED BY <3>1, <3>2, <3>3, <3>4
  <2>. QED BY <1>3, <2>1 DEF IsInjective
<1>7. Range(r) = Range(p) \cup Range(q)
  <2>1. ASSUME NEW x \in Range(r) PROVE x \in Range(p) \cup Range(q)
    <3>1. PICK i \in 1..(n + k) : x = r[i]
      BY <1>3, <2>1 DEF Range
    <3>. QED BY <1>4, <1>5, <3>1
  <2>2. ASSUME NEW x \in Range(p) PROVE x \in Range(r)
    <3>1. PICK i \in 1..n : x = p[i]
      BY <1>3, <2>2 DEF Range
    <3>2. i \in 1..(n + k)
      OBVIOUS
    <3>. QED BY <1>3, <3>1, <3>2 DEF Range
  <2>3. ASSUME NEW x \in Range(q) PROVE x \in Range(r)
    <3>1. PICK j \in 1..k : x = q[j]
      BY <1>3, <2>3 DEF Range
    <3>2. PICK i : i = j + n
      OBVIOUS
    <3>3. i \in 1..(n + k) /\ i > n /\ i - n = j
      BY <3>2
    <3>. QED BY <1>3, <1>4, <3>1, <3>3 DEF Range
  <2>. QED BY <2>1, <2>2, <2>3
<1>8. p # <<>> => r # <<>> /\ Head(r) = Head(p)
  <2>1. ASSUME p # <<>> PROVE 1 \in 1..n /\ 1 \in 1..(n + k)
    BY <1>1, <1>2, <2>1
  <2>. QED BY <1>3, <2>1
<1>. QED BY <1>3, <1>6, <1>7, <1>8 DEF r

Pages ==
    /\ Alive /\ cursor' \in 0..N /\ cur' \in 0..N /\ inbox' \in [Msgs -> InboxStates]
    /\ \A m \in Msgs : inbox[m] # "none" => inbox'[m] = inbox[m]
    /\ chain' \in [Users -> Seq(Msgs)]
    /\ \A v \in Users :
        /\ IsInjective(chain'[v]) /\ (chain[v] # <<>> => chain'[v] # <<>> /\ Head(chain'[v]) = Head(chain[v]))
        /\ \A m \in Range(chain'[v]) :
              m \in Range(chain[v]) \/ (m \in Msgs /\ inbox[m] = "none" /\ inbox'[m] = "received" /\ From[m] = v)
    /\ Spends
    /\ UNCHANGED <<attempts, outbound, conv, owner, receipt, proc, cold, mout, mconv, mowner, gen,
                   wq, poisoned, turn, halted, rtask, sent, got, unsafe, dequeued, worked, boots>>

LEMMA PullPages ==
    ASSUME ChanInv, NEW k \in 1..PageSize, Pull(k)
    PROVE  Pages
<1>. DEFINE page == {m \in Msgs : cur < m /\ m <= cur + k}
            new == {m \in page : inbox[m] = "none"}
            first(m) == IF cold /\ TooOld(m) THEN "abandoned" ELSE "received"
            mine(u) == {m \in new : From[m] = u /\ first(m) = "received"}
<1>1. /\ Alive /\ cur + k <= N /\ cur \in 0..N /\ cursor' = cur + k /\ k \in Nat
      /\ inbox' = [m \in Msgs |-> IF m \in new THEN first(m) ELSE inbox[m]]
      /\ \/ cur' = cur + k /\ chain' = [u \in Users |-> chain[u] \o InSequence(mine(u))] /\ faults' = faults
         \/ cur' = cur /\ chain' = chain /\ Fault("page")
      /\ UNCHANGED <<attempts, outbound, conv, owner, receipt, proc, cold, mout, mconv, mowner, gen,
                     wq, poisoned, turn, halted, rtask, sent, got, unsafe, dequeued, worked, boots>>
  <2>1. Alive /\ k \in Nat
    BY ChannelAssumption DEF Pull, Pulling, Alive
  <2>2. cur \in 0..N
    BY DEF ChanInv, Sound, Typed, MemTypes
  <2>. QED BY <2>1, <2>2 DEF Pull
<1>2. /\ inbox \in [Msgs -> InboxStates] /\ chain \in [Users -> Seq(Msgs)] /\ N \in Nat
      /\ \A v \in Users : ChainTrue(v)
      /\ \A v \in Users : \A m \in Range(chain[v]) : inbox[m] \in InboxOpen
  BY ChannelAssumption DEF ChanInv, Sound, Typed, DbTypes, MemTypes, Rows, ChainTrue
<1>3. cursor' \in 0..N /\ cur' \in 0..N
  BY <1>1, <1>2
<1>4. inbox' \in [Msgs -> InboxStates] /\ \A m \in Msgs : inbox[m] # "none" => inbox'[m] = inbox[m]
  <2>1. \A m : first(m) \in InboxStates
    BY DEF InboxStates, InboxOpen
  <2>2. new \subseteq Msgs /\ \A m \in new : inbox[m] = "none"
    OBVIOUS
  <2>. HIDE DEF new, first
  <2>. QED BY <1>1, <1>2, <2>1, <2>2
<1>5. ASSUME NEW v \in Users
      PROVE  /\ mine(v) \in SUBSET Msgs
             /\ \A m \in mine(v) : inbox[m] = "none" /\ inbox'[m] = "received" /\ From[m] = v
             /\ InSequence(mine(v)) \in Seq(Msgs) /\ IsInjective(InSequence(mine(v)))
             /\ Range(InSequence(mine(v))) = mine(v)
  <2>1. mine(v) \in SUBSET Msgs
    OBVIOUS
  <2>2. \A m \in mine(v) : m \in Msgs /\ m \in new /\ inbox[m] = "none" /\ From[m] = v /\ first(m) = "received"
    OBVIOUS
  <2>. HIDE DEF mine, new, first
  <2>. QED BY <1>1, <2>1, <2>2, MessagesInSequence
<1>6. Spends
  <2>1. "page" \in Limits \ {"starts", "segs"}
    BY DEF Limits
  <2>. QED BY <1>1, <2>1 DEF Spends
<1>. HIDE DEF mine, new, first, page
<1>7. CASE chain' = chain
  <2>1. \A v \in Users : IsInjective(chain'[v])
    BY <1>2, <1>7 DEF ChainTrue
  <2>. QED BY <1>1, <1>2, <1>3, <1>4, <1>6, <1>7, <2>1 DEF Pages
<1>8. CASE chain' = [u \in Users |-> chain[u] \o InSequence(mine(u))]
  <2>1. ASSUME NEW v \in Users
        PROVE  /\ chain'[v] \in Seq(Msgs) /\ IsInjective(chain'[v])
               /\ chain[v] # <<>> => chain'[v] # <<>> /\ Head(chain'[v]) = Head(chain[v])
               /\ \A m \in Range(chain'[v]) :
                    m \in Range(chain[v]) \/ (m \in Msgs /\ inbox[m] = "none" /\ inbox'[m] = "received" /\ From[m] = v)
    <3>1. \A m \in Range(InSequence(mine(v))) : m \notin Range(chain[v])
      <4>1. "none" \notin InboxOpen
        BY DEF InboxOpen
      <4>. QED BY <1>2, <1>5, <4>1
    <3>2. chain[v] \in Seq(Msgs) /\ IsInjective(chain[v]) /\ chain'[v] = chain[v] \o InSequence(mine(v))
      BY <1>2, <1>8 DEF ChainTrue
    <3>3. PICK q : q = InSequence(mine(v))
      OBVIOUS
    <3>4. q \in Seq(Msgs) /\ IsInjective(q) /\ Range(q) = mine(v) /\ \A m \in Range(q) : m \notin Range(chain[v])
      BY <1>5, <3>1, <3>3
    <3>5. /\ chain[v] \o q \in Seq(Msgs) /\ IsInjective(chain[v] \o q)
          /\ Range(chain[v] \o q) = Range(chain[v]) \cup Range(q)
          /\ chain[v] # <<>> => chain[v] \o q # <<>> /\ Head(chain[v] \o q) = Head(chain[v])
      BY <3>2, <3>4, ChainGrows
    <3>. QED BY <1>5, <3>2, <3>3, <3>4, <3>5
  <2>2. chain' \in [Users -> Seq(Msgs)]
    BY <1>8, <2>1
  <2>. QED BY <1>1, <1>3, <1>4, <1>6, <2>1, <2>2 DEF Pages
<1>. QED BY <1>1, <1>7, <1>8

LEMMA PullStep ==
    ASSUME ChanInv, NEW k \in 1..PageSize, Pull(k)
    PROVE  ChanInv'
<1>0. Pages
  BY PullPages
<1>1. /\ Sound /\ Known /\ QueueOrder /\ RowsTrue /\ Ledger /\ Spends /\ Alive
      /\ \A m \in Msgs : inbox[m] # "none" => inbox'[m] = inbox[m]
      /\ chain' \in [Users -> Seq(Msgs)] /\ inbox' \in [Msgs -> InboxStates]
      /\ UNCHANGED <<attempts, outbound, conv, owner, receipt, proc, cold, mout, mconv, mowner, gen,
                     wq, poisoned, turn, halted, rtask, sent, got, unsafe, dequeued, worked, boots>>
  BY <1>0 DEF ChanInv, Rows, Pages
<1>2. /\ \A v \in Users : \A i \in DOMAIN wq[v] : wq[v][i] \in Batch
      /\ \A v \in Users : \A i \in DOMAIN wq[v] : \A c \in wq[v][i].inb : inbox'[c[1]] = inbox[c[1]]
      /\ \A m \in Msgs : inbox[m] \in Past => inbox'[m] \in Past
  <2>1. \A v \in Users : \A i \in DOMAIN wq[v] : wq[v][i] \in Batch
    BY <1>1 DEF Sound, Typed, MemTypes
  <2>2. \A m \in Msgs : inbox[m] \in Past => inbox'[m] \in Past
    BY <1>1 DEF Past
  <2>3. \A b \in Batch : \A c \in b.inb : c[1] \in Msgs
    BY DEF Batch
  <2>. QED BY <1>1, <2>1, <2>2, <2>3 DEF Known
<1>3. Sound'
  <2>1. DbTypes'
    BY <1>0, <1>1 DEF Sound, Typed, DbTypes, Pages
  <2>2. MemTypes'
    BY <1>0, <1>1 DEF Sound, Typed, MemTypes, Pages
  <2>3. HistTypes'
    <3>1. faults' \in [Limits -> Nat] /\ faults'.starts = faults.starts /\ faults'.segs = faults.segs
      BY <1>1, SpendsKeeps
    <3>. QED BY <1>1, <3>1 DEF Sound, Typed, HistTypes
  <2>4. Shapes'
    <3>1. \A v \in Users : \A i \in DOMAIN wq'[v] : Owned(v, wq'[v][i])
      BY <1>1 DEF Sound, Shapes
    <3>2. ASSUME NEW v \in Users, NEW i \in DOMAIN chain'[v] PROVE From[chain'[v][i]] = v
      <4>1. PICK m : m = chain'[v][i]
        OBVIOUS
      <4>2. m \in Range(chain'[v])
        BY <3>2, <4>1 DEF Range
      <4>3. m \in Range(chain[v]) \/ From[m] = v
        BY <1>0, <4>2 DEF Pages
      <4>4. m \in Range(chain[v]) => From[m] = v
        BY <1>1 DEF Sound, Shapes, Range
      <4>. QED BY <4>1, <4>3, <4>4
    <3>3. \A v \in Users : TurnShape(v)'
      BY <1>0, <1>1 DEF Sound, Shapes, TurnShape, Pages
    <3>4. Down'
      BY <1>1 DEF Sound, Shapes, Down, Alive
    <3>. QED BY <3>1, <3>2, <3>3, <3>4 DEF Shapes
  <2>. QED BY <2>1, <2>2, <2>3, <2>4 DEF Sound, Typed
<1>4. Known'
  <2>1. \A s \in Segs : Used(s)' => Used(s)
    BY <1>1 DEF Used
  <2>2. ASSUME NEW s \in Segs, Used(s)' PROVE inbox'[MsgOf(s)] # "none" /\ s[2] <= boots'
    BY <1>1, <2>1, <2>2, SegFields DEF Known
  <2>3. ASSUME NEW v \in Users, NEW n \in DOMAIN wq[v], NEW c \in wq[v][n].inb PROVE inbox'[c[1]] # "none"
    BY <1>1, <1>2 DEF Known
  <2>. QED BY <1>1, <2>2, <2>3 DEF Known
<1>5. QueueOrder'
  <2>1. ASSUME NEW v \in Users, NEW i \in DOMAIN wq[v], NEW s \in About(wq[v][i]), IsReply(s)
        PROVE  Covered(v, i, MsgOf(s))'
    <3>1. s \in Segs /\ MsgOf(s) \in Msgs
      BY <1>2, <2>1, SegFields DEF About, Batch
    <3>2. Covered(v, i, MsgOf(s))
      BY <1>1, <2>1 DEF QueueOrder
    <3>. QED BY <1>1, <1>2, <3>1, <3>2 DEF Covered
  <2>2. ASSUME NEW v \in Users, NEW i \in DOMAIN wq[v], NEW m \in Msgs, <<m, "replied">> \in wq[v][i].inb
        PROVE  Ready(v, i, m)'
    <3>1. Ready(v, i, m) /\ inbox[m] # "none"
      BY <1>1, <2>2 DEF QueueOrder, Known
    <3>. QED BY <1>1, <3>1 DEF Ready
  <2>. QED BY <1>1, <2>1, <2>2 DEF QueueOrder
<1>6. \A v \in Users : \A m, st : InQueue(v, m, st)' <=> InQueue(v, m, st)
  BY <1>1 DEF InQueue
<1>7. RowsTrue'
  BY <1>1, <1>2, <1>6, SegFields DEF RowsTrue, Stored, Held, Alive
<1>8. ASSUME NEW v \in Users PROVE ChainTrue(v)'
  <2>1. ASSUME NEW m \in Range(chain'[v])
        PROVE  /\ inbox'[m] \in InboxOpen /\ ~InQueue(v, m, "done")' /\ ~InQueue(v, m, "abandoned")'
               /\ ~HasPlanned(v, m)' =>
                   /\ ~InQueue(v, m, "replied")'
                   /\ \A s \in Segs : MsgOf(s) = m /\ Used(s)' => s[2] < boots'
    <3>1. (HasPlanned(v, m)' <=> HasPlanned(v, m)) /\ \A s \in Segs : Used(s)' => Used(s)
      BY <1>1 DEF HasPlanned, Used
    <3>2. CASE m \in Range(chain[v])
      <4>1. /\ inbox[m] \in InboxOpen /\ ~InQueue(v, m, "done") /\ ~InQueue(v, m, "abandoned")
            /\ ~HasPlanned(v, m) =>
                /\ ~InQueue(v, m, "replied")
                /\ \A s \in Segs : MsgOf(s) = m /\ Used(s) => s[2] < boots
        BY <3>2 DEF ChanInv, Rows, ChainTrue
      <4>2. m \in Msgs /\ inbox[m] # "none"
        BY <1>1, <3>2, <4>1 DEF Sound, Typed, MemTypes, Range, InboxOpen
      <4>. QED BY <1>1, <1>6, <3>1, <4>1, <4>2
    <3>3. CASE m \in Msgs /\ inbox[m] = "none" /\ inbox'[m] = "received"
      <4>1. \A st : ~InQueue(v, m, st)
        BY <1>1, <3>3 DEF Known, InQueue
      <4>2. \A s \in Segs : MsgOf(s) = m => ~Used(s)
        BY <1>1, <3>3 DEF Known
      <4>. QED BY <1>6, <3>1, <3>3, <4>1, <4>2 DEF InboxOpen
    <3>. QED BY <1>0, <2>1, <3>2, <3>3 DEF Pages
  <2>2. IsInjective(chain'[v])
    BY <1>0 DEF Pages
  <2>. QED BY <2>1, <2>2 DEF ChainTrue
<1>9. Ledger'
  <2>1. QueueAgrees'
    BY <1>1 DEF Ledger, QueueAgrees, Agrees, Held
  <2>2. EndsAgree' /\ GotSent'
    BY <1>1 DEF Ledger, EndsAgree, GotSent, Alive
  <2>3. \A s \in Segs : Live(s)' <=> Live(s)
    BY <1>1 DEF Live, Stored, Safe, Alive, Held, QueuedSeg
  <2>. QED BY <1>1, <2>1, <2>2, <2>3 DEF Ledger, OneBoot
<1>10. ASSUME NEW v \in Users PROVE Own(v)'
  <2>1. Own(v)
    BY DEF ChanInv
  <2>2. CountTrue(v)' /\ StaffTrue(v)'
    BY <1>1, <2>1 DEF Own, CountTrue, StaffTrue
  <2>3. TodoTrue(v)'
    BY <1>1, <2>1 DEF Own, TodoTrue, InFlight, Waits
  <2>4. HeadTrue(v)'
    BY <1>1, <2>1 DEF Own, HeadTrue
  <2>5. HearsTrue(v)'
    <3>1. ASSUME turn[v].pc \in {"hear", "think", "plan"}
          PROVE  inbox'[turn[v].m] = inbox[turn[v].m] /\ inbox[turn[v].m] \in {"received", "recorded"}
      <4>1. turn[v].m \in Msgs
        BY <1>1, <3>1, Working
      <4>2. inbox[turn[v].m] \in {"received", "recorded"}
        BY <2>1, <3>1 DEF Own, HearsTrue
      <4>. QED BY <1>1, <4>1, <4>2
    <3>. QED BY <1>1, <1>6, <2>1, <3>1 DEF Own, HearsTrue
  <2>6. ASSUME NEW s \in Segs, UserOf(s) = v PROVE SentTrue(s)'
    <3>1. SentTrue(s) /\ MsgOf(s) \in Msgs
      BY <2>1, <2>6, SegFields DEF Own
    <3>2. (Safe(s)' <=> Safe(s)) /\ (InFlight(s)' <=> InFlight(s)) /\ (Alive' <=> Alive)
      BY <1>1 DEF Safe, InFlight, Alive
    <3>. QED BY <1>1, <1>2, <3>1, <3>2 DEF SentTrue
  <2>. QED BY <2>2, <2>3, <2>4, <2>5, <2>6 DEF Own
<1>11. CrashLoopEnds'
  BY <1>1 DEF ChanInv, CrashLoopEnds
<1>. QED BY <1>3, <1>4, <1>5, <1>7, <1>8, <1>9, <1>10, <1>11 DEF ChanInv, Rows

-----------------------------------------------------------------------------
(* A receipt: in memory and in what is queued at once, in the database later. *)

LEMMA ReceiptTable ==
    ASSUME NEW from
    PROVE  CanMove(from, "failed", {"receipt"}) <=>
             from \in {"none", "pending", "sending", "accepted", "unknown"}
BY DEF CanMove, OutboundTransitions

\* What a receipt makes of a queued batch.
Failed(a, b, s) ==
    /\ b \in Batch /\ a.inb = b.inb /\ a.cancel = b.cancel
    /\ \/ a = b
       \/ /\ s \in About(b) /\ a.plan = b.plan \ {s}
          /\ a.res = {r \in b.res : r[1] # s} \cup {<<s, "failed">>}
          /\ a \in Batch /\ mout'[s] = "failed"

LEMMA FailedParts ==
    ASSUME NEW b \in Batch, NEW s \in Segs
    PROVE  LET a == FailedInQueue(b, s) IN
           /\ a \in Batch /\ a.inb = b.inb /\ a.cancel = b.cancel
           /\ a.plan = b.plan \ {s} /\ a.res = {r \in b.res : r[1] # s} \cup {<<s, "failed">>}
<1>1. PICK p, r : p = b.plan \ {s} /\ r = {x \in b.res : x[1] # s} \cup {<<s, "failed">>}
  OBVIOUS
<1>2. /\ b.plan \in SUBSET Segs /\ b.res \in SUBSET (Segs \X Results)
      /\ p \in SUBSET Segs /\ r \in SUBSET (Segs \X Results)
  BY <1>1 DEF Batch, Results
<1>3. FailedInQueue(b, s) = [b EXCEPT !.plan = p, !.res = r]
  BY <1>1 DEF FailedInQueue
<1>4. [b EXCEPT !.plan = p, !.res = r] \in Batch
  BY <1>2 DEF Batch
<1>. QED BY <1>1, <1>2, <1>3, <1>4 DEF Batch

Reports(s) ==
    /\ Alive /\ s \in got
    /\ receipt' \in [Segs -> {"none", "received", "done"}] /\ rtask' \subseteq Segs /\ Spends
    /\ mout' \in [Segs -> OutStatus] /\ \A x \in Segs : x # s => mout'[x] = mout[x]
    /\ mout' = mout \/ (mout[s] \in {"pending", "sending", "accepted", "unknown"} /\ mout'[s] = "failed")
    /\ wq' \in [Users -> Seq(Batch)]
    /\ \A v \in Users : /\ DOMAIN wq'[v] = DOMAIN wq[v]
                        /\ \A i \in DOMAIN wq[v] : Failed(wq'[v][i], wq[v][i], s)
    /\ UNCHANGED <<cursor, inbox, attempts, outbound, conv, owner, proc, cur, cold, mconv, mowner, gen,
                   poisoned, chain, turn, halted, sent, got, unsafe, dequeued, worked, boots>>

LEMMA ReceiptReports ==
    ASSUME ChanInv, NEW s \in Segs, ReceiptArrives(s)
    PROVE  Reports(s)
<1>1. /\ wq \in [Users -> Seq(Batch)] /\ mout \in [Segs -> OutStatus] /\ UserOf(s) \in Users
      /\ receipt \in [Segs -> {"none", "received", "done"}] /\ rtask \subseteq Segs
  BY SegFields DEF ChanInv, Sound, Typed, DbTypes, MemTypes
<1>2. /\ Alive /\ s \in got /\ Spends /\ rtask' = rtask \cup {s}
      /\ receipt' = [receipt EXCEPT ![s] = "received"]
      /\ UNCHANGED <<cursor, inbox, attempts, outbound, conv, owner, proc, cur, cold, mconv, mowner, gen,
                     poisoned, chain, turn, halted, sent, got, unsafe, dequeued, worked, boots>>
  BY DEF ReceiptArrives, Pulling, Alive, Spends, Limits
<1>3. receipt' \in [Segs -> {"none", "received", "done"}] /\ rtask' \subseteq Segs
  BY <1>1, <1>2
<1>4. ASSUME NEW v \in Users, NEW i \in DOMAIN wq[v] PROVE wq[v][i] \in Batch
  BY <1>1
<1>5. CASE UNCHANGED <<mout, wq>>
  BY <1>1, <1>2, <1>3, <1>4, <1>5 DEF Reports, Failed
<1>6. CASE /\ mout[s] # "none" /\ CanMove(mout[s], "failed", {"receipt"})
           /\ mout' = [mout EXCEPT ![s] = "failed"]
           /\ wq' = [wq EXCEPT ![UserOf(s)] =
                         [i \in DOMAIN @ |-> IF WritesLast(s, i) THEN FailedInQueue(@[i], s) ELSE @[i]]]
  <2>1. /\ mout' \in [Segs -> OutStatus] /\ \A x \in Segs : x # s => mout'[x] = mout[x]
        /\ mout[s] \in {"pending", "sending", "accepted", "unknown"} /\ mout'[s] = "failed"
    BY <1>1, <1>6, ReceiptTable DEF OutStatus
  <2>2. PICK f : f = [i \in DOMAIN wq[UserOf(s)] |->
                        IF WritesLast(s, i) THEN FailedInQueue(wq[UserOf(s)][i], s) ELSE wq[UserOf(s)][i]]
    OBVIOUS
  <2>3. wq' = [wq EXCEPT ![UserOf(s)] = f]
    BY <1>6, <2>2
  <2>4. ASSUME NEW i \in DOMAIN wq[UserOf(s)]
        PROVE  f[i] \in Batch /\ Failed(f[i], wq[UserOf(s)][i], s)
    <3>1. PICK b : b = wq[UserOf(s)][i]
      OBVIOUS
    <3>2. b \in Batch
      BY <1>1, <1>4, <3>1
    <3>3. CASE WritesLast(s, i)
      <4>1. f[i] = FailedInQueue(b, s)
        BY <2>2, <3>1, <3>3
      <4>2. s \in About(b)
        BY <3>1, <3>3 DEF WritesLast, About
      <4>. QED BY <2>1, <3>1, <3>2, <4>1, <4>2, FailedParts DEF Failed
    <3>4. CASE ~WritesLast(s, i)
      BY <2>2, <3>1, <3>2, <3>4 DEF Failed
    <3>. QED BY <3>3, <3>4
  <2>5. f \in Seq(Batch) /\ DOMAIN f = DOMAIN wq[UserOf(s)]
    <3>1. PICK n \in Nat : DOMAIN wq[UserOf(s)] = 1..n
      BY <1>1
    <3>2. f \in [1..n -> Batch]
      BY <2>2, <2>4, <3>1
    <3>. QED BY <2>2, <3>2
  <2>6. wq' \in [Users -> Seq(Batch)]
    BY <1>1, <2>3, <2>5
  <2>7. ASSUME NEW v \in Users
        PROVE  /\ DOMAIN wq'[v] = DOMAIN wq[v]
               /\ \A i \in DOMAIN wq[v] : Failed(wq'[v][i], wq[v][i], s)
    <3>1. CASE v = UserOf(s)
      <4>1. wq'[v] = f
        BY <1>1, <2>3, <3>1
      <4>. QED BY <2>4, <2>5, <3>1, <4>1
    <3>2. CASE v # UserOf(s)
      <4>1. wq'[v] = wq[v]
        BY <1>1, <2>3, <3>2
      <4>. QED BY <1>4, <4>1 DEF Failed
    <3>. QED BY <3>1, <3>2
  <2>. QED BY <1>2, <1>3, <2>1, <2>6, <2>7 DEF Reports
<1>. QED BY <1>5, <1>6 DEF ReceiptArrives

LEMMA ReportsSound ==
    ASSUME ChanInv, NEW s \in Segs, Reports(s)
    PROVE  Sound'
<1>1. /\ Sound /\ Alive /\ Spends /\ wq' \in [Users -> Seq(Batch)] /\ mout' \in [Segs -> OutStatus]
      /\ receipt' \in [Segs -> {"none", "received", "done"}] /\ rtask' \subseteq Segs
      /\ \A v \in Users : DOMAIN wq'[v] = DOMAIN wq[v] /\ \A i \in DOMAIN wq[v] : Failed(wq'[v][i], wq[v][i], s)
      /\ UNCHANGED <<cursor, inbox, attempts, outbound, conv, owner, proc, cur, cold, mconv, mowner, gen,
                     poisoned, chain, turn, halted, sent, got, unsafe, dequeued, worked, boots>>
  BY DEF Reports, ChanInv
<1>2. DbTypes'
  BY <1>1 DEF Sound, Typed, DbTypes
<1>3. MemTypes'
  BY <1>1 DEF Sound, Typed, MemTypes
<1>4. HistTypes'
  <2>1. faults' \in [Limits -> Nat] /\ faults'.starts = faults.starts /\ faults'.segs = faults.segs
    BY <1>1, SpendsKeeps
  <2>. QED BY <1>1, <2>1 DEF Sound, Typed, HistTypes
<1>5. ASSUME NEW v \in Users, NEW i \in DOMAIN wq[v] PROVE Owned(v, wq'[v][i])
  <2>1. PICK a, b : a = wq'[v][i] /\ b = wq[v][i]
    OBVIOUS
  <2>2. Owned(v, b) /\ Failed(a, b, s)
    BY <1>1, <2>1 DEF Sound, Shapes
  <2>3. Owned(v, a)
    <3>1. CASE a = b
      BY <2>2, <3>1
    <3>2. CASE /\ s \in About(b) /\ a.plan = b.plan \ {s}
               /\ a.res = {r \in b.res : r[1] # s} \cup {<<s, "failed">>}
      <4>1. UserOf(s) = v
        BY <2>2, <3>2 DEF Owned, About
      <4>. QED BY <2>2, <3>2, <4>1 DEF Owned, Failed
    <3>. QED BY <2>2, <3>1, <3>2 DEF Failed
  <2>. QED BY <2>1, <2>3
<1>6. Shapes'
  <2>1. \A v \in Users : \A i \in DOMAIN chain'[v] : From[chain'[v][i]] = v
    BY <1>1 DEF Sound, Shapes
  <2>2. \A v \in Users : TurnShape(v)'
    BY <1>1 DEF Sound, Shapes, TurnShape
  <2>3. Down'
    BY <1>1 DEF Sound, Shapes, Down, Alive
  <2>. QED BY <1>1, <1>5, <2>1, <2>2, <2>3 DEF Shapes
<1>. QED BY <1>2, <1>3, <1>4, <1>6 DEF Sound, Typed

LEMMA ReportsKeeps ==
    ASSUME ChanInv, NEW s \in Segs, Reports(s)
    PROVE  ChanInv'
<1>1. /\ Sound /\ Known /\ QueueOrder /\ RowsTrue /\ Alive
      /\ QueueAgrees /\ EndsAgree /\ GotSent /\ OneBoot /\ s \in got
      /\ \A x \in Segs : x # s => mout'[x] = mout[x]
      /\ mout' = mout \/ (mout[s] \in {"pending", "sending", "accepted", "unknown"} /\ mout'[s] = "failed")
      /\ UNCHANGED <<cursor, inbox, attempts, outbound, conv, owner, proc, cur, cold, mconv, mowner, gen,
                     poisoned, chain, turn, halted, sent, got, unsafe, dequeued, worked, boots>>
  BY DEF Reports, ChanInv, Rows, Ledger
<1>2. ASSUME NEW v \in Users
      PROVE  DOMAIN wq'[v] = DOMAIN wq[v] /\ \A i \in DOMAIN wq[v] : Failed(wq'[v][i], wq[v][i], s)
  BY DEF Reports
<1>3. ASSUME NEW v \in Users, NEW i \in DOMAIN wq[v]
      PROVE  /\ wq'[v][i].inb = wq[v][i].inb /\ About(wq'[v][i]) = About(wq[v][i])
             /\ About(wq[v][i]) \subseteq Segs
  <2>1. PICK a, b : a = wq'[v][i] /\ b = wq[v][i]
    OBVIOUS
  <2>2. Failed(a, b, s)
    BY <1>2, <2>1
  <2>3. a.inb = b.inb /\ About(a) = About(b) /\ About(b) \subseteq Segs
    <3>0. About(b) \subseteq Segs
      BY <2>2 DEF Failed, Batch, About
    <3>1. CASE a = b
      BY <3>0, <3>1
    <3>2. CASE /\ s \in About(b) /\ a.plan = b.plan \ {s} /\ a.inb = b.inb
               /\ a.res = {r \in b.res : r[1] # s} \cup {<<s, "failed">>}
      <4>1. ASSUME NEW x PROVE x \in About(a) <=> x \in About(b)
        <5>1. \A y : y \in About(a) <=> y \in a.plan \/ \E r \in a.res : y = r[1]
          BY Zenon DEF About
        <5>2. \A y : y \in About(b) <=> y \in b.plan \/ \E r \in b.res : y = r[1]
          BY Zenon DEF About
        <5>3. CASE x = s
          <6>1. <<s, "failed">> \in a.res /\ <<s, "failed">>[1] = s
            BY <3>2
          <6>. QED BY <3>2, <5>1, <5>3, <6>1
        <5>4. CASE x # s
          <6>1. \A r : r[1] = x => (r \in a.res <=> r \in b.res)
            BY <3>2, <5>4
          <6>. QED BY <3>2, <5>1, <5>2, <5>4, <6>1
        <5>. QED BY <5>3, <5>4
      <4>. QED BY <3>0, <3>2, <4>1
    <3>. QED BY <2>2, <3>1, <3>2 DEF Failed
  <2>. QED BY <2>1, <2>3
<1>4. \A x \in Segs : /\ Used(x)' => Used(x)
                      /\ Held(x)' => Held(x)
                      /\ mout[x] # "none" => mout'[x] # "none"
  BY <1>1 DEF Used, Held
<1>5. \A v \in Users : \A m, st : InQueue(v, m, st)' <=> InQueue(v, m, st)
  BY <1>2, <1>3 DEF InQueue
<1>6. Known'
  BY <1>1, <1>2, <1>3, <1>4 DEF Known
<1>7. QueueOrder'
  <2>1. \A v \in Users : \A i \in DOMAIN wq[v] : \A m \in Msgs : Ready(v, i, m) /\ i \in Nat /\ (\A k \in 1..i : k \in DOMAIN wq[v]) => Ready(v, i, m)'
    BY <1>1, <1>3 DEF Ready
  <2>2. \A v \in Users : \A i \in DOMAIN wq[v] : \A m \in Msgs : Covered(v, i, m) /\ i \in Nat /\ (\A k \in 1..i : k \in DOMAIN wq[v]) => Covered(v, i, m)'
    BY <1>1, <1>3 DEF Covered
  <2>3. ASSUME NEW v \in Users, NEW i \in DOMAIN wq[v] PROVE i \in Nat /\ \A k \in 1..i : k \in DOMAIN wq[v]
    <3>1. PICK n \in Nat : DOMAIN wq[v] = 1..n
      BY <1>1 DEF Sound, Typed, MemTypes
    <3>. QED BY <3>1
  <2>4. \A x \in Segs : MsgOf(x) \in Msgs
    BY SegFields
  <2>5. ASSUME NEW v \in Users, NEW i \in DOMAIN wq[v], NEW x \in About(wq[v][i]), IsReply(x)
        PROVE  Covered(v, i, MsgOf(x))'
    <3>1. Covered(v, i, MsgOf(x)) /\ MsgOf(x) \in Msgs
      BY <1>1, <1>3, <2>4, <2>5 DEF QueueOrder
    <3>. QED BY <2>2, <2>3, <3>1
  <2>6. ASSUME NEW v \in Users, NEW i \in DOMAIN wq[v], NEW m \in Msgs, <<m, "replied">> \in wq[v][i].inb
        PROVE  Ready(v, i, m)'
    <3>1. Ready(v, i, m)
      BY <1>1, <2>6 DEF QueueOrder
    <3>. QED BY <2>1, <2>3, <3>1
  <2>. QED BY <1>2, <1>3, <2>5, <2>6 DEF QueueOrder
<1>8. RowsTrue'
  <2>1. \A x \in Segs : UserOf(x) \in Users
    BY SegFields
  <2>. QED BY <1>1, <1>4, <1>5, <2>1 DEF RowsTrue, Stored, Alive
<1>9. ASSUME NEW v \in Users PROVE ChainTrue(v)'
  BY <1>1, <1>4, <1>5 DEF ChanInv, Rows, ChainTrue, HasPlanned
<1>10. QueueAgrees'
  <2>1. ASSUME NEW v \in Users, NEW i \in DOMAIN wq[v] PROVE Agrees(wq[v][i])'
    <3>1. PICK a, b : a = wq'[v][i] /\ b = wq[v][i]
      OBVIOUS
    <3>2. Failed(a, b, s) /\ Agrees(b)
      BY <1>1, <1>2, <3>1 DEF QueueAgrees
    <3>3. \A x \in a.cancel : mout'[x] = "cancelled"
      <4>1. a.cancel \subseteq Segs /\ \A x \in a.cancel : mout[x] = "cancelled"
        BY <3>2 DEF Failed, Agrees, Batch
      <4>. QED BY <1>1, <4>1
    <3>4. \A x \in a.plan : mout'[x] # "none"
      <4>1. a.plan \subseteq b.plan /\ b.plan \subseteq Segs
        BY <3>2 DEF Failed, Batch
      <4>2. \A x \in b.plan : mout[x] # "none"
        BY <3>2 DEF Agrees
      <4>. QED BY <1>4, <4>1, <4>2
    <3>5. \A r \in b.res : mout'[r[1]] \in Onward[r[2]]
      <4>1. ASSUME NEW r \in b.res PROVE mout'[r[1]] \in Onward[r[2]]
        <5>1. r[1] \in Segs /\ r[2] \in Results /\ mout[r[1]] \in Onward[r[2]]
          BY <3>2 DEF Failed, Batch, Agrees
        <5>2. CASE mout'[r[1]] = mout[r[1]]
          BY <5>1, <5>2
        <5>3. CASE mout'[r[1]] # mout[r[1]]
          <6>1. mout'[r[1]] = "failed" /\ mout[r[1]] # "rejected"
            BY <1>1, <5>1, <5>3
          <6>2. \A y \in Results : \/ y = "accepted" /\ Onward[y] = {"accepted", "failed"}
                                   \/ y = "rejected" /\ Onward[y] = {"rejected"}
                                   \/ y = "unknown" /\ Onward[y] = {"unknown", "accepted", "failed"}
                                   \/ y = "failed" /\ Onward[y] = {"failed"}
            BY DEF Onward, Results
          <6>. QED BY <5>1, <6>1, <6>2
        <5>. QED BY <5>2, <5>3
      <4>. QED BY <4>1
    <3>6. \A r \in a.res : mout'[r[1]] \in Onward[r[2]]
      <4>1. "failed" \in Onward["failed"]
        BY DEF Onward
      <4>2. \/ a.res = b.res
            \/ a.res \subseteq b.res \cup {<<s, "failed">>} /\ mout'[s] = "failed"
        BY <3>2 DEF Failed
      <4>. QED BY <3>5, <4>1, <4>2
    <3>. QED BY <3>1, <3>3, <3>4, <3>6 DEF Agrees
  <2>. QED BY <1>2, <2>1 DEF QueueAgrees
<1>11. EndsAgree' /\ GotSent'
  <2>1. "failed" \in NoMoreSends
    BY DEF NoMoreSends
  <2>. QED BY <1>1, <2>1 DEF EndsAgree, GotSent, Alive
<1>12. OneBoot'
  <2>1. ASSUME NEW x \in Segs, Live(x)' PROVE Live(x)
    <3>1. QueuedSeg(x)' => QueuedSeg(x)
      <4>1. UserOf(x) \in Users
        BY SegFields
      <4>. QED BY <1>2, <1>3, <4>1 DEF QueuedSeg
    <3>2. (Stored(x)' <=> Stored(x)) /\ (Safe(x)' <=> Safe(x)) /\ (Alive' <=> Alive)
      BY <1>1 DEF Stored, Safe, Alive
    <3>. QED BY <1>4, <2>1, <3>1, <3>2 DEF Live
  <2>. QED BY <1>1, <2>1 DEF OneBoot
<1>13. ASSUME NEW v \in Users PROVE Own(v)'
  <2>1. Own(v)
    BY DEF ChanInv
  <2>2. CountTrue(v)' /\ StaffTrue(v)' /\ HeadTrue(v)'
    BY <1>1, <2>1 DEF Own, CountTrue, StaffTrue, HeadTrue
  <2>3. HearsTrue(v)'
    BY <1>1, <1>5, <2>1 DEF Own, HearsTrue
  <2>4. TodoTrue(v)'
    <3>1. ASSUME turn[v].pc \in Sending, NEW x \in Range(turn[v].todo)
          PROVE  mout'[x] # "none" /\ (x \in unsafe \/ InFlight(x)' \/ Waits(v, x)')
      <4>1. mout[x] # "none" /\ (x \in unsafe \/ InFlight(x) \/ Waits(v, x)) /\ x \in Segs
        BY <1>1, <2>1, <3>1 DEF Own, TodoTrue, Sound, Typed, MemTypes, TurnType, Range
      <4>2. Waits(v, x) => x # s
        BY <1>1 DEF Waits, GotSent
      <4>3. Waits(v, x) => Waits(v, x)'
        BY <1>1, <4>1, <4>2 DEF Waits
      <4>. QED BY <1>1, <1>4, <4>1, <4>3 DEF InFlight
    <3>. QED BY <1>1, <2>1, <3>1 DEF Own, TodoTrue
  <2>5. ASSUME NEW x \in Segs, UserOf(x) = v PROVE SentTrue(x)'
    <3>1. SentTrue(x)
      BY <2>1, <2>5 DEF Own
    <3>2. (Safe(x)' <=> Safe(x)) /\ (InFlight(x)' <=> InFlight(x)) /\ (Alive' <=> Alive)
      BY <1>1 DEF Safe, InFlight, Alive
    <3>3. mout'[x] = mout[x] \/ mout'[x] = "failed"
      BY <1>1
    <3>4. Safe(x) => /\ mout'[x] \in Committed /\ (x \in got => mout'[x] # "rejected")
                     /\ (mout'[x] = "sending" => InFlight(x))
                     /\ (InFlight(x) => mout'[x] # "rejected")
      BY <1>1, <3>1, <3>3 DEF SentTrue, Committed
    <3>. QED BY <1>1, <3>1, <3>2, <3>4 DEF SentTrue
  <2>. QED BY <2>2, <2>3, <2>4, <2>5 DEF Own
<1>14. Sound' /\ CrashLoopEnds'
  BY <1>1, ReportsSound DEF ChanInv, CrashLoopEnds
<1>. QED BY <1>6, <1>7, <1>8, <1>9, <1>10, <1>11, <1>12, <1>13, <1>14 DEF ChanInv, Rows, Ledger

LEMMA ReceiptArrivesStep ==
    ASSUME ChanInv, NEW s \in Segs, ReceiptArrives(s)
    PROVE  ChanInv'
  BY ReceiptReports, ReportsKeeps

LEMMA ReceiptWrittenStep ==
    ASSUME ChanInv, NEW s \in Segs, ReceiptWritten(s)
    PROVE  ChanInv'
<1>1. /\ Sound /\ Known /\ QueueOrder /\ RowsTrue /\ Alive /\ Spends
      /\ QueueAgrees /\ EndsAgree /\ GotSent /\ OneBoot /\ outbound \in [Segs -> OutStatus]
      /\ rtask' = rtask \ {s}
      /\ UNCHANGED <<cursor, inbox, attempts, conv, owner, proc, cur, cold, mout, mconv, mowner, gen, wq,
                     poisoned, chain, turn, halted, sent, got, unsafe, dequeued, worked, boots>>
  <2>1. Spends
    <3>1. "stall" \in Limits \ {"starts", "segs"}
      BY DEF Limits
    <3>. QED BY <3>1 DEF ReceiptWritten, Spends
  <2>. QED BY <2>1 DEF ReceiptWritten, ChanInv, Rows, Ledger, Sound, Typed, DbTypes
<1>2. /\ outbound' \in [Segs -> OutStatus] /\ \A x \in Segs : x # s => outbound'[x] = outbound[x]
      /\ outbound' = outbound \/ (mout[s] = "failed" /\ outbound'[s] = "failed" /\ outbound[s] # "failed")
      /\ receipt' \in [Segs -> {"none", "received", "done"}]
  <2>0. receipt \in [Segs -> {"none", "received", "done"}]
    BY <1>1 DEF Sound, Typed, DbTypes
  <2>1. CASE UNCHANGED <<receipt, outbound>>
    BY <1>1, <2>0, <2>1
  <2>2. CASE /\ receipt' = [receipt EXCEPT ![s] = "done"]
             /\ outbound' = [outbound EXCEPT ![s] =
                                IF mout[s] = "failed" THEN Moved(@, "failed", FlushWriters) ELSE @]
    <3>1. PICK st : st = IF mout[s] = "failed" THEN Moved(outbound[s], "failed", FlushWriters) ELSE outbound[s]
      OBVIOUS
    <3>2. outbound' = [outbound EXCEPT ![s] = st]
      BY <1>1, <2>2, <3>1
    <3>3. st = outbound[s] \/ (mout[s] = "failed" /\ st = "failed" /\ outbound[s] # "failed")
      BY <3>1 DEF Moved
    <3>4. st \in OutStatus
      BY <1>1, <3>3 DEF OutStatus
    <3>5. outbound' \in [Segs -> OutStatus] /\ outbound'[s] = st /\ \A x \in Segs : x # s => outbound'[x] = outbound[x]
      BY <1>1, <3>2, <3>4
    <3>6. st = outbound[s] => outbound' = outbound
      BY <1>1, <3>2
    <3>. QED BY <2>0, <2>2, <3>3, <3>5, <3>6
  <2>. QED BY <2>1, <2>2 DEF ReceiptWritten
<1>3. Sound'
  <2>1. DbTypes'
    BY <1>1, <1>2 DEF Sound, Typed, DbTypes
  <2>2. MemTypes'
    BY <1>1 DEF Sound, Typed, MemTypes
  <2>3. HistTypes'
    <3>1. faults' \in [Limits -> Nat] /\ faults'.starts = faults.starts /\ faults'.segs = faults.segs
      BY <1>1, SpendsKeeps
    <3>. QED BY <1>1, <3>1 DEF Sound, Typed, HistTypes
  <2>4. Shapes'
    <3>1. \A v \in Users : TurnShape(v)'
      BY <1>1 DEF Sound, Shapes, TurnShape
    <3>2. Down'
      BY <1>1 DEF Sound, Shapes, Down, Alive
    <3>. QED BY <1>1, <3>1, <3>2 DEF Sound, Shapes
  <2>. QED BY <2>1, <2>2, <2>3, <2>4 DEF Sound, Typed
<1>4. \A x \in Segs : (Used(x)' => Used(x)) /\ (Stored(x)' => Stored(x)) /\ (Held(x)' <=> Held(x))
  BY <1>1, <1>2 DEF Used, Stored, Held
<1>5. \A v \in Users : \A m, st : InQueue(v, m, st)' <=> InQueue(v, m, st)
  BY <1>1 DEF InQueue
<1>6. Known' /\ QueueOrder'
  BY <1>1, <1>4 DEF Known, QueueOrder, Covered, Ready
<1>7. RowsTrue'
  <2>1. \A x \in Segs : UserOf(x) \in Users
    BY SegFields
  <2>. QED BY <1>1, <1>4, <1>5, <2>1 DEF RowsTrue, Alive
<1>8. ASSUME NEW v \in Users PROVE ChainTrue(v)'
  BY <1>1, <1>4, <1>5 DEF ChanInv, Rows, ChainTrue, HasPlanned
<1>9. QueueAgrees' /\ EndsAgree' /\ GotSent'
  <2>1. QueueAgrees'
    BY <1>1 DEF QueueAgrees, Agrees, Held
  <2>2. "failed" \in NoMoreSends
    BY DEF NoMoreSends
  <2>. QED BY <1>1, <1>2, <2>1, <2>2 DEF EndsAgree, GotSent, Alive
<1>10. OneBoot'
  <2>1. \A x \in Segs : Live(x)' => Live(x)
    BY <1>1, <1>4 DEF Live, Safe, Alive, QueuedSeg
  <2>. QED BY <1>1, <2>1 DEF OneBoot
<1>11. ASSUME NEW v \in Users PROVE Own(v)'
  <2>1. Own(v)
    BY DEF ChanInv
  <2>2. CountTrue(v)' /\ StaffTrue(v)'
    BY <1>1, <2>1 DEF Own, CountTrue, StaffTrue
  <2>3. HearsTrue(v)'
    BY <1>1, <1>5, <2>1 DEF Own, HearsTrue
  <2>4. TodoTrue(v)'
    BY <1>1, <2>1 DEF Own, TodoTrue, InFlight, Waits
  <2>5. HeadTrue(v)'
    <3>0. PICK x : x = Head(turn[v].todo)
      OBVIOUS
    <3>1. ASSUME turn[v].pc = "marked", turn[v].mark = "marked", x \notin unsafe
          PROVE  outbound'[x] = "sending"
      <4>1. turn[v].pc \in Heads /\ turn[v].pc \in Sending /\ turn[v].pc \notin Flying
        BY <3>1 DEF Heads, Sending, Flying
      <4>2. x \in Segs /\ x \in Range(turn[v].todo)
        BY <1>1, <3>0, <4>1, HeadOfTodo
      <4>3. From[turn[v].m] = v /\ MsgOf(x) = turn[v].m
        BY <1>1, <2>1, <4>1, <4>2, Working DEF Own, TodoTrue, Heads
      <4>4. ~InFlight(x)
        BY <4>1, <4>3 DEF InFlight, UserOf
      <4>5. mout[x] = "pending"
        BY <2>1, <3>1, <4>1, <4>2, <4>4 DEF Own, TodoTrue, Waits
      <4>6. outbound[x] = "sending"
        BY <2>1, <3>0, <3>1 DEF Own, HeadTrue
      <4>. QED BY <1>2, <4>2, <4>5, <4>6
    <3>. QED BY <1>1, <2>1, <3>0, <3>1 DEF Own, HeadTrue
  <2>6. ASSUME NEW x \in Segs, UserOf(x) = v PROVE SentTrue(x)'
    <3>1. SentTrue(x)
      BY <2>1, <2>6 DEF Own
    <3>2. (Safe(x)' <=> Safe(x)) /\ (InFlight(x)' <=> InFlight(x)) /\ (Alive' <=> Alive)
      BY <1>1 DEF Safe, InFlight, Alive
    <3>3. outbound'[x] = outbound[x] \/ outbound'[x] = "failed"
      BY <1>2
    <3>4. Safe(x) => /\ outbound'[x] \in Committed /\ (x \in got => outbound'[x] # "rejected")
                     /\ (InFlight(x) => outbound'[x] # "rejected")
      BY <3>1, <3>3 DEF SentTrue, Committed
    <3>. QED BY <1>1, <3>1, <3>2, <3>4 DEF SentTrue
  <2>. QED BY <2>2, <2>3, <2>4, <2>5, <2>6 DEF Own
<1>12. CrashLoopEnds'
  BY <1>1 DEF ChanInv, CrashLoopEnds
<1>. QED BY <1>3, <1>6, <1>7, <1>8, <1>9, <1>10, <1>11, <1>12 DEF ChanInv, Rows, Ledger

-----------------------------------------------------------------------------
(* The invariant holds. *)

LEMMA ChanInvInit ==
    ASSUME Init
    PROVE  ChanInv
<1>1. /\ \A m \in Msgs : inbox[m] = "none" /\ attempts[m] = 0 /\ dequeued[m] = 0 /\ worked[m] = 0
      /\ \A s \in Segs : outbound[s] = "none" /\ mout[s] = "none" /\ sent[s] = <<>>
      /\ \A u \in Users : wq[u] = <<>> /\ chain[u] = <<>> /\ turn[u] = NoTurn /\ gen[u] = 0
      /\ proc = "down" /\ boots = 0 /\ rtask = {} /\ got = {} /\ unsafe = {}
  BY DEF Init
<1>2. NoTurn \in TurnType /\ NoTurn.pc = "idle" /\ NoTurn.tries = 0 /\ NoTurn.outc = "none" /\ NoTurn.gen = 0
  BY NoTurnType
<1>3. DbTypes /\ MemTypes
  <2>0. 0 \in 0..N /\ 0 \in Nat
    BY ChannelAssumption
  <2>1. DbTypes
    <3>1. "none" \in InboxStates /\ "none" \in OutStatus /\ "no" \in Says /\ "ai" \in Owners
      BY DEF InboxStates, OutStatus, Says, Owners
    <3>2. inbox \in [Msgs -> InboxStates] /\ outbound \in [Segs -> OutStatus]
      BY <3>1 DEF Init
    <3>3. conv \in [Msgs -> Says] /\ owner \in [Users -> Owners]
      BY <3>1 DEF Init
    <3>4. attempts \in [Msgs -> Nat] /\ receipt \in [Segs -> {"none", "received", "done"}]
      BY DEF Init
    <3>. QED BY <2>0, <3>2, <3>3, <3>4 DEF Init, DbTypes
  <2>2. MemTypes
    <3>1. mout \in [Segs -> OutStatus] /\ mconv \in [Msgs -> Says] /\ mowner \in [Users -> Owners]
      BY <2>1 DEF Init, DbTypes
    <3>2. wq \in [Users -> Seq(Batch)] /\ chain \in [Users -> Seq(Msgs)]
      <4>1. <<>> \in Seq(Batch) /\ <<>> \in Seq(Msgs)
        OBVIOUS
      <4>. QED BY <4>1 DEF Init
    <3>3. turn \in [Users -> TurnType] /\ gen \in [Users -> Nat]
      BY <1>2 DEF Init
    <3>4. proc \in {"down", "up", "stopping", "closed"} /\ cur \in 0..N /\ cold \in BOOLEAN
      BY <2>0 DEF Init
    <3>5. poisoned \subseteq Users /\ halted \subseteq Users /\ rtask \subseteq Segs
      BY DEF Init
    <3>. QED BY <3>1, <3>2, <3>3, <3>4, <3>5 DEF MemTypes
  <2>. QED BY <2>1, <2>2
<1>4. HistTypes
  <2>1. faults \in [Limits -> Nat] /\ faults.starts <= MaxBoots /\ faults.segs <= NSeg
    BY ChannelAssumption DEF Init
  <2>2. faults.starts \in Nat
    BY <2>1 DEF Limits
  <2>. QED BY <1>1, <2>1, <2>2 DEF Init, HistTypes
<1>5. Shapes
  BY <1>1, <1>2 DEF Shapes, TurnShape, Heads, Flying, Down, Alive
<1>6. CrashLoopEnds
  BY <1>1, ChannelAssumption DEF CrashLoopEnds
<1>7. Rows
  <2>1. \A s \in Segs : ~Used(s) /\ ~Stored(s) /\ ~Held(s)
    BY <1>1 DEF Used, Stored, Held
  <2>2. \A u \in Users : ChainTrue(u)
    BY <1>1 DEF ChainTrue, IsInjective, Range
  <2>. QED BY <1>1, <2>1, <2>2 DEF Rows, Known, QueueOrder, RowsTrue, Alive
<1>8. Ledger
  <2>1. \A s \in Segs : ~Live(s)
    BY <1>1, SegFields DEF Live, Stored, Safe, Alive, QueuedSeg
  <2>. QED BY <1>1, <2>1 DEF Ledger, QueueAgrees, EndsAgree, GotSent, OneBoot, Alive
<1>9. ASSUME NEW u \in Users PROVE Own(u)
  <2>1. \A s \in Segs : SentTrue(s)
    BY <1>1 DEF SentTrue, Safe
  <2>2. turn[u] = NoTurn /\ gen[u] = 0
    BY <1>1
  <2>3. CountTrue(u) /\ HearsTrue(u) /\ HeadTrue(u)
    BY <1>2, <2>2 DEF CountTrue, HearsTrue, HeadTrue
  <2>4. TodoTrue(u) /\ StaffTrue(u)
    BY <1>2, <2>2 DEF TodoTrue, StaffTrue, Sending, Heads
  <2>. QED BY <2>1, <2>3, <2>4 DEF Own
<1>. QED BY <1>3, <1>4, <1>5, <1>6, <1>7, <1>8, <1>9 DEF ChanInv, Sound, Typed

LEMMA ChanInvSame ==
    ASSUME ChanInv, UNCHANGED vars
    PROVE  ChanInv'
<1>1. /\ UNCHANGED <<cursor, inbox, attempts, outbound, conv, owner, receipt>>
      /\ UNCHANGED <<proc, cur, cold, mout, mconv, mowner, gen, wq, poisoned, chain, turn, halted, rtask>>
      /\ UNCHANGED <<sent, got, unsafe, dequeued, worked, boots, faults>>
  BY DEF vars, dbVars, memVars, histVars
<1>2. Sound'
  BY <1>1 DEF ChanInv, Sound, Typed, DbTypes, MemTypes, HistTypes, Shapes, TurnShape, Down, Alive
<1>3. CrashLoopEnds'
  BY <1>1 DEF ChanInv, CrashLoopEnds
<1>4. Rows'
  BY <1>1 DEF ChanInv, Rows, Known, QueueOrder, Covered, Ready, RowsTrue, Alive, Stored, Held,
              ChainTrue, InQueue, HasPlanned, Used
<1>5. Ledger'
  BY <1>1 DEF ChanInv, Ledger, QueueAgrees, Agrees, Held, EndsAgree, GotSent, OneBoot, Live,
              Stored, Safe, Alive, QueuedSeg
<1>6. ASSUME NEW u \in Users PROVE Own(u)'
  BY <1>1 DEF ChanInv, Own, CountTrue, HearsTrue, InQueue, TodoTrue, InFlight, Waits, HeadTrue,
              StaffTrue, SentTrue, Safe, Alive
<1>. QED BY <1>2, <1>3, <1>4, <1>5, <1>6 DEF ChanInv

LEMMA ChanInvNext ==
    ASSUME ChanInv, [Next]_vars
    PROVE  ChanInv'
<1>1. CASE UNCHANGED vars
  BY <1>1, ChanInvSame
<1>2. ASSUME NEW u \in Users, Chain(u) PROVE ChanInv'
  BY <1>2, DequeueStep, AttemptStep, HearStep, ThinkStep, PlanStep, CommitOutboundStep, NextSegmentStep,
     MarkSendingStep, FirstPostStep, UnmarkStep, AnsweredStep, RetryStep, FinishStep DEF Chain
<1>3. ASSUME NEW u \in Users, Trouble(u) PROVE ChanInv'
  BY <1>3, AttemptHaltsStep, ThrowStep, TokenFailsStep, AnswerLostStep, PoisonStep DEF Trouble
<1>4. ASSUME NEW u \in Users, WecomTakes(u) \/ Flush(u) \/ Staff(u) PROVE ChanInv'
  BY <1>4, WecomTakesStep, FlushStep, TakeoverStep, HandBackStep DEF Staff
<1>5. ASSUME NEW k \in 1..PageSize, Pull(k) PROVE ChanInv'
  BY <1>5, PullStep
<1>6. ASSUME NEW s \in Segs, ReceiptArrives(s) \/ ReceiptWritten(s) PROVE ChanInv'
  BY <1>6, ReceiptArrivesStep, ReceiptWrittenStep
<1>7. CASE Stop \/ Exit \/ Crash \/ Boot
  BY <1>7, StopStep, CrashStep, BootStep
<1>. QED BY <1>1, <1>2, <1>3, <1>4, <1>5, <1>6, <1>7 DEF Next

LEMMA SpecInv == Spec => []ChanInv
<1>1. Init => ChanInv
  BY ChanInvInit
<1>2. ChanInv /\ [Next]_vars => ChanInv'
  BY ChanInvNext
<1>. QED BY <1>1, <1>2, PTL DEF Spec

-----------------------------------------------------------------------------
(* What follows. *)

\* Every variable of the channel keeps to its type through every page, turn, commit, receipt, crash
\* and start (channels/durable.ts, channels/ledger.ts, store/pg-backend.ts).
THEOREM TypesHold == Spec => []TypeOK
<1>1. ASSUME ChanInv
      PROVE  TypeOK
  <2>1. Typed
    BY <1>1 DEF ChanInv, Sound
  <2>2. ASSUME NEW u \in Users, NEW i \in DOMAIN wq[u] PROVE BatchOK(wq[u][i])
    <3>1. wq[u][i] \in Batch
      BY <2>1 DEF Typed, MemTypes
    <3>. QED BY <3>1 DEF Batch, BatchOK, Owners, Changes, Results
  <2>3. ASSUME NEW u \in Users
        PROVE  chain[u] \in Seq(Msgs) /\ TurnOK(turn[u]) /\ gen[u] \in Nat
    <3>1. turn[u] \in TurnType /\ chain[u] \in Seq(Msgs) /\ gen[u] \in Nat
      BY <2>1 DEF Typed, MemTypes
    <3>. QED BY <3>1 DEF TurnType, TurnOK, Pcs, Marks, Outcs
  <2>4. \A s \in Segs : sent[s] \in Seq(1..MaxBoots)
    BY <2>1 DEF Typed, HistTypes
  <2>. QED BY <2>1, <2>2, <2>3, <2>4 DEF TypeOK, Typed, DbTypes, MemTypes, HistTypes, InboxStates, Says, Owners
<1>. QED BY <1>1, SpecInv, PTL

\* A message is handled only after its attempt was counted, only real dequeues are counted, and one
\* that keeps taking the process down is given up after MAX_INBOX_ATTEMPTS (beginInboxAttempt).
THEOREM CrashLoopEndsHolds == Spec => []CrashLoopEnds
<1>1. ChanInv => CrashLoopEnds
  BY DEF ChanInv
<1>. QED BY <1>1, SpecInv, PTL

\* A customer message gets the segments of one reply at most, and no later process asks again for a
\* segment, whatever crashes, stops and restarts do, but for segments sent before their `sending'
\* was committed (planOutbound, resumeRepliedRow, outboundRecovery).
THEOREM OneReplyHolds == Spec => []OneReply
<1>1. ASSUME ChanInv
      PROVE  OneReply
  <2>1. ASSUME NEW m \in Msgs, SegsOf(m) \cap unsafe = {}
        PROVE  Cardinality({s[2] : s \in {x \in SegsOf(m) : sent[x] # <<>>}}) <= 1
    <3>1. PICK D : D = {s[2] : s \in {x \in SegsOf(m) : sent[x] # <<>>}}
      OBVIOUS
    <3>2. \A x \in SegsOf(m) : sent[x] # <<>> => x \in Segs /\ IsReply(x) /\ MsgOf(x) = m /\ Live(x)
      BY <2>1 DEF SegsOf, Live, Safe
    <3>3. \A x, y \in SegsOf(m) : sent[x] # <<>> /\ sent[y] # <<>> => x[2] = y[2]
      BY <1>1, <3>2 DEF ChanInv, Ledger, OneBoot
    <3>4. \A a, b \in D : a = b
      BY <3>1, <3>3
    <3>5. D = {} \/ \E a : D = {a}
      BY <3>4
    <3>6. Cardinality(D) <= 1
      <4>1. CASE D = {}
        <5>1. Cardinality(D) = 0
          BY <4>1, FS_EmptySet
        <5>. QED BY <5>1
      <4>2. ASSUME NEW a, D = {a} PROVE Cardinality(D) <= 1
        <5>1. Cardinality(D) = 1
          BY <4>2, FS_Singleton
        <5>. QED BY <5>1
      <4>. QED BY <3>5, <4>1, <4>2
    <3>. QED BY <3>1, <3>6
  <2>2. ASSUME NEW s \in Segs \ unsafe, NEW i \in DOMAIN sent[s], NEW j \in DOMAIN sent[s]
        PROVE  sent[s][i] = sent[s][j]
    <3>1. sent[s] # <<>>
      BY <2>2
    <3>2. SentTrue(s)
      BY <1>1, SegFields DEF ChanInv, Own
    <3>. QED BY <3>1, <3>2 DEF SentTrue, Safe
  <2>. QED BY <2>1, <2>2 DEF OneReply
<1>. QED BY <1>1, SpecInv, PTL

\* Segments in the database mean that their inbox row says so, and what WeCom took is never shown
\* as not sent, but for segments sent before their `sending' was committed (planOutbound, settleIntent,
\* markFailedInDb, outboundRecovery).
THEOREM LedgerIsTrueHolds == Spec => []LedgerIsTrue
<1>1. ASSUME ChanInv
      PROVE  LedgerIsTrue
  <2>1. \A s \in Segs : IsReply(s) /\ outbound[s] \notin {"none", "failed"}
                        => inbox[MsgOf(s)] \in {"replied", "done", "abandoned"}
    BY <1>1 DEF ChanInv, Rows, RowsTrue, Stored, Past
  <2>2. ASSUME NEW s \in got \ unsafe
        PROVE  outbound[s] \in {"sending", "accepted", "unknown", "failed"}
    <3>1. s \in Segs /\ Safe(s)
      BY <1>1, <2>2 DEF ChanInv, Sound, Typed, HistTypes, Ledger, GotSent, Safe
    <3>2. SentTrue(s)
      BY <1>1, <3>1, SegFields DEF ChanInv, Own
    <3>. QED BY <2>2, <3>1, <3>2 DEF SentTrue, Committed
  <2>. QED BY <2>1, <2>2 DEF LedgerIsTrue
<1>. QED BY <1>1, SpecInv, PTL

-----------------------------------------------------------------------------
(* Requests go out in two places only. *)

Asks(u, s) ==
    /\ Alive /\ ~SendsClosed /\ s = Head(turn[u].todo) /\ StillCurrent(u) /\ chain' = chain
    /\ sent' = [sent EXCEPT ![s] = Append(@, boots)]
    /\ unsafe' = IF turn[u].mark = "marked" THEN unsafe ELSE unsafe \cup {s}
    /\ \/ turn[u].pc = "marked"
       \/ turn[u].pc = "backoff" /\ MaySendAgain(s)

LEMMA PostAsks ==
    ASSUME ChanInv, NEW u \in Users, turn[u].pc \in Heads, Post(u), NEW s \in Segs, Posted(s)
    PROVE  s = Head(turn[u].todo)
<1>1. sent' = [sent EXCEPT ![Head(turn[u].todo)] = Append(@, boots)] /\ sent \in [Segs -> Seq(1..MaxBoots)]
  BY DEF Post, ChanInv, Sound, Typed, HistTypes
<1>. QED BY <1>1 DEF Posted

LEMMA WhoAsks ==
    ASSUME ChanInv, [Next]_vars, NEW s \in Segs, Posted(s)
    PROVE  \E u \in Users : turn[u].pc \in Heads /\ Asks(u, s)
<1>0. sent' # sent
  BY DEF Posted
<1>1. CASE UNCHANGED vars
  BY <1>0, <1>1 DEF vars, histVars
<1>2. ASSUME NEW u \in Users, Chain(u) PROVE turn[u].pc \in Heads /\ Asks(u, s)
  <2>1. CASE FirstPost(u)
    <3>1. Post(u) /\ Alive /\ ~SendsClosed /\ turn[u].pc = "marked" /\ StillCurrent(u) /\ chain' = chain
      BY <1>0, <2>1 DEF FirstPost, At
    <3>2. turn[u].pc \in Heads /\ s = Head(turn[u].todo)
      BY <3>1, PostAsks DEF Heads
    <3>. QED BY <3>1, <3>2 DEF Asks, Post
  <2>2. CASE Retry(u)
    <3>1. /\ Post(u) /\ Alive /\ ~SendsClosed /\ turn[u].pc = "backoff" /\ StillCurrent(u)
          /\ MaySendAgain(Head(turn[u].todo)) /\ chain' = chain
      BY <1>0, <2>2 DEF Retry, At
    <3>2. turn[u].pc \in Heads /\ s = Head(turn[u].todo)
      BY <3>1, PostAsks DEF Heads
    <3>. QED BY <3>1, <3>2 DEF Asks, Post
  <2>3. CASE Dequeue(u) \/ Attempt(u) \/ Hear(u) \/ Think(u) \/ Plan(u) \/ CommitOutbound(u)
    BY <1>0, <2>3 DEF Dequeue, Attempt, Hear, Think, Plan, CommitOutbound, histVars
  <2>4. CASE NextSegment(u) \/ MarkSending(u) \/ Unmark(u) \/ Answered(u) \/ Finish(u)
    BY <1>0, <2>4 DEF NextSegment, MarkSending, Unmark, Answered, Finish, histVars
  <2>. QED BY <1>2, <2>1, <2>2, <2>3, <2>4 DEF Chain
<1>3. ASSUME NEW u \in Users, Trouble(u) \/ Staff(u) \/ WecomTakes(u) \/ Flush(u) PROVE FALSE
  BY <1>0, <1>3 DEF Trouble, Staff, AttemptHalts, Throw, TokenFails, AnswerLost, Poison, Takeover, HandBack,
                    WecomTakes, Flush, histVars
<1>4. ASSUME NEW k \in 1..PageSize, Pull(k) PROVE FALSE
  BY <1>0, <1>4 DEF Pull
<1>5. ASSUME NEW x \in Segs, ReceiptArrives(x) \/ ReceiptWritten(x) PROVE FALSE
  BY <1>0, <1>5 DEF ReceiptArrives, ReceiptWritten
<1>6. CASE Stop \/ Exit \/ Crash \/ Boot
  BY <1>0, <1>6 DEF Stop, Exit, Crash, Boot, Forget, histVars
<1>. QED BY <1>1, <1>2, <1>3, <1>4, <1>5, <1>6 DEF Next

\* A segment whose fate the ledger or the database knows is not sent any more, nor is one of a row
\* that is finished in the database (markSending, sendSegment, finishInboxRow).
THEOREM EndedStaysUnsentHolds == Spec => EndedStaysUnsent
<1>1. ASSUME ChanInv, [Next]_vars, NEW s \in Segs, Posted(s)
      PROVE  /\ s \notin unsafe' => {mout[s], outbound[s]} \cap NoMoreSends = {}
             /\ IsReply(s) => inbox[MsgOf(s)] \in InboxOpen
  <2>1. PICK u \in Users : turn[u].pc \in Heads /\ Asks(u, s)
    BY <1>1, WhoAsks
  <2>2. Sound /\ Own(u) /\ ChainTrue(u) /\ EndsAgree /\ Alive /\ s = Head(turn[u].todo)
    BY <1>1, <2>1 DEF ChanInv, Rows, Ledger, Asks
  <2>3. s \in Range(turn[u].todo) /\ turn[u].pc \in Sending /\ turn[u].pc # "idle"
    BY <2>1, <2>2, HeadOfTodo DEF Sending, Heads
  <2>4. chain[u] # <<>> /\ turn[u].m = Head(chain[u]) /\ From[turn[u].m] = u /\ MsgOf(s) = turn[u].m
    BY <2>2, <2>3, Working DEF Own, TodoTrue
  <2>5. inbox[MsgOf(s)] \in InboxOpen
    <3>1. turn[u].m \in Range(chain[u])
      BY <2>2, <2>4, HeadOfChain DEF Range
    <3>. QED BY <2>2, <2>4, <3>1 DEF ChainTrue
  <2>6. ASSUME s \notin unsafe', turn[u].pc = "marked"
        PROVE  {mout[s], outbound[s]} \cap NoMoreSends = {}
    <3>1. turn[u].mark = "marked" /\ s \notin unsafe
      BY <2>1, <2>6 DEF Asks
    <3>2. outbound[s] = "sending"
      BY <2>2, <2>6, <3>1 DEF Own, HeadTrue
    <3>3. ~InFlight(s)
      BY <2>4, <2>6 DEF InFlight, UserOf, Flying
    <3>4. mout[s] = "pending"
      BY <2>2, <2>3, <2>6, <3>1, <3>3 DEF Own, TodoTrue, Waits
    <3>. QED BY <3>2, <3>4 DEF NoMoreSends
  <2>7. ASSUME turn[u].pc = "backoff"
        PROVE  {mout[s], outbound[s]} \cap NoMoreSends = {}
    <3>1. mout[s] \notin NoMoreSends
      BY <2>1, <2>7 DEF Asks, MaySendAgain
    <3>. QED BY <2>2, <3>1 DEF EndsAgree
  <2>. QED BY <2>1, <2>5, <2>6, <2>7 DEF Asks
<1>2. ChanInv /\ [Next]_vars =>
        \A s \in Segs : Posted(s) =>
            /\ s \notin unsafe' => {mout[s], outbound[s]} \cap NoMoreSends = {}
            /\ IsReply(s) => inbox[MsgOf(s)] \in InboxOpen
  BY <1>1
<1>. QED BY <1>2, SpecInv, PTL DEF Spec, EndedStaysUnsent

\* While a member of staff has a conversation no request of an AI reply starts: stillCurrent is asked
\* before every request, and a turn that began before the takeover no longer counts.
THEOREM SilentUnderStaffHolds == Spec => SilentUnderStaff
<1>1. ASSUME ChanInv, [Next]_vars, NEW s \in Segs, Posted(s), mowner[UserOf(s)] = "human"
      PROVE  MsgOf(s) \in Withdrawals
  <2>1. PICK u \in Users : turn[u].pc \in Heads /\ Asks(u, s)
    BY <1>1, WhoAsks
  <2>2. Sound /\ Own(u) /\ s = Head(turn[u].todo) /\ StillCurrent(u)
    BY <1>1, <2>1 DEF ChanInv, Asks
  <2>3. s \in Range(turn[u].todo) /\ turn[u].pc \in Sending /\ turn[u].pc # "idle"
    BY <2>1, <2>2, HeadOfTodo DEF Sending, Heads
  <2>4. MsgOf(s) = turn[u].m /\ UserOf(s) = u
    BY <2>2, <2>3, Working DEF Own, TodoTrue, UserOf
  <2>5. gen[u] = turn[u].gen
    BY <2>2 DEF StillCurrent
  <2>. QED BY <1>1, <2>2, <2>3, <2>4, <2>5 DEF Own, StaffTrue
<1>2. ChanInv /\ [Next]_vars =>
        \A s \in Segs : Posted(s) /\ mowner[UserOf(s)] = "human" => MsgOf(s) \in Withdrawals
  BY <1>1
<1>. QED BY <1>2, SpecInv, PTL DEF Spec, SilentUnderStaff


-----------------------------------------------------------------------------
(* The order of answers.  No page's commit loses its answer. *)

NoLostPage == \A b \in Budgets : b.page = 0

Ended(m) == inbox[m] \in {"done", "abandoned"}
Over(u, i, m) == <<m, "done">> \in wq[u][i].inb \/ <<m, "abandoned">> \in wq[u][i].inb
\* A row is finished once the first i batches are committed.
EndsBy(u, i, m) == Ended(m) \/ \E j \in DOMAIN wq[u] : j <= i /\ Over(u, j, m)
Earlier(m, x) == From[m] = UserOf(x) /\ m < MsgOf(x)

\* The cursor of the process is the database's, and rows are there up to it.
PagesTrue ==
    /\ faults.page = 0
    /\ Alive => cur = cursor
    /\ \A m \in Msgs : inbox[m] # "none" <=> m <= cursor
ChainSorted == \A u \in Users : \A i, j \in DOMAIN chain[u] : i < j => chain[u][i] < chain[u][j]

\* While requests may still go out, an open row is in its chain, or the batch that finishes it is
\* queued, or the chain has given up.
Sends == Alive /\ ~SendsClosed
NoRowForgotten ==
    Sends => \A m \in Msgs : inbox[m] \in InboxOpen =>
        m \in Range(chain[From[m]]) \/ From[m] \in halted \/ EndsBy(From[m], Len(wq[From[m]]), m)

\* A segment of this process is queued, and stored, behind the end of every earlier row.
QueuedAfter ==
    Sends => \A u \in Users : \A i \in DOMAIN wq[u] : \A x \in About(wq[u][i]) :
        x[2] = boots => \A m \in Msgs : Earlier(m, x) => EndsBy(u, i, m)
StoredAfter ==
    Sends => \A x \in Segs : x[2] = boots /\ Stored(x) => \A m \in Msgs : Earlier(m, x) => Ended(m)

Resigned ==
    \A u \in Users : (u \in halted => turn[u].pc = "idle") /\ (turn[u].pc = "unmark" => SendsClosed)
InLine == PagesTrue /\ ChainSorted /\ NoRowForgotten /\ QueuedAfter /\ StoredAfter /\ Resigned

\* What went out in the process that planned it went out behind the end of every earlier row;
\* what went out in this one, behind what left the chain.
SentAfter ==
    \A x \in Segs \ unsafe : x[2] \in Range(sent[x]) => \A m \in Msgs : Earlier(m, x) => Ended(m)
SentHere == \A x \in Segs : boots \in Range(sent[x]) => \A m \in Range(chain[UserOf(x)]) : MsgOf(x) <= m
SentSince == \A x \in Segs : \A b \in Range(sent[x]) : x[2] <= b /\ b <= boots
SentInLine == SentAfter /\ SentHere /\ SentSince

OrderInv == InLine /\ SentInLine

\* Numbers in sequence ascend.
LEMMA InSequenceSorted ==
    ASSUME NEW S, S \subseteq Nat, IsFiniteSet(S), NEW i \in DOMAIN InSequence(S),
           NEW j \in DOMAIN InSequence(S), i < j
    PROVE  InSequence(S)[i] < InSequence(S)[j]
<1>. DEFINE rank == [x \in S |-> x]
            q == InSequence(S)
            n == Cardinality(S)
<1>1. (\A x \in S : rank[x] \in Nat) /\ \A x, y \in S : rank[x] = rank[y] => x = y
  OBVIOUS
<1>2. q = Listed(S, rank)
  BY DEF InSequence
<1>3. DOMAIN q = 1..n /\ n \in Nat
  BY <1>2, FS_CardinalityType DEF Listed
<1>4. q \in Seq(S) /\ IsInjective(q)
  BY InSequenceAll
<1>5. ASSUME NEW x \in S
      PROVE  /\ Cardinality(UpTo(S, rank, x)) \in 1..n /\ q[Cardinality(UpTo(S, rank, x))] = x
             /\ IsFiniteSet(UpTo(S, rank, x))
  <2>1. UpTo(S, rank, x) \subseteq S
    BY DEF UpTo
  <2>2. IsFiniteSet(UpTo(S, rank, x))
    BY <2>1, FS_Subset
  <2>. HIDE DEF rank
  <2>3. /\ Cardinality(UpTo(S, rank, x)) \in 1..Cardinality(S)
        /\ Listed(S, rank)[Cardinality(UpTo(S, rank, x))] = x
    BY <1>1, ListedAt
  <2>. QED BY <1>2, <2>2, <2>3
<1>. HIDE DEF q, n
<1>6. ASSUME NEW k \in DOMAIN q PROVE q[k] \in S /\ Cardinality(UpTo(S, rank, q[k])) = k
  <2>1. q[k] \in S
    BY <1>4
  <2>. QED BY <1>3, <1>4, <1>5, <2>1 DEF IsInjective
<1>7. i \in DOMAIN q /\ j \in DOMAIN q
  BY DEF q
<1>8. ASSUME q[j] <= q[i] PROVE FALSE
  <2>1. UpTo(S, rank, q[j]) \subseteq UpTo(S, rank, q[i])
    <3>1. PICK x \in S, y \in S : x = q[i] /\ y = q[j] /\ y <= x /\ x \in Nat /\ y \in Nat
      BY <1>6, <1>7, <1>8
    <3>2. \A z \in S : rank[z] = z /\ z \in Nat
      OBVIOUS
    <3>. HIDE DEF rank
    <3>3. UpTo(S, rank, y) \subseteq UpTo(S, rank, x)
      <4>1. ASSUME NEW z \in UpTo(S, rank, y) PROVE z \in S /\ rank[z] <= rank[x]
        <5>1. z \in S /\ rank[z] <= rank[y]
          BY DEF UpTo
        <5>. QED BY <3>1, <3>2, <5>1
      <4>. QED BY <4>1 DEF UpTo
    <3>. QED BY <3>1, <3>3
  <2>2. Cardinality(UpTo(S, rank, q[j])) <= Cardinality(UpTo(S, rank, q[i]))
    BY <1>5, <1>6, <1>7, <2>1, FS_Subset
  <2>. QED BY <1>3, <1>6, <1>7, <2>2
<1>9. q[i] \in Nat /\ q[j] \in Nat
  BY <1>6, <1>7
<1>. QED BY <1>8, <1>9 DEF q

\* The first of a sorted chain is the least of it.
LEMMA HeadLeast ==
    ASSUME Sound, ChainSorted, NEW u \in Users, NEW m \in Range(chain[u])
    PROVE  Head(chain[u]) <= m /\ chain[u] # <<>>
<1>1. chain[u] \in Seq(Msgs)
  BY DEF Sound, Typed, MemTypes
<1>2. PICK k \in DOMAIN chain[u] : chain[u][k] = m
  BY DEF Range
<1>3. chain[u] # <<>> /\ Head(chain[u]) = chain[u][1] /\ 1 \in DOMAIN chain[u] /\ k \in 1..Len(chain[u])
  BY <1>1, <1>2
<1>4. chain[u][1] \in Nat /\ m \in Nat
  BY <1>1, <1>2, <1>3, ChannelAssumption DEF Msgs
<1>5. k = 1 \/ 1 < k
  BY <1>1, <1>3
<1>. QED BY <1>2, <1>3, <1>4, <1>5 DEF ChainSorted

\* What comes before the row a turn is at is over with what is queued.
LEMMA BeforeHead ==
    ASSUME ChanInv, InLine, Sends, NEW u \in Users, turn[u].pc # "idle", NEW m \in Msgs,
           From[m] = u, m < turn[u].m
    PROVE  EndsBy(u, Len(wq[u]), m)
<1>1. /\ Sound /\ chain[u] # <<>> /\ turn[u].m = Head(chain[u]) /\ Head(chain[u]) \in Msgs
      /\ Head(chain[u]) \in Range(chain[u])
  <2>1. Sound /\ chain[u] # <<>> /\ turn[u].m = Head(chain[u]) /\ turn[u].m \in Msgs
    BY Working DEF ChanInv
  <2>. QED BY <2>1, HeadOfChain DEF Range
<1>2. inbox[Head(chain[u])] # "none"
  BY <1>1 DEF ChanInv, Rows, ChainTrue, InboxOpen
<1>3. inbox[m] # "none"
  <2>1. Head(chain[u]) <= cursor
    BY <1>1, <1>2 DEF InLine, PagesTrue
  <2>2. m \in Nat /\ Head(chain[u]) \in Nat /\ cursor \in Nat
    BY <1>1, ChannelAssumption DEF Msgs, Sound, Typed, DbTypes
  <2>. QED BY <1>1, <2>1, <2>2 DEF InLine, PagesTrue
<1>4. CASE inbox[m] \in InboxOpen
  <2>1. u \notin halted
    BY DEF InLine, Resigned
  <2>2. m \notin Range(chain[u])
    <3>1. m \in Nat /\ Head(chain[u]) \in Nat /\ m < Head(chain[u])
      BY <1>1, ChannelAssumption DEF Msgs
    <3>2. m \in Range(chain[u]) => Head(chain[u]) <= m
      BY <1>1, HeadLeast DEF InLine
    <3>. QED BY <3>1, <3>2
  <2>. QED BY <1>4, <2>1, <2>2 DEF InLine, NoRowForgotten
<1>5. CASE inbox[m] \notin InboxOpen
  BY <1>1, <1>3, <1>5 DEF EndsBy, Ended, Sound, Typed, DbTypes, InboxStates
<1>. QED BY <1>4, <1>5

-----------------------------------------------------------------------------
(* A step of one conversation, as far as the order is concerned. *)

Finishes(u, b) == \E st \in {"done", "abandoned"} : <<Head(chain[u]), st>> \in b.inb
Calm ==
    /\ Alive /\ UNCHANGED <<cursor, inbox, proc, cur, boots>>
    /\ \A s \in Segs : Stored(s)' => Stored(s)
Adds(u, b) ==
    /\ b \in Batch /\ (wq' = Queue(u, b) \/ (wq' = wq /\ b = NoBatch))
    /\ \A x \in About(b) : turn[u].pc # "idle" /\ MsgOf(x) = turn[u].m
Tidy(u, b) ==
    /\ Calm /\ Adds(u, b)
    /\ halted' \in {halted, halted \cup {u}}
    /\ \/ chain' = chain
       \/ chain[u] # <<>> /\ Pop(u) /\ (u \in halted' \/ SendsClosed \/ Finishes(u, b))
    /\ \A v \in Users \ {u} : turn'[v] = turn[v]
    /\ u \in halted' => turn'[u].pc = "idle"
    /\ turn'[u].pc = "unmark" => SendsClosed

\* The page budget is never spent.
LEMMA NoPageLost ==
    ASSUME Sound, faults.page = 0, [Next]_vars
    PROVE  faults'.page = 0
<1>1. faults \in [Limits -> Nat] /\ "page" \in Limits
  BY DEF Sound, Typed, HistTypes, Limits
<1>2. ASSUME NEW kind \in Limits, Fault(kind) PROVE faults'.page = 0
  <2>1. kind # "page"
    BY <1>1, <1>2 DEF Fault
  <2>. QED BY <1>1, <1>2, <2>1 DEF Fault
<1>3. {"takeover", "receipt", "stall", "drop", "page", "ack", "poison"} \subseteq Limits
  BY DEF Limits
<1>4. CASE UNCHANGED vars
  BY <1>4 DEF vars, histVars
<1>5. ASSUME NEW u \in Users, Chain(u) PROVE faults'.page = 0
  <2>1. CASE Attempt(u) \/ CommitOutbound(u) \/ MarkSending(u) \/ Unmark(u)
    BY <1>2, <1>3, <2>1 DEF Attempt, CommitOutbound, MarkSending, Unmark
  <2>2. CASE Dequeue(u) \/ Hear(u) \/ Think(u) \/ Plan(u) \/ NextSegment(u) \/ FirstPost(u)
             \/ Answered(u) \/ Retry(u) \/ Finish(u)
    BY <2>2 DEF Dequeue, Hear, Think, Plan, NextSegment, FirstPost, Answered, Retry, Finish, histVars
  <2>. QED BY <1>5, <2>1, <2>2 DEF Chain
<1>6. ASSUME NEW u \in Users, Trouble(u) \/ Staff(u) \/ WecomTakes(u) \/ Flush(u) PROVE faults'.page = 0
  BY <1>2, <1>3, <1>6 DEF Trouble, Staff, AttemptHalts, Throw, TokenFails, AnswerLost, Poison, Takeover,
     HandBack, WecomTakes, Flush, histVars
<1>7. ASSUME NEW k \in 1..PageSize, Pull(k) PROVE faults'.page = 0
  BY <1>2, <1>3, <1>7 DEF Pull
<1>8. ASSUME NEW s \in Segs, ReceiptArrives(s) \/ ReceiptWritten(s) PROVE faults'.page = 0
  BY <1>2, <1>3, <1>8 DEF ReceiptArrives, ReceiptWritten
<1>9. CASE Stop \/ Exit \/ Crash
  BY <1>9 DEF Stop, Exit, Crash, Forget, histVars
<1>10. CASE Boot
  <2>1. faults' = faults \/ faults' = [faults EXCEPT !.sleep = @ - 1, !.old = cursor]
    BY <1>10 DEF Boot
  <2>. QED BY <1>1, <2>1
<1>. QED BY <1>4, <1>5, <1>6, <1>7, <1>8, <1>9, <1>10 DEF Next

LEMMA TidyQueue ==
    ASSUME Sound, NEW u \in Users, NEW b, Tidy(u, b)
    PROVE  /\ \A v \in Users : /\ wq[v] \in Seq(Batch) /\ wq'[v] \in Seq(Batch)
                               /\ Len(wq[v]) <= Len(wq'[v])
                               /\ \A i \in DOMAIN wq[v] : i \in DOMAIN wq'[v] /\ wq'[v][i] = wq[v][i]
           /\ \A v \in Users \ {u} : wq'[v] = wq[v]
           /\ \A i \in DOMAIN wq'[u] \ DOMAIN wq[u] : i = Len(wq[u]) + 1 /\ wq'[u][i] = b
           /\ wq' # wq => Len(wq[u]) + 1 \in DOMAIN wq'[u] /\ wq'[u][Len(wq[u]) + 1] = b
                          /\ Len(wq'[u]) = Len(wq[u]) + 1
<1>1. wq \in [Users -> Seq(Batch)] /\ b \in Batch
  BY DEF Sound, Typed, MemTypes, Tidy, Adds
<1>2. CASE wq' = wq
  BY <1>1, <1>2
<1>3. CASE wq' = Queue(u, b)
  <2>1. Queued(wq', u, b)
    BY <1>1, <1>3, QueueAdds
  <2>2. /\ Len(wq'[u]) = Len(wq[u]) + 1 /\ Len(wq[u]) \in Nat /\ DOMAIN wq[u] = 1..Len(wq[u])
        /\ DOMAIN wq'[u] = DOMAIN wq[u] \cup {Len(wq'[u])} /\ wq' \in [Users -> Seq(Batch)]
        /\ \A i \in DOMAIN wq[u] : wq'[u][i] = wq[u][i]
        /\ wq'[u][Len(wq'[u])] = b /\ \A v \in Users \ {u} : wq'[v] = wq[v]
    BY <2>1 DEF Queued
  <2>3. ASSUME NEW v \in Users
        PROVE  /\ wq[v] \in Seq(Batch) /\ wq'[v] \in Seq(Batch) /\ Len(wq[v]) <= Len(wq'[v])
               /\ \A i \in DOMAIN wq[v] : i \in DOMAIN wq'[v] /\ wq'[v][i] = wq[v][i]
    <3>1. CASE v = u
      BY <1>1, <2>2, <3>1
    <3>2. CASE v # u
      <4>1. wq'[v] = wq[v] /\ wq[v] \in Seq(Batch)
        BY <1>1, <2>2, <3>2
      <4>2. Len(wq[v]) \in Nat
        BY <4>1
      <4>. QED BY <4>1, <4>2
    <3>. QED BY <3>1, <3>2
  <2>4. \A i \in DOMAIN wq'[u] \ DOMAIN wq[u] : i = Len(wq[u]) + 1 /\ wq'[u][i] = b
    BY <2>2
  <2>5. Len(wq[u]) + 1 \in DOMAIN wq'[u] /\ wq'[u][Len(wq[u]) + 1] = b /\ Len(wq'[u]) = Len(wq[u]) + 1
    BY <2>2
  <2>. HIDE DEF Queue
  <2>. QED BY <2>2, <2>3, <2>4, <2>5
<1>. QED BY <1>2, <1>3 DEF Tidy, Adds

\* What is over with i batches committed stays so.
LEMMA TidyEnds ==
    ASSUME Sound, NEW u \in Users, NEW b, Tidy(u, b), NEW v \in Users, NEW m, NEW i, EndsBy(v, i, m)
    PROVE  EndsBy(v, i, m)'
<1>1. inbox' = inbox
  BY DEF Tidy, Calm
<1>2. \A j \in DOMAIN wq[v] : j \in DOMAIN wq'[v] /\ wq'[v][j] = wq[v][j]
  BY TidyQueue
<1>. QED BY <1>1, <1>2 DEF EndsBy, Ended, Over

LEMMA TidyForgets ==
    ASSUME ChanInv, InLine, NEW u \in Users, NEW b, Tidy(u, b)
    PROVE  NoRowForgotten'
<1>. SUFFICES ASSUME Sends', NEW m \in Msgs, inbox'[m] \in InboxOpen
              PROVE  \/ m \in Range(chain'[From[m]]) \/ From[m] \in halted'
                     \/ EndsBy(From[m], Len(wq[From[m]]), m)'
  BY DEF NoRowForgotten
<1>. DEFINE v == From[m]
<1>1. Sends /\ inbox[m] \in InboxOpen /\ v \in Users /\ Sound
  BY ChannelAssumption DEF Tidy, Calm, Sends, Alive, SendsClosed, Msgs, ChanInv
<1>2. CASE EndsBy(v, Len(wq[v]), m)
  <2>1. EndsBy(v, Len(wq[v]), m)'
    <3>1. PICK j \in DOMAIN wq[v] : j <= Len(wq[v]) /\ Over(v, j, m)
      BY <1>1, <1>2 DEF EndsBy, Ended, InboxOpen
    <3>2. j \in DOMAIN wq'[v] /\ wq'[v][j] = wq[v][j] /\ wq'[v] \in Seq(Batch)
      BY <1>1, <3>1, TidyQueue
    <3>3. j <= Len(wq'[v])
      BY <3>2
    <3>. QED BY <3>1, <3>2, <3>3 DEF EndsBy, Over
  <2>. QED BY <2>1
<1>3. CASE v \in halted
  BY <1>3 DEF Tidy
<1>4. CASE m \in Range(chain[v]) /\ v \notin halted
  <2>1. CASE chain'[v] = chain[v]
    BY <1>4, <2>1
  <2>2. CASE chain'[v] # chain[v]
    <3>1. /\ Pop(u) /\ chain[u] # <<>> /\ (u \in halted' \/ Finishes(u, b)) /\ chain \in [Users -> Seq(Msgs)]
      BY <1>1, <2>2 DEF Tidy, Sends, Sound, Typed, MemTypes
    <3>2. v = u /\ chain'[u] = Tail(chain[u])
      BY <1>1, <2>2, <3>1, PopKeeps
    <3>3. PICK k \in DOMAIN chain[u] : chain[u][k] = m
      BY <1>4, <3>2 DEF Range
    <3>4. CASE k = 1
      <4>1. m = Head(chain[u])
        BY <3>1, <3>3, <3>4
      <4>2. CASE u \in halted'
        BY <3>2, <4>2
      <4>3. CASE Finishes(u, b)
        <5>1. b # NoBatch
          BY <4>3 DEF Finishes, NoBatch
        <5>2. wq' # wq
          <6>1. wq' = Queue(u, b) /\ wq \in [Users -> Seq(Batch)] /\ b \in Batch
            BY <1>1, <5>1 DEF Tidy, Adds, Sound, Typed, MemTypes
          <6>2. Queued(Queue(u, b), u, b)
            BY <6>1, QueueAdds
          <6>3. Len(wq'[u]) = Len(wq[u]) + 1 /\ Len(wq[u]) \in Nat
            BY <6>1, <6>2 DEF Queued
          <6>. QED BY <6>3
        <5>3. PICK j \in DOMAIN wq'[u] : j = Len(wq[u]) + 1 /\ wq'[u][j] = b /\ Len(wq'[u]) = j
          BY <1>1, <5>2, TidyQueue
        <5>4. Over(u, j, m)' /\ j <= Len(wq'[u])
          <6>1. j \in Nat
            BY <1>1, <5>3, TidyQueue
          <6>. QED BY <4>1, <4>3, <5>3, <6>1 DEF Finishes, Over
        <5>. QED BY <3>2, <5>4 DEF EndsBy
      <4>. QED BY <3>1, <4>2, <4>3
    <3>5. CASE k # 1
      <4>1. k - 1 \in DOMAIN Tail(chain[u]) /\ Tail(chain[u])[k - 1] = chain[u][k]
        <5>1. chain[u] \in Seq(Msgs) /\ k \in 1..Len(chain[u])
          BY <3>1, <3>3
        <5>2. /\ Len(Tail(chain[u])) = Len(chain[u]) - 1 /\ DOMAIN Tail(chain[u]) = 1..(Len(chain[u]) - 1)
              /\ \A i \in 1..(Len(chain[u]) - 1) : Tail(chain[u])[i] = chain[u][i + 1]
          BY <3>1, <5>1
        <5>3. k - 1 \in 1..(Len(chain[u]) - 1) /\ (k - 1) + 1 = k
          BY <3>5, <5>1
        <5>. QED BY <5>2, <5>3
      <4>. QED BY <3>2, <3>3, <4>1 DEF Range
    <3>. QED BY <3>4, <3>5
  <2>. QED BY <2>1, <2>2
<1>. QED BY <1>1, <1>2, <1>3, <1>4 DEF InLine, NoRowForgotten

\* A batch about a segment of this process is queued by the turn of its row.
LEMMA TidyQueued ==
    ASSUME ChanInv, InLine, NEW u \in Users, NEW b, Tidy(u, b)
    PROVE  QueuedAfter'
<1>. SUFFICES ASSUME Sends', NEW v \in Users, NEW i \in DOMAIN wq'[v], NEW x \in About(wq'[v][i]),
                     x[2] = boots', NEW m \in Msgs, Earlier(m, x)
              PROVE  EndsBy(v, i, m)'
  BY DEF QueuedAfter, Earlier
<1>1. Sends /\ Sound /\ boots' = boots
  BY DEF Tidy, Calm, Sends, Alive, SendsClosed, ChanInv
<1>2. CASE i \in DOMAIN wq[v]
  <2>1. wq'[v][i] = wq[v][i]
    BY <1>1, <1>2, TidyQueue
  <2>2. EndsBy(v, i, m)
    BY <1>1, <1>2, <2>1 DEF InLine, QueuedAfter
  <2>. QED BY <1>1, <2>2, TidyEnds
<1>3. CASE i \notin DOMAIN wq[v]
  <2>1. v = u /\ i = Len(wq[u]) + 1 /\ wq'[v][i] = b /\ wq[u] \in Seq(Batch)
    BY <1>1, <1>3, TidyQueue
  <2>2. turn[u].pc # "idle" /\ MsgOf(x) = turn[u].m
    BY <2>1 DEF Tidy, Adds
  <2>3. From[m] = u /\ m < turn[u].m
    BY <1>1, <2>2, Working DEF Earlier, UserOf
  <2>4. EndsBy(u, Len(wq[u]), m)
    BY <1>1, <2>2, <2>3, BeforeHead
  <2>5. EndsBy(u, i, m)'
    <3>1. PICK n : n = Len(wq[u])
      OBVIOUS
    <3>2. EndsBy(u, n, m)'
      BY <1>1, <2>4, <3>1, TidyEnds
    <3>3. Len(wq[u]) <= i
      BY <2>1
    <3>4. \A j \in DOMAIN wq'[u] : j <= n => j <= i
      <4>1. n \in Nat /\ i \in Nat /\ \A j \in DOMAIN wq'[u] : j \in Nat
        BY <1>1, <2>1, <3>1, TidyQueue
      <4>. QED BY <3>1, <3>3, <4>1
    <3>5. EndsBy(u, i, m)'
      BY <3>2, <3>4 DEF EndsBy
    <3>. QED BY <3>5
  <2>. QED BY <2>1, <2>5
<1>. QED BY <1>2, <1>3

LEMMA TidyInLine ==
    ASSUME ChanInv, InLine, NEW u \in Users, NEW b, Tidy(u, b), faults'.page = 0
    PROVE  InLine'
<1>1. PagesTrue'
  BY DEF InLine, PagesTrue, Tidy, Calm, Alive
<1>2. ChainSorted'
  <2>1. CASE chain' = chain
    BY <2>1 DEF InLine, ChainSorted
  <2>2. CASE chain[u] # <<>> /\ Pop(u)
    <3>1. /\ chain'[u] = Tail(chain[u]) /\ \A v \in Users \ {u} : chain'[v] = chain[v]
      BY <2>2, PopKeeps DEF ChanInv
    <3>2. chain[u] \in Seq(Msgs)
      BY DEF ChanInv, Sound, Typed, MemTypes
    <3>3. ASSUME NEW i \in DOMAIN Tail(chain[u]), NEW j \in DOMAIN Tail(chain[u]), i < j
          PROVE  Tail(chain[u])[i] < Tail(chain[u])[j]
      <4>1. /\ DOMAIN Tail(chain[u]) = 1..(Len(chain[u]) - 1) /\ DOMAIN chain[u] = 1..Len(chain[u])
            /\ \A k \in 1..(Len(chain[u]) - 1) : Tail(chain[u])[k] = chain[u][k + 1]
            /\ Len(chain[u]) \in Nat
        BY <2>2, <3>2
      <4>2. i + 1 \in DOMAIN chain[u] /\ j + 1 \in DOMAIN chain[u] /\ i + 1 < j + 1
        BY <3>3, <4>1
      <4>3. chain[u][i + 1] < chain[u][j + 1]
        BY <4>2 DEF InLine, ChainSorted
      <4>. QED BY <3>3, <4>1, <4>3
    <3>. QED BY <3>1, <3>3 DEF InLine, ChainSorted
  <2>. QED BY <2>1, <2>2 DEF Tidy
<1>3. StoredAfter'
  <2>1. boots' = boots /\ inbox' = inbox /\ proc' = proc /\ \A s \in Segs : Stored(s)' => Stored(s)
    BY DEF Tidy, Calm
  <2>. QED BY <2>1 DEF InLine, StoredAfter, Sends, Alive, SendsClosed, Ended
<1>4. Resigned'
  BY DEF InLine, Resigned, Tidy, Calm, SendsClosed
<1>. QED BY <1>1, <1>2, <1>3, <1>4, TidyForgets, TidyQueued DEF InLine

LEMMA GoesTidy ==
    ASSUME InLine, NEW u \in Users, NEW b, Calm, Adds(u, b), UNCHANGED <<chain, halted>>,
           turn[u].pc # "idle" \/ u \notin halted, \A v \in Users \ {u} : turn'[v] = turn[v],
           turn'[u].pc # "unmark" \/ SendsClosed
    PROVE  Tidy(u, b)
<1>1. u \notin halted
  BY DEF InLine, Resigned
<1>. QED BY <1>1 DEF Tidy

LEMMA PopsTidy ==
    ASSUME Sound, InLine, NEW u \in Users, NEW b, Calm, Adds(u, b), halted' = halted,
           chain[u] # <<>>, Pop(u), u \in halted \/ SendsClosed \/ Finishes(u, b)
    PROVE  Tidy(u, b)
<1>1. turn'[u] = NoTurn /\ NoTurn.pc = "idle" /\ \A v \in Users \ {u} : turn'[v] = turn[v]
  BY PopKeeps, NoTurnType
<1>. QED BY <1>1 DEF Tidy

\* Nothing is queued, or a batch that is about no segment.
LEMMA AddsNothing ==
    ASSUME NEW u \in Users, wq' = wq
    PROVE  Adds(u, NoBatch)
  BY NoBatchType DEF Adds, About, NoBatch

LEMMA AddsQuiet ==
    ASSUME NEW u \in Users, NEW b \in Batch, b.plan = {}, b.res = {}, wq' = Queue(u, b)
    PROVE  Adds(u, b)
  BY DEF Adds, About

LEMMA AddsPlan ==
    ASSUME NEW u \in Users, NEW b \in Batch, turn[u].pc # "idle",
           \A s \in b.plan : MsgOf(s) = turn[u].m, b.res = {}, wq' = Queue(u, b)
    PROVE  Adds(u, b)
  BY DEF Adds, About

LEMMA AddsResult ==
    ASSUME NEW u \in Users, NEW b \in Batch, turn[u].pc # "idle", b.plan = {}, NEW s,
           MsgOf(s) = turn[u].m, \A r \in b.res : r[1] = s, wq' = Queue(u, b)
    PROVE  Adds(u, b)
  BY DEF Adds, About

\* Nothing but memory is written.
LEMMA CalmSame ==
    ASSUME Alive, UNCHANGED <<cursor, inbox, proc, cur, boots, outbound>>
    PROVE  Calm
  BY DEF Calm, Stored

LEMMA DequeueTidy ==
    ASSUME ChanInv, InLine, NEW u \in Users, Dequeue(u)
    PROVE  \E b : Tidy(u, b)
<1>. DEFINE m == Head(chain[u])
<1>1. /\ Sound /\ Alive /\ chain[u] # <<>> /\ turn \in [Users -> TurnType] /\ m \in Msgs
      /\ Calm /\ halted' = halted
  <2>1. Alive /\ chain[u] # <<>> /\ UNCHANGED <<cursor, inbox, proc, cur, boots, outbound, halted>>
    BY DEF Dequeue, At, dbVars
  <2>. QED BY <2>1, HeadOfChain, CalmSame DEF ChanInv, Sound, Typed, MemTypes
<1>2. CASE u \in halted /\ Pop(u) /\ wq' = wq
  BY <1>1, <1>2, PopsTidy, AddsNothing
<1>3. CASE Abandon(u, m)
  <2>. DEFINE b == [NoBatch EXCEPT !.cancel = OpenSegsOf(m), !.inb = {<<m, "abandoned">>}]
  <2>1. Parts(b, {}, {}, "same", {<<m, "abandoned">>}, {}, OpenSegsOf(m), {})
    <3>1. {<<m, "abandoned">>} \in SUBSET (Msgs \X Changes) /\ OpenSegsOf(m) \in SUBSET Segs
          /\ {} \in SUBSET Segs /\ {} \in SUBSET (Segs \X Results)
      BY <1>1, OpenSegs DEF Changes
    <3>. QED BY <3>1, LedgerParts
  <2>2. wq' = Queue(u, b) /\ Pop(u)
    BY <1>3 DEF Abandon
  <2>. HIDE DEF b
  <2>3. Adds(u, b) /\ Finishes(u, b)
    BY <2>1, <2>2, AddsQuiet DEF Parts, Finishes
  <2>. QED BY <1>1, <2>2, <2>3, PopsTidy
<1>4. CASE /\ u \notin halted /\ UNCHANGED <<chain, mout, wq>>
           /\ turn' = [turn EXCEPT ![u] = [NoTurn EXCEPT !.pc = "attempt", !.m = m, !.seen = attempts[m]]]
  <2>1. turn'[u].pc = "attempt" /\ \A v \in Users \ {u} : turn'[v] = turn[v]
    BY <1>1, <1>4 DEF NoTurn
  <2>. QED BY <1>1, <1>4, <2>1, GoesTidy, AddsNothing
<1>. QED BY <1>2, <1>3, <1>4 DEF Dequeue

\* A turn that begins or goes on without a segment.
LEMMA TurnTidy ==
    ASSUME ChanInv, InLine, NEW u \in Users, NEW pc, pc # "unmark", NEW t, turn[u].pc # "idle",
           turn' = [turn EXCEPT ![u] = t] /\ t.pc = pc, UNCHANGED <<chain, halted>>, Calm, NEW b, Adds(u, b)
    PROVE  Tidy(u, b)
<1>1. turn \in [Users -> TurnType]
  BY DEF ChanInv, Sound, Typed, MemTypes
<1>2. turn'[u].pc # "unmark" /\ \A v \in Users \ {u} : turn'[v] = turn[v]
  BY <1>1
<1>. QED BY <1>2, GoesTidy

LEMMA ResumeRecordedTidy ==
    ASSUME ChanInv, InLine, NEW u \in Users, NEW m \in Msgs, turn[u].pc = "attempt", turn[u].m = m,
           chain[u] # <<>>, m = Head(chain[u]), Alive, ResumeRecorded(u, m), Calm, halted' = halted
    PROVE  \E b : Tidy(u, b)
<1>. DEFINE restore == IF mconv[m] = "no" THEN {m} ELSE {}
            upgrade == IF inbox[m] = "received" THEN {<<m, "recorded">>} ELSE {}
            base == [NoBatch EXCEPT !.say = restore, !.inb = upgrade]
            done == {<<m, "done">>}
            both == {<<m, "replied">>, <<m, "done">>}
            said == [base EXCEPT !.inb = @ \cup done]
            mute(S) == [base EXCEPT !.plan = S, !.cancel = S, !.inb = @ \cup both]
            Notes == wq' = IF base = NoBatch THEN wq ELSE Queue(u, base)
<1>1. /\ Sound /\ restore \in SUBSET Msgs /\ upgrade \in SUBSET (Msgs \X Changes)
      /\ done \in SUBSET (Msgs \X Changes) /\ both \in SUBSET (Msgs \X Changes)
  BY DEF Changes, ChanInv
<1>2. ASSUME NEW S \in SUBSET Segs
      PROVE  /\ Parts(base, restore, {}, "same", upgrade, {}, {}, {})
             /\ Parts(said, restore, {}, "same", upgrade \cup done, {}, {}, {})
             /\ Parts(mute(S), restore, {}, "same", upgrade \cup both, S, S, {})
  <2>1. "same" \in Owners \cup {"same"} /\ {} \in SUBSET Msgs
    OBVIOUS
  <2>. HIDE DEF restore, upgrade, done, both
  <2>. QED BY <1>1, <2>1, TalkParts
<1>3. {} \in SUBSET Segs
  OBVIOUS
<1>4. /\ base \in Batch /\ base.plan = {} /\ base.res = {}
      /\ said \in Batch /\ said.plan = {} /\ said.res = {} /\ done \subseteq said.inb
  <2>. HIDE DEF base, said, restore, upgrade, done
  <2>. QED BY <1>2, <1>3 DEF Parts
<1>5. ASSUME NEW S \in SUBSET Segs
      PROVE  mute(S) \in Batch /\ mute(S).plan = S /\ mute(S).res = {} /\ both \subseteq mute(S).inb
  <2>. HIDE DEF mute, base, said, restore, upgrade, both
  <2>. QED BY <1>2, <1>5 DEF Parts
<1>6. \/ Notes /\ chain' = chain /\ turn' = [turn EXCEPT ![u] = [Run(u, m) EXCEPT !.pc = "plan"]]
      \/ Pop(u) /\ \E n \in 1..faults.segs : wq' = Queue(u, mute({<<m, boots, i>> : i \in 1..n}))
      \/ Pop(u) /\ wq' = Queue(u, said)
      \/ Notes /\ chain' = chain /\ turn' = [turn EXCEPT ![u] = Run(u, m)]
  BY DEF ResumeRecorded
<1>7. Notes => \E b : Adds(u, b)
  <2>1. CASE base = NoBatch
    BY <2>1, AddsNothing
  <2>2. CASE base # NoBatch
    <3>. HIDE DEF base
    <3>. QED BY <1>4, <2>2, AddsQuiet
  <2>. QED BY <2>1, <2>2
<1>8. Run(u, m).pc = "hear" /\ [Run(u, m) EXCEPT !.pc = "plan"].pc = "plan"
  BY DEF Run, NoTurn
<1>9. CASE Notes /\ chain' = chain /\ turn' = [turn EXCEPT ![u] = [Run(u, m) EXCEPT !.pc = "plan"]]
  <2>. HIDE DEF Notes
  <2>. QED BY <1>7, <1>8, <1>9, TurnTidy
<1>10. CASE Notes /\ chain' = chain /\ turn' = [turn EXCEPT ![u] = Run(u, m)]
  <2>. HIDE DEF Notes
  <2>. QED BY <1>7, <1>8, <1>10, TurnTidy
<1>11. CASE Pop(u) /\ wq' = Queue(u, said)
  <2>1. Adds(u, said) /\ Finishes(u, said)
    <3>1. <<Head(chain[u]), "done">> \in said.inb
      BY <1>4
    <3>. HIDE DEF said
    <3>. QED BY <1>4, <1>11, <3>1, AddsQuiet DEF Finishes
  <2>. HIDE DEF said
  <2>. QED BY <1>1, <1>11, <2>1, PopsTidy
<1>12. CASE Pop(u) /\ \E n \in 1..faults.segs : wq' = Queue(u, mute({<<m, boots, i>> : i \in 1..n}))
  <2>1. PICK n \in 1..faults.segs : wq' = Queue(u, mute({<<m, boots, i>> : i \in 1..n}))
    BY <1>12
  <2>2. PICK S : S = {<<m, boots, i>> : i \in 1..n}
    OBVIOUS
  <2>3. S \in SUBSET Segs /\ \A s \in S : MsgOf(s) = m
    <3>1. n \in 0..faults.segs
      BY <2>1
    <3>. QED BY <1>1, <2>2, <3>1, NewSegs
  <2>4. PICK b : b = mute(S)
    OBVIOUS
  <2>5. b \in Batch /\ b.plan = S /\ b.res = {} /\ both \subseteq b.inb /\ wq' = Queue(u, b)
    BY <1>5, <2>1, <2>2, <2>3, <2>4
  <2>6. Adds(u, b)
    BY <2>3, <2>5, AddsPlan
  <2>7. Finishes(u, b)
    BY <2>5 DEF Finishes
  <2>. QED BY <1>1, <1>12, <2>6, <2>7, PopsTidy
<1>. HIDE DEF Notes
<1>. QED BY <1>6, <1>9, <1>10, <1>11, <1>12

LEMMA AttemptTidy ==
    ASSUME ChanInv, InLine, NEW u \in Users, Attempt(u)
    PROVE  \E b : Tidy(u, b)
<1>. DEFINE m == turn[u].m
<1>1. /\ Alive /\ turn[u].pc = "attempt" /\ halted' = halted
      /\ UNCHANGED <<cursor, inbox, proc, cur, boots, outbound>>
  BY DEF Attempt, At
<1>2. Calm /\ Sound /\ m \in Msgs /\ chain[u] # <<>> /\ m = Head(chain[u]) /\ turn[u].pc # "idle"
  BY <1>1, CalmSame, Working DEF ChanInv
<1>3. CASE UNCHANGED <<chain, turn, wq>>
  BY <1>1, <1>2, <1>3, GoesTidy, AddsNothing
<1>4. CASE ResumeReceived(u, m)
  <2>1. turn' = [turn EXCEPT ![u] = Run(u, m)] /\ Run(u, m).pc = "hear" /\ UNCHANGED <<chain, wq>>
    BY <1>4 DEF ResumeReceived, Run, NoTurn
  <2>. QED BY <1>1, <1>2, <2>1, TurnTidy, AddsNothing
<1>5. CASE ResumeRecorded(u, m)
  BY <1>1, <1>2, <1>5, ResumeRecordedTidy
<1>6. CASE ResumeReplied(u, m)
  <2>. DEFINE t == [Run(u, m) EXCEPT !.pc = "send", !.todo = InOrder(PendingOf(m))]
              b == [NoBatch EXCEPT !.cancel = PendingOf(m), !.inb = {<<m, "done">>}]
  <2>1. \/ turn' = [turn EXCEPT ![u] = t] /\ UNCHANGED <<chain, wq>>
        \/ wq' = Queue(u, b) /\ Pop(u)
    BY <1>6 DEF ResumeReplied
  <2>2. t.pc = "send"
    BY DEF Run, NoTurn
  <2>3. Parts(b, {}, {}, "same", {<<m, "done">>}, {}, PendingOf(m), {})
    <3>1. {<<m, "done">>} \in SUBSET (Msgs \X Changes) /\ PendingOf(m) \in SUBSET Segs
          /\ {} \in SUBSET Segs /\ {} \in SUBSET (Segs \X Results)
      BY <1>2, OpenSegs DEF Changes
    <3>. HIDE DEF m
    <3>. QED BY <3>1, LedgerParts
  <2>. HIDE DEF t, b
  <2>4. CASE turn' = [turn EXCEPT ![u] = t] /\ UNCHANGED <<chain, wq>>
    BY <1>1, <1>2, <2>2, <2>4, TurnTidy, AddsNothing
  <2>5. CASE wq' = Queue(u, b) /\ Pop(u)
    <3>1. Adds(u, b) /\ Finishes(u, b)
      BY <1>2, <2>3, <2>5, AddsQuiet DEF Parts, Finishes
    <3>. QED BY <1>1, <1>2, <2>5, <3>1, PopsTidy
  <2>. QED BY <2>1, <2>4, <2>5
<1>. QED BY <1>3, <1>4, <1>5, <1>6 DEF Attempt, Resume

\* The turn is at another place, and the other turns are where they were.
Turns(u, pc) == turn'[u].pc = pc /\ \A v \in Users \ {u} : turn'[v] = turn[v]

LEMMA StepsTidy ==
    ASSUME ChanInv, InLine, NEW u \in Users, NEW pc, Turns(u, pc), pc # "unmark" \/ SendsClosed,
           turn[u].pc # "idle", UNCHANGED <<chain, halted>>, Calm, NEW b, Adds(u, b)
    PROVE  Tidy(u, b)
  BY GoesTidy DEF Turns

LEMMA GoToTurns ==
    ASSUME ChanInv, NEW u \in Users, NEW pc,
           \/ GoTo(u, pc)
           \/ turn' = [turn EXCEPT ![u].pc = pc, ![u].egen = gen[u]]
           \/ \E q : turn' = [turn EXCEPT ![u].pc = pc, ![u].todo = q]
    PROVE  Turns(u, pc)
<1>1. turn \in [Users -> TurnType] /\ turn[u] \in TurnType
  BY DEF ChanInv, Sound, Typed, MemTypes
<1>2. CASE GoTo(u, pc)
  BY <1>1, <1>2 DEF GoTo, Turns, TurnType
<1>3. CASE turn' = [turn EXCEPT ![u].pc = pc, ![u].egen = gen[u]]
  BY <1>1, <1>3 DEF Turns, TurnType
<1>4. CASE \E q : turn' = [turn EXCEPT ![u].pc = pc, ![u].todo = q]
  BY <1>1, <1>4 DEF Turns, TurnType
<1>. QED BY <1>2, <1>3, <1>4

\* What the actions of a turn leave alone.
LEMMA TurnCalm ==
    ASSUME NEW u \in Users, Alive,
           \/ UNCHANGED <<dbVars, proc, cur, boots>>
           \/ UNCHANGED <<cursor, inbox, outbound, proc, cur, boots>>
    PROVE  Calm
  BY CalmSame DEF dbVars

LEMMA HearTidy ==
    ASSUME ChanInv, InLine, NEW u \in Users, Hear(u)
    PROVE  \E b : Tidy(u, b)
<1>. DEFINE m == turn[u].m
            new == IF mconv[m] = "no" THEN {m} ELSE {}
            inb == {<<x, "recorded">> : x \in new}
            b == [NoBatch EXCEPT !.say = new, !.inb = inb]
<1>1. /\ Calm /\ turn[u].pc = "hear" /\ turn[u].pc # "idle" /\ m \in Msgs /\ UNCHANGED <<chain, halted>>
  <2>1. Alive /\ turn[u].pc = "hear" /\ UNCHANGED <<dbVars, proc, cur, chain, halted, boots>>
    BY DEF Hear, At, histVars
  <2>. QED BY <2>1, TurnCalm, Working DEF ChanInv
<1>2. \/ \E own \in Owners \cup {"same"} :
            wq' = Queue(u, [b EXCEPT !.ans = {m}, !.own = own])
            /\ turn' = [turn EXCEPT ![u].pc = "plan", ![u].egen = gen[u]]
      \/ /\ wq' = wq \/ wq' = Queue(u, b)
         /\ \E pc \in {"think", "finish"} : turn' = [turn EXCEPT ![u].pc = pc, ![u].egen = gen[u]]
  BY DEF Hear, Owners
<1>3. \A own \in Owners \cup {"same"} :
        /\ Parts(b, new, {}, "same", inb, {}, {}, {})
        /\ Parts([b EXCEPT !.ans = {m}, !.own = own], new, {m}, own, inb, {}, {}, {})
  <2>1. new \in SUBSET Msgs /\ {m} \in SUBSET Msgs /\ inb \in SUBSET (Msgs \X Changes)
        /\ {} \in SUBSET (Msgs \X Changes) /\ {} \in SUBSET Segs
    BY <1>1 DEF Changes
  <2>. HIDE DEF new, inb
  <2>. QED BY <2>1, TalkParts
<1>. HIDE DEF b, new, inb
<1>4. \E pc \in {"plan", "think", "finish"} : Turns(u, pc)
  BY <1>2, GoToTurns
<1>5. \E c : Adds(u, c)
  <2>1. ASSUME NEW own \in Owners \cup {"same"}, wq' = Queue(u, [b EXCEPT !.ans = {m}, !.own = own])
        PROVE  \E c : Adds(u, c)
    <3>1. PICK c : c = [b EXCEPT !.ans = {m}, !.own = own]
      OBVIOUS
    <3>2. c \in Batch /\ c.plan = {} /\ c.res = {} /\ wq' = Queue(u, c)
      BY <1>3, <2>1, <3>1 DEF Parts
    <3>. QED BY <3>2, AddsQuiet
  <2>2. CASE wq' = Queue(u, b)
    <3>1. b \in Batch /\ b.plan = {} /\ b.res = {}
      BY <1>3 DEF Parts
    <3>. QED BY <2>2, <3>1, AddsQuiet
  <2>. QED BY <1>2, <2>1, <2>2, AddsNothing
<1>. QED BY <1>1, <1>4, <1>5, StepsTidy

LEMMA ThinkTidy ==
    ASSUME ChanInv, InLine, NEW u \in Users, Think(u)
    PROVE  \E b : Tidy(u, b)
<1>1. /\ Calm /\ turn[u].pc # "idle" /\ turn[u].m \in Msgs /\ UNCHANGED <<chain, halted>>
  <2>1. Alive /\ turn[u].pc = "think" /\ UNCHANGED <<dbVars, proc, cur, chain, halted, boots>>
    BY DEF Think, At, histVars
  <2>. QED BY <2>1, TurnCalm, Working DEF ChanInv
<1>2. \/ GoTo(u, "finish") /\ wq' = wq
      \/ /\ GoTo(u, "plan")
         /\ \E own \in {"same", "queue"} : wq' = Queue(u, [NoBatch EXCEPT !.ans = {turn[u].m}, !.own = own])
  BY DEF Think
<1>3. ASSUME NEW own \in {"same", "queue"}, wq' = Queue(u, [NoBatch EXCEPT !.ans = {turn[u].m}, !.own = own])
      PROVE  \E b : Adds(u, b)
  <2>1. PICK b : b = [NoBatch EXCEPT !.ans = {turn[u].m}, !.own = own]
    OBVIOUS
  <2>2. Parts(b, {}, {turn[u].m}, own, {}, {}, {}, {})
    <3>1. {turn[u].m} \in SUBSET Msgs /\ {} \in SUBSET Msgs /\ own \in Owners \cup {"same"}
          /\ {} \in SUBSET (Msgs \X Changes) /\ {} \in SUBSET Segs
      BY <1>1 DEF Owners
    <3>. QED BY <2>1, <3>1, TalkParts
  <2>3. b \in Batch /\ b.plan = {} /\ b.res = {} /\ wq' = Queue(u, b)
    BY <1>3, <2>1, <2>2 DEF Parts
  <2>. QED BY <2>3, AddsQuiet
<1>4. \E pc \in {"plan", "finish"} : Turns(u, pc)
  BY <1>2, GoToTurns
<1>5. \E b : Adds(u, b)
  BY <1>2, <1>3, AddsNothing
<1>. QED BY <1>1, <1>4, <1>5, StepsTidy

LEMMA ThrowTidy ==
    ASSUME ChanInv, InLine, NEW u \in Users, Throw(u)
    PROVE  \E b : Tidy(u, b)
<1>. DEFINE m == turn[u].m
            s == <<m, boots, 0>>
<1>1. /\ Calm /\ Sound /\ Alive /\ turn[u].pc # "idle" /\ m \in Msgs /\ UNCHANGED <<chain, halted>>
  <2>1. Alive /\ turn[u].pc = "think" /\ UNCHANGED <<dbVars, proc, cur, chain, halted, boots>>
    BY DEF Throw, At, histVars
  <2>. QED BY <2>1, TurnCalm, Working DEF ChanInv
<1>2. wq' = Queue(u, [NoBatch EXCEPT !.plan = {s}])
      /\ turn' = [turn EXCEPT ![u].pc = "commit", ![u].kind = "sorry", ![u].todo = <<s>>]
  BY DEF Throw
<1>3. s \in Segs /\ MsgOf(s) = m
  <2>1. faults.segs \in Nat
    BY <1>1 DEF Sound, Typed, HistTypes, Limits
  <2>2. 0 \in 0..faults.segs
    BY <2>1
  <2>3. s \in Segs
    BY <1>1, <2>2, NewSegs
  <2>. QED BY <2>3 DEF MsgOf
<1>4. Turns(u, "commit")
  <2>1. turn \in [Users -> TurnType] /\ turn[u] \in TurnType
    BY DEF ChanInv, Sound, Typed, MemTypes
  <2>. QED BY <1>2, <2>1 DEF Turns, TurnType
<1>. HIDE DEF s
<1>5. PICK b : b = [NoBatch EXCEPT !.plan = {s}]
  OBVIOUS
<1>6. Adds(u, b)
  <2>1. Parts(b, {}, {}, "same", {}, {s}, {}, {})
    <3>1. {s} \in SUBSET Segs /\ {} \in SUBSET (Msgs \X Changes) /\ {} \in SUBSET Segs
          /\ {} \in SUBSET (Segs \X Results)
      BY <1>3
    <3>. QED BY <1>5, <3>1, LedgerParts
  <2>2. b \in Batch /\ b.plan = {s} /\ b.res = {} /\ wq' = Queue(u, b)
    BY <1>2, <1>5, <2>1 DEF Parts
  <2>. QED BY <1>1, <1>3, <2>2, AddsPlan
<1>. QED BY <1>1, <1>4, <1>6, StepsTidy

LEMMA FinishTidy ==
    ASSUME ChanInv, InLine, NEW u \in Users, Finish(u)
    PROVE  \E b : Tidy(u, b)
<1>. DEFINE m == turn[u].m
            b == [NoBatch EXCEPT !.inb = {<<m, "done">>}]
<1>1. /\ Calm /\ Sound /\ chain[u] # <<>> /\ m \in Msgs /\ m = Head(chain[u]) /\ halted' = halted
      /\ Pop(u) /\ wq' = Queue(u, b)
  <2>1. /\ Alive /\ turn[u].pc = "finish" /\ UNCHANGED <<dbVars, proc, cur, halted, boots>>
        /\ Pop(u) /\ wq' = Queue(u, b)
    BY DEF Finish, At, FinishRow, histVars
  <2>. QED BY <2>1, TurnCalm, Working DEF ChanInv
<1>2. Parts(b, {}, {}, "same", {<<m, "done">>}, {}, {}, {})
  <2>1. {<<m, "done">>} \in SUBSET (Msgs \X Changes) /\ {} \in SUBSET Msgs /\ {} \in SUBSET Segs
        /\ {} \in SUBSET (Msgs \X Changes) /\ "same" \in Owners \cup {"same"}
    BY <1>1 DEF Changes
  <2>. QED BY <2>1, TalkParts
<1>. HIDE DEF b
<1>3. Adds(u, b) /\ Finishes(u, b)
  BY <1>1, <1>2, AddsQuiet DEF Parts, Finishes
<1>. QED BY <1>1, <1>3, PopsTidy

LEMMA PlanTidy ==
    ASSUME ChanInv, InLine, NEW u \in Users, Plan(u)
    PROVE  \E b : Tidy(u, b)
<1>. DEFINE m == turn[u].m
            S(n) == {<<m, boots, i>> : i \in 1..n}
<1>1. /\ Calm /\ Sound /\ Alive /\ turn[u].pc # "idle" /\ m \in Msgs /\ UNCHANGED <<chain, halted>>
  <2>1. Alive /\ turn[u].pc = "plan" /\ UNCHANGED <<dbVars, proc, cur, chain, halted, boots>>
    BY DEF Plan, At, histVars
  <2>. QED BY <2>1, TurnCalm, Working DEF ChanInv
<1>2. \/ GoTo(u, "finish") /\ wq' = wq
      \/ \E n \in 1..faults.segs : /\ wq' = Queue(u, PlanBatch(S(n), m))
                                   /\ turn' = [turn EXCEPT ![u].pc = "commit", ![u].todo = InOrder(S(n))]
  BY DEF Plan
<1>3. \E pc \in {"commit", "finish"} : Turns(u, pc)
  <2>1. CASE GoTo(u, "finish")
    BY <2>1, GoToTurns
  <2>2. ASSUME NEW n \in 1..faults.segs, turn' = [turn EXCEPT ![u].pc = "commit", ![u].todo = InOrder(S(n))]
        PROVE  Turns(u, "commit")
    <3>1. PICK q : q = InOrder(S(n))
      OBVIOUS
    <3>. QED BY <2>2, <3>1, GoToTurns
  <2>. QED BY <1>2, <2>1, <2>2
<1>4. ASSUME NEW n \in 1..faults.segs, wq' = Queue(u, PlanBatch(S(n), m))
      PROVE  \E b : Adds(u, b)
  <2>1. PICK T : T = S(n)
    OBVIOUS
  <2>2. T \in SUBSET Segs /\ \A s \in T : MsgOf(s) = m
    <3>1. n \in 0..faults.segs
      BY <1>4
    <3>. QED BY <1>1, <2>1, <3>1, NewSegs
  <2>3. PICK b : b = PlanBatch(T, m)
    OBVIOUS
  <2>4. Parts(b, {}, {}, "same", {<<m, "replied">>}, T, {}, {})
    <3>1. {<<m, "replied">>} \in SUBSET (Msgs \X Changes) /\ {} \in SUBSET Segs
          /\ {} \in SUBSET (Segs \X Results)
      BY <1>1 DEF Changes
    <3>. HIDE DEF m
    <3>. QED BY <2>2, <2>3, <3>1, LedgerParts DEF PlanBatch
  <2>5. b \in Batch /\ b.plan = T /\ b.res = {} /\ wq' = Queue(u, b)
    BY <1>4, <2>1, <2>3, <2>4 DEF Parts
  <2>. QED BY <1>1, <2>2, <2>5, AddsPlan
<1>5. \E b : Adds(u, b)
  BY <1>2, <1>4, AddsNothing
<1>. QED BY <1>1, <1>3, <1>5, StepsTidy

LEMMA AttemptHaltsTidy ==
    ASSUME ChanInv, InLine, NEW u \in Users, AttemptHalts(u)
    PROVE  \E b : Tidy(u, b)
<1>1. /\ Alive /\ turn[u].pc = "attempt" /\ halted' = halted \cup {u} /\ Pop(u) /\ wq' = wq
      /\ UNCHANGED <<dbVars, proc, cur, boots>>
  BY DEF AttemptHalts, At
<1>2. Calm /\ Sound /\ chain[u] # <<>>
  BY <1>1, TurnCalm, Working DEF ChanInv
<1>3. turn'[u] = NoTurn /\ NoTurn.pc = "idle" /\ \A v \in Users \ {u} : turn'[v] = turn[v]
  BY <1>1, <1>2, PopKeeps, NoTurnType
<1>4. Adds(u, NoBatch)
  BY <1>1, AddsNothing
<1>. QED BY <1>1, <1>2, <1>3, <1>4 DEF Tidy

\* A row leaves the chain unfinished only past the send deadline.
LEMMA DeferredTidy ==
    ASSUME ChanInv, InLine, NEW u \in Users, turn[u].pc # "idle", SendsClosed, Deferred(u),
           Calm, halted' = halted, NEW b, Adds(u, b)
    PROVE  Tidy(u, b)
<1>1. Sound /\ chain[u] # <<>>
  BY Working DEF ChanInv
<1>2. CASE GoTo(u, "finish") /\ chain' = chain
  BY <1>2, GoToTurns, StepsTidy
<1>3. CASE Pop(u)
  BY <1>1, <1>3, PopsTidy
<1>. QED BY <1>2, <1>3 DEF Deferred

\* Segments are cancelled.
LEMMA AddsCancel ==
    ASSUME NEW u \in Users, NEW C \in SUBSET Segs, wq' = Queue(u, [NoBatch EXCEPT !.cancel = C])
    PROVE  \E b : Adds(u, b)
<1>1. PICK b : b = [NoBatch EXCEPT !.cancel = C]
  OBVIOUS
<1>2. Parts(b, {}, {}, "same", {}, {}, C, {})
  <2>1. {} \in SUBSET (Msgs \X Changes) /\ {} \in SUBSET Segs /\ {} \in SUBSET (Segs \X Results)
    OBVIOUS
  <2>. QED BY <1>1, <2>1, LedgerParts
<1>3. b \in Batch /\ b.plan = {} /\ b.res = {} /\ wq' = Queue(u, b)
  BY <1>1, <1>2 DEF Parts
<1>. QED BY <1>3, AddsQuiet

LEMMA CommitOutboundTidy ==
    ASSUME ChanInv, InLine, NEW u \in Users, CommitOutbound(u)
    PROVE  \E b : Tidy(u, b)
<1>1. /\ Alive /\ turn[u].pc = "commit" /\ UNCHANGED <<dbVars, proc, cur, chain, halted, boots, wq>>
      /\ GoTo(u, "send")
  BY DEF CommitOutbound, At
<1>. QED BY <1>1, TurnCalm, GoToTurns, StepsTidy, AddsNothing

LEMMA NextSegmentTidy ==
    ASSUME ChanInv, InLine, NEW u \in Users, NextSegment(u)
    PROVE  \E b : Tidy(u, b)
<1>1. /\ Alive /\ turn[u].pc = "send" /\ UNCHANGED <<dbVars, proc, cur, halted, boots>>
  BY DEF NextSegment, At, histVars
<1>2. Calm /\ turn[u].pc # "idle"
  BY <1>1, TurnCalm
<1>3. CASE SendsClosed /\ Deferred(u) /\ wq' = wq
  BY <1>1, <1>2, <1>3, DeferredTidy, AddsNothing
<1>4. CASE DropRest(u, Range(turn[u].todo))
  <2>1. PICK C : /\ C = {s \in Range(turn[u].todo) : CanMove(mout[s], "cancelled", {"cancel"})}
                 /\ wq' = Queue(u, [NoBatch EXCEPT !.cancel = C])
    BY <1>4 DEF DropRest
  <2>2. C \in SUBSET Segs
    <3>1. turn[u].todo \in Seq(Segs)
      BY DEF ChanInv, Sound, Typed, MemTypes, TurnType
    <3>. QED BY <2>1, <3>1 DEF Range
  <2>3. GoTo(u, "finish") /\ chain' = chain
    BY <1>4 DEF DropRest
  <2>. QED BY <1>1, <1>2, <2>1, <2>2, <2>3, AddsCancel, GoToTurns, StepsTidy
<1>5. CASE (GoTo(u, "finish") \/ GoTo(u, "mark")) /\ UNCHANGED <<chain, wq>>
  <2>1. Turns(u, "finish") \/ Turns(u, "mark")
    BY <1>5, GoToTurns
  <2>. QED BY <1>1, <1>2, <1>5, <2>1, StepsTidy, AddsNothing
<1>. QED BY <1>3, <1>4, <1>5 DEF NextSegment

\* The result of the segment at the head.
LEMMA AddsSettled ==
    ASSUME ChanInv, NEW u \in Users, turn[u].pc \in Heads, NEW result \in Results,
           wq' = Queue(u, [NoBatch EXCEPT !.res = {<<Head(turn[u].todo), result>>}])
    PROVE  \E b : Adds(u, b)
<1>. DEFINE s == Head(turn[u].todo)
<1>1. s \in Segs /\ MsgOf(s) = turn[u].m /\ turn[u].pc # "idle"
  BY AtTheHead DEF Heads
<1>2. PICK b : b = [NoBatch EXCEPT !.res = {<<s, result>>}]
  OBVIOUS
<1>3. Parts(b, {}, {}, "same", {}, {}, {}, {<<s, result>>})
  <2>1. {<<s, result>>} \in SUBSET (Segs \X Results) /\ {} \in SUBSET (Msgs \X Changes) /\ {} \in SUBSET Segs
    BY <1>1
  <2>. QED BY <1>2, <2>1, LedgerParts
<1>4. b \in Batch /\ b.plan = {} /\ (\A r \in b.res : r[1] = s) /\ wq' = Queue(u, b)
  <2>1. b \in Batch /\ b.plan = {} /\ b.res = {<<s, result>>}
    BY <1>3 DEF Parts
  <2>. QED BY <1>2, <2>1
<1>. HIDE DEF s
<1>. QED BY <1>1, <1>4, AddsResult

LEMMA SettleTidy ==
    ASSUME ChanInv, InLine, NEW u \in Users, turn[u].pc \in Heads, NEW result \in Results, Settle(u, result),
           UNCHANGED <<chain, halted>>, Calm
    PROVE  \E b : Tidy(u, b)
<1>1. \E b : Adds(u, b)
  <2>1. wq' = wq \/ wq' = Queue(u, [NoBatch EXCEPT !.res = {<<Head(turn[u].todo), result>>}])
    BY DEF Settle
  <2>. QED BY <2>1, AddsSettled, AddsNothing
<1>2. Turns(u, "send")
  <2>1. turn \in [Users -> TurnType] /\ turn[u] \in TurnType
    BY DEF ChanInv, Sound, Typed, MemTypes
  <2>2. turn' = [turn EXCEPT ![u].pc = "send", ![u].todo = Tail(@), ![u].tries = 0,
                             ![u].outc = "none", ![u].mark = "none"]
    BY DEF Settle
  <2>. QED BY <2>1, <2>2 DEF Turns, TurnType
<1>3. turn[u].pc # "idle"
  BY DEF Heads
<1>. QED BY <1>1, <1>2, <1>3, StepsTidy

LEMMA SettledTidy ==
    ASSUME ChanInv, InLine, NEW u \in Users, TokenFails(u) \/ Answered(u) \/ AnswerLost(u)
    PROVE  \E b : Tidy(u, b)
<1>1. /\ Alive /\ turn[u].pc \in Heads /\ turn[u].pc # "idle"
      /\ UNCHANGED <<dbVars, proc, cur, chain, halted, boots>>
  <2>1. Alive /\ turn[u].pc \in {"mark", "wait", "taken"}
        /\ UNCHANGED <<dbVars, proc, cur, chain, halted, boots>>
    BY DEF TokenFails, Answered, AnswerLost, At, histVars
  <2>. QED BY <2>1 DEF Heads
<1>2. Calm
  BY <1>1, TurnCalm
<1>3. ASSUME NEW result \in Results, Settle(u, result) PROVE \E b : Tidy(u, b)
  BY <1>1, <1>2, <1>3, SettleTidy
<1>4. \A o : Worse(o) \in Results
  BY DEF Worse, Results
<1>5. turn \in [Users -> TurnType] /\ turn[u] \in TurnType
  BY DEF ChanInv, Sound, Typed, MemTypes
<1>6. CASE TokenFails(u)
  BY <1>3, <1>6 DEF TokenFails, Results
<1>7. CASE Answered(u)
  <2>1. CASE \E o : Settle(u, Worse(o))
    BY <1>3, <1>4, <2>1
  <2>2. CASE Settle(u, "accepted")
    BY <1>3, <2>2 DEF Results
  <2>3. CASE turn' = [turn EXCEPT ![u].pc = "backoff", ![u].outc = Worse(@)] /\ wq' = wq
    <3>1. Turns(u, "backoff")
      BY <1>5, <2>3 DEF Turns, TurnType
    <3>. QED BY <1>1, <1>2, <2>3, <3>1, StepsTidy, AddsNothing
  <2>. QED BY <1>7, <2>1, <2>2, <2>3 DEF Answered
<1>8. CASE AnswerLost(u)
  <2>1. CASE Settle(u, "unknown")
    BY <1>3, <2>1 DEF Results
  <2>2. CASE /\ wq' = wq \/ wq' = Queue(u, [NoBatch EXCEPT !.res = {<<Head(turn[u].todo), "unknown">>}])
             /\ turn' = [turn EXCEPT ![u].pc = "backoff", ![u].outc = "unknown"]
    <3>1. Turns(u, "backoff")
      BY <1>5, <2>2 DEF Turns, TurnType
    <3>2. \E b : Adds(u, b)
      BY <1>1, <2>2, AddsSettled, AddsNothing DEF Results
    <3>. QED BY <1>1, <1>2, <3>1, <3>2, StepsTidy
  <2>. QED BY <1>8, <2>1, <2>2 DEF AnswerLost
<1>. QED BY <1>6, <1>7, <1>8

LEMMA PostTurns ==
    ASSUME ChanInv, NEW u \in Users, Post(u)
    PROVE  Turns(u, "wait")
<1>1. turn \in [Users -> TurnType] /\ turn[u] \in TurnType
  BY DEF ChanInv, Sound, Typed, MemTypes
<1>. QED BY <1>1 DEF Post, Turns, TurnType

LEMMA RetryTidy ==
    ASSUME ChanInv, InLine, NEW u \in Users, Retry(u)
    PROVE  \E b : Tidy(u, b)
<1>1. /\ Alive /\ turn[u].pc = "backoff" /\ turn[u].pc \in Heads
      /\ UNCHANGED <<dbVars, proc, cur, chain, halted, boots>>
  BY DEF Retry, At, Heads
<1>2. Calm /\ turn[u].pc # "idle"
  BY <1>1, TurnCalm
<1>3. CASE Post(u) /\ wq' = wq
  BY <1>1, <1>2, <1>3, PostTurns, StepsTidy, AddsNothing
<1>4. CASE Settle(u, turn[u].outc)
  <2>1. turn[u].outc \in Results
    BY <1>1 DEF ChanInv, Sound, Typed, MemTypes, TurnType, Shapes, TurnShape, Outcs, Results
  <2>. QED BY <1>1, <1>2, <1>4, <2>1, SettleTidy
<1>. QED BY <1>3, <1>4 DEF Retry

\* Between pending and sending a segment stays what it is.
LEMMA CalmMoves ==
    ASSUME Sound, Alive, UNCHANGED <<cursor, inbox, proc, cur, boots>>, NEW s,
           \/ outbound' = outbound
           \/ outbound' = [outbound EXCEPT ![s] = Moved(@, "sending", {"mark"})]
           \/ outbound' = [outbound EXCEPT ![s] = Moved(@, "pending", {"unmark"})]
    PROVE  Calm
<1>1. outbound \in [Segs -> OutStatus]
  BY DEF Sound, Typed, DbTypes
<1>2. \A f : /\ CanMove(f, "sending", {"mark"}) => f = "pending"
             /\ CanMove(f, "pending", {"unmark"}) => f = "sending"
  BY DEF CanMove, OutboundTransitions
<1>3. ASSUME NEW x \in Segs PROVE Stored(x)' => Stored(x)
  <2>1. /\ outbound'[x] \in {outbound[x], Moved(outbound[x], "sending", {"mark"}),
                             Moved(outbound[x], "pending", {"unmark"})}
    BY <1>1
  <2>. QED BY <1>2, <2>1 DEF Stored, Moved
<1>. QED BY <1>3 DEF Calm

LEMMA MarkSendingTidy ==
    ASSUME ChanInv, InLine, NEW u \in Users, MarkSending(u)
    PROVE  \E b : Tidy(u, b)
<1>1. /\ Alive /\ turn[u].pc = "mark" /\ UNCHANGED <<cursor, inbox, proc, cur, chain, halted, boots, wq>>
      /\ \E s : \/ outbound' = outbound
                \/ outbound' = [outbound EXCEPT ![s] = Moved(@, "sending", {"mark"})]
      /\ \E k : turn' = [turn EXCEPT ![u].pc = "marked", ![u].mark = k]
  BY DEF MarkSending, At
<1>2. Calm
  BY <1>1, CalmMoves DEF ChanInv
<1>3. Turns(u, "marked")
  <2>1. turn \in [Users -> TurnType] /\ turn[u] \in TurnType
    BY DEF ChanInv, Sound, Typed, MemTypes
  <2>. QED BY <1>1, <2>1 DEF Turns, TurnType
<1>. QED BY <1>1, <1>2, <1>3, StepsTidy, AddsNothing

LEMMA FirstPostTidy ==
    ASSUME ChanInv, InLine, NEW u \in Users, FirstPost(u)
    PROVE  \E b : Tidy(u, b)
<1>1. Alive /\ turn[u].pc = "marked" /\ UNCHANGED <<dbVars, proc, cur, halted, boots>>
  BY DEF FirstPost, At
<1>2. Calm /\ turn[u].pc # "idle"
  BY <1>1, TurnCalm
<1>3. \/ wq' = wq /\ chain' = chain /\ \E q : turn' = [turn EXCEPT ![u].pc = "send", ![u].todo = q]
      \/ /\ GoTo(u, "finish") /\ chain' = chain
         /\ \E C \in SUBSET Range(turn[u].todo) : wq' = Queue(u, [NoBatch EXCEPT !.cancel = C])
      \/ wq' = wq /\ Post(u) /\ chain' = chain
      \/ wq' = wq /\ SendsClosed /\ GoTo(u, "unmark") /\ chain' = chain
      \/ wq' = wq /\ SendsClosed /\ Deferred(u)
  <2>1. CASE turn[u].mark = "not_pending"
    <3>1. turn' = [turn EXCEPT ![u].pc = "send", ![u].todo = Tail(@)] /\ wq' = wq /\ chain' = chain
      BY <2>1 DEF FirstPost
    <3>2. turn' = [turn EXCEPT ![u].pc = "send", ![u].todo = Tail(turn[u].todo)]
      <4>1. turn \in [Users -> TurnType] /\ turn[u] \in TurnType
        BY DEF ChanInv, Sound, Typed, MemTypes
      <4>. QED BY <3>1, <4>1 DEF TurnType
    <3>. QED BY <3>1, <3>2
  <2>2. CASE turn[u].mark # "not_pending" /\ ~StillCurrent(u)
    BY <2>2 DEF FirstPost
  <2>3. CASE turn[u].mark # "not_pending" /\ StillCurrent(u)
    BY <2>3 DEF FirstPost
  <2>. QED BY <2>1, <2>2, <2>3
<1>4. CASE wq' = wq /\ chain' = chain /\ \E q : turn' = [turn EXCEPT ![u].pc = "send", ![u].todo = q]
  BY <1>1, <1>2, <1>4, GoToTurns, StepsTidy, AddsNothing
<1>5. CASE /\ GoTo(u, "finish") /\ chain' = chain
           /\ \E C \in SUBSET Range(turn[u].todo) : wq' = Queue(u, [NoBatch EXCEPT !.cancel = C])
  <2>1. Range(turn[u].todo) \subseteq Segs
    <3>1. turn[u].todo \in Seq(Segs)
      BY DEF ChanInv, Sound, Typed, MemTypes, TurnType
    <3>. QED BY <3>1 DEF Range
  <2>. QED BY <1>1, <1>2, <1>5, <2>1, AddsCancel, GoToTurns, StepsTidy
<1>6. CASE wq' = wq /\ Post(u) /\ chain' = chain
  BY <1>1, <1>2, <1>6, PostTurns, StepsTidy, AddsNothing
<1>7. CASE wq' = wq /\ SendsClosed /\ GoTo(u, "unmark") /\ chain' = chain
  BY <1>1, <1>2, <1>7, GoToTurns, StepsTidy, AddsNothing
<1>8. CASE wq' = wq /\ SendsClosed /\ Deferred(u)
  BY <1>1, <1>2, <1>8, DeferredTidy, AddsNothing
<1>. QED BY <1>3, <1>4, <1>5, <1>6, <1>7, <1>8

LEMMA UnmarkTidy ==
    ASSUME ChanInv, InLine, NEW u \in Users, Unmark(u)
    PROVE  \E b : Tidy(u, b)
<1>1. /\ Alive /\ turn[u].pc = "unmark" /\ UNCHANGED <<cursor, inbox, proc, cur, halted, boots, wq>>
      /\ Deferred(u)
      /\ \E s : outbound' = outbound \/ outbound' = [outbound EXCEPT ![s] = Moved(@, "pending", {"unmark"})]
  BY DEF Unmark, At
<1>2. Calm /\ SendsClosed
  BY <1>1, CalmMoves DEF ChanInv, InLine, Resigned
<1>. QED BY <1>1, <1>2, DeferredTidy, AddsNothing

\* Steps that no turn takes.
LEMMA AsideTidy ==
    ASSUME ChanInv, InLine, NEW u \in Users, Poison(u) \/ Takeover(u) \/ HandBack(u)
    PROVE  \E b : Tidy(u, b)
<1>1. Alive /\ UNCHANGED <<dbVars, proc, cur, chain, turn, halted, boots>>
  BY DEF Poison, Takeover, HandBack, histVars
<1>2. \E b : Adds(u, b)
  <2>1. wq' = wq \/ \E own \in Owners : wq' = Queue(u, [NoBatch EXCEPT !.own = own])
    BY DEF Poison, Takeover, HandBack, Owners
  <2>2. ASSUME NEW own \in Owners, wq' = Queue(u, [NoBatch EXCEPT !.own = own])
        PROVE  \E b : Adds(u, b)
    <3>1. PICK b : b = [NoBatch EXCEPT !.own = own]
      OBVIOUS
    <3>2. Parts(b, {}, {}, own, {}, {}, {}, {})
      <4>1. {} \in SUBSET (Msgs \X Changes) /\ {} \in SUBSET Segs /\ {} \in SUBSET Msgs
            /\ own \in Owners \cup {"same"}
        OBVIOUS
      <4>. QED BY <3>1, <4>1, TalkParts
    <3>3. b \in Batch /\ b.plan = {} /\ b.res = {} /\ wq' = Queue(u, b)
      BY <2>2, <3>1, <3>2 DEF Parts
    <3>. QED BY <3>3, AddsQuiet
  <2>. QED BY <2>1, <2>2, AddsNothing
<1>3. Calm
  BY <1>1, TurnCalm
<1>4. u \in halted => turn'[u].pc = "idle"
  BY <1>1 DEF InLine, Resigned
<1>5. turn'[u].pc = "unmark" => SendsClosed
  BY <1>1 DEF InLine, Resigned
<1>. QED BY <1>1, <1>2, <1>3, <1>4, <1>5 DEF Tidy

LEMMA WecomTakesTidy ==
    ASSUME ChanInv, InLine, NEW u \in Users, WecomTakes(u)
    PROVE  \E b : Tidy(u, b)
<1>1. /\ turn[u].pc = "wait" /\ turn[u].pc \in Heads /\ GoTo(u, "taken")
      /\ UNCHANGED <<dbVars, proc, cur, chain, halted, boots, wq>>
  BY DEF WecomTakes, GoTo, Heads
<1>2. Alive
  BY <1>1, AtTheHead
<1>. QED BY <1>1, <1>2, TurnCalm, GoToTurns, StepsTidy, AddsNothing

\* Every step of a conversation but a commit is such a step.
LEMMA TurnsAreTidy ==
    ASSUME ChanInv, InLine, NEW u \in Users, Chain(u) \/ Trouble(u) \/ Staff(u) \/ WecomTakes(u)
    PROVE  \E b : Tidy(u, b)
  BY DequeueTidy, AttemptTidy, AttemptHaltsTidy, HearTidy, ThinkTidy, ThrowTidy, FinishTidy, PlanTidy,
     CommitOutboundTidy, NextSegmentTidy, SettledTidy, RetryTidy, MarkSendingTidy, FirstPostTidy, UnmarkTidy,
     AsideTidy, WecomTakesTidy DEF Chain, Trouble, Staff

-----------------------------------------------------------------------------
(* The other steps. *)

\* A commit finishes what its batch was to finish, and shifts the queue.
LEMMA CommitEnds ==
    ASSUME ChanInv, NEW u \in Users, NEW b, NEW R, Commits(u, b, R), NEW v \in Users, NEW m \in Msgs
    PROVE  /\ Ended(m) => Ended(m)'
           /\ v # u => \A i : EndsBy(v, i, m) => EndsBy(v, i, m)'
           /\ EndsBy(u, 1, m) => Ended(m)'
           /\ \A i \in DOMAIN wq'[u] : EndsBy(u, i + 1, m) => EndsBy(u, i, m)'
<1>1. RowFacts(m, b) /\ b = wq[u][1] /\ 1 \in DOMAIN wq[u] /\ wq[u] \in Seq(Batch)
  BY FlushRows, FlushShifts DEF ChanInv, Sound, Typed, MemTypes
<1>2. Ended(m) \/ Over(u, 1, m) => Ended(m)'
  BY <1>1 DEF RowFacts, Ended, Over
<1>3. v # u => \A i : EndsBy(v, i, m) => EndsBy(v, i, m)'
  <2>1. v # u => wq'[v] = wq[v]
    BY FlushShifts
  <2>. QED BY <1>2, <2>1 DEF EndsBy, Over
<1>4. EndsBy(u, 1, m) => Ended(m)'
  <2>1. \A j \in DOMAIN wq[u] : j <= 1 => j = 1
    BY <1>1
  <2>. QED BY <1>2, <2>1 DEF EndsBy
<1>5. ASSUME NEW i \in DOMAIN wq'[u], EndsBy(u, i + 1, m) PROVE EndsBy(u, i, m)'
  <2>1. CASE Ended(m)
    BY <1>2, <2>1 DEF EndsBy
  <2>2. ASSUME NEW j \in DOMAIN wq[u], j <= i + 1, Over(u, j, m) PROVE EndsBy(u, i, m)'
    <3>1. CASE j = 1
      BY <1>2, <2>2, <3>1 DEF EndsBy
    <3>2. CASE j # 1
      <4>1. j - 1 \in DOMAIN wq'[u] /\ wq'[u][j - 1] = wq[u][j]
        BY <3>2, FlushShifts
      <4>2. j - 1 <= i
        <5>1. i \in Nat /\ j \in Nat
          BY <1>1, FlushShifts
        <5>. QED BY <2>2, <5>1
      <4>3. Over(u, j - 1, m)'
        BY <2>2, <4>1 DEF Over
      <4>. QED BY <4>1, <4>2, <4>3 DEF EndsBy
    <3>. QED BY <3>1, <3>2
  <2>. QED BY <1>5, <2>1, <2>2 DEF EndsBy
<1>. QED BY <1>2, <1>3, <1>4, <1>5

LEMMA CommitInLine ==
    ASSUME ChanInv, InLine, NEW u \in Users, NEW b, NEW R, Commits(u, b, R), faults'.page = 0
    PROVE  InLine'
<1>1. /\ UNCHANGED <<cursor, proc, cur, chain, turn, halted, boots>> /\ Sound
      /\ wq \in [Users -> Seq(Batch)] /\ wq' \in [Users -> Seq(Batch)]
  BY FlushShifts DEF Commits, ChanInv, Sound, Typed, MemTypes
<1>2. PagesTrue'
  <2>1. ASSUME NEW m \in Msgs PROVE inbox'[m] # "none" <=> inbox[m] # "none"
    <3>1. RowFacts(m, b)
      BY FlushRows
    <3>2. inbox[m] = "none" => inbox'[m] = "none"
      <4>. SUFFICES ASSUME inbox[m] = "none" PROVE inbox'[m] = "none"
        OBVIOUS
      <4>1. b \in Batch /\ \A c \in b.inb : inbox[c[1]] # "none"
        <5>1. b \in Batch /\ 1 \in DOMAIN wq[u] /\ b = wq[u][1]
          BY FlushShifts
        <5>. QED BY <5>1 DEF ChanInv, Rows, Known
      <4>2. {c[2] : c \in {x \in b.inb : x[1] = m}} = {}
        BY <4>1
      <4>3. inbox'[m] = InboxAfter(inbox[m], {c[2] : c \in {x \in b.inb : x[1] = m}})
        BY DEF Commits, WriteChannel
      <4>. QED BY <4>2, <4>3, RowUntouched
    <3>. QED BY <3>1, <3>2 DEF RowFacts
  <2>. QED BY <1>1, <2>1 DEF InLine, PagesTrue, Alive
<1>3. ChainSorted' /\ Resigned'
  BY <1>1 DEF InLine, ChainSorted, Resigned, SendsClosed
<1>4. NoRowForgotten'
  <2>. SUFFICES ASSUME Sends', NEW m \in Msgs, inbox'[m] \in InboxOpen
                PROVE  \/ m \in Range(chain[From[m]]) \/ From[m] \in halted
                       \/ EndsBy(From[m], Len(wq[From[m]]), m)'
    BY <1>1 DEF NoRowForgotten
  <2>. DEFINE v == From[m]
  <2>1. v \in Users /\ Sends
    BY <1>1, ChannelAssumption DEF Sends, Alive, SendsClosed, Msgs
  <2>2. RowFacts(m, b)
    BY FlushRows
  <2>3. inbox[m] \in InboxOpen
    <3>1. inbox[m] # "none"
      BY <1>2 DEF InLine, PagesTrue, InboxOpen, Commits
    <3>2. ~Ended(m)
      BY <2>2 DEF RowFacts, Ended, InboxOpen
    <3>. QED BY <1>1, <3>1, <3>2 DEF Ended, Sound, Typed, DbTypes, InboxStates
  <2>4. ASSUME EndsBy(v, Len(wq[v]), m) PROVE EndsBy(v, Len(wq[v]), m)'
    <3>1. PICK j \in DOMAIN wq[v] : Over(v, j, m)
      BY <2>3, <2>4 DEF EndsBy, Ended, InboxOpen
    <3>2. CASE v # u
      <4>1. wq'[v] = wq[v]
        BY <2>1, <3>2, FlushShifts
      <4>2. j <= Len(wq[v])
        BY <1>1, <2>1
      <4>. QED BY <3>1, <4>1, <4>2 DEF EndsBy, Over
    <3>3. CASE v = u
      <4>1. j # 1
        <5>1. ~Ended(m)' /\ b = wq[u][1]
          BY FlushShifts DEF Ended, InboxOpen
        <5>. QED BY <2>2, <3>1, <3>3, <5>1 DEF RowFacts, Over, Ended
      <4>2. j - 1 \in DOMAIN wq'[u] /\ wq'[u][j - 1] = wq[u][j]
        BY <3>3, <4>1, FlushShifts
      <4>3. j - 1 <= Len(wq'[u])
        BY <1>1, <4>2
      <4>4. Over(u, j - 1, m)'
        BY <3>1, <3>3, <4>2 DEF Over
      <4>. QED BY <3>3, <4>2, <4>3, <4>4 DEF EndsBy
    <3>. QED BY <3>2, <3>3
  <2>. QED BY <2>1, <2>3, <2>4 DEF InLine, NoRowForgotten
<1>5. QueuedAfter'
  <2>. SUFFICES ASSUME Sends', NEW v \in Users, NEW i \in DOMAIN wq'[v], NEW x \in About(wq'[v][i]),
                       x[2] = boots, NEW m \in Msgs, Earlier(m, x)
                PROVE  EndsBy(v, i, m)'
    BY <1>1 DEF QueuedAfter, Earlier
  <2>1. Sends
    BY <1>1 DEF Sends, Alive, SendsClosed
  <2>2. CASE v # u
    <3>1. EndsBy(v, i, m)
      <4>1. wq'[v] = wq[v]
        BY <2>2, FlushShifts
      <4>. QED BY <2>1, <4>1 DEF InLine, QueuedAfter
    <3>. QED BY <2>2, <3>1, CommitEnds
  <2>3. CASE v = u
    <3>1. i + 1 \in DOMAIN wq[u] /\ wq'[u][i] = wq[u][i + 1]
      BY <2>3, FlushShifts
    <3>2. EndsBy(u, i + 1, m)
      BY <2>1, <2>3, <3>1 DEF InLine, QueuedAfter
    <3>. QED BY <2>3, <3>2, CommitEnds
  <2>. QED BY <2>2, <2>3
<1>6. StoredAfter'
  <2>. SUFFICES ASSUME Sends', NEW x \in Segs, x[2] = boots, Stored(x)', NEW m \in Msgs, Earlier(m, x)
                PROVE  Ended(m)'
    BY <1>1 DEF StoredAfter, Earlier
  <2>1. Sends
    BY <1>1 DEF Sends, Alive, SendsClosed
  <2>2. CASE Stored(x)
    <3>1. Ended(m)
      BY <2>1, <2>2 DEF InLine, StoredAfter
    <3>. QED BY <3>1, CommitEnds
  <2>3. CASE ~Stored(x)
    <3>1. x \in About(b)
      <4>1. SegFacts(x, b)
        BY FlushSegs
      <4>. QED BY <2>3, <4>1 DEF SegFacts, Stored
    <3>2. b = wq[u][1] /\ 1 \in DOMAIN wq[u]
      BY FlushShifts
    <3>3. EndsBy(u, 1, m)
      BY <2>1, <3>1, <3>2 DEF InLine, QueuedAfter
    <3>. QED BY <3>3, CommitEnds
  <2>. QED BY <2>2, <2>3
<1>. QED BY <1>2, <1>3, <1>4, <1>5, <1>6 DEF InLine

\* New rows are at the end of their chains.
LEMMA PullInLine ==
    ASSUME ChanInv, InLine, NEW k \in 1..PageSize, Pull(k)
    PROVE  InLine'
<1>. DEFINE page == {m \in Msgs : cur < m /\ m <= cur + k}
            new == {m \in page : inbox[m] = "none"}
            first(m) == IF cold /\ TooOld(m) THEN "abandoned" ELSE "received"
            mine(u) == {m \in new : From[m] = u /\ first(m) = "received"}
<1>1. /\ Sound /\ Alive /\ cur = cursor /\ cur \in Nat /\ k \in Nat /\ Msgs \subseteq Nat
      /\ inbox \in [Msgs -> InboxStates] /\ chain \in [Users -> Seq(Msgs)]
      /\ \A m \in Msgs : inbox[m] # "none" <=> m <= cur
  <2>1. Alive /\ k \in Nat
    BY ChannelAssumption DEF Pull, Pulling, Alive
  <2>2. cur \in 0..N /\ N \in Nat
    BY ChannelAssumption DEF ChanInv, Sound, Typed, MemTypes
  <2>. QED BY <2>1, <2>2 DEF InLine, PagesTrue, Msgs, ChanInv, Sound, Typed, DbTypes, MemTypes
<1>2. /\ cursor' = cur + k
      /\ inbox' = [m \in Msgs |-> IF m \in new THEN first(m) ELSE inbox[m]]
      /\ \/ cur' = cur + k /\ chain' = [u \in Users |-> chain[u] \o InSequence(mine(u))] /\ faults' = faults
         \/ cur' = cur /\ chain' = chain /\ Fault("page")
      /\ UNCHANGED <<attempts, outbound, conv, owner, receipt, proc, cold, mout, mconv, mowner, gen,
                     wq, poisoned, turn, halted, rtask, sent, got, unsafe, dequeued, worked, boots>>
  BY <1>1 DEF Pull
<1>. HIDE DEF mine, new, first, page
<1>3. cur' = cur + k /\ chain' = [u \in Users |-> chain[u] \o InSequence(mine(u))] /\ faults'.page = 0
  <2>1. faults.page = 0
    BY DEF InLine, PagesTrue
  <2>2. ~Fault("page")
    BY <2>1 DEF Fault
  <2>. QED BY <1>2, <2>1, <2>2
<1>. USE DEF mine, new, first, page
<1>4. new = {m \in Msgs : cur < m /\ m <= cur + k}
  BY <1>1
<1>5. \A m \in Msgs : /\ inbox'[m] # "none" <=> m <= cur + k
                      /\ inbox[m] # "none" => inbox'[m] = inbox[m]
                      /\ inbox[m] = "none" /\ inbox'[m] \in InboxOpen => m \in mine(From[m])
  <2>1. \A m : first(m) \in {"abandoned", "received"}
    OBVIOUS
  <2>. HIDE DEF first
  <2>2. \A m \in Msgs : m \in new <=> cur < m /\ m <= cur + k
    BY <1>4
  <2>3. \A m \in Msgs : m \in new => inbox'[m] = first(m)
    BY <1>2
  <2>4. \A m \in Msgs : m \notin new => inbox'[m] = inbox[m]
    BY <1>2
  <2>5. ASSUME NEW m \in Msgs PROVE inbox'[m] # "none" <=> m <= cur + k
    <3>1. m \in Nat
      BY <1>1
    <3>. HIDE DEF new
    <3>. QED BY <1>1, <2>1, <2>2, <2>3, <2>4, <3>1
  <2>6. ASSUME NEW m \in Msgs, inbox[m] = "none", inbox'[m] \in InboxOpen PROVE m \in mine(From[m])
    <3>1. m \in new /\ first(m) = "received"
      BY <2>1, <2>3, <2>4, <2>6 DEF InboxOpen
    <3>. QED BY <3>1
  <2>. QED BY <2>4, <2>5, <2>6
<1>6. ASSUME NEW u \in Users
      PROVE  /\ mine(u) \subseteq Msgs /\ IsFiniteSet(mine(u)) /\ \A m \in mine(u) : cur < m
             /\ InSequence(mine(u)) \in Seq(Msgs) /\ Range(InSequence(mine(u))) = mine(u)
             /\ chain'[u] = chain[u] \o InSequence(mine(u))
  <2>1. mine(u) \in SUBSET Msgs /\ \A m \in mine(u) : cur < m
    OBVIOUS
  <2>. HIDE DEF mine
  <2>2. IsFiniteSet(mine(u))
    <3>1. IsFiniteSet(1..N)
      BY ChannelAssumption, FS_Interval
    <3>. QED BY <2>1, <3>1, FS_Subset DEF Msgs
  <2>. QED BY <1>3, <2>1, <2>2, MessagesInSequence
<1>. HIDE DEF mine, new, first, page
<1>7. PagesTrue'
  BY <1>1, <1>2, <1>3, <1>5 DEF PagesTrue
<1>8. ASSUME NEW u \in Users, NEW i \in DOMAIN chain'[u], NEW j \in DOMAIN chain'[u], i < j
      PROVE  chain'[u][i] < chain'[u][j]
  <2>1. PICK q : q = InSequence(mine(u))
    OBVIOUS
  <2>2. PICK p : p = chain[u]
    OBVIOUS
  <2>3. /\ p \in Seq(Msgs) /\ q \in Seq(Msgs) /\ chain'[u] = p \o q
        /\ \A m \in Range(q) : cur < m
    BY <1>1, <1>6, <2>1, <2>2
  <2>4. /\ Len(p) \in Nat /\ Len(q) \in Nat /\ DOMAIN p = 1..Len(p) /\ DOMAIN q = 1..Len(q)
        /\ DOMAIN chain'[u] = 1..(Len(p) + Len(q))
        /\ \A n \in 1..(Len(p) + Len(q)) : chain'[u][n] = IF n <= Len(p) THEN p[n] ELSE q[n - Len(p)]
    <3>1. p \o q \in Seq(Msgs) /\ Len(p \o q) = Len(p) + Len(q)
      BY <2>3, ConcatProperties
    <3>2. \A n \in 1..(Len(p) + Len(q)) : (p \o q)[n] = IF n <= Len(p) THEN p[n] ELSE q[n - Len(p)]
      BY <2>3, ConcatProperties
    <3>. QED BY <2>3, <3>1, <3>2
  <2>5. CASE i <= Len(p) /\ j <= Len(p)
    <3>1. i \in DOMAIN p /\ j \in DOMAIN p
      BY <2>4, <2>5
    <3>2. p[i] < p[j]
      BY <1>8, <2>2, <3>1 DEF InLine, ChainSorted
    <3>. QED BY <2>4, <2>5, <3>2
  <2>6. CASE i <= Len(p) /\ ~(j <= Len(p))
    <3>1. i \in DOMAIN p /\ j - Len(p) \in DOMAIN q
      BY <2>4, <2>6
    <3>2. p[i] \in Range(chain[u]) /\ p[i] \in Msgs /\ q[j - Len(p)] \in Range(q) /\ q[j - Len(p)] \in Msgs
      BY <2>2, <2>3, <3>1 DEF Range
    <3>3. p[i] <= cur
      BY <1>1, <3>2 DEF ChanInv, Rows, ChainTrue, InboxOpen
    <3>4. cur < q[j - Len(p)]
      BY <2>3, <3>2
    <3>5. p[i] < q[j - Len(p)]
      <4>1. PICK a \in Nat, c \in Nat : a = p[i] /\ c = q[j - Len(p)] /\ a <= cur /\ cur < c
        BY <1>1, <3>2, <3>3, <3>4
      <4>2. a < c
        BY <1>1, <4>1
      <4>. QED BY <4>1, <4>2
    <3>. QED BY <2>4, <2>6, <3>5
  <2>7. CASE ~(i <= Len(p))
    <3>1. i - Len(p) \in DOMAIN q /\ j - Len(p) \in DOMAIN q /\ i - Len(p) < j - Len(p) /\ ~(j <= Len(p))
      BY <1>8, <2>4, <2>7
    <3>2. q[i - Len(p)] < q[j - Len(p)]
      <4>1. mine(u) \subseteq Nat /\ IsFiniteSet(mine(u))
        BY <1>1, <1>6
      <4>2. PICK S : S = mine(u)
        OBVIOUS
      <4>3. \A a, b \in DOMAIN InSequence(S) : a < b => InSequence(S)[a] < InSequence(S)[b]
        BY <4>1, <4>2, InSequenceSorted
      <4>4. \A a, b \in DOMAIN q : a < b => q[a] < q[b]
        BY <2>1, <4>2, <4>3
      <4>5. PICK a, c : a = i - Len(p) /\ c = j - Len(p)
        OBVIOUS
      <4>6. q[a] < q[c]
        BY <3>1, <4>4, <4>5
      <4>. QED BY <4>5, <4>6
    <3>3. chain'[u][i] = q[i - Len(p)] /\ chain'[u][j] = q[j - Len(p)]
      <4>1. i \in 1..(Len(p) + Len(q)) /\ j \in 1..(Len(p) + Len(q))
        BY <2>4
      <4>. QED BY <2>4, <2>7, <3>1, <4>1
    <3>. QED BY <3>2, <3>3
  <2>. QED BY <2>5, <2>6, <2>7
<1>9. ChainSorted'
  BY <1>8 DEF ChainSorted
<1>10. \A u \in Users : Range(chain'[u]) = Range(chain[u]) \cup mine(u)
  <2>. SUFFICES ASSUME NEW u \in Users PROVE Range(chain'[u]) = Range(chain[u]) \cup mine(u)
    OBVIOUS
  <2>1. PICK q : q = InSequence(mine(u))
    OBVIOUS
  <2>2. q \in Seq(Msgs) /\ Range(q) = mine(u) /\ chain[u] \in Seq(Msgs) /\ chain'[u] = chain[u] \o q
    BY <1>1, <1>6, <2>1
  <2>. QED BY <2>2, RangeConcatenation
<1>11. NoRowForgotten'
  <2>. SUFFICES ASSUME Sends', NEW m \in Msgs, inbox'[m] \in InboxOpen
                PROVE  \/ m \in Range(chain'[From[m]]) \/ From[m] \in halted
                       \/ EndsBy(From[m], Len(wq[From[m]]), m)'
    BY <1>2 DEF NoRowForgotten
  <2>1. Sends /\ From[m] \in Users
    BY <1>2, ChannelAssumption DEF Sends, Alive, SendsClosed, Msgs
  <2>2. CASE inbox[m] = "none"
    BY <1>5, <1>10, <2>1, <2>2
  <2>3. CASE inbox[m] # "none"
    <3>1. inbox[m] \in InboxOpen
      BY <1>5, <2>3
    <3>2. EndsBy(From[m], Len(wq[From[m]]), m) => EndsBy(From[m], Len(wq[From[m]]), m)'
      <4>1. Ended(m) => Ended(m)'
        BY <1>5, <2>3 DEF Ended
      <4>. QED BY <1>2, <4>1 DEF EndsBy, Over
    <3>. QED BY <1>10, <2>1, <3>1, <3>2 DEF InLine, NoRowForgotten
  <2>. QED BY <2>2, <2>3
<1>12. QueuedAfter' /\ StoredAfter' /\ Resigned'
  <2>1. \A m \in Msgs : Ended(m) => Ended(m)'
    BY <1>5 DEF Ended
  <2>2. \A u \in Users : \A i : \A m \in Msgs : EndsBy(u, i, m) => EndsBy(u, i, m)'
    BY <1>2, <2>1 DEF EndsBy, Over
  <2>3. Sends' => Sends
    BY <1>2 DEF Sends, Alive, SendsClosed
  <2>4. QueuedAfter'
    BY <1>2, <2>2, <2>3 DEF InLine, QueuedAfter, Earlier
  <2>5. StoredAfter'
    BY <1>2, <2>1, <2>3 DEF InLine, StoredAfter, Stored, Earlier
  <2>6. Resigned'
    BY <1>2 DEF InLine, Resigned, SendsClosed
  <2>. QED BY <2>4, <2>5, <2>6
<1>. QED BY <1>7, <1>9, <1>11, <1>12 DEF InLine

\* A receipt's short transaction takes a row to failed only.
LEMMA ReceiptInLine ==
    ASSUME ChanInv, InLine, faults'.page = 0, NEW s \in Segs, ReceiptArrives(s) \/ ReceiptWritten(s)
    PROVE  InLine'
<1>1. Sound /\ wq \in [Users -> Seq(Batch)] /\ outbound \in [Segs -> OutStatus] /\ wq' \in [Users -> Seq(Batch)]
  <2>1. ChanInv'
    BY ReceiptArrivesStep, ReceiptWrittenStep
  <2>. QED BY <2>1 DEF ChanInv, Sound, Typed, DbTypes, MemTypes
<1>2. UNCHANGED <<cursor, inbox, proc, cur, boots, chain, turn, halted>>
  BY DEF ReceiptArrives, ReceiptWritten
<1>3. \A x \in Segs : Stored(x)' => Stored(x)
  <2>1. CASE outbound' = outbound
    BY <2>1 DEF Stored
  <2>2. CASE outbound' = [outbound EXCEPT ![s] = IF mout[s] = "failed" THEN Moved(@, "failed", FlushWriters) ELSE @]
    <3>1. Moved(outbound[s], "failed", FlushWriters) \in {outbound[s], "failed"}
      BY DEF Moved
    <3>. QED BY <1>1, <2>2, <3>1 DEF Stored
  <2>. QED BY <2>1, <2>2 DEF ReceiptArrives, ReceiptWritten
<1>4. \A u \in Users : /\ DOMAIN wq'[u] = DOMAIN wq[u] /\ Len(wq'[u]) = Len(wq[u])
                        /\ \A i \in DOMAIN wq[u] : /\ wq'[u][i].inb = wq[u][i].inb
                                                  /\ About(wq'[u][i]) \subseteq About(wq[u][i])
  <2>1. CASE wq' = wq
    BY <2>1
  <2>2. CASE wq' # wq
    <3>1. ReceiptArrives(s) /\ Reports(s)
      BY <2>2, ReceiptReports DEF ReceiptWritten
    <3>2. ASSUME NEW u \in Users PROVE DOMAIN wq'[u] = DOMAIN wq[u] /\ Len(wq'[u]) = Len(wq[u])
      <4>1. DOMAIN wq'[u] = DOMAIN wq[u] /\ wq[u] \in Seq(Batch) /\ wq'[u] \in Seq(Batch)
        BY <1>1, <3>1 DEF Reports
      <4>2. /\ Len(wq[u]) \in Nat /\ Len(wq'[u]) \in Nat
            /\ DOMAIN wq[u] = 1..Len(wq[u]) /\ DOMAIN wq'[u] = 1..Len(wq'[u])
        BY <4>1
      <4>. QED BY <4>1, <4>2
    <3>3. ASSUME NEW a, NEW b, Failed(a, b, s) PROVE a.inb = b.inb /\ About(a) \subseteq About(b)
      <4>1. CASE a = b
        BY <4>1
      <4>2. CASE a # b
        <5>1. s \in About(b) /\ a.plan = b.plan \ {s} /\ a.res = {r \in b.res : r[1] # s} \cup {<<s, "failed">>}
          BY <3>3, <4>2 DEF Failed
        <5>2. \A r \in a.res : r[1] = s \/ r \in b.res
          BY <5>1
        <5>. QED BY <3>3, <5>1, <5>2 DEF Failed, About
      <4>. QED BY <4>1, <4>2
    <3>. QED BY <3>1, <3>2, <3>3 DEF Reports
  <2>. QED BY <2>1, <2>2
<1>5. \A u \in Users : \A i, m : EndsBy(u, i, m)' <=> EndsBy(u, i, m)
  BY <1>2, <1>4 DEF EndsBy, Ended, Over
<1>6. PagesTrue' /\ ChainSorted' /\ Resigned' /\ (Sends' <=> Sends)
  BY <1>2 DEF InLine, PagesTrue, Alive, ChainSorted, Resigned, SendsClosed, Sends
<1>7. NoRowForgotten'
  <2>1. \A m \in Msgs : From[m] \in Users
    BY ChannelAssumption DEF Msgs
  <2>. QED BY <1>2, <1>4, <1>5, <1>6, <2>1 DEF InLine, NoRowForgotten
<1>8. QueuedAfter'
  BY <1>2, <1>4, <1>5, <1>6 DEF InLine, QueuedAfter, Earlier
<1>9. StoredAfter'
  BY <1>2, <1>3, <1>6 DEF InLine, StoredAfter, Earlier, Ended
<1>. QED BY <1>6, <1>7, <1>8, <1>9 DEF InLine

LEMMA EndInLine ==
    ASSUME ChanInv, InLine, faults'.page = 0, Stop \/ Exit \/ Crash \/ UNCHANGED vars
    PROVE  InLine'
<1>1. UNCHANGED <<cursor, inbox, outbound, cur, boots>>
  BY DEF Stop, Exit, Crash, Forget, vars, dbVars, memVars, histVars
<1>2. CASE Stop \/ UNCHANGED vars
  <2>1. UNCHANGED <<wq, chain, turn, halted>> /\ (proc' = proc \/ Stop)
    BY <1>2 DEF Stop, vars, memVars
  <2>2. (Sends' => Sends) /\ (Alive' => Alive) /\ (SendsClosed => SendsClosed')
    BY <2>1 DEF Stop, Sends, Alive, SendsClosed
  <2>3. \A u \in Users : \A i, m : EndsBy(u, i, m)' <=> EndsBy(u, i, m)
    BY <1>1, <2>1 DEF EndsBy, Ended, Over
  <2>4. PagesTrue' /\ ChainSorted' /\ Resigned'
    BY <1>1, <2>1, <2>2 DEF InLine, PagesTrue, ChainSorted, Resigned
  <2>5. \A m \in Msgs : From[m] \in Users
    BY ChannelAssumption DEF Msgs
  <2>6. NoRowForgotten' /\ QueuedAfter'
    BY <1>1, <2>1, <2>2, <2>3, <2>5 DEF InLine, NoRowForgotten, QueuedAfter, Earlier
  <2>7. StoredAfter'
    BY <1>1, <2>2 DEF InLine, StoredAfter, Stored, Earlier, Ended
  <2>. QED BY <2>4, <2>6, <2>7 DEF InLine
<1>3. CASE Exit \/ Crash
  <2>1. /\ ~Alive' /\ halted' = {}
        /\ \A u \in Users : chain'[u] = <<>> /\ turn'[u].pc = "idle"
    BY <1>3, NoTurnType DEF Exit, Crash, Forget, Alive
  <2>. QED BY <1>1, <2>1 DEF InLine, PagesTrue, ChainSorted, NoRowForgotten, QueuedAfter, StoredAfter,
          Resigned, Sends
<1>. QED BY <1>2, <1>3

\* Recovery dispatches every open row, and nothing of the new process is there yet.
LEMMA BootInLine ==
    ASSUME ChanInv, InLine, faults'.page = 0, Boot
    PROVE  InLine'
<1>1. /\ ~Alive /\ boots' = boots + 1 /\ cur' = cursor /\ Sound /\ Known
      /\ UNCHANGED <<cursor, inbox, outbound, turn, halted>>
      /\ boots \in Nat /\ \A u \in Users : turn[u] = NoTurn
  BY DEF Boot, Alive, dbVars, ChanInv, Rows, Sound, Shapes, Down, Typed, HistTypes
<1>2. wq' = [u \in Users |-> IF ChangedTo(u, "unknown") \cup ChangedTo(u, "cancelled") = {} THEN <<>>
                              ELSE <<BootBatch(u)>>]
  BY DEF Boot, BootBatch, LostOf, ChangedTo
<1>3. ASSUME NEW u \in Users
      PROVE  /\ chain'[u] = InSequence(OpenRowsOf(u)) /\ Range(chain'[u]) = OpenRowsOf(u)
             /\ OpenRowsOf(u) \subseteq Nat /\ IsFiniteSet(OpenRowsOf(u))
  <2>1. OpenRowsOf(u) \in SUBSET Msgs /\ Msgs \subseteq Nat /\ IsFiniteSet(Msgs)
    BY ChannelAssumption, FS_Interval DEF OpenRowsOf, Msgs
  <2>. QED BY <2>1, FS_Subset, MessagesInSequence DEF Boot, OpenRows
<1>4. PagesTrue'
  BY <1>1 DEF InLine, PagesTrue
<1>5. ChainSorted'
  <2>1. ASSUME NEW u \in Users, NEW i \in DOMAIN chain'[u], NEW j \in DOMAIN chain'[u], i < j
        PROVE  chain'[u][i] < chain'[u][j]
    BY <1>3, <2>1, InSequenceSorted
  <2>. QED BY <2>1 DEF ChainSorted
<1>6. NoRowForgotten'
  <2>1. \A m \in Msgs : inbox[m] \in InboxOpen => From[m] \in Users /\ m \in OpenRowsOf(From[m])
    BY ChannelAssumption DEF Msgs, OpenRowsOf
  <2>. QED BY <1>1, <1>3, <2>1 DEF NoRowForgotten
<1>7. \A x \in Segs : Used(x) => x[2] # boots'
  BY <1>1, SegFields DEF Known
<1>8. QueuedAfter'
  <2>1. ASSUME NEW u \in Users, NEW i \in DOMAIN wq'[u], NEW x \in About(wq'[u][i]) PROVE x[2] # boots'
    <3>1. wq'[u][i] = BootBatch(u)
      BY <1>2, <2>1
    <3>2. x \in ChangedTo(u, "unknown")
      BY <1>1, <3>1, <2>1, BootBatches DEF About, LostOf
    <3>. QED BY <1>1, <1>7, <3>2, BootBatches DEF Stored, Used
  <2>. QED BY <2>1 DEF QueuedAfter
<1>9. StoredAfter'
  BY <1>1, <1>7 DEF StoredAfter, Stored, Used
<1>10. Resigned'
  <2>1. \A u \in Users : turn'[u].pc = "idle"
    BY <1>1, NoTurnType
  <2>. QED BY <2>1 DEF Resigned
<1>. QED BY <1>4, <1>5, <1>6, <1>8, <1>9, <1>10 DEF InLine

LEMMA InLineNext ==
    ASSUME ChanInv, InLine, [Next]_vars
    PROVE  InLine'
<1>1. faults'.page = 0
  BY NoPageLost DEF ChanInv, InLine, PagesTrue
<1>2. ASSUME NEW u \in Users, Chain(u) \/ Trouble(u) \/ Staff(u) \/ WecomTakes(u) PROVE InLine'
  <2>1. PICK b : Tidy(u, b)
    BY <1>2, TurnsAreTidy
  <2>. QED BY <1>1, <2>1, TidyInLine
<1>3. ASSUME NEW u \in Users, Flush(u) PROVE InLine'
  <2>1. PICK b, R : Commits(u, b, R)
    BY <1>3, FlushCommits DEF ChanInv
  <2>. QED BY <1>1, <2>1, CommitInLine
<1>4. ASSUME NEW k \in 1..PageSize, Pull(k) PROVE InLine'
  BY <1>4, PullInLine
<1>5. ASSUME NEW s \in Segs, ReceiptArrives(s) \/ ReceiptWritten(s) PROVE InLine'
  BY <1>1, <1>5, ReceiptInLine
<1>6. CASE Stop \/ Exit \/ Crash \/ UNCHANGED vars
  BY <1>1, <1>6, EndInLine
<1>7. CASE Boot
  BY <1>1, <1>7, BootInLine
<1>. QED BY <1>2, <1>3, <1>4, <1>5, <1>6, <1>7 DEF Next

-----------------------------------------------------------------------------
(* Requests, in the order of the rows. *)

\* What every step keeps: ended rows, unsafe segments, and, but for recovery, the chains.
LEMMA StepKeeps ==
    ASSUME ChanInv, InLine, [Next]_vars
    PROVE  /\ \A m \in Msgs : Ended(m) => Ended(m)'
           /\ unsafe \subseteq unsafe'
           /\ \/ /\ boots' = boots
                 /\ \A u \in Users : \A m \in Range(chain'[u]) :
                        m \in Range(chain[u]) \/ (m \in Msgs /\ inbox[m] = "none")
              \/ Boot
<1>0. Sound
  BY DEF ChanInv
<1>1. ASSUME NEW u \in Users, Chain(u) \/ Trouble(u) \/ Staff(u) \/ WecomTakes(u)
      PROVE  /\ UNCHANGED <<inbox, boots>> /\ unsafe \subseteq unsafe'
             /\ \A v \in Users : Range(chain'[v]) \subseteq Range(chain[v])
  <2>1. PICK b : Tidy(u, b)
    BY <1>1, TurnsAreTidy
  <2>2. unsafe \subseteq unsafe'
    <3>1. CASE FirstPost(u) \/ Retry(u)
      BY <3>1 DEF FirstPost, Retry, Post
    <3>2. CASE Dequeue(u) \/ Attempt(u) \/ Hear(u) \/ Think(u) \/ Plan(u) \/ CommitOutbound(u)
      BY <3>2 DEF Dequeue, Attempt, Hear, Think, Plan, CommitOutbound, histVars
    <3>3. CASE NextSegment(u) \/ MarkSending(u) \/ Unmark(u) \/ Answered(u) \/ Finish(u)
      BY <3>3 DEF NextSegment, MarkSending, Unmark, Answered, Finish, histVars
    <3>4. CASE Trouble(u) \/ Staff(u) \/ WecomTakes(u)
      BY <3>4 DEF Trouble, Staff, AttemptHalts, Throw, TokenFails, AnswerLost, Poison, Takeover, HandBack,
                  WecomTakes, histVars
    <3>. QED BY <1>1, <3>1, <3>2, <3>3, <3>4 DEF Chain
  <2>3. ASSUME NEW v \in Users PROVE Range(chain'[v]) \subseteq Range(chain[v])
    <3>1. CASE chain' = chain
      BY <3>1
    <3>2. CASE chain[u] # <<>> /\ Pop(u)
      <4>1. chain'[u] = Tail(chain[u]) /\ (v # u => chain'[v] = chain[v])
        BY <1>0, <3>2, PopKeeps
      <4>2. Range(Tail(chain[u])) \subseteq Range(chain[u])
        <5>1. chain[u] \in Seq(Msgs)
          BY <1>0 DEF Sound, Typed, MemTypes
        <5>2. /\ DOMAIN Tail(chain[u]) = 1..(Len(chain[u]) - 1) /\ DOMAIN chain[u] = 1..Len(chain[u])
              /\ \A i \in 1..(Len(chain[u]) - 1) : Tail(chain[u])[i] = chain[u][i + 1]
              /\ Len(chain[u]) \in Nat
          BY <3>2, <5>1
        <5>3. \A i \in DOMAIN Tail(chain[u]) : i + 1 \in DOMAIN chain[u]
          BY <5>2
        <5>. QED BY <5>2, <5>3 DEF Range
      <4>. QED BY <4>1, <4>2
    <3>. QED BY <2>1, <3>1, <3>2 DEF Tidy
  <2>. QED BY <2>1, <2>2, <2>3 DEF Tidy, Calm
<1>2. ASSUME NEW u \in Users, Flush(u)
      PROVE  (\A m \in Msgs : Ended(m) => Ended(m)') /\ UNCHANGED <<boots, unsafe, chain>>
  <2>1. PICK b, R : Commits(u, b, R)
    BY <1>2, FlushCommits
  <2>2. \A m \in Msgs : Ended(m) => Ended(m)'
    BY <2>1, CommitEnds
  <2>. QED BY <1>2, <2>2 DEF Flush
<1>3. ASSUME NEW k \in 1..PageSize, Pull(k)
      PROVE  /\ (\A m \in Msgs : Ended(m) => Ended(m)') /\ UNCHANGED <<boots, unsafe>>
             /\ \A u \in Users : \A m \in Range(chain'[u]) :
                    m \in Range(chain[u]) \/ (m \in Msgs /\ inbox[m] = "none")
  <2>1. Pages
    BY <1>3, PullPages
  <2>2. \A m \in Msgs : Ended(m) => inbox[m] # "none"
    BY DEF Ended
  <2>. QED BY <2>1, <2>2 DEF Pages, Ended
<1>4. ASSUME NEW s \in Segs, ReceiptArrives(s) \/ ReceiptWritten(s)
      PROVE  UNCHANGED <<inbox, boots, unsafe, chain>>
  BY <1>4 DEF ReceiptArrives, ReceiptWritten
<1>5. CASE Stop \/ UNCHANGED vars
  <2>1. UNCHANGED <<inbox, boots, unsafe, chain>>
    BY <1>5 DEF Stop, vars, dbVars, memVars, histVars
  <2>. QED BY <2>1 DEF Ended
<1>6. CASE Exit \/ Crash
  <2>1. UNCHANGED <<inbox, boots, unsafe>> /\ \A u \in Users : chain'[u] = <<>>
    BY <1>6 DEF Exit, Crash, Forget, histVars
  <2>. QED BY <2>1 DEF Ended, Range
<1>7. CASE Boot
  <2>1. UNCHANGED <<inbox, unsafe>>
    BY <1>7 DEF Boot, dbVars
  <2>. QED BY <1>7, <2>1 DEF Ended
<1>8. ASSUME UNCHANGED inbox PROVE \A m \in Msgs : Ended(m) => Ended(m)'
  BY <1>8 DEF Ended
<1>9. CASE \E u \in Users : Chain(u) \/ Trouble(u) \/ Staff(u) \/ WecomTakes(u)
  BY <1>1, <1>8, <1>9
<1>10. CASE \E u \in Users : Flush(u)
  BY <1>2, <1>10
<1>11. CASE \E k \in 1..PageSize : Pull(k)
  BY <1>3, <1>11
<1>12. CASE \E s \in Segs : ReceiptArrives(s) \/ ReceiptWritten(s)
  BY <1>4, <1>8, <1>12
<1>. QED BY <1>5, <1>6, <1>7, <1>9, <1>10, <1>11, <1>12 DEF Next

\* Who asks, asks for a segment of the first row of its chain; if it asks safely for one of its own
\* process for the first time, that segment is stored.
LEMMA AsksInLine ==
    ASSUME ChanInv, InLine, [Next]_vars, NEW s \in Segs, Posted(s)
    PROVE  /\ Sends /\ sent' = [sent EXCEPT ![s] = Append(@, boots)] /\ chain' = chain
           /\ chain[UserOf(s)] # <<>> /\ MsgOf(s) = Head(chain[UserOf(s)])
           /\ MsgOf(s) \in Range(chain[UserOf(s)]) /\ s[2] <= boots
           /\ s \notin unsafe' => Stored(s) \/ boots \in Range(sent[s])
<1>1. PICK u \in Users : turn[u].pc \in Heads /\ Asks(u, s)
  BY WhoAsks
<1>2. Sound /\ Own(u) /\ Known /\ Sends /\ s = Head(turn[u].todo)
  BY <1>1 DEF ChanInv, Rows, Asks, Sends
<1>3. s \in Range(turn[u].todo) /\ turn[u].pc \in Sending /\ turn[u].pc # "idle"
  BY <1>1, <1>2, HeadOfTodo DEF Sending, Heads
<1>4. /\ chain[u] # <<>> /\ turn[u].m = Head(chain[u]) /\ MsgOf(s) = turn[u].m /\ UserOf(s) = u
      /\ mout[s] # "none"
  BY <1>2, <1>3, Working DEF Own, TodoTrue, UserOf
<1>5. MsgOf(s) \in Range(chain[u])
  BY <1>2, <1>4, HeadOfChain DEF Range
<1>6. s[2] <= boots
  BY <1>2, <1>4 DEF Known, Used
<1>7. ASSUME s \notin unsafe', turn[u].pc = "marked" PROVE Stored(s)
  <2>1. turn[u].mark = "marked" /\ s \notin unsafe
    BY <1>1, <1>7 DEF Asks
  <2>2. outbound[s] = "sending"
    BY <1>2, <1>7, <2>1 DEF Own, HeadTrue
  <2>. QED BY <2>2 DEF Stored
<1>8. ASSUME s \notin unsafe', turn[u].pc = "backoff" PROVE boots \in Range(sent[s])
  <2>1. s \notin unsafe /\ sent[s] # <<>> /\ InFlight(s) /\ SentTrue(s)
    BY <1>1, <1>2, <1>4, <1>8, StepKeeps DEF Own, HeadTrue, InFlight, Flying
  <2>2. sent[s] \in Seq(1..MaxBoots) /\ \A i \in DOMAIN sent[s] : sent[s][i] = boots
    BY <1>2, <2>1 DEF SentTrue, Safe, Sound, Typed, HistTypes
  <2>3. 1 \in DOMAIN sent[s]
    BY <2>1, <2>2
  <2>. QED BY <2>2, <2>3 DEF Range
<1>. QED BY <1>1, <1>2, <1>4, <1>5, <1>6, <1>7, <1>8 DEF Asks

LEMMA SentNext ==
    ASSUME ChanInv, OrderInv, [Next]_vars
    PROVE  SentInLine'
<1>1. InLine /\ SentInLine /\ Sound /\ Known /\ boots \in Nat /\ sent \in [Segs -> Seq(1..MaxBoots)]
  BY DEF OrderInv, ChanInv, Rows, Sound, Typed, HistTypes
<1>2. ASSUME NEW s \in Segs, Posted(s)
      PROVE  /\ boots' = boots /\ Range(sent'[s]) = Range(sent[s]) \cup {boots}
             /\ \A x \in Segs \ {s} : sent'[x] = sent[x]
  <2>1. sent' = [sent EXCEPT ![s] = Append(@, boots)]
    BY <1>1, <1>2, AsksInLine
  <2>2. boots' = boots
    BY <1>1, <1>2, StepKeeps DEF Boot, Posted
  <2>3. sent'[s] = Append(sent[s], boots) /\ \A x \in Segs \ {s} : sent'[x] = sent[x]
    BY <1>1, <2>1
  <2>4. Range(Append(sent[s], boots)) = Range(sent[s]) \cup {boots}
    <3>1. PICK q : q = sent[s]
      OBVIOUS
    <3>2. q \in Seq(1..MaxBoots) /\ Len(q) \in Nat /\ DOMAIN q = 1..Len(q)
      BY <1>1, <3>1
    <3>3. /\ DOMAIN Append(q, boots) = 1..(Len(q) + 1) /\ Append(q, boots)[Len(q) + 1] = boots
          /\ \A i \in 1..Len(q) : Append(q, boots)[i] = q[i]
      BY <3>2
    <3>4. 1..(Len(q) + 1) = 1..Len(q) \cup {Len(q) + 1}
      BY <3>2
    <3>. QED BY <3>1, <3>2, <3>3, <3>4 DEF Range
  <2>. QED BY <2>2, <2>3, <2>4
<1>3. \A x \in Segs : ~Posted(x) => sent'[x] = sent[x]
  BY DEF Posted
<1>4. boots' = boots \/ (Boot /\ boots' = boots + 1 /\ sent' = sent)
  BY <1>1, StepKeeps DEF Boot
<1>5. SentSince'
  <2>1. ASSUME NEW x \in Segs, NEW b \in Range(sent'[x]) PROVE x[2] <= b /\ b <= boots'
    <3>1. CASE b \in Range(sent[x])
      <4>1. x[2] <= b /\ b <= boots /\ b \in Nat
        <5>1. b \in 1..MaxBoots /\ MaxBoots \in Nat
          BY <1>1, <3>1, ChannelAssumption DEF Range
        <5>. QED BY <1>1, <3>1, <5>1 DEF SentInLine, SentSince
      <4>. QED BY <1>1, <1>4, <4>1
    <3>2. CASE b \notin Range(sent[x])
      <4>1. Posted(x)
        BY <1>3, <2>1, <3>2
      <4>2. b = boots /\ boots' = boots
        BY <1>2, <2>1, <3>2, <4>1
      <4>3. x[2] <= boots
        BY <1>1, <4>1, AsksInLine
      <4>. QED BY <1>1, <4>2, <4>3
    <3>. QED BY <3>1, <3>2
  <2>. QED BY <2>1 DEF SentSince
<1>6. SentHere'
  <2>. SUFFICES ASSUME NEW x \in Segs, boots' \in Range(sent'[x]), NEW m \in Range(chain'[UserOf(x)])
                PROVE  MsgOf(x) <= m
    BY DEF SentHere
  <2>1. CASE Posted(x)
    <3>1. /\ MsgOf(x) = Head(chain[UserOf(x)]) /\ m \in Range(chain[UserOf(x)]) /\ UserOf(x) \in Users
      BY <1>1, <2>1, AsksInLine, SegFields
    <3>. QED BY <1>1, <3>1, HeadLeast DEF InLine
  <2>2. CASE ~Posted(x) /\ boots' = boots /\ ~Boot
    <3>1. boots \in Range(sent[x]) /\ UserOf(x) \in Users
      BY <1>3, <2>2, SegFields
    <3>2. CASE m \in Range(chain[UserOf(x)])
      BY <1>1, <3>1, <3>2 DEF SentInLine, SentHere
    <3>3. CASE m \notin Range(chain[UserOf(x)])
      <4>1. m \in Msgs /\ inbox[m] = "none"
        BY <1>1, <2>2, <3>1, <3>3, StepKeeps
      <4>2. inbox[MsgOf(x)] # "none" /\ MsgOf(x) \in Msgs
        <5>1. sent[x] # <<>>
          BY <3>1 DEF Range
        <5>. QED BY <1>1, <5>1, SegFields DEF Known, Used
      <4>3. ~(m <= cursor) /\ MsgOf(x) <= cursor
        BY <1>1, <4>1, <4>2 DEF InLine, PagesTrue
      <4>4. m \in Nat /\ MsgOf(x) \in Nat /\ cursor \in Nat
        BY <1>1, <4>1, <4>2, ChannelAssumption DEF Msgs, Sound, Typed, DbTypes
      <4>. QED BY <4>3, <4>4
    <3>. QED BY <3>2, <3>3
  <2>3. CASE Boot
    <3>1. boots + 1 \in Range(sent[x])
      BY <1>1, <2>3 DEF Boot
    <3>2. boots + 1 <= boots
      BY <1>1, <3>1 DEF SentInLine, SentSince
    <3>. QED BY <1>1, <3>2
  <2>. QED BY <1>1, <2>1, <2>2, <2>3, StepKeeps
<1>7. SentAfter'
  <2>. SUFFICES ASSUME NEW x \in Segs, x \notin unsafe', x[2] \in Range(sent'[x]), NEW m \in Msgs, Earlier(m, x)
                PROVE  Ended(m)'
    BY DEF SentAfter, Earlier
  <2>1. x \notin unsafe /\ (Ended(m) => Ended(m)')
    BY <1>1, StepKeeps
  <2>2. CASE x[2] \in Range(sent[x])
    BY <1>1, <2>1, <2>2 DEF SentInLine, SentAfter
  <2>3. CASE x[2] \notin Range(sent[x])
    <3>1. Posted(x)
      BY <1>3, <2>3
    <3>2. x[2] = boots
      BY <1>2, <2>3, <3>1
    <3>3. Sends /\ Stored(x)
      BY <1>1, <2>3, <3>1, <3>2, AsksInLine
    <3>. QED BY <1>1, <2>1, <3>2, <3>3 DEF InLine, StoredAfter
  <2>. QED BY <2>2, <2>3
<1>. QED BY <1>5, <1>6, <1>7 DEF SentInLine

LEMMA OrderInit ==
    ASSUME Init, NoLostPage
    PROVE  OrderInv
<1>1. /\ cursor = 0 /\ \A m \in Msgs : inbox[m] = "none" /\ m > 0
      /\ \A u \in Users : chain[u] = <<>> /\ turn[u].pc = "idle"
      /\ proc = "down" /\ halted = {} /\ faults.page = 0
      /\ \A s \in Segs : sent[s] = <<>>
  <2>1. \A m \in Msgs : inbox[m] = "none" /\ m > 0
    BY ChannelAssumption DEF Init, Msgs
  <2>. QED BY <2>1, NoTurnType DEF Init, NoLostPage
<1>2. PagesTrue
  BY <1>1, ChannelAssumption DEF PagesTrue, Alive, Msgs
<1>3. ChainSorted /\ NoRowForgotten /\ QueuedAfter /\ StoredAfter /\ Resigned
  BY <1>1 DEF ChainSorted, NoRowForgotten, QueuedAfter, StoredAfter, Resigned, Sends, Alive
<1>4. Range(<<>>) = {}
  BY DEF Range
<1>5. SentInLine
  BY <1>1, <1>4 DEF SentInLine, SentAfter, SentHere, SentSince
<1>. QED BY <1>2, <1>3, <1>5 DEF OrderInv, InLine

LEMMA OrderNext ==
    ASSUME ChanInv, OrderInv, [Next]_vars
    PROVE  OrderInv'
  BY InLineNext, SentNext DEF OrderInv

LEMMA OrderHolds == NoLostPage => (Spec => []OrderInv)
<1>1. NoLostPage /\ Init => OrderInv
  BY OrderInit
<1>2. ChanInv /\ OrderInv /\ [Next]_vars => OrderInv'
  BY OrderNext
<1>. QED BY <1>1, <1>2, SpecInv, PTL DEF Spec

LEMMA HeldBack ==
    ASSUME ChanInv, OrderInv, [Next]_vars, NEW s \in Segs, s \notin unsafe', Posted(s),
           NEW x \in Segs \ unsafe, UserOf(x) = UserOf(s), MsgOf(x) > MsgOf(s), NEW b \in Range(sent[x])
    PROVE  x[2] < b /\ b < boots /\ b \in Nat /\ x[2] \in 1..MaxBoots
<1>1. /\ InLine /\ SentInLine /\ boots \in Nat /\ b \in Nat /\ x[2] \in 1..MaxBoots /\ MaxBoots \in Nat
      /\ MsgOf(s) \in Msgs /\ MsgOf(x) \in Nat /\ MsgOf(s) \in Nat /\ UserOf(s) \in Users
  <2>1. sent[x] \in Seq(1..MaxBoots) /\ boots \in Nat
    BY DEF ChanInv, Sound, Typed, HistTypes
  <2>2. b \in 1..MaxBoots
    <3>1. PICK q : q = sent[x]
      OBVIOUS
    <3>2. q \in Seq(1..MaxBoots) /\ \E i \in DOMAIN q : b = q[i]
      BY <2>1, <3>1 DEF Range
    <3>3. PICK S : S = 1..MaxBoots
      OBVIOUS
    <3>4. q \in Seq(S)
      BY <3>2, <3>3
    <3>5. b \in S
      BY <3>2, <3>4
    <3>. QED BY <3>3, <3>5
  <2>3. MsgOf(s) \in Msgs /\ UserOf(s) \in Users /\ MsgOf(x) \in Msgs /\ x[2] \in 1..MaxBoots
    BY SegFields
  <2>4. Msgs \subseteq Nat /\ MaxBoots \in Nat
    BY ChannelAssumption DEF Msgs
  <2>5. InLine /\ SentInLine
    BY DEF OrderInv
  <2>6. b \in Nat
    BY <2>2, <2>4
  <2>. QED BY <2>1, <2>3, <2>4, <2>5, <2>6
<1>2. MsgOf(s) \in Range(chain[UserOf(s)])
  BY <1>1, AsksInLine
<1>3. x[2] <= b /\ b <= boots
  BY <1>1 DEF SentInLine, SentSince
<1>4. b # boots
  <2>1. CASE b = boots
    <3>1. MsgOf(x) <= MsgOf(s)
      BY <1>1, <1>2, <2>1 DEF SentInLine, SentHere
    <3>. QED BY <1>1, <3>1
  <2>. QED BY <2>1
<1>5. b # x[2]
  <2>1. CASE b = x[2]
    <3>1. Earlier(MsgOf(s), x)
      BY <1>1 DEF Earlier, UserOf
    <3>2. Ended(MsgOf(s))
      BY <1>1, <2>1, <3>1 DEF SentInLine, SentAfter
    <3>3. inbox[MsgOf(s)] \in InboxOpen
      BY <1>1, <1>2 DEF ChanInv, Rows, ChainTrue
    <3>. QED BY <3>2, <3>3 DEF Ended, InboxOpen
  <2>. QED BY <2>1
<1>. QED BY <1>1, <1>3, <1>4, <1>5

\* The order of a conversation's answers, over any number of starts: a request of an earlier message
\* goes out after one of a later message only if that was a request for a segment an earlier process
\* planned and held back, made by a process that is over too (replyDb, sendGroup's deadline,
\* runRecovery's order of the open rows).  No page's COMMIT loses its answer.
HeldBackOnly ==
    [][\A s \in Segs \ unsafe' : Posted(s) =>
          \A x \in Segs \ unsafe : UserOf(x) = UserOf(s) /\ MsgOf(x) > MsgOf(s) =>
              \A b \in Range(sent[x]) : x[2] < b /\ b < boots]_vars

THEOREM HeldBackOnlyHolds == NoLostPage => (Spec => HeldBackOnly)
<1>1. ASSUME ChanInv, OrderInv, [Next]_vars, NEW s \in Segs \ unsafe', Posted(s), NEW x \in Segs \ unsafe,
             UserOf(x) = UserOf(s), MsgOf(x) > MsgOf(s), NEW b \in Range(sent[x])
      PROVE  x[2] < b /\ b < boots
  BY <1>1, HeldBack
<1>2. ChanInv /\ OrderInv /\ [Next]_vars =>
        \A s \in Segs \ unsafe' : Posted(s) =>
          \A x \in Segs \ unsafe : UserOf(x) = UserOf(s) /\ MsgOf(x) > MsgOf(s) =>
              \A b \in Range(sent[x]) : x[2] < b /\ b < boots
  BY <1>1
<1>. QED BY <1>2, SpecInv, OrderHolds, PTL DEF Spec, HeldBackOnly

\* 03 spec invariant 12: the messages of a conversation are answered in their order, over one
\* restart (a third start may resend out of order what the second held back); no page's COMMIT
\* loses its answer.
THEOREM InOrderAnswersHolds == NoLostPage /\ MaxBoots <= 2 => (Spec => InOrderAnswers)
<1>. SUFFICES ASSUME NoLostPage, MaxBoots <= 2 PROVE Spec => InOrderAnswers
  OBVIOUS
<1>1. ASSUME ChanInv, OrderInv, [Next]_vars, NEW s \in Segs \ unsafe', Posted(s), IsReply(s),
             NEW x \in Segs \ unsafe, UserOf(x) = UserOf(s), MsgOf(x) > MsgOf(s)
      PROVE  sent[x] = <<>>
  <2>1. /\ sent[x] \in Seq(1..MaxBoots) /\ boots \in Nat /\ boots <= faults.starts /\ faults.starts <= MaxBoots
        /\ faults.starts \in Nat /\ MaxBoots \in Nat
    BY <1>1, ChannelAssumption DEF ChanInv, Sound, Typed, HistTypes, Limits
  <2>2. CASE sent[x] # <<>>
    <3>1. 1 \in DOMAIN sent[x]
      BY <2>1, <2>2
    <3>2. PICK b \in Range(sent[x]) : b = sent[x][1]
      BY <3>1 DEF Range
    <3>3. x[2] < b /\ b < boots /\ b \in Nat /\ x[2] \in 1..MaxBoots
      BY <1>1, HeldBack
    <3>. QED BY <1>1, <2>1, <3>3
  <2>. QED BY <2>2
<1>2. ChanInv /\ OrderInv /\ [Next]_vars =>
        \A s \in Segs \ unsafe' : Posted(s) /\ IsReply(s) =>
          \A x \in Segs \ unsafe : UserOf(x) = UserOf(s) /\ MsgOf(x) > MsgOf(s) => sent[x] = <<>>
  BY <1>1
<1>. QED BY <1>2, SpecInv, OrderHolds, PTL DEF Spec, InOrderAnswers
=============================================================================
