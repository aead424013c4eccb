----------------------------- MODULE JobsProofs -----------------------------
(***************************************************************************)
(* Theorems about Jobs, for any processes, rows, kinds and keys.           *)
(*                                                                         *)
(* The heart is the grant: `running' -> `sending' under the claim token is *)
(* a compare-and-set on the table, and a row that passed it never becomes  *)
(* pending or running again.  So at most one executor ever learns that its *)
(* update hit, and only that one may push.                                 *)
(***************************************************************************)
EXTENDS Jobs, SequenceTheorems, TLAPS

Table == [Rows -> [st: Status, attempts: Nat, tok: Nat]]

\* What no step may do to a row that was or may have been sent.
Keeps(t, u) ==
    \A j \in Rows : t[j].st \in PostSend =>
        /\ u[j].st \in PostSend
        /\ t[j].st \in Final => u[j] = t[j]

USE DEF Kinds, Final, OpenSt, Status, PostSend

-----------------------------------------------------------------------------
(* What the operations on the table return and preserve.                   *)

\* enqueueJob only fills an absent row.
LEMMA EnqueueRowKeeps ==
    ASSUME NEW t \in Table, NEW j \in Rows
    PROVE  EnqueueRow(t, j) \in Table /\ Keeps(t, EnqueueRow(t, j))
BY DEF EnqueueRow, Table, Keeps

\* setJobStatus from `running' never touches a row that may have been sent.
LEMMA SetStatusKeeps ==
    ASSUME NEW t \in Table, NEW j \in Rows, NEW to \in Final \cup {"pending", "sending"},
           NEW from \in {"running", "sending"}, NEW tok \in Nat, NEW delta \in Nat,
           from = "sending" => to \in Final
    PROVE  /\ SetStatus(t, j, to, from, tok, delta) \in Table
           /\ Keeps(t, SetStatus(t, j, to, from, tok, delta))
<1>1. /\ Moved(t[j], to, delta) \in [st: Status, attempts: Nat, tok: Nat]
      /\ Moved(t[j], to, delta).st = to
  <2>1. t[j] \in [st: Status, attempts: Nat, tok: Nat] /\ to \in Status
    BY DEF Table
  <2>. QED BY <2>1 DEF Moved
<1>2. CASE Hits(t, j, from, tok)
  BY <1>1, <1>2 DEF SetStatus, Hits, Table, Keeps
<1>3. CASE ~Hits(t, j, from, tok)
  BY <1>3 DEF SetStatus, Keeps
<1>. QED BY <1>2, <1>3

\* recoverJobsAtStartup abandons what may have been sent and leaves the finished alone.
LEMMA RecoverRowKeeps ==
    ASSUME NEW r \in [st: Status, attempts: Nat, tok: Nat], NEW k \in Kinds
    PROVE  /\ RecoverRow(r, k) \in [st: Status, attempts: Nat, tok: Nat]
           /\ r.st \in PostSend => RecoverRow(r, k).st \in PostSend
           /\ r.st \in Final => RecoverRow(r, k) = r
<1>. DEFINE Rec == [st: Status, attempts: Nat, tok: Nat]
<1>1. CASE r.st = "running"
  <2>1. Moved(r, "failed", 1) \in Rec /\ Moved(r, "pending", 1) \in Rec
    BY DEF Moved
  <2>2. \A s \in Rec : Released(s) \in Rec
    BY DEF Released
  <2>3. RecoverRow(r, k) \in {Released(r), Moved(r, "failed", 1),
                              Released(Moved(r, "pending", 1)), r}
    BY <1>1 DEF RecoverRow
  <2>4. RecoverRow(r, k) \in Rec
    BY <2>1, <2>2, <2>3, Zenon
  <2>. QED BY <1>1, <2>4
<1>2. CASE r.st = "sending"
  <2>1. RecoverRow(r, k) = [r EXCEPT !.st = "abandoned"] \/ RecoverRow(r, k) = r
    BY <1>2 DEF RecoverRow
  <2>. QED BY <1>2, <2>1
<1>3. CASE r.st \notin {"running", "sending"}
  BY <1>3 DEF RecoverRow
<1>. QED BY <1>1, <1>2, <1>3

LEMMA RecoverKeeps ==
    ASSUME NEW t \in Table
    PROVE  RecoverTable(t) \in Table /\ Keeps(t, RecoverTable(t))
BY RecoverRowKeeps, JobsAssumption DEF JobsAssumption, RecoverTable, Table, Keeps

\* A job op of the session's write queue keeps what may have been sent, and a `sending'
\* that hits finds the row running and leaves it sending.
LEMMA ApplyOpKeeps ==
    ASSUME NEW t \in Table, NEW j \in Rows, NEW op \in Ops, NEW u \in ApplyOp(t, j, op)
    PROVE  /\ u \in Table /\ Keeps(t, u)
           /\ op.to = "sending" /\ Hits(t, j, op.from, op.tok)
                => t[j].st = "running" /\ u[j].st = "sending"
<1>1. CASE op = EnqueueAgain
  <2>1. u = t \/ \E i \in Rows : u = EnqueueRow(t, i)
    BY <1>1 DEF ApplyOp, EnqueueAgain, StatusOp, Fresh
  <2>2. op.to = "pending"
    BY <1>1 DEF EnqueueAgain, StatusOp
  <2>3. Keeps(t, t)
    BY DEF Keeps
  <2>. QED BY <2>1, <2>2, <2>3, EnqueueRowKeeps
<1>2. CASE op # EnqueueAgain
  <2>1. /\ op.tok \in Nat
        /\ \/ op.to = "sending" /\ op.from = "running"
           \/ op.to \in Final /\ op.from = "sending"
    BY <1>2 DEF Ops
  <2>2. u = SetStatus(t, j, op.to, op.from, op.tok, 0)
    BY <2>1 DEF ApplyOp
  <2>3. u \in Table /\ Keeps(t, u)
    BY <2>1, <2>2, SetStatusKeeps
  <2>4. op.to = "sending" /\ Hits(t, j, op.from, op.tok)
          => t[j].st = "running" /\ u[j].st = "sending"
    BY <2>1, <2>2 DEF SetStatus, Hits, Moved, Table
  <2>. QED BY <2>3, <2>4
<1>. QED BY <1>1, <1>2
-----------------------------------------------------------------------------
(* The types.  A slot that waits to be settled also holds an outcome.      *)

SlotType == [phase: Phases, tok: Nat, att: Nat, out: Outcomes, delta: Nat]
Slot == {s \in SlotType :
            s.phase \in {"settling", "unsettled"} => s.out \in Final \cup {"pending"}}

TypeOf(tab, slots, queues, spills) ==
    /\ tab \in Table
    /\ slots \in [Procs -> [Rows -> Slot]]
    /\ queues \in [Procs -> [Rows -> Seq(Ops)]]
    /\ spills \in [Rows -> Seq(Ops)]

TypeRest ==
    /\ lock \in Procs \cup {NoProc}
    /\ belief \in [Procs -> {"held", "lost", "taken"}]
    /\ proc \in [Procs -> {"down", "replaying", "up", "stopping"}]
    /\ recovered \in [Procs -> BOOLEAN]
    /\ lane \in [Procs -> [Lanes -> {"idle", "ready", "running", "releasing"}]]
    /\ applied \in [Procs -> SUBSET Rows]
    /\ pushed \in [Rows -> Nat]
    /\ finished \in [Rows -> SUBSET Nat]
    /\ clock \in Nat
    /\ boots \in Nat

TInv == TypeOf(row, slot, queue, spill) /\ TypeRest

LEMMA TInvTypeOK == TInv => TypeOK
BY DEF TInv, TypeOf, TypeRest, TypeOK, Table, Slot, SlotType

\* The ways a slot changes.
LEMMA SlotMoves ==
    ASSUME NEW s \in Slot
    PROVE  /\ \A ph \in Phases \ {"settling", "unsettled"} : To(s, ph) \in Slot
           /\ s.phase = "settling" => To(s, "unsettled") \in Slot
           /\ \A o \in Final \cup {"pending"}, d \in Nat : Decided(s, o, d) \in Slot
           /\ s.tok \in Nat /\ s.att \in Nat /\ s.delta \in Nat
BY DEF Slot, SlotType, Phases, Outcomes, To, Decided

LEMMA NewSlots ==
    /\ NoSlot \in Slot
    /\ \A tok \in Nat, att \in Nat : Taken(tok, att) \in Slot
BY DEF Slot, SlotType, Phases, Outcomes, NoSlot, Taken

LEMMA SlotSet ==
    ASSUME NEW f \in [Procs -> [Rows -> Slot]], NEW p \in Procs, NEW j \in Rows, NEW s \in Slot
    PROVE  [f EXCEPT ![p][j] = s] \in [Procs -> [Rows -> Slot]]
OBVIOUS

LEMMA LaneSet ==
    ASSUME NEW f \in [Procs -> [Lanes -> {"idle", "ready", "running", "releasing"}]],
           NEW p \in Procs, NEW k \in Lanes
    PROVE  [f EXCEPT ![p][k] = "releasing"]
               \in [Procs -> [Lanes -> {"idle", "ready", "running", "releasing"}]]
OBVIOUS

LEMMA RowMoves ==
    ASSUME NEW r \in [st: Status, attempts: Nat, tok: Nat], NEW tok \in Nat
    PROVE  /\ Claimed(r, tok) \in [st: Status, attempts: Nat, tok: Nat]
           /\ Moved(r, "cancelled", 0) \in [st: Status, attempts: Nat, tok: Nat]
<1>1. Claimed(r, tok) \in [st: Status, attempts: Nat, tok: Nat]
  BY DEF Claimed
<1>2. Moved(r, "cancelled", 0) \in [st: Status, attempts: Nat, tok: Nat]
  BY DEF Moved
<1>. QED BY <1>1, <1>2

LEMMA OpsMade ==
    ASSUME NEW tok \in Nat
    PROVE  /\ StatusOp("sending", "running", tok) \in Ops
           /\ \A to \in Final : StatusOp(to, "sending", tok) \in Ops
           /\ EnqueueAgain \in Ops
BY DEF Ops, StatusOp

LEMMA QueueMoves ==
    ASSUME NEW q \in Seq(Ops), NEW op \in Ops
    PROVE  /\ Append(q, op) \in Seq(Ops)
           /\ q # <<>> => Head(q) \in Ops /\ Tail(q) \in Seq(Ops)
BY HeadTailProperties, AppendProperties

LEMMA TInvInit == Init => TInv
BY NewSlots DEF Init, TInv, TypeOf, TypeRest, Table, Idle

LEMMA TInvStep ==
    ASSUME TInv, [Next]_vars
    PROVE  TInv' /\ Keeps(row, row')
<1>. USE DEF TInv, TypeOf, TypeRest
<1>0. Keeps(row, row)
  BY DEF Keeps
<1>1. ASSUME NEW j \in Rows, Enqueue(j) PROVE TInv' /\ Keeps(row, row')
  BY <1>1, EnqueueRowKeeps DEF Enqueue
<1>2. ASSUME NEW k, CancelPending(k) PROVE TInv' /\ Keeps(row, row')
  <2>1. ASSUME NEW j \in Rows
        PROVE  /\ row[j] \in [st: Status, attempts: Nat, tok: Nat]
               /\ Moved(row[j], "cancelled", 0) \in [st: Status, attempts: Nat, tok: Nat]
    BY RowMoves DEF Table
  <2>2. row' \in Table /\ Keeps(row, row')
    BY <1>2, <2>1 DEF CancelPending, Table, Keeps
  <2>. QED BY <1>2, <2>2 DEF CancelPending
<1>3. ASSUME NEW p \in Procs, BreakLock(p) PROVE TInv' /\ Keeps(row, row')
  BY <1>3, <1>0 DEF BreakLock
<1>4. ASSUME NEW p \in Procs, NoticeLost(p) PROVE TInv' /\ Keeps(row, row')
  BY <1>4, <1>0 DEF NoticeLost
<1>5. ASSUME NEW p \in Procs, Reacquire(p) PROVE TInv' /\ Keeps(row, row')
  BY <1>5, <1>0 DEF Reacquire
<1>6. ASSUME NEW p \in Procs, Recover(p) PROVE TInv' /\ Keeps(row, row')
  BY <1>6, RecoverKeeps DEF Recover
<1>7. ASSUME NEW p \in Procs, NEW k \in Lanes, Prelude(p, k) PROVE TInv' /\ Keeps(row, row')
  BY <1>7, <1>0 DEF Prelude
<1>8. ASSUME NEW p \in Procs, NEW k \in Lanes, Claim(p, k) PROVE TInv' /\ Keeps(row, row')
  <2>. PICK S \in SUBSET {j \in OfLane(k) : row[j].st = "pending"}, known \in BOOLEAN :
            /\ row' = [j \in Rows |-> IF j \in S THEN Claimed(row[j], clock + 1) ELSE row[j]]
            /\ slot' = [slot EXCEPT ![p] = [j \in Rows |->
                          IF known /\ j \in S THEN Taken(clock + 1, row[j].attempts)
                          ELSE slot[p][j]]]
            /\ lane' = [lane EXCEPT ![p][k] = IF known THEN "running" ELSE "idle"]
    BY <1>8 DEF Claim
  <2>1. ASSUME NEW j \in Rows
        PROVE  /\ row[j] \in [st: Status, attempts: Nat, tok: Nat]
               /\ Claimed(row[j], clock + 1) \in [st: Status, attempts: Nat, tok: Nat]
               /\ Taken(clock + 1, row[j].attempts) \in Slot
    <3>1. /\ row[j] \in [st: Status, attempts: Nat, tok: Nat]
          /\ row[j].attempts \in Nat /\ clock + 1 \in Nat
      BY DEF Table
    <3>. QED BY <3>1, RowMoves, NewSlots
  <2>2. row' \in Table /\ Keeps(row, row')
    BY <2>1 DEF Table, Keeps, OfLane
  <2>3. slot' \in [Procs -> [Rows -> Slot]]
    BY <2>1
  <2>4. TypeRest'
    BY <1>8 DEF Claim
  <2>. QED BY <1>8, <2>2, <2>3, <2>4 DEF Claim
<1>9. ASSUME NEW p \in Procs, NEW k \in Lanes, ClaimNothing(p, k) PROVE TInv' /\ Keeps(row, row')
  BY <1>9, <1>0 DEF ClaimNothing
<1>10. ASSUME NEW p \in Procs, NEW k \in Lanes, LaneDone(p, k) PROVE TInv' /\ Keeps(row, row')
  BY <1>10, <1>0 DEF LaneDone
<1>11. ASSUME NEW p \in Procs, NEW j \in Rows, Start(p, j) PROVE TInv' /\ Keeps(row, row')
  <2>1. slot[p][j] \in Slot
    OBVIOUS
  <2>. DEFINE s == slot[p][j]
  <2>2. To(s, "started") \in Slot /\ Decided(s, "pending", 0) \in Slot /\ Kind[j] \in Lanes
    BY <2>1, SlotMoves DEF Phases, Lanes
  <2>3. \/ slot' = [slot EXCEPT ![p][j] = To(s, "started")] /\ lane' = lane
        \/ /\ slot' = [slot EXCEPT ![p][j] = Decided(s, "pending", 0)]
           /\ lane' = [lane EXCEPT ![p][Kind[j]] = "releasing"]
    BY <1>11 DEF Start
  <2>4. slot' \in [Procs -> [Rows -> Slot]]
    <3>1. \E x \in {To(s, "started"), Decided(s, "pending", 0)} :
             slot' = [slot EXCEPT ![p][j] = x]
      BY <2>3
    <3>. HIDE DEF s
    <3>. QED BY <2>2, <3>1, SlotSet
  <2>5. lane' \in [Procs -> [Lanes -> {"idle", "ready", "running", "releasing"}]]
    <3>1. lane' = lane \/ lane' = [lane EXCEPT ![p][Kind[j]] = "releasing"]
      BY <2>3
    <3>2. Kind[j] \in Lanes
      BY <2>2
    <3>3. lane \in [Procs -> [Lanes -> {"idle", "ready", "running", "releasing"}]]
      OBVIOUS
    <3>4. [lane EXCEPT ![p][Kind[j]] = "releasing"]
            \in [Procs -> [Lanes -> {"idle", "ready", "running", "releasing"}]]
      BY <3>2, <3>3, LaneSet
    <3>. QED BY <3>1, <3>3, <3>4
  <2>. QED BY <1>11, <1>0, <2>4, <2>5 DEF Start
<1>12. ASSUME NEW p \in Procs, NEW j \in Rows, Decide(p, j) PROVE TInv' /\ Keeps(row, row')
  BY <1>12, <1>0, SlotMoves, NewSlots DEF Decide
<1>13. ASSUME NEW p \in Procs, NEW j \in Rows, Settle(p, j) PROVE TInv' /\ Keeps(row, row')
  <2>1. slot[p][j] \in Slot
    OBVIOUS
  <2>2. slot' \in [Procs -> [Rows -> Slot]]
    <3>1. NoSlot \in Slot /\ To(slot[p][j], "unsettled") \in Slot
      BY <1>13, <2>1, SlotMoves, NewSlots DEF Settle
    <3>2. \E s \in {NoSlot, To(slot[p][j], "unsettled")} : slot' = [slot EXCEPT ![p][j] = s]
      BY <1>13 DEF Settle
    <3>. QED BY <3>1, <3>2, SlotSet
  <2>3. Settled(p, j) \in Table /\ Keeps(row, Settled(p, j))
    BY <1>13, <2>1, SetStatusKeeps, SlotMoves DEF Settle, Settled, Slot
  <2>. QED BY <1>13, <1>0, <2>2, <2>3 DEF Settle
<1>14. ASSUME NEW p \in Procs, NEW j \in Rows, RetryUnsettled(p, j) PROVE TInv' /\ Keeps(row, row')
  <2>1. slot[p][j] \in Slot
    OBVIOUS
  <2>2. slot' \in [Procs -> [Rows -> Slot]]
    BY <1>14, <2>1, SlotMoves, NewSlots, SlotSet DEF RetryUnsettled, Phases
  <2>3. Settled(p, j) \in Table /\ Keeps(row, Settled(p, j))
    BY <1>14, <2>1, SetStatusKeeps, SlotMoves DEF RetryUnsettled, Settled, Slot
  <2>. QED BY <1>14, <1>0, <2>2, <2>3 DEF RetryUnsettled
<1>15. ASSUME NEW p \in Procs, NEW j \in Rows, MarkSending(p, j) PROVE TInv' /\ Keeps(row, row')
  <2>1. slot[p][j] \in Slot
    OBVIOUS
  <2>2. slot' \in [Procs -> [Rows -> Slot]]
    BY <1>15, <2>1, SlotMoves, NewSlots, SlotSet DEF MarkSending, Phases
  <2>3. queue' \in [Procs -> [Rows -> Seq(Ops)]]
    BY <1>15, <2>1, SlotMoves, OpsMade, QueueMoves DEF MarkSending
  <2>4. TypeRest'
    BY <1>15 DEF MarkSending
  <2>. QED BY <1>15, <1>0, <2>2, <2>3, <2>4 DEF MarkSending
<1>16. ASSUME NEW p \in Procs, NEW j \in Rows, Flush(p, j) PROVE TInv' /\ Keeps(row, row')
  <2>. DEFINE op == Head(queue[p][j])
  <2>1. op \in Ops /\ Tail(queue[p][j]) \in Seq(Ops)
    BY <1>16, QueueMoves, OpsMade DEF Flush
  <2>2. row' \in Table /\ Keeps(row, row')
    BY <1>16, <2>1, ApplyOpKeeps DEF Flush
  <2>3. queue' \in [Procs -> [Rows -> Seq(Ops)]]
    BY <1>16, <2>1 DEF Flush
  <2>4. TypeRest'
    BY <1>16 DEF Flush
  <2>. QED BY <1>16, <2>2, <2>3, <2>4 DEF Flush
<1>17. ASSUME NEW p \in Procs, NEW j \in Rows, LedgerTimeout(p, j) PROVE TInv' /\ Keeps(row, row')
  <2>1. slot[p][j] \in Slot
    OBVIOUS
  <2>2. slot' \in [Procs -> [Rows -> Slot]]
    BY <1>17, <2>1, SlotMoves, NewSlots, SlotSet DEF LedgerTimeout, GiveUp, Phases
  <2>3. queue' \in [Procs -> [Rows -> Seq(Ops)]]
    BY <1>17, <2>1, SlotMoves, OpsMade, QueueMoves DEF LedgerTimeout, GiveUp
  <2>4. TypeRest'
    BY <1>17 DEF LedgerTimeout, GiveUp
  <2>. QED BY <1>17, <1>0, <2>2, <2>3, <2>4 DEF LedgerTimeout, GiveUp
<1>18. ASSUME NEW p \in Procs, NEW j \in Rows, LedgerMissed(p, j) PROVE TInv' /\ Keeps(row, row')
  BY <1>18, <1>0, SlotMoves, NewSlots DEF LedgerMissed
<1>19. ASSUME NEW p \in Procs, NEW j \in Rows, Push(p, j) PROVE TInv' /\ Keeps(row, row')
  <2>1. slot[p][j] \in Slot
    OBVIOUS
  <2>2. slot' \in [Procs -> [Rows -> Slot]]
    BY <1>19, <2>1, SlotMoves, NewSlots, SlotSet DEF Push, Phases
  <2>3. TypeRest'
    BY <1>19 DEF Push
  <2>. QED BY <1>19, <1>0, <2>2, <2>3 DEF Push
<1>20. ASSUME NEW p \in Procs, NEW j \in Rows, DropBeforePush(p, j) PROVE TInv' /\ Keeps(row, row')
  <2>1. slot[p][j] \in Slot
    OBVIOUS
  <2>2. slot' \in [Procs -> [Rows -> Slot]]
    BY <1>20, <2>1, SlotMoves, NewSlots, SlotSet DEF DropBeforePush, GiveUp, Phases
  <2>3. queue' \in [Procs -> [Rows -> Seq(Ops)]]
    BY <1>20, <2>1, SlotMoves, OpsMade, QueueMoves DEF DropBeforePush, GiveUp
  <2>4. TypeRest'
    BY <1>20 DEF DropBeforePush, GiveUp
  <2>. QED BY <1>20, <1>0, <2>2, <2>3, <2>4 DEF DropBeforePush, GiveUp
<1>21. ASSUME NEW p \in Procs, NEW j \in Rows, RecheckLinks(p, j) PROVE TInv' /\ Keeps(row, row')
  <2>1. slot[p][j] \in Slot
    OBVIOUS
  <2>2. slot' \in [Procs -> [Rows -> Slot]]
    BY <1>21, <2>1, SlotMoves, NewSlots, SlotSet DEF RecheckLinks, Phases
  <2>3. TypeRest'
    BY <1>21 DEF RecheckLinks
  <2>. QED BY <1>21, <1>0, <2>2, <2>3 DEF RecheckLinks
<1>22. ASSUME NEW p \in Procs, NEW j \in Rows, PushResult(p, j) PROVE TInv' /\ Keeps(row, row')
  <2>1. slot[p][j] \in Slot
    OBVIOUS
  <2>2. slot' \in [Procs -> [Rows -> Slot]]
    BY <1>22, <2>1, SlotMoves, NewSlots, SlotSet DEF PushResult, Phases
  <2>3. slot[p][j].tok \in Nat
    BY <2>1, SlotMoves
  <2>. DEFINE Results == {<<StatusOp("done", "sending", slot[p][j].tok)>>,
                          <<StatusOp("failed", "sending", slot[p][j].tok)>>,
                          <<StatusOp("failed", "sending", slot[p][j].tok), EnqueueAgain>>,
                          <<StatusOp("abandoned", "sending", slot[p][j].tok)>>}
  <2>4. Results \subseteq Seq(Ops)
    BY <2>3, OpsMade
  <2>5. \E ops \in Results : queue' = [queue EXCEPT ![p][j] = @ \o ops]
    BY <1>22 DEF PushResult
  <2>6. queue' \in [Procs -> [Rows -> Seq(Ops)]]
    <3>1. PICK ops \in Seq(Ops) : queue' = [queue EXCEPT ![p][j] = @ \o ops]
      BY <2>4, <2>5
    <3>2. queue[p][j] \o ops \in Seq(Ops)
      BY ConcatProperties
    <3>. QED BY <3>1, <3>2
  <2>7. TypeRest'
    BY <1>22, <2>3 DEF PushResult
  <2>. QED BY <1>22, <1>0, <2>2, <2>6, <2>7 DEF PushResult
<1>23. ASSUME NEW p \in Procs, Boot(p) PROVE TInv' /\ Keeps(row, row')
  BY <1>23, <1>0 DEF Boot
<1>24. ASSUME NEW p \in Procs, Replay(p) PROVE TInv' /\ Keeps(row, row')
  <2>1. CASE \A j \in Rows : spill[j] = <<>>
    BY <1>24, <1>0, <2>1 DEF Replay
  <2>2. CASE ~(\A j \in Rows : spill[j] = <<>>)
    <3>1. PICK j \in Rows : /\ spill[j] # <<>>
                            /\ row' \in ApplyOp(row, j, Head(spill[j]))
                            /\ spill' = [spill EXCEPT ![j] = Tail(@)]
      BY <1>24, <2>2 DEF Replay
    <3>2. Head(spill[j]) \in Ops /\ Tail(spill[j]) \in Seq(Ops)
      BY <3>1, QueueMoves, OpsMade
    <3>3. row' \in Table /\ Keeps(row, row')
      BY <3>1, <3>2, ApplyOpKeeps
    <3>4. spill' \in [Rows -> Seq(Ops)]
      BY <3>1, <3>2
    <3>5. TypeRest'
      BY <1>24, <2>2 DEF Replay
    <3>. QED BY <1>24, <2>2, <3>3, <3>4, <3>5 DEF Replay
  <2>. QED BY <2>1, <2>2
<1>25. ASSUME NEW p \in Procs, Stop(p) PROVE TInv' /\ Keeps(row, row')
  <2>. DEFINE back(j) == SetStatus(row, j, "pending", "running", slot[p][j].tok, 0)
              returned == [j \in Rows |-> IF j \in Unsent(p) THEN back(j)[j] ELSE row[j]]
  <2>1. ASSUME NEW j \in Rows
        PROVE  back(j) \in Table /\ Keeps(row, back(j))
    <3>1. slot[p][j] \in Slot /\ slot[p][j].tok \in Nat
      BY SlotMoves
    <3>. QED BY <3>1, SetStatusKeeps
  <2>2. returned \in Table /\ Keeps(row, returned)
    BY <2>1 DEF Table, Keeps
  <2>3. row' \in {row, returned}
    BY <1>25 DEF Stop
  <2>4. slot' \in [Procs -> [Rows -> Slot]]
    <3>. DEFINE kept == [j \in Rows |-> IF j \in Unsent(p) THEN NoSlot ELSE slot[p][j]]
    <3>1. slot' = slot \/ slot' = [slot EXCEPT ![p] = kept]
      BY <1>25 DEF Stop
    <3>2. kept \in [Rows -> Slot]
      BY NewSlots
    <3>. HIDE DEF kept
    <3>. QED BY <3>1, <3>2
  <2>5. TypeRest'
    BY <1>25 DEF Stop
  <2>. QED BY <1>25, <1>0, <2>2, <2>3, <2>4, <2>5 DEF Stop
<1>26. ASSUME NEW p \in Procs, Exit(p) PROVE TInv' /\ Keeps(row, row')
  <2>1. slot' \in [Procs -> [Rows -> Slot]]
    BY <1>26, NewSlots DEF Exit, Vanish
  <2>2. queue' \in [Procs -> [Rows -> Seq(Ops)]]
    BY <1>26 DEF Exit, Vanish
  <2>3. TypeRest'
    BY <1>26 DEF Exit, Vanish, Idle
  <2>4. spill' \in [Rows -> Seq(Ops)]
    BY <1>26, ConcatProperties DEF Exit
  <2>. QED BY <1>26, <1>0, <2>1, <2>2, <2>3, <2>4 DEF Exit
<1>27. ASSUME NEW p \in Procs, Crash(p) PROVE TInv' /\ Keeps(row, row')
  <2>1. slot' \in [Procs -> [Rows -> Slot]]
    BY <1>27, NewSlots DEF Crash, Vanish
  <2>2. queue' \in [Procs -> [Rows -> Seq(Ops)]]
    BY <1>27 DEF Crash, Vanish
  <2>3. TypeRest'
    BY <1>27 DEF Crash, Vanish, Idle
  <2>4. spill' \in [Rows -> Seq(Ops)]
    BY <1>27, ConcatProperties DEF Crash
  <2>. QED BY <1>27, <1>0, <2>1, <2>2, <2>3, <2>4 DEF Crash
<1>28. CASE UNCHANGED vars
  BY <1>28, <1>0 DEF vars
<1>. QED
  BY <1>1, <1>2, <1>3, <1>4, <1>5, <1>6, <1>7, <1>8, <1>9, <1>10, <1>11, <1>12, <1>13, <1>14,
     <1>15, <1>16, <1>17, <1>18, <1>19, <1>20, <1>21, <1>22, <1>23, <1>24, <1>25, <1>26, <1>27, <1>28
  DEF Next, LockNext, RunnerNext, SendNext, ProcNext

-----------------------------------------------------------------------------
(* Results.                                                                *)

\* Every variable keeps its type, and no step takes a row back from `sending' or from a
\* final status.
THEOREM TypesHold == Spec => [](TInv /\ TypeOK)
<1>1. TInv /\ [Next]_vars => TInv'
  BY TInvStep
<1>. QED BY <1>1, TInvInit, TInvTypeOK, PTL DEF Spec

\* For any processes, rows and attempts a row that was sent, or may have been, is never run
\* again (spec 02, invariant 38).
THEOREM NeverRerunHolds == Spec => NeverRerun
<1>1. TInv /\ [Next]_vars => TInv'
  BY TInvStep
<1>2. TInv /\ [Next]_vars => [\A j \in Rows : row[j].st \in PostSend =>
          /\ row'[j].st \in PostSend
          /\ row[j].st \in Final => row'[j] = row[j]]_vars
  BY TInvStep DEF Keeps
<1>. QED BY <1>1, <1>2, TInvInit, PTL DEF Spec, NeverRerun

\* The inductive invariant of the push: at most one executor holds a row's ticket, it holds
\* it in one way, nobody holds it once it was used, and either leaves its mark on the row.
Exclusive == \A p, q \in Procs, j \in Rows : Holder(p, j) /\ Holder(q, j) => p = q
OneWay == \A p \in Procs, j \in Rows : ~(j \in applied[p] /\ slot[p][j].phase = "recheck")
Unspent == \A p \in Procs, j \in Rows : Holder(p, j) => pushed[j] = 0
Marked == \A j \in Rows :
    (pushed[j] > 0 \/ \E p \in Procs : Holder(p, j)) => row[j].st \in PostSend

PushInv == Exclusive /\ OneWay /\ Unspent /\ Marked /\ AtMostOncePush

LEMMA PushInvInit == Init => PushInv
BY DEF Init, PushInv, Exclusive, OneWay, Unspent, Marked, AtMostOncePush, Holder, NoSlot

LEMMA SlotPhases ==
    ASSUME NEW s \in Slot
    PROVE  /\ \A ph \in Phases : To(s, ph).phase = ph
           /\ \A o, d : Decided(s, o, d).phase = "settling"
           /\ \A tok, att : Taken(tok, att).phase = "claimed"
           /\ NoSlot.phase = "none"
BY DEF Slot, SlotType, Phases, To, Decided, Taken, NoSlot

\* A step that hands out no ticket and pushes nothing.
Quiet ==
    /\ pushed' = pushed
    /\ \A p \in Procs, j \in Rows :
          /\ j \in applied'[p] => j \in applied[p]
          /\ slot'[p][j].phase = "recheck" => slot[p][j].phase = "recheck"

\* A step that gives the ticket of one row to one process.
Granting ==
    \E p \in Procs, j \in Rows :
        /\ row[j].st = "running" /\ row'[j].st = "sending"
        /\ \A i \in Rows \ {j} : row'[i] = row[i]
        /\ applied' = [applied EXCEPT ![p] = @ \cup {j}]
        /\ pushed' = pushed /\ slot' = slot

Pushing == \E p \in Procs, j \in Rows : Push(p, j)
Rechecking == \E p \in Procs, j \in Rows : RecheckLinks(p, j)

\* Every step is one of these.
LEMMA PushSteps ==
    ASSUME TInv, [Next]_vars
    PROVE  Quiet \/ Granting \/ Pushing \/ Rechecking
<1>0. /\ slot \in [Procs -> [Rows -> Slot]]
      /\ applied \in [Procs -> SUBSET Rows]
      /\ row \in Table
      /\ queue \in [Procs -> [Rows -> Seq(Ops)]]
  BY DEF TInv, TypeOf, TypeRest
<1>1. ASSUME NEW j \in Rows, Enqueue(j) PROVE Quiet
  BY <1>1, <1>0 DEF Enqueue, Quiet
<1>2. ASSUME NEW k, CancelPending(k) PROVE Quiet
  BY <1>2, <1>0 DEF CancelPending, Quiet
<1>3. ASSUME NEW p \in Procs, BreakLock(p) PROVE Quiet
  BY <1>3, <1>0 DEF BreakLock, Quiet
<1>4. ASSUME NEW p \in Procs, NoticeLost(p) PROVE Quiet
  BY <1>4, <1>0 DEF NoticeLost, Quiet
<1>5. ASSUME NEW p \in Procs, Reacquire(p) PROVE Quiet
  BY <1>5, <1>0 DEF Reacquire, Quiet
<1>6. ASSUME NEW p \in Procs, Recover(p) PROVE Quiet
  BY <1>6, <1>0 DEF Recover, Quiet
<1>7. ASSUME NEW p \in Procs, NEW k \in Lanes, Prelude(p, k) PROVE Quiet
  BY <1>7, <1>0 DEF Prelude, Quiet
<1>8. ASSUME NEW p \in Procs, NEW k \in Lanes, Claim(p, k) PROVE Quiet
  BY <1>8, <1>0, SlotPhases, NewSlots DEF Claim, Quiet
<1>9. ASSUME NEW p \in Procs, NEW k \in Lanes, ClaimNothing(p, k) PROVE Quiet
  BY <1>9, <1>0 DEF ClaimNothing, Quiet
<1>10. ASSUME NEW p \in Procs, NEW k \in Lanes, LaneDone(p, k) PROVE Quiet
  BY <1>10, <1>0 DEF LaneDone, Quiet
<1>11. ASSUME NEW p \in Procs, NEW j \in Rows, Start(p, j) PROVE Quiet
  <2>. DEFINE decided == Decided(slot[p][j], "pending", 0)
  <2>1. To(slot[p][j], "started").phase = "started" /\ decided.phase = "settling"
    BY <1>0, SlotPhases DEF Phases
  <2>2. \E s \in {To(slot[p][j], "started"), decided} : slot' = [slot EXCEPT ![p][j] = s]
    BY <1>11 DEF Start
  <2>3. pushed' = pushed /\ applied' = applied
    BY <1>11 DEF Start
  <2>. HIDE DEF decided
  <2>. QED BY <1>0, <2>1, <2>2, <2>3 DEF Quiet
<1>12. ASSUME NEW p \in Procs, NEW j \in Rows, Decide(p, j) PROVE Quiet
  BY <1>12, <1>0, SlotPhases, NewSlots DEF Decide, Quiet, Phases
<1>13. ASSUME NEW p \in Procs, NEW j \in Rows, Settle(p, j) PROVE Quiet
  <2>1. NoSlot.phase = "none" /\ To(slot[p][j], "unsettled").phase = "unsettled"
    BY <1>0, SlotPhases DEF Phases
  <2>2. \E s \in {NoSlot, To(slot[p][j], "unsettled")} : slot' = [slot EXCEPT ![p][j] = s]
    BY <1>13 DEF Settle
  <2>3. pushed' = pushed /\ applied' = applied
    BY <1>13 DEF Settle
  <2>. QED BY <1>0, <2>1, <2>2, <2>3 DEF Quiet
<1>14. ASSUME NEW p \in Procs, NEW j \in Rows, RetryUnsettled(p, j) PROVE Quiet
  BY <1>14, <1>0, SlotPhases, NewSlots DEF RetryUnsettled, Quiet, Phases
<1>15. ASSUME NEW p \in Procs, NEW j \in Rows, MarkSending(p, j) PROVE Quiet
  BY <1>15, <1>0, SlotPhases, NewSlots DEF MarkSending, Quiet, Phases
<1>16. ASSUME NEW p \in Procs, NEW j \in Rows, Flush(p, j) PROVE Quiet \/ Granting
  <2>. DEFINE op == Head(queue[p][j])
  <2>1. CASE op.to = "sending" /\ Hits(row, j, op.from, op.tok)
    <3>1. op \in Ops
      BY <1>16, <1>0, QueueMoves, OpsMade DEF Flush
    <3>2. row[j].st = "running" /\ row'[j].st = "sending"
      BY <1>16, <1>0, <2>1, <3>1, ApplyOpKeeps DEF Flush
    <3>3. /\ applied' = [applied EXCEPT ![p] = @ \cup {j}]
          /\ pushed' = pushed /\ slot' = slot
      BY <1>16, <2>1 DEF Flush
    <3>4. \A i \in Rows \ {j} : row'[i] = row[i]
      <4>1. row' = SetStatus(row, j, op.to, op.from, op.tok, 0)
        BY <1>16, <2>1, <3>1 DEF Flush, ApplyOp, Ops, EnqueueAgain, StatusOp
      <4>. QED BY <1>0, <4>1 DEF SetStatus, Table
    <3>. QED BY <3>2, <3>3, <3>4 DEF Granting
  <2>2. CASE ~(op.to = "sending" /\ Hits(row, j, op.from, op.tok))
    BY <1>16, <1>0, <2>2 DEF Flush, Quiet
  <2>. QED BY <2>1, <2>2
<1>17. ASSUME NEW p \in Procs, NEW j \in Rows, LedgerTimeout(p, j) PROVE Quiet
  BY <1>17, <1>0, SlotPhases, NewSlots DEF LedgerTimeout, GiveUp, Quiet
<1>18. ASSUME NEW p \in Procs, NEW j \in Rows, LedgerMissed(p, j) PROVE Quiet
  BY <1>18, <1>0, SlotPhases, NewSlots DEF LedgerMissed, Quiet, Phases
<1>19. ASSUME NEW p \in Procs, NEW j \in Rows, Push(p, j) PROVE Pushing
  BY <1>19 DEF Pushing
<1>20. ASSUME NEW p \in Procs, NEW j \in Rows, DropBeforePush(p, j) PROVE Quiet
  BY <1>20, <1>0, SlotPhases, NewSlots DEF DropBeforePush, GiveUp, Quiet
<1>21. ASSUME NEW p \in Procs, NEW j \in Rows, RecheckLinks(p, j) PROVE Rechecking
  BY <1>21 DEF Rechecking
<1>22. ASSUME NEW p \in Procs, NEW j \in Rows, PushResult(p, j) PROVE Quiet
  BY <1>22, <1>0, SlotPhases, NewSlots DEF PushResult, Quiet, Phases
<1>23. ASSUME NEW p \in Procs, Boot(p) PROVE Quiet
  BY <1>23, <1>0 DEF Boot, Quiet
<1>24. ASSUME NEW p \in Procs, Replay(p) PROVE Quiet
  BY <1>24, <1>0 DEF Replay, Quiet
<1>25. ASSUME NEW p \in Procs, Stop(p) PROVE Quiet
  <2>1. pushed' = pushed /\ applied' = applied
    BY <1>25 DEF Stop
  <2>. DEFINE kept == [j \in Rows |-> IF j \in Unsent(p) THEN NoSlot ELSE slot[p][j]]
  <2>2. slot' = slot \/ slot' = [slot EXCEPT ![p] = kept]
    BY <1>25 DEF Stop
  <2>3. ASSUME NEW q \in Procs, NEW j \in Rows
        PROVE  slot'[q][j].phase = "recheck" => slot[q][j].phase = "recheck"
    <3>1. slot'[q][j] = slot[q][j] \/ slot'[q][j] = NoSlot
      <4>1. kept[j] = NoSlot \/ kept[j] = slot[p][j]
        OBVIOUS
      <4>. HIDE DEF kept
      <4>. QED BY <1>0, <2>2, <4>1
    <3>2. NoSlot.phase = "none"
      BY DEF NoSlot
    <3>. QED BY <3>1, <3>2
  <2>. QED BY <1>0, <2>1, <2>3 DEF Quiet
<1>26. ASSUME NEW p \in Procs, Exit(p) PROVE Quiet
  BY <1>26, <1>0, SlotPhases, NewSlots DEF Exit, Vanish, Quiet
<1>27. ASSUME NEW p \in Procs, Crash(p) PROVE Quiet
  BY <1>27, <1>0, SlotPhases, NewSlots DEF Crash, Vanish, Quiet
<1>28. ASSUME UNCHANGED vars PROVE Quiet
  BY <1>28, <1>0 DEF vars, Quiet
<1>. QED
  BY <1>1, <1>2, <1>3, <1>4, <1>5, <1>6, <1>7, <1>8, <1>9, <1>10, <1>11, <1>12, <1>13, <1>14,
     <1>15, <1>16, <1>17, <1>18, <1>19, <1>20, <1>21, <1>22, <1>23, <1>24, <1>25, <1>26, <1>27, <1>28
  DEF Next, LockNext, RunnerNext, SendNext, ProcNext

-----------------------------------------------------------------------------
(* Tickets: what each kind of step does to the executors that hold one.    *)

\* What the invariant needs to know of the table and of the executors.
PushTypes ==
    /\ slot \in [Procs -> [Rows -> Slot]]
    /\ applied \in [Procs -> SUBSET Rows]
    /\ pushed \in [Rows -> Nat]
    /\ Keeps(row, row')

LEMMA PushTypesHold == ASSUME TInv, [Next]_vars PROVE PushTypes
BY TInvStep DEF TInv, TypeOf, TypeRest, PushTypes

\* A quiet step, or one that goes on checking links, hands out no ticket.
LEMMA NoNewHolder ==
    ASSUME PushTypes, Quiet \/ Rechecking
    PROVE  /\ pushed' = pushed
           /\ \A p \in Procs, j \in Rows : Holder(p, j)' => Holder(p, j)
<1>1. CASE Quiet
  BY <1>1 DEF Quiet, Holder
<1>2. ASSUME NEW p \in Procs, NEW j \in Rows, RecheckLinks(p, j)
      PROVE  /\ pushed' = pushed
             /\ \A q \in Procs, i \in Rows : Holder(q, i)' => Holder(q, i)
  <2>1. To(slot[p][j], "recheck").phase = "recheck"
    BY SlotPhases DEF Phases, PushTypes
  <2>2. j \in applied[p] /\ pushed' = pushed
    BY <1>2 DEF RecheckLinks, Granted
  <2>. QED BY <1>2, <2>1, <2>2 DEF RecheckLinks, Holder, PushTypes
<1>. QED BY <1>1, <1>2 DEF Rechecking

\* A push takes the ticket out of the hands of the only executor that held it.
LEMMA PushUses ==
    ASSUME PushTypes, PushInv, NEW p \in Procs, NEW j \in Rows, Push(p, j)
    PROVE  /\ Holder(p, j) /\ pushed[j] = 0 /\ row[j].st \in PostSend
           /\ \A q \in Procs : ~Holder(q, j)'
           /\ \A q \in Procs, i \in Rows : i # j => (Holder(q, i)' <=> Holder(q, i))
           /\ pushed'[j] = 1 /\ \A i \in Rows \ {j} : pushed'[i] = pushed[i]
<1>1. Holder(p, j) /\ row[j].st \in PostSend /\ pushed[j] = 0
  BY DEF Push, Granted, Holder, PushInv, Unspent, Marked
<1>2. To(slot[p][j], "pushed").phase = "pushed"
  BY SlotPhases DEF Phases, PushTypes
<1>3. \A q \in Procs, i \in Rows :
         Holder(q, i)' <=> Holder(q, i) /\ ~(q = p /\ i = j)
  BY <1>2 DEF Push, Holder, PushTypes
<1>4. \A q \in Procs : ~Holder(q, j)'
  BY <1>1, <1>3 DEF PushInv, Exclusive
<1>5. pushed'[j] = 1 /\ \A i \in Rows \ {j} : pushed'[i] = pushed[i]
  BY <1>1 DEF Push, PushTypes
<1>. QED BY <1>1, <1>3, <1>4, <1>5

\* A grant finds the ticket free, and gives it to one executor.
LEMMA GrantGives ==
    ASSUME PushTypes, PushInv, NEW p \in Procs, NEW j \in Rows,
           row[j].st = "running", applied' = [applied EXCEPT ![p] = @ \cup {j}],
           slot' = slot
    PROVE  /\ pushed[j] = 0 /\ \A q \in Procs : ~Holder(q, j)
           /\ \A q \in Procs, i \in Rows : Holder(q, i)' <=> Holder(q, i) \/ (q = p /\ i = j)
<1>1. row[j].st \notin PostSend /\ pushed[j] \in Nat
  BY DEF PushTypes
<1>2. ~(pushed[j] > 0 \/ \E q \in Procs : Holder(q, j))
  BY <1>1, Zenon DEF PushInv, Marked
<1>3. \A q \in Procs, i \in Rows : Holder(q, i)' <=> Holder(q, i) \/ (q = p /\ i = j)
  BY DEF Holder, PushTypes
<1>. QED BY <1>1, <1>2, <1>3

LEMMA PushInvStep ==
    ASSUME TInv, PushInv, [Next]_vars
    PROVE  PushInv'
<1>0. PushTypes
  BY PushTypesHold
<1>1. CASE Quiet
  <2>1. OneWay'
    BY <1>1 DEF Quiet, PushInv, OneWay
  <2>. QED BY <1>0, <1>1, <2>1, NoNewHolder
           DEF PushInv, Exclusive, Unspent, Marked, AtMostOncePush, Keeps, PushTypes
<1>2. CASE Rechecking
  <2>1. PICK p \in Procs, j \in Rows : RecheckLinks(p, j)
    BY <1>2 DEF Rechecking
  <2>2. To(slot[p][j], "recheck").phase = "recheck"
    BY <1>0, SlotPhases DEF Phases, PushTypes
  <2>3. OneWay'
    BY <1>0, <2>1, <2>2 DEF RecheckLinks, PushInv, OneWay, PushTypes
  <2>. QED BY <1>0, <1>2, <2>3, NoNewHolder
           DEF PushInv, Exclusive, Unspent, Marked, AtMostOncePush, Keeps, PushTypes
<1>3. CASE Granting
  <2>1. PICK p \in Procs, j \in Rows :
            /\ row[j].st = "running" /\ row'[j].st = "sending"
            /\ applied' = [applied EXCEPT ![p] = @ \cup {j}]
            /\ pushed' = pushed /\ slot' = slot
    BY <1>3 DEF Granting
  <2>2. /\ pushed[j] = 0 /\ \A q \in Procs : ~Holder(q, j)
        /\ \A q \in Procs, i \in Rows : Holder(q, i)' <=> Holder(q, i) \/ (q = p /\ i = j)
    BY <1>0, <2>1, GrantGives
  <2>3. OneWay'
    BY <1>0, <2>1, <2>2 DEF PushInv, OneWay, Holder, PushTypes
  <2>4. Marked'
    BY <1>0, <2>1, <2>2 DEF PushInv, Marked, Keeps, PushTypes
  <2>. QED BY <2>1, <2>2, <2>3, <2>4 DEF PushInv, Exclusive, Unspent, AtMostOncePush
<1>4. CASE Pushing
  <2>1. PICK p \in Procs, j \in Rows : Push(p, j)
    BY <1>4 DEF Pushing
  <2>2. /\ row[j].st \in PostSend
        /\ \A q \in Procs : ~Holder(q, j)'
        /\ \A q \in Procs, i \in Rows : i # j => (Holder(q, i)' <=> Holder(q, i))
        /\ pushed'[j] = 1 /\ \A i \in Rows \ {j} : pushed'[i] = pushed[i]
    BY <1>0, <2>1, PushUses
  <2>3. To(slot[p][j], "pushed").phase = "pushed"
    BY <1>0, SlotPhases DEF Phases, PushTypes
  <2>4. OneWay'
    BY <1>0, <2>1, <2>3 DEF Push, PushInv, OneWay, PushTypes
  <2>5. Marked'
    BY <1>0, <2>2 DEF PushInv, Marked, Keeps, PushTypes
  <2>. QED BY <2>2, <2>4, <2>5 DEF PushInv, Exclusive, Unspent, AtMostOncePush
<1>. QED BY <1>1, <1>2, <1>3, <1>4, PushSteps

\* For any number of processes, rows, claims, restarts and lock handovers the text of a
\* follow-up row is handed to the channel at most once.
THEOREM AtMostOncePushHolds == Spec => []AtMostOncePush
<1>1. TInv /\ PushInv /\ [Next]_vars => TInv' /\ PushInv'
  BY TInvStep, PushInvStep
<1>2. PushInv => AtMostOncePush
  BY DEF PushInv
<1>. QED BY <1>1, <1>2, TInvInit, PushInvInit, PTL DEF Spec
-----------------------------------------------------------------------------
(* The runner implements SendTicket.                                       *)

\* At first every ticket is free.
LEMMA TicketInit == Init => Tickets!Init
BY DEF Init, Tickets!Init, Ticket, Holder, NoSlot

\* A step without grant or push voids what was given up or can no longer be sent.
LEMMA TicketVoids ==
    ASSUME PushTypes, PushInv, Quiet \/ Rechecking
    PROVE  \E S \in SUBSET Rows : Tickets!Void(S)
<1>. DEFINE S == {j \in Rows : Ticket'[j] = "void" /\ Ticket[j] # "void"}
<1>1. ASSUME NEW j \in Rows
      PROVE  /\ j \in S => Ticket[j] \in {"free", "granted"}
             /\ j \notin S => Ticket'[j] = Ticket[j]
  <2>1. /\ pushed'[j] = pushed[j]
        /\ \A p \in Procs : Holder(p, j)' => Holder(p, j)
    BY NoNewHolder
  <2>2. row[j].st \in PostSend => row'[j].st \in PostSend
    BY DEF PushTypes, Keeps
  <2>3. (\E p \in Procs : Holder(p, j)) => row[j].st \in PostSend
    BY DEF PushInv, Marked
  <2>. QED BY <2>1, <2>2, <2>3, Zenon DEF Ticket
<1>2. S \in SUBSET Rows
  OBVIOUS
<1>3. Ticket' = [j \in Rows |-> IF j \in S THEN "void" ELSE Ticket[j]]
  <2>1. Ticket' = [j \in Rows |-> Ticket'[j]]
    BY DEF Ticket
  <2>2. \A j \in Rows : Ticket'[j] = IF j \in S THEN "void" ELSE Ticket[j]
    BY <1>1
  <2>. HIDE DEF S
  <2>. QED BY <2>1, <2>2, Zenon
<1>. QED BY <1>1, <1>2, <1>3 DEF Tickets!Void

\* The table of tickets changes in one place.
LEMMA TicketAt ==
    ASSUME NEW j \in Rows, NEW to, Ticket'[j] = to,
           \A i \in Rows \ {j} : Ticket'[i] = Ticket[i]
    PROVE  Ticket' = [Ticket EXCEPT ![j] = to]
<1>1. Ticket = [i \in Rows |-> Ticket[i]] /\ Ticket' = [i \in Rows |-> Ticket'[i]]
  BY DEF Ticket
<1>. QED BY <1>1

\* The commit that moves a row to `sending' grants its ticket.
LEMMA TicketGrants ==
    ASSUME PushTypes, PushInv, Granting
    PROVE  \E j \in Rows : Tickets!Grant(j)
<1>1. PICK p \in Procs, j \in Rows :
          /\ row[j].st = "running" /\ \A i \in Rows \ {j} : row'[i] = row[i]
          /\ applied' = [applied EXCEPT ![p] = @ \cup {j}]
          /\ pushed' = pushed /\ slot' = slot
  BY DEF Granting
<1>2. /\ pushed[j] = 0 /\ \A q \in Procs : ~Holder(q, j)
      /\ \A q \in Procs, i \in Rows : Holder(q, i)' <=> Holder(q, i) \/ (q = p /\ i = j)
  BY <1>1, GrantGives
<1>3. Ticket[j] = "free" /\ Ticket'[j] = "granted"
  <2>1. ~(pushed[j] > 0) /\ ~(pushed'[j] > 0) /\ row[j].st \notin PostSend /\ Holder(p, j)'
    BY <1>1, <1>2
  <2>. QED BY <1>2, <2>1, Zenon DEF Ticket
<1>4. ASSUME NEW i \in Rows \ {j} PROVE Ticket'[i] = Ticket[i]
  <2>1. pushed'[i] = pushed[i] /\ row'[i].st = row[i].st
    BY <1>1
  <2>2. \A q \in Procs : Holder(q, i)' <=> Holder(q, i)
    BY <1>2
  <2>. QED BY <2>1, <2>2, Zenon DEF Ticket
<1>5. Ticket' = [Ticket EXCEPT ![j] = "granted"]
  BY <1>3, <1>4, TicketAt
<1>. QED BY <1>3, <1>5 DEF Tickets!Grant

\* A push uses it.
LEMMA TicketUses ==
    ASSUME PushTypes, PushInv, Pushing
    PROVE  \E j \in Rows : Tickets!Use(j)
<1>1. PICK p \in Procs, j \in Rows : Push(p, j)
  BY DEF Pushing
<1>2. /\ Holder(p, j) /\ pushed[j] = 0
      /\ \A q \in Procs, i \in Rows : i # j => (Holder(q, i)' <=> Holder(q, i))
      /\ pushed'[j] = 1 /\ \A i \in Rows \ {j} : pushed'[i] = pushed[i]
  BY <1>1, PushUses
<1>3. Ticket[j] = "granted" /\ Ticket'[j] = "used"
  <2>1. ~(pushed[j] > 0) /\ pushed'[j] > 0
    BY <1>2
  <2>. QED BY <1>2, <2>1, Zenon DEF Ticket
<1>4. ASSUME NEW i \in Rows \ {j} PROVE Ticket'[i] = Ticket[i]
  <2>1. row' = row
    BY <1>1 DEF Push
  <2>. QED BY <1>2, <2>1, Zenon DEF Ticket
<1>5. Ticket' = [Ticket EXCEPT ![j] = "used"]
  BY <1>3, <1>4, TicketAt
<1>. QED BY <1>3, <1>5 DEF Tickets!Use

\* The table and the executors implement one ticket per row, granted once and used at most
\* once, for any number of processes, rows, claims and restarts (jobs/runner.ts, header).
THEOREM TicketSpecHolds == Spec => TicketSpec
<1>1. TInv /\ PushInv /\ [Next]_vars => TInv' /\ PushInv'
  BY TInvStep, PushInvStep
<1>2. TInv /\ PushInv /\ [Next]_vars => [Tickets!Next]_Ticket
  BY PushTypesHold, PushSteps, TicketVoids, TicketGrants, TicketUses DEF Tickets!Next
<1>. QED BY <1>1, <1>2, TInvInit, PushInvInit, TicketInit, PTL DEF Spec, TicketSpec, Tickets!Spec

-----------------------------------------------------------------------------
(***************************************************************************)
(* The claims: who may execute a row, and what a row says afterwards.      *)
(*                                                                         *)
(* The heart is the claim token.  It is new with every claim, so a hold on *)
(* a row and the row agree on the token only as long as nobody claimed the *)
(* row again; what is written under the token is the result of that claim. *)
(***************************************************************************)

HIDE DEF Kinds

\* The phases in which a claim is executed, and the rows a process has a hold on.
Held == {"claimed", "started", "ledger", "recheck", "pushed"}
Has(p, j) == slot[p][j].phase # "none"

TokensGrow ==
    /\ \A j \in Rows : row[j].tok <= clock
    /\ \A p \in Procs, j \in Rows : Has(p, j) => slot[p][j].tok \in 1..clock

\* No two processes hold one claim.
OneClaimant == \A p, q \in Procs, j \in Rows :
    Has(p, j) /\ Has(q, j) /\ slot[p][j].tok = slot[q][j].tok => p = q

\* Before its recovery a process holds nothing and claims nothing.
NothingEarly == \A p \in Procs : ~recovered[p] =>
    (\A j \in Rows : ~Has(p, j)) /\ (\A k \in Lanes : lane[p][k] = "idle")
DownIsEarly == \A p \in Procs : proc[p] \in {"down", "replaying"} => ~recovered[p]

\* A hold knows the attempts of the row as long as the claim is its own.
AttAgrees == \A p \in Procs, j \in Rows :
    Has(p, j) /\ row[j].st = "running" /\ row[j].tok = slot[p][j].tok
        => slot[p][j].att = row[j].attempts

\* What waits to be written fits the budget and was decided by the executor.
Fits(s, j) ==
    /\ s.delta \in {0, 1}
    /\ s.delta = 1 /\ s.out = "pending" => s.att + 1 < MaxAttempts
    /\ s.out = "done" => s.tok \in finished[j]
DecisionFits == \A p \in Procs, j \in Rows :
    slot[p][j].phase \in {"settling", "unsettled"} => Fits(slot[p][j], j)
Earned(s, j) == \A i \in 1..Len(s) : s[i].to = "done" => s[i].tok \in finished[j]
OpsEarned == \A j \in Rows : Earned(spill[j], j) /\ \A p \in Procs : Earned(queue[p][j], j)

ClaimInv ==
    /\ TokensGrow /\ OneClaimant /\ AttAgrees
    /\ NothingEarly /\ DownIsEarly /\ DecisionFits /\ OpsEarned
    /\ ResultsAreEarned /\ NotReclaimable

LEMMA ClaimInvInit == Init => ClaimInv
<1> SUFFICES ASSUME Init PROVE ClaimInv
  OBVIOUS
<1>1. /\ \A p \in Procs, j \in Rows : slot[p][j] = NoSlot /\ queue[p][j] = <<>>
      /\ \A j \in Rows : row[j].st = "absent" /\ row[j].attempts = 0 /\ row[j].tok = 0 /\ spill[j] = <<>>
      /\ NoSlot.phase = "none" /\ clock = 0
  BY DEF Init, NoSlot
<1>2. TokensGrow /\ OneClaimant /\ AttAgrees /\ DecisionFits /\ NotReclaimable
  BY <1>1 DEF TokensGrow, OneClaimant, AttAgrees, DecisionFits, NotReclaimable, Has
<1>3. NothingEarly /\ DownIsEarly
  BY <1>1 DEF NothingEarly, DownIsEarly, Has, Init, Idle
<1>4. OpsEarned
  BY <1>1 DEF OpsEarned, Earned
<1>5. ResultsAreEarned
  BY <1>1, JobsAssumption DEF ResultsAreEarned, DoneIsEarned, AttemptsWithinBudget, JobsAssumption
<1>. QED BY <1>2, <1>3, <1>4, <1>5 DEF ClaimInv

-----------------------------------------------------------------------------
(* What a step that is not a claim does to the table and the holds.        *)

KeepsHolds ==
    /\ clock' = clock
    /\ \A p \in Procs, j \in Rows : Has(p, j)' =>
          /\ Has(p, j)
          /\ slot'[p][j].tok = slot[p][j].tok /\ slot'[p][j].att = slot[p][j].att
          /\ slot'[p][j].phase \in Held => slot[p][j].phase \in Held
          /\ proc'[p] = "up" => proc[p] = "up"

\* Open to a new claim without a token; given back by the process that holds
\* it; or never to be run again.
Freed(j) == row'[j].st = "pending" /\ row'[j].tok = 0 /\ row'[j].attempts < MaxAttempts
Returned(j) ==
    /\ row[j].st = "running" /\ row'[j].st = "pending"
    /\ row'[j].tok = row[j].tok /\ row'[j].attempts < MaxAttempts
    /\ \E p \in Procs : /\ Has(p, j) /\ slot[p][j].tok = row[j].tok
                        /\ ~(slot'[p][j].phase \in Held /\ proc'[p] = "up")
Ended(j) ==
    /\ row'[j].st \in PostSend
    /\ row'[j].tok = row[j].tok /\ row'[j].attempts <= MaxAttempts
    /\ row'[j].st = "done" => row[j].tok \in finished'[j]
RowStep(j) == row'[j] = row[j] \/ Freed(j) \/ Returned(j) \/ Ended(j)

Calm ==
    /\ KeepsHolds /\ \A j \in Rows : RowStep(j)
    /\ \A j \in Rows : finished[j] \subseteq finished'[j]

\* What is a number, now and in the next state.
NumberTypes ==
    /\ \A j \in Rows : row[j].tok \in Nat /\ row[j].attempts \in Nat
    /\ \A p \in Procs, j \in Rows : slot[p][j].tok \in Nat
    /\ clock \in Nat

LEMMA Numbers == ASSUME TInv PROVE NumberTypes
<1>1. row \in Table /\ slot \in [Procs -> [Rows -> Slot]] /\ clock \in Nat
  BY DEF TInv, TypeOf, TypeRest
<1>2. \A p \in Procs, j \in Rows : slot[p][j].tok \in Nat
  BY <1>1 DEF Slot, SlotType
<1>. QED BY <1>1, <1>2 DEF Table, NumberTypes

LEMMA NextNumbers == ASSUME TInv' PROVE NumberTypes'
<1>1. row' \in Table /\ slot' \in [Procs -> [Rows -> Slot]] /\ clock' \in Nat
  BY DEF TInv, TypeOf, TypeRest
<1>2. \A p \in Procs, j \in Rows : slot'[p][j].tok \in Nat
  BY <1>1 DEF Slot, SlotType
<1>. QED BY <1>1, <1>2 DEF Table, NumberTypes

LEMMA CalmKeeps ==
    ASSUME TInv, TInv', ClaimInv, Calm
    PROVE  TokensGrow' /\ OneClaimant' /\ AttAgrees' /\ ResultsAreEarned' /\ NotReclaimable'
<1>0. /\ \A j \in Rows : row[j].tok \in Nat /\ row[j].attempts \in Nat /\ row'[j].tok \in Nat /\ row'[j].attempts \in Nat
      /\ \A p \in Procs, j \in Rows : slot[p][j].tok \in Nat /\ slot'[p][j].tok \in Nat
      /\ clock \in Nat /\ MaxAttempts \in Nat
  BY Numbers, NextNumbers, JobsAssumption DEF NumberTypes, JobsAssumption
<1>1. TokensGrow'
  <2>1. \A j \in Rows : row'[j].tok <= clock
    BY <1>0 DEF Calm, RowStep, Freed, Returned, Ended, ClaimInv, TokensGrow
  <2>2. \A p \in Procs, j \in Rows : Has(p, j)' => slot'[p][j].tok \in 1..clock
    BY <1>0 DEF Calm, KeepsHolds, ClaimInv, TokensGrow
  <2>. QED BY <2>1, <2>2 DEF TokensGrow, Calm, KeepsHolds
<1>2. OneClaimant'
  BY DEF OneClaimant, Calm, KeepsHolds, ClaimInv
<1>3. AttAgrees'
  <2> SUFFICES ASSUME NEW p \in Procs, NEW j \in Rows, Has(p, j)',
                      row'[j].st = "running", row'[j].tok = slot'[p][j].tok
               PROVE  slot'[p][j].att = row'[j].attempts
    BY DEF AttAgrees
  <2>1. row'[j] = row[j]
    BY DEF Calm, RowStep, Freed, Returned, Ended
  <2>2. Has(p, j) /\ slot'[p][j].tok = slot[p][j].tok /\ slot'[p][j].att = slot[p][j].att
    BY DEF Calm, KeepsHolds
  <2>. QED BY <2>1, <2>2 DEF ClaimInv, AttAgrees
<1>4. ResultsAreEarned'
  <2> SUFFICES ASSUME NEW j \in Rows
               PROVE  /\ row'[j].st = "done" => row'[j].tok \in finished'[j]
                      /\ row'[j].attempts <= MaxAttempts
                      /\ row'[j].st \in {"pending", "running"} => row'[j].attempts < MaxAttempts
    BY DEF ResultsAreEarned, DoneIsEarned, AttemptsWithinBudget
  <2>1. /\ row[j].st = "done" => row[j].tok \in finished[j]
        /\ row[j].attempts <= MaxAttempts
        /\ row[j].st \in {"pending", "running"} => row[j].attempts < MaxAttempts
    BY DEF ClaimInv, ResultsAreEarned, DoneIsEarned, AttemptsWithinBudget
  <2>2. RowStep(j) /\ finished[j] \subseteq finished'[j]
    BY DEF Calm
  <2>. QED BY <1>0, <2>1, <2>2 DEF RowStep, Freed, Returned, Ended
<1>5. NotReclaimable'
  <2> SUFFICES ASSUME NEW p \in Procs, NEW j \in Rows, proc'[p] = "up",
                      slot'[p][j].phase \in Held, row'[j].tok = slot'[p][j].tok,
                      row'[j].st = "pending"
               PROVE  FALSE
    BY DEF NotReclaimable, Held
  <2>1. /\ Has(p, j) /\ slot'[p][j].tok = slot[p][j].tok
        /\ slot[p][j].phase \in Held /\ proc[p] = "up"
    BY DEF Calm, KeepsHolds, Has, Held
  <2>2. row'[j] # row[j]
    BY <2>1 DEF ClaimInv, NotReclaimable, Held
  <2>3. slot[p][j].tok >= 1
    BY <1>0, <2>1 DEF ClaimInv, TokensGrow
  <2>4. ~Returned(j)
    BY <2>1 DEF Returned, ClaimInv, OneClaimant
  <2>. QED BY <1>0, <2>1, <2>2, <2>3, <2>4 DEF Calm, RowStep, Freed, Ended
<1>. QED BY <1>1, <1>2, <1>3, <1>4, <1>5

-----------------------------------------------------------------------------
(* The steps that are not claims are calm.                                 *)

\* setJobStatus changes one row, if it hits.
LEMMA SetStatusMoves ==
    ASSUME NEW t \in Table, NEW j \in Rows, NEW to, NEW from, NEW tok, NEW delta, NEW i \in Rows
    PROVE  \/ SetStatus(t, j, to, from, tok, delta)[i] = t[i]
           \/ /\ i = j /\ t[j].st = from /\ t[j].tok = tok
              /\ SetStatus(t, j, to, from, tok, delta)[j].st = to
              /\ SetStatus(t, j, to, from, tok, delta)[j].tok = tok
              /\ SetStatus(t, j, to, from, tok, delta)[j].attempts = t[j].attempts + delta
BY DEF SetStatus, Hits, Moved, Table

\* recoverJobsAtStartup leaves no row running, and takes the token of what it
\* opens to a new claim.
LEMMA RecoverMoves ==
    ASSUME NEW t \in Table, NEW j \in Rows,
           t[j].attempts <= MaxAttempts, t[j].st = "running" => t[j].attempts < MaxAttempts
    PROVE  LET r == t[j] u == RecoverTable(t)[j] IN
           \/ u = r
           \/ u.st = "pending" /\ u.tok = 0 /\ u.attempts < MaxAttempts
           \/ u.st \in {"abandoned", "failed"} /\ u.tok = r.tok /\ u.attempts <= MaxAttempts
<1>. DEFINE r == t[j]
<1>1. r \in [st: Status, attempts: Nat, tok: Nat] /\ MaxAttempts \in Nat
  BY JobsAssumption DEF Table, JobsAssumption
<1>2. RecoverTable(t)[j] = RecoverRow(r, Kind[j])
  BY DEF RecoverTable
<1>3. \/ RecoverRow(r, Kind[j]) = r
      \/ RecoverRow(r, Kind[j]) = Released(r) /\ r.st = "running"
      \/ RecoverRow(r, Kind[j]) = [r EXCEPT !.st = "abandoned"]
      \/ RecoverRow(r, Kind[j]) = Moved(r, "failed", 1) /\ r.st = "running"
      \/ /\ RecoverRow(r, Kind[j]) = Released(Moved(r, "pending", 1))
         /\ r.st = "running" /\ ~(r.attempts + 1 >= MaxAttempts)
  <2>1. CASE r.st = "running" /\ Kind[j] \in {"followup", "ops_daily_digest"}
    BY <2>1 DEF RecoverRow
  <2>2. CASE r.st = "sending"
    BY <2>2 DEF RecoverRow
  <2>3. CASE r.st = "running" /\ Kind[j] = "handoff_notify"
    BY <2>3 DEF RecoverRow
  <2>4. CASE r.st \notin {"running", "sending"}
    BY <2>4 DEF RecoverRow
  <2>. QED BY <2>1, <2>2, <2>3, <2>4, JobsAssumption DEF JobsAssumption, Kinds
<1>. HIDE DEF r
<1>5. CASE RecoverRow(r, Kind[j]) = Released(r) /\ r.st = "running"
  BY <1>1, <1>2, <1>5 DEF Released, r
<1>6. CASE RecoverRow(r, Kind[j]) = [r EXCEPT !.st = "abandoned"]
  BY <1>1, <1>2, <1>6 DEF r
<1>7. CASE RecoverRow(r, Kind[j]) = Moved(r, "failed", 1) /\ r.st = "running"
  BY <1>1, <1>2, <1>7 DEF Moved, r
<1>8. CASE /\ RecoverRow(r, Kind[j]) = Released(Moved(r, "pending", 1))
           /\ r.st = "running" /\ ~(r.attempts + 1 >= MaxAttempts)
  BY <1>1, <1>2, <1>8 DEF Moved, Released, r
<1>. QED BY <1>2, <1>3, <1>5, <1>6, <1>7, <1>8 DEF r

\* A job op opens an absent row, or writes what may not be run again.
LEMMA ApplyOpMoves ==
    ASSUME NEW t \in Table, NEW j \in Rows, NEW op \in Ops, NEW u \in ApplyOp(t, j, op), NEW i \in Rows
    PROVE  \/ u[i] = t[i]
           \/ u[i].st = "pending" /\ u[i].tok = 0 /\ u[i].attempts = 0
           \/ /\ u[i].st \in PostSend /\ u[i].tok = t[i].tok /\ u[i].attempts = t[i].attempts
              /\ i = j /\ u[i].st = op.to /\ op.tok = t[i].tok
<1>1. CASE op = EnqueueAgain
  <2>1. u = t \/ \E h \in Rows : u = EnqueueRow(t, h)
    BY <1>1 DEF ApplyOp, EnqueueAgain, StatusOp, Fresh
  <2>. QED BY <2>1 DEF EnqueueRow, Table
<1>2. CASE op # EnqueueAgain
  <2>1. /\ op.tok \in Nat /\ op.to \in PostSend
        /\ op.from # "absent"
    BY <1>2 DEF Ops
  <2>2. u = SetStatus(t, j, op.to, op.from, op.tok, 0)
    BY <2>1 DEF ApplyOp
  <2>3. t[j].attempts + 0 = t[j].attempts
    BY DEF Table
  <2>. QED BY <2>1, <2>2, <2>3, SetStatusMoves
<1>. QED BY <1>1, <1>2

\* One hold moves, and none is new.
LEMMA HoldMoves ==
    ASSUME NEW p \in Procs, NEW j \in Rows, NEW s \in Slot, slot \in [Procs -> [Rows -> Slot]],
           slot' = [slot EXCEPT ![p][j] = s], clock' = clock, proc' = proc, Has(p, j),
           s.phase # "none" => s.tok = slot[p][j].tok /\ s.att = slot[p][j].att,
           s.phase \in Held => slot[p][j].phase \in Held
    PROVE  KeepsHolds
BY DEF KeepsHolds, Has

LEMMA HoldsStay == ASSUME slot' = slot, clock' = clock, \A p \in Procs : proc'[p] = "up" => proc[p] = "up" \/ \A j \in Rows : ~Has(p, j) PROVE KeepsHolds
BY DEF KeepsHolds, Has

LEMMA RowsStay == ASSUME row' = row PROVE \A j \in Rows : RowStep(j)
BY DEF RowStep

\* What the steps need to know of the state.
CalmTypes ==
    /\ row \in Table /\ slot \in [Procs -> [Rows -> Slot]]
    /\ queue \in [Procs -> [Rows -> Seq(Ops)]] /\ spill \in [Rows -> Seq(Ops)]
    /\ finished \in [Rows -> SUBSET Nat] /\ proc \in [Procs -> {"down", "replaying", "up", "stopping"}]
    /\ \A j \in Rows :
        /\ row[j].tok \in Nat /\ row[j].attempts \in Nat /\ row[j].attempts <= MaxAttempts
        /\ row[j].st \in {"pending", "running"} => row[j].attempts < MaxAttempts
    /\ MaxAttempts \in Nat \ {0}

LEMMA CalmTypesHold == ASSUME TInv, ClaimInv PROVE CalmTypes
<1>1. NumberTypes
  BY Numbers
<1>. QED BY <1>1, JobsAssumption
         DEF TInv, TypeOf, TypeRest, CalmTypes, NumberTypes, ClaimInv, ResultsAreEarned,
             AttemptsWithinBudget, JobsAssumption

LEMMA SlotFields ==
    ASSUME NEW s \in Slot
    PROVE  /\ \A ph \in Phases : To(s, ph).phase = ph /\ To(s, ph).tok = s.tok /\ To(s, ph).att = s.att
                                /\ To(s, ph).out = s.out /\ To(s, ph).delta = s.delta
           /\ \A o, d : LET u == Decided(s, o, d) IN
                  /\ u.phase = "settling" /\ u.tok = s.tok /\ u.att = s.att
                  /\ u.out = o /\ u.delta = d
           /\ NoSlot.phase = "none"
BY DEF Slot, SlotType, Phases, To, Decided, NoSlot

\* settle writes what was decided of the claim, within the budget.
LEMMA SettledStep ==
    ASSUME CalmTypes, ClaimInv, NEW p \in Procs, NEW j \in Rows,
           slot[p][j].phase \in {"settling", "unsettled"}, slot'[p][j].phase \notin Held,
           row' = Settled(p, j), finished' = finished
    PROVE  \A i \in Rows : RowStep(i)
<1>. DEFINE s == slot[p][j]
<1>1. /\ s.out \in Final \cup {"pending"} /\ s.tok \in Nat /\ s.att \in Nat
      /\ s.delta \in {0, 1}
      /\ s.delta = 1 /\ s.out = "pending" => s.att + 1 < MaxAttempts
      /\ s.out = "done" => s.tok \in finished[j]
  BY DEF CalmTypes, Slot, SlotType, ClaimInv, DecisionFits, Fits
<1>2. Has(p, j)
  BY DEF Has
<1>3. row \in Table /\ row' = SetStatus(row, j, s.out, "running", s.tok, s.delta)
  BY DEF CalmTypes, Settled
<1>4. ASSUME NEW i \in Rows PROVE RowStep(i)
  <2>1. CASE row'[i] = row[i]
    BY <2>1 DEF RowStep
  <2>2. CASE /\ i = j /\ row[j].st = "running" /\ row[j].tok = s.tok
             /\ row'[j].st = s.out /\ row'[j].tok = s.tok
             /\ row'[j].attempts = row[j].attempts + s.delta
    <3>1. s.att = row[j].attempts
      BY <1>2, <2>2 DEF ClaimInv, AttAgrees
    <3>2. row[j].attempts < MaxAttempts /\ row[j].attempts \in Nat /\ MaxAttempts \in Nat
      BY <2>2 DEF CalmTypes
    <3>3. CASE s.out = "pending"
      BY <1>1, <1>2, <2>2, <3>1, <3>2, <3>3 DEF RowStep, Returned
    <3>4. CASE s.out \in Final
      BY <1>1, <2>2, <3>2, <3>4 DEF RowStep, Ended
    <3>. QED BY <1>1, <3>3, <3>4
  <2>. HIDE DEF s
  <2>. QED BY <1>3, <2>1, <2>2, SetStatusMoves
<1>. QED BY <1>4

\* A job op that was decided by an executor is committed as a calm step.
LEMMA OpsStep ==
    ASSUME CalmTypes, NEW j \in Rows, NEW q \in Seq(Ops), q # <<>>, Earned(q, j), Head(q) \in Ops,
           row' \in ApplyOp(row, j, Head(q)), finished' = finished
    PROVE  \A i \in Rows : RowStep(i)
<1>1. Len(q) \in Nat \ {0} /\ Head(q) = q[1]
  BY EmptySeq
<1>2. Head(q).to = "done" => Head(q).tok \in finished[j]
  BY <1>1 DEF Earned
<1>3. ASSUME NEW i \in Rows PROVE RowStep(i)
  <2>1. \/ row'[i] = row[i]
        \/ row'[i].st = "pending" /\ row'[i].tok = 0 /\ row'[i].attempts = 0
        \/ /\ row'[i].st \in PostSend /\ row'[i].tok = row[i].tok /\ row'[i].attempts = row[i].attempts
           /\ i = j /\ row'[i].st = Head(q).to /\ Head(q).tok = row[i].tok
    BY ApplyOpMoves DEF CalmTypes
  <2>. QED BY <1>2, <2>1 DEF CalmTypes, RowStep, Freed, Ended
<1>. QED BY <1>3

LEMMA CalmSteps ==
    ASSUME TInv, ClaimInv, [Next]_vars
    PROVE  Calm \/ \E p \in Procs, k \in Lanes : Claim(p, k)
<1>0. CalmTypes
  BY CalmTypesHold
<1>a. ASSUME slot' = slot, clock' = clock, finished' = finished,
             \A p \in Procs : proc'[p] = "up" => proc[p] = "up" \/ \A j \in Rows : ~Has(p, j),
             \A j \in Rows : RowStep(j)
      PROVE  Calm
  BY <1>a, HoldsStay DEF Calm
<1>1. ASSUME NEW j \in Rows, Enqueue(j) PROVE Calm
  <2>1. \A i \in Rows : RowStep(i)
    BY <1>0, <1>1 DEF Enqueue, EnqueueRow, CalmTypes, Table, RowStep, Freed
  <2>. QED BY <1>1, <1>a, <2>1 DEF Enqueue
<1>2. ASSUME NEW k, CancelPending(k) PROVE Calm
  <2>1. ASSUME NEW i \in Rows PROVE RowStep(i)
    <3>1. CASE Key[i] = k /\ row[i].st = "pending"
      <4>1. row'[i] = Moved(row[i], "cancelled", 0)
        BY <1>0, <1>2, <3>1 DEF CancelPending, CalmTypes
      <4>2. row'[i].st = "cancelled" /\ row'[i].tok = row[i].tok /\ row'[i].attempts = row[i].attempts
        BY <1>0, <4>1 DEF Moved, CalmTypes
      <4>. QED BY <1>0, <4>2 DEF RowStep, Ended, CalmTypes
    <3>2. CASE ~(Key[i] = k /\ row[i].st = "pending")
      BY <1>0, <1>2, <3>2 DEF CancelPending, RowStep, CalmTypes
    <3>. QED BY <3>1, <3>2
  <2>. QED BY <1>2, <1>a, <2>1 DEF CancelPending
<1>3. ASSUME NEW p \in Procs, BreakLock(p) PROVE Calm
  BY <1>3, <1>a, RowsStay DEF BreakLock
<1>4. ASSUME NEW p \in Procs, NoticeLost(p) PROVE Calm
  BY <1>4, <1>a, RowsStay DEF NoticeLost
<1>5. ASSUME NEW p \in Procs, Reacquire(p) PROVE Calm
  BY <1>5, <1>a, RowsStay DEF Reacquire
<1>6. ASSUME NEW p \in Procs, Recover(p) PROVE Calm
  <2>1. ASSUME NEW i \in Rows PROVE RowStep(i)
    BY <1>0, <1>6, RecoverMoves DEF Recover, CalmTypes, RowStep, Freed, Ended
  <2>. QED BY <1>6, <1>a, <2>1 DEF Recover
<1>7. ASSUME NEW p \in Procs, NEW k \in Lanes, Prelude(p, k) PROVE Calm
  BY <1>7, <1>a, RowsStay DEF Prelude
<1>9. ASSUME NEW p \in Procs, NEW k \in Lanes, ClaimNothing(p, k) PROVE Calm
  BY <1>9, <1>a, RowsStay DEF ClaimNothing
<1>10. ASSUME NEW p \in Procs, NEW k \in Lanes, LaneDone(p, k) PROVE Calm
  BY <1>10, <1>a, RowsStay DEF LaneDone
<1>b. ASSUME NEW p \in Procs, NEW j \in Rows, NEW s \in Slot,
             slot' = [slot EXCEPT ![p][j] = s], clock' = clock, proc' = proc, Has(p, j),
             s.phase # "none" => s.tok = slot[p][j].tok /\ s.att = slot[p][j].att,
             s.phase \in Held => slot[p][j].phase \in Held,
             \A i \in Rows : RowStep(i) /\ finished[i] \subseteq finished'[i]
      PROVE  Calm
  BY <1>0, <1>b, HoldMoves DEF CalmTypes, Calm
<1>c. ASSUME NEW p \in Procs, NEW j \in Rows
      PROVE  /\ slot[p][j] \in Slot /\ NoSlot \in Slot
             /\ \A ph \in Phases \ {"settling", "unsettled"} : To(slot[p][j], ph) \in Slot
             /\ slot[p][j].phase = "settling" => To(slot[p][j], "unsettled") \in Slot
             /\ \A o \in Final \cup {"pending"}, d \in Nat : Decided(slot[p][j], o, d) \in Slot
  BY <1>0, SlotMoves, NewSlots DEF CalmTypes
<1>11. ASSUME NEW p \in Procs, NEW j \in Rows, Start(p, j) PROVE Calm
  <2>. DEFINE s == slot[p][j]
  <2>1. \/ slot' = [slot EXCEPT ![p][j] = To(s, "started")]
        \/ slot' = [slot EXCEPT ![p][j] = Decided(s, "pending", 0)]
    BY <1>11 DEF Start
  <2>2. s.phase = "claimed"
    BY <1>11 DEF Start
  <2>3. \A i \in Rows : RowStep(i) /\ finished[i] \subseteq finished'[i]
    BY <1>11, RowsStay DEF Start
  <2>4. clock' = clock /\ proc' = proc
    BY <1>11 DEF Start
  <2>5. To(s, "started") \in Slot /\ Decided(s, "pending", 0) \in Slot /\ s \in Slot
    BY <1>c DEF Phases
  <2>6. /\ To(s, "started").tok = s.tok /\ To(s, "started").att = s.att
        /\ Decided(s, "pending", 0).tok = s.tok /\ Decided(s, "pending", 0).att = s.att
        /\ Decided(s, "pending", 0).phase = "settling"
    BY <2>5, SlotFields DEF Phases
  <2>7. Has(p, j) /\ s.phase \in Held
    BY <2>2 DEF Has, Held
  <2>8. CASE slot' = [slot EXCEPT ![p][j] = To(s, "started")]
    BY <1>b, <2>3, <2>4, <2>5, <2>6, <2>7, <2>8
  <2>9. CASE slot' = [slot EXCEPT ![p][j] = Decided(s, "pending", 0)]
    BY <1>b, <2>3, <2>4, <2>5, <2>6, <2>7, <2>9 DEF Held
  <2>. QED BY <2>1, <2>8, <2>9
<1>12. ASSUME NEW p \in Procs, NEW j \in Rows, Decide(p, j) PROVE Calm
  <2>. DEFINE s == slot[p][j]
  <2>1. PICK o \in Final \cup {"pending"}, d \in {0, 1} :
          /\ slot' = [slot EXCEPT ![p][j] = Decided(s, o, d)]
          /\ finished' = IF o \in Final THEN [finished EXCEPT ![j] = @ \cup {s.tok}] ELSE finished
    <3>1. PICK o \in {<<IF Kind[j] = "followup" THEN "cancelled" ELSE "done", 0>>, <<"pending", 0>>,
                       <<IF s.att + 1 >= MaxAttempts THEN "failed" ELSE "pending", 1>>} :
            /\ slot' = [slot EXCEPT ![p][j] = Decided(@, o[1], o[2])]
            /\ finished' = IF o[1] \in Final THEN [finished EXCEPT ![j] = @ \cup {s.tok}] ELSE finished
      BY <1>12 DEF Decide
    <3>2. o[1] \in Final \cup {"pending"} /\ o[2] \in {0, 1}
      OBVIOUS
    <3>3. slot' = [slot EXCEPT ![p][j] = Decided(s, o[1], o[2])]
      BY <3>1
    <3>. HIDE DEF s
    <3>. QED BY <3>1, <3>2, <3>3
  <2>2. \A i \in Rows : RowStep(i) /\ finished[i] \subseteq finished'[i]
    BY <1>0, <1>12, <2>1, RowsStay DEF Decide, CalmTypes
  <2>3. clock' = clock /\ proc' = proc /\ Has(p, j) /\ s.phase = "started"
    BY <1>12 DEF Decide, Has
  <2>4. Decided(s, o, d) \in Slot /\ s \in Slot
    BY <1>c
  <2>5. /\ Decided(s, o, d).tok = s.tok /\ Decided(s, o, d).att = s.att
        /\ Decided(s, o, d).phase = "settling"
    BY <2>4, SlotFields
  <2>. QED BY <1>b, <2>1, <2>2, <2>3, <2>4, <2>5 DEF Held
<1>13. ASSUME NEW p \in Procs, NEW j \in Rows, Settle(p, j) PROVE Calm
  <2>1. PICK s \in {NoSlot, To(slot[p][j], "unsettled")} : slot' = [slot EXCEPT ![p][j] = s]
    BY <1>13 DEF Settle
  <2>2. /\ slot[p][j].phase = "settling" /\ clock' = clock /\ proc' = proc /\ finished' = finished
        /\ row' \in {row, Settled(p, j)}
    BY <1>13 DEF Settle
  <2>3. s \in Slot /\ slot[p][j] \in Slot
    BY <1>c, <2>2
  <2>4. s.phase \in {"none", "unsettled"} /\ (s.phase # "none" => s.tok = slot[p][j].tok /\ s.att = slot[p][j].att)
    BY <2>3, SlotFields DEF Phases
  <2>5. slot'[p][j].phase \notin Held
    BY <1>0, <2>1, <2>4 DEF CalmTypes, Held
  <2>6. \A i \in Rows : RowStep(i)
    BY <1>0, <2>2, <2>5, RowsStay, SettledStep
  <2>. QED BY <1>b, <2>1, <2>2, <2>3, <2>4, <2>6 DEF Has, Held
<1>14. ASSUME NEW p \in Procs, NEW j \in Rows, RetryUnsettled(p, j) PROVE Calm
  <2>1. slot' = [slot EXCEPT ![p][j] = NoSlot]
    BY <1>14 DEF RetryUnsettled
  <2>2. /\ slot[p][j].phase = "unsettled" /\ clock' = clock /\ proc' = proc /\ finished' = finished
        /\ row' \in {row, Settled(p, j)}
    BY <1>14 DEF RetryUnsettled
  <2>3. NoSlot \in Slot /\ NoSlot.phase = "none"
    BY <1>c, SlotFields
  <2>5. slot'[p][j].phase \notin Held
    BY <1>0, <2>1, <2>3 DEF CalmTypes, Held
  <2>6. \A i \in Rows : RowStep(i)
    BY <1>0, <2>2, <2>5, RowsStay, SettledStep
  <2>. QED BY <1>b, <2>1, <2>2, <2>3, <2>6 DEF Has, Held
<1>15. ASSUME NEW p \in Procs, NEW j \in Rows, MarkSending(p, j) PROVE Calm
  <2>1. /\ slot' = [slot EXCEPT ![p][j] = To(slot[p][j], "ledger")]
        /\ slot[p][j].phase \in Held /\ clock' = clock /\ proc' = proc /\ row' = row
    BY <1>15 DEF MarkSending, Granted, Held
  <2>2. \A i \in Rows : RowStep(i) /\ finished[i] \subseteq finished'[i]
    BY <1>0, <1>15, <2>1, RowsStay DEF MarkSending, CalmTypes
  <2>3. To(slot[p][j], "ledger") \in Slot /\ slot[p][j] \in Slot
    BY <1>c DEF Phases
  <2>4. To(slot[p][j], "ledger").tok = slot[p][j].tok /\ To(slot[p][j], "ledger").att = slot[p][j].att
    BY <2>3, SlotFields DEF Phases
  <2>. QED BY <1>b, <2>1, <2>2, <2>3, <2>4 DEF Has, Held
<1>16. ASSUME NEW p \in Procs, NEW j \in Rows, Flush(p, j) PROVE Calm
  <2>. DEFINE op == Head(queue[p][j])
  <2>1. op \in Ops /\ Earned(queue[p][j], j) /\ queue[p][j] \in Seq(Ops) /\ queue[p][j] # <<>>
    BY <1>0, <1>16, QueueMoves, OpsMade DEF Flush, CalmTypes, ClaimInv, OpsEarned
  <2>2. row' \in ApplyOp(row, j, op) /\ finished' = finished
    BY <1>16 DEF Flush
  <2>. QED BY <1>a, <1>0, <1>16, <2>1, <2>2, OpsStep DEF Flush, CalmTypes
<1>17. ASSUME NEW p \in Procs, NEW j \in Rows, LedgerTimeout(p, j) PROVE Calm
  <2>1. /\ slot' = [slot EXCEPT ![p][j] = NoSlot]
        /\ slot[p][j].phase \in Held /\ clock' = clock /\ proc' = proc /\ row' = row
    BY <1>17 DEF LedgerTimeout, GiveUp, Granted, Held
  <2>2. \A i \in Rows : RowStep(i) /\ finished[i] \subseteq finished'[i]
    BY <1>0, <1>17, <2>1, RowsStay DEF LedgerTimeout, GiveUp, CalmTypes
  <2>3. NoSlot \in Slot /\ slot[p][j] \in Slot
    BY <1>c DEF Phases
  <2>4. NoSlot.phase = "none"
    BY <2>3, SlotFields DEF Phases
  <2>. QED BY <1>b, <2>1, <2>2, <2>3, <2>4 DEF Has, Held
<1>18. ASSUME NEW p \in Procs, NEW j \in Rows, LedgerMissed(p, j) PROVE Calm
  <2>1. /\ slot' = [slot EXCEPT ![p][j] = NoSlot]
        /\ slot[p][j].phase \in Held /\ clock' = clock /\ proc' = proc /\ row' = row
    BY <1>18 DEF LedgerMissed, Granted, Held
  <2>2. \A i \in Rows : RowStep(i) /\ finished[i] \subseteq finished'[i]
    BY <1>0, <1>18, <2>1, RowsStay DEF LedgerMissed, CalmTypes
  <2>3. NoSlot \in Slot /\ slot[p][j] \in Slot
    BY <1>c DEF Phases
  <2>4. NoSlot.phase = "none"
    BY <2>3, SlotFields DEF Phases
  <2>. QED BY <1>b, <2>1, <2>2, <2>3, <2>4 DEF Has, Held
<1>19. ASSUME NEW p \in Procs, NEW j \in Rows, Push(p, j) PROVE Calm
  <2>1. /\ slot' = [slot EXCEPT ![p][j] = To(slot[p][j], "pushed")]
        /\ slot[p][j].phase \in Held /\ clock' = clock /\ proc' = proc /\ row' = row
    BY <1>19 DEF Push, Granted, Held
  <2>2. \A i \in Rows : RowStep(i) /\ finished[i] \subseteq finished'[i]
    BY <1>0, <1>19, <2>1, RowsStay DEF Push, CalmTypes
  <2>3. To(slot[p][j], "pushed") \in Slot /\ slot[p][j] \in Slot
    BY <1>c DEF Phases
  <2>4. To(slot[p][j], "pushed").tok = slot[p][j].tok /\ To(slot[p][j], "pushed").att = slot[p][j].att
    BY <2>3, SlotFields DEF Phases
  <2>. QED BY <1>b, <2>1, <2>2, <2>3, <2>4 DEF Has, Held
<1>20. ASSUME NEW p \in Procs, NEW j \in Rows, DropBeforePush(p, j) PROVE Calm
  <2>1. /\ slot' = [slot EXCEPT ![p][j] = NoSlot]
        /\ slot[p][j].phase \in Held /\ clock' = clock /\ proc' = proc /\ row' = row
    BY <1>20 DEF DropBeforePush, GiveUp, Granted, Held
  <2>2. \A i \in Rows : RowStep(i) /\ finished[i] \subseteq finished'[i]
    BY <1>0, <1>20, <2>1, RowsStay DEF DropBeforePush, GiveUp, CalmTypes
  <2>3. NoSlot \in Slot /\ slot[p][j] \in Slot
    BY <1>c DEF Phases
  <2>4. NoSlot.phase = "none"
    BY <2>3, SlotFields DEF Phases
  <2>. QED BY <1>b, <2>1, <2>2, <2>3, <2>4 DEF Has, Held
<1>21. ASSUME NEW p \in Procs, NEW j \in Rows, RecheckLinks(p, j) PROVE Calm
  <2>1. /\ slot' = [slot EXCEPT ![p][j] = To(slot[p][j], "recheck")]
        /\ slot[p][j].phase \in Held /\ clock' = clock /\ proc' = proc /\ row' = row
    BY <1>21 DEF RecheckLinks, Granted, Held
  <2>2. \A i \in Rows : RowStep(i) /\ finished[i] \subseteq finished'[i]
    BY <1>0, <1>21, <2>1, RowsStay DEF RecheckLinks, CalmTypes
  <2>3. To(slot[p][j], "recheck") \in Slot /\ slot[p][j] \in Slot
    BY <1>c DEF Phases
  <2>4. To(slot[p][j], "recheck").tok = slot[p][j].tok /\ To(slot[p][j], "recheck").att = slot[p][j].att
    BY <2>3, SlotFields DEF Phases
  <2>. QED BY <1>b, <2>1, <2>2, <2>3, <2>4 DEF Has, Held
<1>22. ASSUME NEW p \in Procs, NEW j \in Rows, PushResult(p, j) PROVE Calm
  <2>1. /\ slot' = [slot EXCEPT ![p][j] = NoSlot]
        /\ slot[p][j].phase \in Held /\ clock' = clock /\ proc' = proc /\ row' = row
    BY <1>22 DEF PushResult, Granted, Held
  <2>2. \A i \in Rows : RowStep(i) /\ finished[i] \subseteq finished'[i]
    BY <1>0, <1>22, <2>1, RowsStay DEF PushResult, CalmTypes
  <2>3. NoSlot \in Slot /\ slot[p][j] \in Slot
    BY <1>c DEF Phases
  <2>4. NoSlot.phase = "none"
    BY <2>3, SlotFields DEF Phases
  <2>. QED BY <1>b, <2>1, <2>2, <2>3, <2>4 DEF Has, Held
<1>23. ASSUME NEW p \in Procs, Boot(p) PROVE Calm
  BY <1>0, <1>23, <1>a, RowsStay DEF Boot, CalmTypes
<1>24. ASSUME NEW p \in Procs, Replay(p) PROVE Calm
  <2>1. \A j \in Rows : ~Has(p, j)
    BY <1>24 DEF Replay, ClaimInv, NothingEarly, DownIsEarly
  <2>2. \A q \in Procs : proc'[q] = "up" => proc[q] = "up" \/ \A j \in Rows : ~Has(q, j)
    BY <1>0, <1>24, <2>1 DEF Replay, CalmTypes
  <2>3. ASSUME row' # row PROVE \A i \in Rows : RowStep(i)
    <3>1. PICK j \in Rows : spill[j] # <<>> /\ row' \in ApplyOp(row, j, Head(spill[j]))
      BY <1>24, <2>3 DEF Replay
    <3>2. Head(spill[j]) \in Ops /\ Earned(spill[j], j) /\ spill[j] \in Seq(Ops)
      BY <1>0, <3>1, QueueMoves, OpsMade DEF CalmTypes, ClaimInv, OpsEarned
    <3>. QED BY <1>0, <1>24, <3>1, <3>2, OpsStep DEF Replay, CalmTypes
  <2>4. slot' = slot /\ clock' = clock /\ finished' = finished
    BY <1>24 DEF Replay
  <2>. QED BY <1>a, <2>2, <2>3, <2>4, RowsStay
<1>25. ASSUME NEW p \in Procs, Stop(p) PROVE Calm
  <2>. DEFINE back(j) == SetStatus(row, j, "pending", "running", slot[p][j].tok, 0)
              returned == [j \in Rows |-> IF j \in Unsent(p) THEN back(j)[j] ELSE row[j]]
              kept == [j \in Rows |-> IF j \in Unsent(p) THEN NoSlot ELSE slot[p][j]]
  <2>1. /\ row' \in {row, returned} /\ slot' \in {slot, [slot EXCEPT ![p] = kept]}
        /\ proc' = [proc EXCEPT ![p] = "stopping"] /\ clock' = clock /\ finished' = finished
    BY <1>25 DEF Stop
  <2>2. \A q \in Procs : proc'[q] = "up" => proc[q] = "up"
    BY <1>0, <2>1 DEF CalmTypes
  <2>3. NoSlot.phase = "none"
    BY DEF NoSlot
  <2>4. ASSUME NEW q \in Procs, NEW j \in Rows PROVE slot'[q][j] \in {slot[q][j], NoSlot}
    <3>1. kept[j] \in {slot[p][j], NoSlot}
      OBVIOUS
    <3>2. slot' = slot \/ slot' = [slot EXCEPT ![p] = kept]
      BY <2>1
    <3>. HIDE DEF kept
    <3>. QED BY <1>0, <3>1, <3>2 DEF CalmTypes
  <2>5. KeepsHolds
    BY <2>1, <2>2, <2>3, <2>4 DEF KeepsHolds, Has
  <2>6. ASSUME NEW j \in Rows PROVE RowStep(j)
    <3>1. CASE row'[j] = row[j]
      BY <3>1 DEF RowStep
    <3>2. CASE j \in Unsent(p) /\ row'[j] = back(j)[j] /\ row'[j] # row[j]
      <4>1. /\ row[j].st = "running" /\ row[j].tok = slot[p][j].tok
            /\ row'[j].st = "pending" /\ row'[j].tok = row[j].tok
            /\ row'[j].attempts = row[j].attempts + 0
        BY <1>0, <3>2, SetStatusMoves DEF CalmTypes
      <4>2. Has(p, j)
        BY <3>2 DEF Unsent, InPhase, Has
      <4>3. proc'[p] # "up"
        BY <1>0, <2>1 DEF CalmTypes
      <4>. QED BY <1>0, <4>1, <4>2, <4>3 DEF RowStep, Returned, CalmTypes
    <3>3. row'[j] \in {row[j], back(j)[j]} /\ (row'[j] # row[j] => j \in Unsent(p))
      BY <2>1
    <3>. HIDE DEF back
    <3>. QED BY <3>1, <3>2, <3>3
  <2>. QED BY <2>1, <2>5, <2>6 DEF Calm
<1>d. ASSUME NEW p \in Procs, Vanish(p), row' = row, finished' = finished, clock' = clock PROVE Calm
  <2>1. \A q \in Procs : proc'[q] = "up" => proc[q] = "up"
    BY <1>0, <1>d DEF Vanish, CalmTypes
  <2>2. \A q \in Procs, j \in Rows : slot'[q][j] \in {slot[q][j], NoSlot}
    BY <1>0, <1>d DEF Vanish, CalmTypes
  <2>3. NoSlot.phase = "none"
    BY DEF NoSlot
  <2>. QED BY <1>d, <2>1, <2>2, <2>3, RowsStay DEF Calm, KeepsHolds, Has
<1>26. ASSUME NEW p \in Procs, Exit(p) PROVE Calm
  BY <1>26, <1>d DEF Exit
<1>27. ASSUME NEW p \in Procs, Crash(p) PROVE Calm
  BY <1>27, <1>d DEF Crash
<1>28. CASE UNCHANGED vars
  BY <1>28, <1>a, RowsStay DEF vars
<1>. QED
  BY <1>1, <1>2, <1>3, <1>4, <1>5, <1>6, <1>7, <1>9, <1>10, <1>11, <1>12, <1>13, <1>14,
     <1>15, <1>16, <1>17, <1>18, <1>19, <1>20, <1>21, <1>22, <1>23, <1>24, <1>25, <1>26, <1>27, <1>28
  DEF Next, LockNext, RunnerNext, SendNext, ProcNext

-----------------------------------------------------------------------------
(* A claim: the token is new, and the one process that learns of it holds  *)
(* it.                                                                     *)

LEMMA ClaimKeeps ==
    ASSUME TInv, ClaimInv, NEW p \in Procs, NEW k \in Lanes, Claim(p, k)
    PROVE  ClaimInv'
<1>0. CalmTypes /\ clock \in Nat
  BY CalmTypesHold DEF TInv, TypeRest
<1>. PICK S \in SUBSET {j \in OfLane(k) : row[j].st = "pending"}, known \in BOOLEAN :
        /\ row' = [j \in Rows |-> IF j \in S THEN Claimed(row[j], clock + 1) ELSE row[j]]
        /\ slot' = [slot EXCEPT ![p] = [j \in Rows |->
                      IF known /\ j \in S THEN Taken(clock + 1, row[j].attempts)
                      ELSE slot[p][j]]]
        /\ lane' = [lane EXCEPT ![p][k] = IF known THEN "running" ELSE "idle"]
  BY DEF Claim
<1>1. ASSUME NEW j \in Rows
      PROVE  /\ j \notin S => row'[j] = row[j]
             /\ j \in S => /\ row[j].st = "pending" /\ row'[j].st = "running" /\ row'[j].tok = clock + 1
                           /\ row'[j].attempts = row[j].attempts
  <2>1. j \in S => row'[j] = Claimed(row[j], clock + 1) /\ row[j].st = "pending"
    OBVIOUS
  <2>2. row[j] \in [st: Status, attempts: Nat, tok: Nat]
    BY <1>0 DEF CalmTypes, Table
  <2>. QED BY <2>1, <2>2 DEF Claimed
<1>2. ASSUME NEW q \in Procs, NEW j \in Rows
      PROVE  \/ slot'[q][j] = slot[q][j]
             \/ /\ q = p /\ j \in S
                /\ slot'[q][j].phase = "claimed" /\ slot'[q][j].tok = clock + 1
                /\ slot'[q][j].att = row[j].attempts
  <2>. DEFINE took == [i \in Rows |->
                      IF known /\ i \in S THEN Taken(clock + 1, row[i].attempts) ELSE slot[p][i]]
  <2>1. took[j] = slot[p][j] \/ (j \in S /\ took[j] = Taken(clock + 1, row[j].attempts))
    OBVIOUS
  <2>2. slot'[q][j] = IF q = p THEN took[j] ELSE slot[q][j]
    <3>1. slot' = [slot EXCEPT ![p] = took]
      OBVIOUS
    <3>. HIDE DEF took
    <3>. QED BY <1>0, <3>1 DEF CalmTypes
  <2>. HIDE DEF took
  <2>. QED BY <2>1, <2>2 DEF Taken
<1>3. /\ clock' = clock + 1 /\ finished' = finished /\ queue' = queue /\ spill' = spill
      /\ proc' = proc /\ recovered' = recovered /\ lane[p][k] = "ready"
  BY DEF Claim
<1>4. recovered[p] /\ lane \in [Procs -> [Lanes -> {"idle", "ready", "running", "releasing"}]]
  BY <1>3 DEF ClaimInv, NothingEarly, TInv, TypeRest
<1>5. /\ \A j \in Rows : row[j].tok <= clock /\ row[j].tok \in Nat
      /\ \A q \in Procs, j \in Rows : Has(q, j) => slot[q][j].tok \in 1..clock
  BY <1>0 DEF ClaimInv, TokensGrow, CalmTypes
<1>6. TokensGrow'
  BY <1>0, <1>1, <1>2, <1>3, <1>5 DEF TokensGrow, Has
<1>7. OneClaimant'
  BY <1>0, <1>2, <1>5 DEF OneClaimant, Has, ClaimInv
<1>8. AttAgrees'
  <2> SUFFICES ASSUME NEW q \in Procs, NEW j \in Rows, Has(q, j)',
                      row'[j].st = "running", row'[j].tok = slot'[q][j].tok
               PROVE  slot'[q][j].att = row'[j].attempts
    BY DEF AttAgrees
  <2>1. CASE slot'[q][j] = slot[q][j]
    <3>1. j \notin S
      BY <1>0, <1>1, <1>5, <2>1 DEF Has
    <3>. QED BY <1>1, <2>1, <3>1 DEF ClaimInv, AttAgrees, Has
  <2>2. CASE slot'[q][j] # slot[q][j]
    BY <1>1, <1>2, <2>2
  <2>. QED BY <2>1, <2>2
<1>9. NothingEarly' /\ DownIsEarly'
  <2>1. DownIsEarly'
    BY <1>3 DEF ClaimInv, DownIsEarly
  <2>2. ASSUME NEW q \in Procs, ~recovered'[q]
        PROVE  (\A j \in Rows : ~Has(q, j)') /\ (\A h \in Lanes : lane'[q][h] = "idle")
    <3>1. q # p /\ ~recovered[q]
      BY <1>3, <1>4, <2>2
    <3>2. \A j \in Rows : slot'[q][j] = slot[q][j]
      BY <1>2, <3>1
    <3>3. lane'[q] = lane[q]
      BY <1>4, <3>1
    <3>. QED BY <3>1, <3>2, <3>3 DEF ClaimInv, NothingEarly, Has
  <2>. QED BY <2>1, <2>2 DEF NothingEarly
<1>10. DecisionFits'
  BY <1>2, <1>3 DEF ClaimInv, DecisionFits, Fits
<1>11. OpsEarned'
  BY <1>3 DEF ClaimInv, OpsEarned, Earned
<1>12. ResultsAreEarned'
  <2>1. DoneIsEarned'
    BY <1>1, <1>3 DEF ClaimInv, ResultsAreEarned, DoneIsEarned
  <2>2. AttemptsWithinBudget'
    BY <1>1 DEF ClaimInv, ResultsAreEarned, AttemptsWithinBudget
  <2>. QED BY <2>1, <2>2 DEF ResultsAreEarned
<1>13. NotReclaimable'
  <2> SUFFICES ASSUME NEW q \in Procs, NEW j \in Rows, proc'[q] = "up",
                      slot'[q][j].phase \in Held, row'[j].tok = slot'[q][j].tok,
                      row'[j].st = "pending"
               PROVE  FALSE
    BY DEF NotReclaimable, Held
  <2>1. j \notin S
    BY <1>1
  <2>. QED BY <1>1, <1>2, <1>3, <2>1 DEF ClaimInv, NotReclaimable, Held
<1>. QED BY <1>6, <1>7, <1>8, <1>9, <1>10, <1>11, <1>12, <1>13 DEF ClaimInv
-----------------------------------------------------------------------------
(* The steps that are not claims keep the rest: before its recovery a      *)
(* process holds nothing, and what waits to be written was earned.         *)

LEMMA EarlyStep ==
    ASSUME TInv, ClaimInv, [Next]_vars, Calm
    PROVE  NothingEarly' /\ DownIsEarly'
<1>0. /\ recovered \in [Procs -> BOOLEAN]
      /\ proc \in [Procs -> {"down", "replaying", "up", "stopping"}]
      /\ lane \in [Procs -> [Lanes -> {"idle", "ready", "running", "releasing"}]]
      /\ NothingEarly /\ DownIsEarly
  BY DEF TInv, TypeRest, ClaimInv
<1>a. ASSUME \A q \in Procs : recovered'[q] = recovered[q] \/ (recovered'[q] /\ proc'[q] = "up"),
             \A q \in Procs : proc'[q] \in {"down", "replaying"} => proc[q] \in {"down", "replaying"},
             \A q \in Procs, k \in Lanes :
                 lane'[q][k] = "idle" \/ lane[q][k] # "idle" \/ recovered[q]
      PROVE  NothingEarly' /\ DownIsEarly'
  <2>1. ASSUME NEW q \in Procs, ~recovered'[q]
        PROVE  (\A j \in Rows : ~Has(q, j)') /\ (\A k \in Lanes : lane'[q][k] = "idle")
    BY <1>0, <1>a, <2>1 DEF NothingEarly, Calm, KeepsHolds
  <2>2. DownIsEarly'
    BY <1>0, <1>a DEF DownIsEarly
  <2>. QED BY <2>1, <2>2 DEF NothingEarly
<1>b. ASSUME recovered' = recovered, proc' = proc, lane' = lane
      PROVE  NothingEarly' /\ DownIsEarly'
  BY <1>a, <1>b
<1>1. ASSUME NEW j \in Rows, Enqueue(j) \/ CancelPending(Key[j]) PROVE NothingEarly' /\ DownIsEarly'
  BY <1>1, <1>b DEF Enqueue, CancelPending
<1>2. ASSUME NEW p \in Procs, LockNext(p) PROVE NothingEarly' /\ DownIsEarly'
  BY <1>2, <1>b DEF LockNext, BreakLock, NoticeLost, Reacquire
<1>3. ASSUME NEW p \in Procs, Recover(p) PROVE NothingEarly' /\ DownIsEarly'
  BY <1>0, <1>3, <1>a DEF Recover
<1>4. ASSUME NEW p \in Procs, NEW k \in Lanes, Prelude(p, k) PROVE NothingEarly' /\ DownIsEarly'
  BY <1>0, <1>4, <1>a DEF Prelude, MayClaim
<1>5. ASSUME NEW p \in Procs, NEW k \in Lanes,
             ClaimNothing(p, k) \/ LaneDone(p, k) \/ Claim(p, k)
      PROVE  NothingEarly' /\ DownIsEarly'
  <2>1. /\ lane[p][k] # "idle" /\ recovered' = recovered /\ proc' = proc
        /\ \E v \in {"idle", "running"} : lane' = [lane EXCEPT ![p][k] = v]
    BY <1>5 DEF ClaimNothing, LaneDone, Claim
  <2>. QED BY <1>0, <1>a, <2>1
<1>6. ASSUME NEW p \in Procs, NEW j \in Rows, Start(p, j) PROVE NothingEarly' /\ DownIsEarly'
  <2>1. \/ lane' = lane
        \/ /\ lane[p][Kind[j]] # "idle"
           /\ lane' = [lane EXCEPT ![p][Kind[j]] = "releasing"]
    BY <1>6 DEF Start
  <2>2. Kind[j] \in Lanes
    BY DEF Lanes
  <2>3. recovered' = recovered /\ proc' = proc
    BY <1>6 DEF Start
  <2>. QED BY <1>0, <1>a, <2>1, <2>2, <2>3
<1>7. ASSUME NEW p \in Procs, NEW j \in Rows,
             Decide(p, j) \/ Settle(p, j) \/ RetryUnsettled(p, j)
      PROVE  NothingEarly' /\ DownIsEarly'
  BY <1>7, <1>b DEF Decide, Settle, RetryUnsettled
<1>8. ASSUME NEW p \in Procs, SendNext(p) PROVE NothingEarly' /\ DownIsEarly'
  BY <1>8, <1>b DEF SendNext, MarkSending, Flush, LedgerTimeout, LedgerMissed, Push,
                    DropBeforePush, RecheckLinks, PushResult
<1>9. ASSUME NEW p \in Procs, Boot(p) \/ Replay(p) \/ Stop(p) PROVE NothingEarly' /\ DownIsEarly'
  <2>1. recovered' = recovered /\ lane' = lane
    BY <1>9 DEF Boot, Replay, Stop
  <2>2. \/ proc[p] \in {"down", "replaying"} /\ \E v : proc' = [proc EXCEPT ![p] = v]
        \/ proc' = [proc EXCEPT ![p] = "stopping"]
        \/ proc' = proc
    BY <1>9 DEF Boot, Replay, Stop
  <2>. QED BY <1>0, <1>a, <2>1, <2>2
<1>10. ASSUME NEW p \in Procs, Exit(p) \/ Crash(p) PROVE NothingEarly' /\ DownIsEarly'
  <2>1. Vanish(p)
    BY <1>10 DEF Exit, Crash
  <2>2. ~recovered'[p] /\ \A q \in Procs : q # p => (recovered'[q] <=> recovered[q])
    <3>1. recovered' = [recovered EXCEPT ![p] = FALSE]
      BY <2>1 DEF Vanish
    <3>. QED BY <1>0, <3>1
  <2>3. \A q \in Procs : proc'[q] = IF q = p THEN "down" ELSE proc[q]
    BY <1>0, <2>1 DEF Vanish
  <2>4. \A q \in Procs, k \in Lanes : lane'[q][k] = IF q = p THEN "idle" ELSE lane[q][k]
    BY <1>0, <2>1 DEF Vanish, Idle
  <2>5. \A j \in Rows : ~Has(p, j)'
    BY <2>1 DEF Vanish, Has, NoSlot, TInv, TypeOf
  <2>6. \A q \in Procs, j \in Rows : Has(q, j)' => Has(q, j)
    BY DEF Calm, KeepsHolds
  <2>7. NothingEarly'
    <3>1. ASSUME NEW q \in Procs, ~recovered'[q]
          PROVE  (\A j \in Rows : ~Has(q, j)') /\ (\A k \in Lanes : lane'[q][k] = "idle")
      <4>1. CASE q = p
        BY <2>4, <2>5, <4>1
      <4>2. CASE q # p
        BY <1>0, <2>2, <2>4, <2>6, <3>1, <4>2 DEF NothingEarly, Has
      <4>. QED BY <4>1, <4>2
    <3>. QED BY <3>1 DEF NothingEarly
  <2>8. DownIsEarly'
    BY <1>0, <2>2, <2>3 DEF DownIsEarly
  <2>. QED BY <2>7, <2>8
<1>11. CASE UNCHANGED vars
  BY <1>11, <1>b DEF vars
<1>12. ASSUME NEW p \in Procs, RunnerNext(p) PROVE NothingEarly' /\ DownIsEarly'
  BY <1>3, <1>4, <1>5, <1>6, <1>7, <1>12 DEF RunnerNext
<1>13. ASSUME NEW p \in Procs, ProcNext(p) PROVE NothingEarly' /\ DownIsEarly'
  BY <1>9, <1>10, <1>13 DEF ProcNext
<1>14. CASE Next
  BY <1>1, <1>2, <1>8, <1>12, <1>13, <1>14 DEF Next
<1>. QED BY <1>11, <1>14

\* What the executor decides fits the budget and is earned; settling writes it, or keeps it.
LEMMA FitsStep ==
    ASSUME TInv, ClaimInv, [Next]_vars, Calm
    PROVE  DecisionFits'
<1>0. /\ slot \in [Procs -> [Rows -> Slot]] /\ DecisionFits
      /\ \A j \in Rows : finished[j] \subseteq finished'[j]
      /\ finished \in [Rows -> SUBSET Nat]
  BY DEF TInv, TypeOf, TypeRest, ClaimInv, Calm
<1>a. ASSUME slot' = slot PROVE DecisionFits'
  BY <1>0, <1>a DEF DecisionFits, Fits
<1>b. ASSUME NEW p \in Procs, NEW j \in Rows, NEW s \in Slot, slot' = [slot EXCEPT ![p][j] = s],
             s.phase \in {"settling", "unsettled"} =>
                 /\ s.delta \in {0, 1}
                 /\ s.delta = 1 /\ s.out = "pending" => s.att + 1 < MaxAttempts
                 /\ s.out = "done" => s.tok \in finished'[j]
      PROVE  DecisionFits'
  <2> SUFFICES ASSUME NEW q \in Procs, NEW i \in Rows, slot'[q][i].phase \in {"settling", "unsettled"}
               PROVE  /\ slot'[q][i].delta \in {0, 1}
                      /\ slot'[q][i].delta = 1 /\ slot'[q][i].out = "pending"
                            => slot'[q][i].att + 1 < MaxAttempts
                      /\ slot'[q][i].out = "done" => slot'[q][i].tok \in finished'[i]
    BY DEF DecisionFits, Fits
  <2>1. CASE q = p /\ i = j
    BY <1>0, <1>b, <2>1
  <2>2. CASE ~(q = p /\ i = j)
    BY <1>0, <1>b, <2>2 DEF DecisionFits, Fits
  <2>. QED BY <2>1, <2>2
<1>c. ASSUME NEW p \in Procs, NEW j \in Rows
      PROVE  /\ slot[p][j] \in Slot /\ NoSlot \in Slot /\ NoSlot.phase = "none"
             /\ \A ph \in Phases \ {"settling", "unsettled"} :
                    To(slot[p][j], ph) \in Slot /\ To(slot[p][j], ph).phase = ph
             /\ slot[p][j].phase = "settling" => To(slot[p][j], "unsettled") \in Slot
             /\ \A o \in Final \cup {"pending"}, d \in Nat : Decided(slot[p][j], o, d) \in Slot
  BY <1>0, SlotMoves, NewSlots, SlotFields
<1>1. ASSUME NEW j \in Rows, Enqueue(j) \/ CancelPending(Key[j]) PROVE DecisionFits'
  BY <1>1, <1>a DEF Enqueue, CancelPending
<1>2. ASSUME NEW p \in Procs, LockNext(p) PROVE DecisionFits'
  BY <1>2, <1>a DEF LockNext, BreakLock, NoticeLost, Reacquire
<1>3. ASSUME NEW p \in Procs, Recover(p) PROVE DecisionFits'
  BY <1>3, <1>a DEF Recover
<1>4. ASSUME NEW p \in Procs, NEW k \in Lanes, Prelude(p, k) \/ ClaimNothing(p, k) \/ LaneDone(p, k)
      PROVE  DecisionFits'
  BY <1>4, <1>a DEF Prelude, ClaimNothing, LaneDone
<1>5. ASSUME NEW p \in Procs, NEW k \in Lanes, Claim(p, k) PROVE DecisionFits'
  BY <1>5, ClaimKeeps DEF ClaimInv
<1>6. ASSUME NEW p \in Procs, NEW j \in Rows, Start(p, j) PROVE DecisionFits'
  <2>1. \/ slot' = [slot EXCEPT ![p][j] = To(slot[p][j], "started")]
        \/ slot' = [slot EXCEPT ![p][j] = Decided(slot[p][j], "pending", 0)]
    BY <1>6 DEF Start
  <2>2. /\ Decided(slot[p][j], "pending", 0) \in Slot
        /\ Decided(slot[p][j], "pending", 0).delta = 0 /\ Decided(slot[p][j], "pending", 0).out = "pending"
    BY <1>c, SlotFields
  <2>3. To(slot[p][j], "started") \in Slot /\ To(slot[p][j], "started").phase = "started"
    BY <1>c DEF Phases
  <2>. QED BY <1>b, <2>1, <2>2, <2>3
<1>7. ASSUME NEW p \in Procs, NEW j \in Rows, Decide(p, j) PROVE DecisionFits'
  <2>. DEFINE s == slot[p][j]
  <2>1. PICK o \in {<<IF Kind[j] = "followup" THEN "cancelled" ELSE "done", 0>>, <<"pending", 0>>,
                     <<IF s.att + 1 >= MaxAttempts THEN "failed" ELSE "pending", 1>>} :
          /\ slot' = [slot EXCEPT ![p][j] = Decided(s, o[1], o[2])]
          /\ finished' = IF o[1] \in Final THEN [finished EXCEPT ![j] = @ \cup {s.tok}] ELSE finished
    BY <1>7 DEF Decide
  <2>2. s \in Slot /\ s.att \in Nat /\ MaxAttempts \in Nat
    BY <1>c, SlotMoves, JobsAssumption DEF JobsAssumption
  <2>3. /\ o[1] \in Final \cup {"pending"} /\ o[2] \in {0, 1}
        /\ o[2] = 1 /\ o[1] = "pending" => s.att + 1 < MaxAttempts
        /\ o[1] = "done" => s.tok \in finished'[j]
    BY <1>0, <2>1, <2>2
  <2>. DEFINE u == Decided(s, o[1], o[2])
  <2>4. u \in Slot
    BY <1>c, <2>3
  <2>5. u.out = o[1] /\ u.delta = o[2] /\ u.att = s.att /\ u.tok = s.tok
    <3>. HIDE DEF s
    <3>. QED BY <2>2, SlotFields
  <2>6. slot' = [slot EXCEPT ![p][j] = u]
    BY <2>1
  <2>. HIDE DEF s, u
  <2>. QED BY <1>b, <2>3, <2>4, <2>5, <2>6
<1>8. ASSUME NEW p \in Procs, NEW j \in Rows, Settle(p, j) \/ RetryUnsettled(p, j)
      PROVE  DecisionFits'
  <2>1. \/ slot' = [slot EXCEPT ![p][j] = NoSlot]
        \/ /\ slot[p][j].phase = "settling"
           /\ slot' = [slot EXCEPT ![p][j] = To(slot[p][j], "unsettled")]
    BY <1>8 DEF Settle, RetryUnsettled
  <2>2. CASE slot' = [slot EXCEPT ![p][j] = NoSlot]
    BY <1>b, <1>c, <2>2
  <2>3. CASE /\ slot[p][j].phase = "settling"
             /\ slot' = [slot EXCEPT ![p][j] = To(slot[p][j], "unsettled")]
    <3>1. LET u == To(slot[p][j], "unsettled") IN
            /\ u \in Slot /\ u.out = slot[p][j].out /\ u.delta = slot[p][j].delta
            /\ u.tok = slot[p][j].tok /\ u.att = slot[p][j].att
      BY <1>c, <2>3, SlotFields DEF Phases
    <3>2. Fits(slot[p][j], j)
      BY <1>0, <2>3 DEF DecisionFits
    <3>. QED BY <1>0, <1>b, <2>3, <3>1, <3>2 DEF Fits
  <2>. QED BY <2>1, <2>2, <2>3
<1>9. ASSUME NEW p \in Procs, NEW j \in Rows,
             \/ MarkSending(p, j) \/ LedgerTimeout(p, j) \/ LedgerMissed(p, j) \/ Push(p, j)
             \/ DropBeforePush(p, j) \/ RecheckLinks(p, j) \/ PushResult(p, j)
      PROVE  DecisionFits'
  <2>1. \/ slot' = [slot EXCEPT ![p][j] = NoSlot]
        \/ \E ph \in {"ledger", "pushed", "recheck"} : slot' = [slot EXCEPT ![p][j] = To(slot[p][j], ph)]
    BY <1>9 DEF MarkSending, LedgerTimeout, LedgerMissed, Push, DropBeforePush, RecheckLinks,
                PushResult, GiveUp
  <2>2. ASSUME NEW ph \in {"ledger", "pushed", "recheck"}
        PROVE  To(slot[p][j], ph) \in Slot /\ To(slot[p][j], ph).phase = ph
    BY <1>c DEF Phases
  <2>. QED BY <1>b, <1>c, <2>1, <2>2
<1>10. ASSUME NEW p \in Procs, NEW j \in Rows, Flush(p, j) PROVE DecisionFits'
  BY <1>10, <1>a DEF Flush
<1>11. ASSUME NEW p \in Procs, Boot(p) \/ Replay(p) PROVE DecisionFits'
  BY <1>11, <1>a DEF Boot, Replay
<1>12. ASSUME NEW p \in Procs, Stop(p) \/ Exit(p) \/ Crash(p) PROVE DecisionFits'
  <2>1. \/ slot' = slot
        \/ \E S \in SUBSET Rows : slot' = [slot EXCEPT ![p] =
               [j \in Rows |-> IF j \in S THEN NoSlot ELSE slot[p][j]]]
    <3>1. CASE Stop(p)
      <4>1. Unsent(p) \in SUBSET Rows
        BY DEF Unsent, InPhase
      <4>. QED BY <3>1, <4>1 DEF Stop
    <3>2. CASE Exit(p) \/ Crash(p)
      <4>1. slot' = [slot EXCEPT ![p] = [j \in Rows |-> NoSlot]]
        BY <3>2 DEF Exit, Crash, Vanish
      <4>2. [j \in Rows |-> NoSlot] = [j \in Rows |-> IF j \in Rows THEN NoSlot ELSE slot[p][j]]
        OBVIOUS
      <4>. QED BY <4>1, <4>2
    <3>. QED BY <1>12, <3>1, <3>2
  <2>2. CASE \E S \in SUBSET Rows : slot' = [slot EXCEPT ![p] =
               [j \in Rows |-> IF j \in S THEN NoSlot ELSE slot[p][j]]]
    <3>. PICK S \in SUBSET Rows : slot' = [slot EXCEPT ![p] =
               [j \in Rows |-> IF j \in S THEN NoSlot ELSE slot[p][j]]]
      BY <2>2
    <3>1. \A q \in Procs, j \in Rows : slot'[q][j] \in {slot[q][j], NoSlot}
      BY <1>0
    <3>2. NoSlot.phase = "none"
      BY DEF NoSlot
    <3>3. ASSUME NEW q \in Procs, NEW j \in Rows, slot'[q][j].phase \in {"settling", "unsettled"}
          PROVE  slot'[q][j] = slot[q][j] /\ Fits(slot[q][j], j)
      BY <1>0, <3>1, <3>2, <3>3 DEF DecisionFits
    <3>. QED BY <1>0, <3>3 DEF DecisionFits, Fits
  <2>. QED BY <1>a, <2>1, <2>2
<1>13. CASE UNCHANGED vars
  BY <1>13, <1>a DEF vars
<1>14. ASSUME NEW p \in Procs, RunnerNext(p) PROVE DecisionFits'
  BY <1>3, <1>4, <1>5, <1>6, <1>7, <1>8, <1>14 DEF RunnerNext
<1>15. ASSUME NEW p \in Procs, SendNext(p) PROVE DecisionFits'
  BY <1>9, <1>10, <1>15 DEF SendNext
<1>16. ASSUME NEW p \in Procs, ProcNext(p) PROVE DecisionFits'
  BY <1>11, <1>12, <1>16 DEF ProcNext
<1>. QED BY <1>1, <1>2, <1>13, <1>14, <1>15, <1>16 DEF Next

\* Appending to, shortening and joining sequences of job ops that were earned.
LEMMA EarnedMoves ==
    ASSUME NEW q \in Seq(Ops), NEW r \in Seq(Ops), NEW j \in Rows, Earned(q, j)
    PROVE  /\ Earned(r, j) => Earned(q \o r, j)
           /\ q # <<>> => Earned(Tail(q), j)
           /\ \A op \in Ops : (op.to = "done" => op.tok \in finished[j]) => Earned(Append(q, op), j)
<1>1. ASSUME Earned(r, j) PROVE Earned(q \o r, j)
  BY <1>1, ConcatProperties DEF Earned
<1>2. ASSUME q # <<>> PROVE Earned(Tail(q), j)
  BY <1>2, HeadTailProperties DEF Earned
<1>3. ASSUME NEW op \in Ops, op.to = "done" => op.tok \in finished[j] PROVE Earned(Append(q, op), j)
  BY <1>3, AppendProperties DEF Earned
<1>. QED BY <1>1, <1>2, <1>3

\* Only the executor that decided says `done', and the write queue and the spill files carry
\* it on unchanged.
LEMMA OpsEarnedStep ==
    ASSUME TInv, ClaimInv, [Next]_vars, Calm
    PROVE  OpsEarned'
<1>0. /\ slot \in [Procs -> [Rows -> Slot]] /\ OpsEarned
      /\ queue \in [Procs -> [Rows -> Seq(Ops)]] /\ spill \in [Rows -> Seq(Ops)]
      /\ \A j \in Rows : finished[j] \subseteq finished'[j]
      /\ finished \in [Rows -> SUBSET Nat]
  BY DEF TInv, TypeOf, TypeRest, ClaimInv, Calm
<1>a. ASSUME NEW j \in Rows, NEW q, Earned(q, j)
      PROVE  \A i \in 1..Len(q) : q[i].to = "done" => q[i].tok \in finished'[j]
  BY <1>0, <1>a DEF Earned
<1>b. ASSUME \A j \in Rows : Earned(spill'[j], j),
             \A p \in Procs, j \in Rows : Earned(queue'[p][j], j)
      PROVE  OpsEarned'
  BY <1>a, <1>b DEF OpsEarned, Earned
<1>c. ASSUME queue' = queue, spill' = spill PROVE OpsEarned'
  BY <1>0, <1>b, <1>c DEF OpsEarned
<1>d. ASSUME NEW p \in Procs, NEW j \in Rows, NEW q,
             queue' = [queue EXCEPT ![p][j] = q], spill' = spill,
             \A i \in 1..Len(q) : q[i].to = "done" => q[i].tok \in finished'[j]
      PROVE  OpsEarned'
  <2>1. \A i \in Rows : \A h \in 1..Len(spill[i]) : spill[i][h].to = "done" => spill[i][h].tok \in finished'[i]
    BY <1>0, <1>a DEF OpsEarned
  <2>2. \A r \in Procs, i \in Rows : queue'[r][i] = IF r = p /\ i = j THEN q ELSE queue[r][i]
    BY <1>0, <1>d
  <2>3. ASSUME NEW r \in Procs, NEW i \in Rows
        PROVE  \A h \in 1..Len(queue'[r][i]) : queue'[r][i][h].to = "done" => queue'[r][i][h].tok \in finished'[i]
    <3>1. CASE r = p /\ i = j
      BY <1>d, <2>2, <3>1
    <3>2. CASE ~(r = p /\ i = j)
      <4>1. queue'[r][i] = queue[r][i] /\ Earned(queue[r][i], i)
        BY <1>0, <2>2, <3>2 DEF OpsEarned
      <4>. QED BY <1>a, <4>1
    <3>. QED BY <3>1, <3>2
  <2>. QED BY <1>d, <2>1, <2>3 DEF OpsEarned, Earned
<1>e. ASSUME NEW p \in Procs, NEW j \in Rows
      PROVE  /\ queue[p][j] \in Seq(Ops) /\ spill[j] \in Seq(Ops) /\ slot[p][j].tok \in Nat
             /\ Earned(queue[p][j], j) /\ Earned(spill[j], j)
  BY <1>0, SlotMoves DEF OpsEarned
<1>1. ASSUME NEW j \in Rows, Enqueue(j) \/ CancelPending(Key[j]) PROVE OpsEarned'
  BY <1>1, <1>c DEF Enqueue, CancelPending
<1>2. ASSUME NEW p \in Procs, LockNext(p) PROVE OpsEarned'
  BY <1>2, <1>c DEF LockNext, BreakLock, NoticeLost, Reacquire
<1>3. ASSUME NEW p \in Procs, RunnerNext(p) PROVE OpsEarned'
  <2>1. queue' = queue /\ spill' = spill
    BY <1>3 DEF RunnerNext, Recover, Prelude, Claim, ClaimNothing, LaneDone, Start, Decide, Settle,
                RetryUnsettled
  <2>. QED BY <1>c, <2>1
<1>4. ASSUME NEW p \in Procs, NEW j \in Rows,
             MarkSending(p, j) \/ LedgerTimeout(p, j) \/ DropBeforePush(p, j)
      PROVE  OpsEarned'
  <2>1. PICK op \in {StatusOp("sending", "running", slot[p][j].tok),
                     StatusOp("abandoned", "sending", slot[p][j].tok)} :
          queue' = [queue EXCEPT ![p][j] = Append(queue[p][j], op)]
    <3>1. CASE MarkSending(p, j)
      BY <3>1 DEF MarkSending
    <3>2. CASE LedgerTimeout(p, j) \/ DropBeforePush(p, j)
      BY <3>2 DEF LedgerTimeout, DropBeforePush, GiveUp
    <3>. QED BY <1>4, <3>1, <3>2
  <2>2. op \in Ops /\ op.to # "done"
    <3>1. slot[p][j].tok \in Nat
      BY <1>e
    <3>2. op \in Ops
      BY <3>1, OpsMade
    <3>3. op.to \in {"sending", "abandoned"}
      BY DEF StatusOp
    <3>. QED BY <3>2, <3>3
  <2>3. Earned(Append(queue[p][j], op), j)
    BY <1>e, <2>2, EarnedMoves
  <2>4. spill' = spill
    BY <1>4 DEF MarkSending, LedgerTimeout, DropBeforePush
  <2>. QED BY <1>a, <1>d, <2>1, <2>3, <2>4
<1>5. ASSUME NEW p \in Procs, NEW j \in Rows, LedgerMissed(p, j) \/ Push(p, j) \/ RecheckLinks(p, j)
      PROVE  OpsEarned'
  BY <1>5, <1>c DEF LedgerMissed, Push, RecheckLinks
<1>6. ASSUME NEW p \in Procs, NEW j \in Rows, PushResult(p, j) PROVE OpsEarned'
  <2>. DEFINE tok == slot[p][j].tok
              op(to) == StatusOp(to, "sending", tok)
  <2>1. PICK ops \in {<<op("done")>>, <<op("failed")>>, <<op("failed"), EnqueueAgain>>, <<op("abandoned")>>} :
          queue' = [queue EXCEPT ![p][j] = queue[p][j] \o ops]
    BY <1>6 DEF PushResult
  <2>2. ops \in Seq(Ops)
    <3>1. tok \in Nat
      BY <1>e
    <3>2. \A to \in Final : op(to) \in Ops
      BY <3>1, OpsMade
    <3>3. EnqueueAgain \in Ops
      BY DEF Ops
    <3>. HIDE DEF op
    <3>4. op("done") \in Ops /\ op("failed") \in Ops /\ op("abandoned") \in Ops
      BY <3>2
    <3>5. \A a \in Ops : <<a>> \in Seq(Ops) /\ \A b \in Ops : <<a, b>> \in Seq(Ops)
      OBVIOUS
    <3>. QED BY <3>3, <3>4, <3>5
  <2>3. tok \in finished'[j]
    BY <1>0, <1>6 DEF PushResult
  <2>4. \A i \in 1..Len(ops) : ops[i].to = "done" => ops[i].tok = tok
    BY DEF StatusOp, EnqueueAgain
  <2>5. /\ queue[p][j] \o ops \in Seq(Ops) /\ Len(queue[p][j]) \in Nat /\ Len(ops) \in Nat
        /\ Len(queue[p][j] \o ops) = Len(queue[p][j]) + Len(ops)
        /\ \A i \in 1..(Len(queue[p][j]) + Len(ops)) : (queue[p][j] \o ops)[i] =
              IF i <= Len(queue[p][j]) THEN queue[p][j][i] ELSE ops[i - Len(queue[p][j])]
    BY <1>e, <2>2, ConcatProperties
  <2>6. \A i \in 1..Len(queue[p][j]) : queue[p][j][i].to = "done" => queue[p][j][i].tok \in finished'[j]
    BY <1>a, <1>e
  <2>7. spill' = spill
    BY <1>6 DEF PushResult
  <2>. HIDE DEF tok
  <2>8. \A i \in 1..Len(queue[p][j] \o ops) :
           (queue[p][j] \o ops)[i].to = "done" => (queue[p][j] \o ops)[i].tok \in finished'[j]
    BY <2>3, <2>4, <2>5, <2>6
  <2>. QED BY <1>d, <2>1, <2>7, <2>8
<1>7. ASSUME NEW p \in Procs, NEW j \in Rows, Flush(p, j) PROVE OpsEarned'
  <2>1. /\ queue[p][j] # <<>> /\ queue' = [queue EXCEPT ![p][j] = Tail(queue[p][j])] /\ spill' = spill
    BY <1>7 DEF Flush
  <2>2. Earned(Tail(queue[p][j]), j)
    BY <1>e, <2>1, EarnedMoves
  <2>. QED BY <1>a, <1>d, <2>1, <2>2
<1>8. ASSUME NEW p \in Procs, Boot(p) \/ Stop(p) PROVE OpsEarned'
  BY <1>8, <1>c DEF Boot, Stop
<1>9. ASSUME NEW p \in Procs, Replay(p) PROVE OpsEarned'
  <2>1. CASE spill' = spill
    BY <1>9, <1>c, <2>1 DEF Replay
  <2>2. CASE \E j \in Rows : spill[j] # <<>> /\ spill' = [spill EXCEPT ![j] = Tail(@)]
    <3>. PICK j \in Rows : spill[j] # <<>> /\ spill' = [spill EXCEPT ![j] = Tail(@)]
      BY <2>2
    <3>1. Earned(Tail(spill[j]), j)
      BY <1>e, EarnedMoves
    <3>2. \A i \in Rows : Earned(spill'[i], i)
      BY <1>0, <1>e, <3>1
    <3>3. queue' = queue
      BY <1>9 DEF Replay
    <3>4. \A q \in Procs, i \in Rows : Earned(queue'[q][i], i)
      BY <1>e, <3>3
    <3>. QED BY <1>b, <3>2, <3>4
  <2>. QED BY <1>9, <2>1, <2>2 DEF Replay
<1>10. ASSUME NEW p \in Procs, Exit(p) \/ Crash(p) PROVE OpsEarned'
  <2>1. \A q \in Procs, j \in Rows : queue'[q][j] \in {queue[q][j], <<>>}
    <3>1. queue' = [queue EXCEPT ![p] = [j \in Rows |-> <<>>]]
      BY <1>10 DEF Exit, Crash, Vanish
    <3>. QED BY <1>0, <3>1
  <2>2. \A j \in Rows : Earned(<<>>, j)
    BY DEF Earned
  <2>3. \A q \in Procs, j \in Rows : Earned(queue'[q][j], j)
    BY <1>e, <2>1, <2>2
  <2>4. \A j \in Rows : spill'[j] \in {spill[j], spill[j] \o queue[p][j]}
    BY <1>0, <1>10 DEF Exit, Crash
  <2>5. ASSUME NEW j \in Rows PROVE Earned(spill'[j], j)
    <3>1. Earned(spill[j] \o queue[p][j], j)
      BY <1>e, EarnedMoves
    <3>. QED BY <1>e, <2>4, <3>1
  <2>. QED BY <1>b, <2>3, <2>5
<1>11. CASE UNCHANGED vars
  BY <1>11, <1>c DEF vars
<1>12. ASSUME NEW p \in Procs, SendNext(p) PROVE OpsEarned'
  BY <1>4, <1>5, <1>6, <1>7, <1>12 DEF SendNext
<1>13. ASSUME NEW p \in Procs, ProcNext(p) PROVE OpsEarned'
  BY <1>8, <1>9, <1>10, <1>13 DEF ProcNext
<1>. QED BY <1>1, <1>2, <1>3, <1>11, <1>12, <1>13 DEF Next

LEMMA ClaimInvStep == TInv /\ TInv' /\ ClaimInv /\ [Next]_vars => ClaimInv'
<1> SUFFICES ASSUME TInv, TInv', ClaimInv, [Next]_vars PROVE ClaimInv'
  OBVIOUS
<1>1. CASE Calm
  BY <1>1, CalmKeeps, EarlyStep, FitsStep, OpsEarnedStep DEF ClaimInv
<1>2. CASE \E p \in Procs, k \in Lanes : Claim(p, k)
  BY <1>2, ClaimKeeps
<1>. QED BY <1>1, <1>2, CalmSteps

LEMMA ClaimInvHolds == Spec => []ClaimInv
<1>1. TInv /\ [Next]_vars => TInv'
  BY TInvStep
<1>. QED BY TInvInit, ClaimInvInit, <1>1, ClaimInvStep, PTL DEF Spec

\* A row says `done' only of the claim whose executor decided so, and a row that may be
\* claimed has an attempt left (setJobStatus with claimedAt, retryOutcome): in every process,
\* whatever is written late, twice or after another process's recovery.
THEOREM ResultsAreEarnedHolds == Spec => []ResultsAreEarned
<1>1. ClaimInv => ResultsAreEarned
  BY DEF ClaimInv
<1>. QED BY <1>1, ClaimInvHolds, PTL

\* The row of a claim that is being executed is not open to a second claim (claimDueJobs,
\* stopJobs and the release in tickLane keep to the token).
THEOREM NotReclaimableHolds == Spec => []NotReclaimable
<1>1. ClaimInv => NotReclaimable
  BY DEF ClaimInv
<1>. QED BY <1>1, ClaimInvHolds, PTL

\* The recovery of a process never resets a row that the process itself holds: before
\* own.recovered is set it holds none (recover, prelude).
THEOREM RecoverySparesOwnHolds == Spec => RecoverySparesOwn
<1>1. ASSUME ClaimInv
      PROVE  \A p \in Procs, j \in Rows :
                 recovered'[p] /\ ~recovered[p] /\ slot[p][j].phase # "none" => row'[j] = row[j]
  BY <1>1 DEF ClaimInv, NothingEarly, Has
<1>. QED BY <1>1, ClaimInvHolds, PTL DEF RecoverySparesOwn

-----------------------------------------------------------------------------
(* One open row of a key.  Only an insertion opens a row, and it looks for  *)
(* an open one first (jobs_open_uq); everything else moves rows that were   *)
(* open already.                                                            *)

OneOpenIn(t) == \A i, j \in Rows :
    i # j /\ Key[i] = Key[j] => ~(t[i].st \in OpenSt /\ t[j].st \in OpenSt)
OpensNone(t, u) == \A j \in Rows : u[j].st \in OpenSt => t[j].st \in OpenSt
Inserts(t, u) == \E j \in Rows : u = EnqueueRow(t, j)

LEMMA OneOpenKept ==
    ASSUME NEW t \in Table, NEW u, OneOpenIn(t), OpensNone(t, u) \/ Inserts(t, u)
    PROVE  OneOpenIn(u)
<1>1. CASE OpensNone(t, u)
  BY <1>1 DEF OneOpenIn, OpensNone
<1>2. CASE Inserts(t, u)
  <2>. PICK h \in Rows : u = EnqueueRow(t, h)
    BY <1>2 DEF Inserts
  <2>1. CASE u = t
    BY <2>1
  <2>2. CASE u # t
    <3>1. ~HasOpen(t, Key[h]) /\ \A i \in Rows : i # h => u[i] = t[i]
      BY <2>2 DEF EnqueueRow, Table
    <3>. QED BY <3>1 DEF OneOpenIn, HasOpen
  <2>. QED BY <2>1, <2>2
<1>. QED BY <1>1, <1>2

LEMMA SetStatusOpensNone ==
    ASSUME NEW t \in Table, NEW j \in Rows, NEW to, NEW from \in OpenSt, NEW tok, NEW delta
    PROVE  OpensNone(t, SetStatus(t, j, to, from, tok, delta))
BY SetStatusMoves DEF OpensNone

LEMMA RecoverOpensNone == ASSUME NEW t \in Table PROVE OpensNone(t, RecoverTable(t))
<1> SUFFICES ASSUME NEW j \in Rows, t[j].st \notin OpenSt PROVE RecoverTable(t)[j] = t[j]
  BY DEF OpensNone
<1>. QED BY DEF RecoverTable, RecoverRow

LEMMA ApplyOpOpens ==
    ASSUME NEW t \in Table, NEW j \in Rows, NEW op \in Ops, NEW u \in ApplyOp(t, j, op)
    PROVE  OpensNone(t, u) \/ Inserts(t, u)
<1>1. CASE op = EnqueueAgain
  <2>1. u = t \/ Inserts(t, u)
    BY <1>1 DEF ApplyOp, EnqueueAgain, StatusOp, Fresh, Inserts
  <2>. QED BY <2>1 DEF OpensNone
<1>2. CASE op # EnqueueAgain
  <2>1. op.from \in OpenSt
    BY <1>2 DEF Ops
  <2>2. u = SetStatus(t, j, op.to, op.from, op.tok, 0)
    BY <2>1 DEF ApplyOp
  <2>. QED BY <2>1, <2>2, SetStatusOpensNone
<1>. QED BY <1>1, <1>2

LEMMA OpensStep ==
    ASSUME TInv, [Next]_vars
    PROVE  OpensNone(row, row') \/ Inserts(row, row')
<1>0. /\ row \in Table /\ slot \in [Procs -> [Rows -> Slot]]
      /\ queue \in [Procs -> [Rows -> Seq(Ops)]] /\ spill \in [Rows -> Seq(Ops)]
  BY DEF TInv, TypeOf
<1>a. row' = row => OpensNone(row, row')
  BY DEF OpensNone
<1>1. ASSUME NEW j \in Rows, Enqueue(j) PROVE Inserts(row, row')
  BY <1>1 DEF Enqueue, Inserts
<1>2. ASSUME NEW k, CancelPending(k) PROVE OpensNone(row, row')
  BY <1>0, <1>2 DEF CancelPending, OpensNone, Moved, Table
<1>3. ASSUME NEW p \in Procs, LockNext(p) PROVE row' = row
  BY <1>3 DEF LockNext, BreakLock, NoticeLost, Reacquire
<1>4. ASSUME NEW p \in Procs, Recover(p) PROVE OpensNone(row, row')
  BY <1>0, <1>4, RecoverOpensNone DEF Recover
<1>5. ASSUME NEW p \in Procs, NEW k \in Lanes, Claim(p, k) PROVE OpensNone(row, row')
  <2>. PICK S \in SUBSET {j \in OfLane(k) : row[j].st = "pending"} :
         row' = [j \in Rows |-> IF j \in S THEN Claimed(row[j], clock + 1) ELSE row[j]]
    BY <1>5 DEF Claim
  <2>1. \A j \in S : row[j].st = "pending"
    OBVIOUS
  <2>. QED BY <2>1 DEF OpensNone
<1>6. ASSUME NEW p \in Procs, NEW k \in Lanes, Prelude(p, k) \/ ClaimNothing(p, k) \/ LaneDone(p, k)
      PROVE  row' = row
  BY <1>6 DEF Prelude, ClaimNothing, LaneDone
<1>7. ASSUME NEW p \in Procs, NEW j \in Rows, Start(p, j) \/ Decide(p, j) PROVE row' = row
  BY <1>7 DEF Start, Decide
<1>8. ASSUME NEW p \in Procs, NEW j \in Rows, Settle(p, j) \/ RetryUnsettled(p, j)
      PROVE  OpensNone(row, row')
  <2>1. row' = row \/ row' = Settled(p, j)
    BY <1>8 DEF Settle, RetryUnsettled
  <2>. QED BY <1>0, <1>a, <2>1, SetStatusOpensNone DEF Settled
<1>9. ASSUME NEW p \in Procs, NEW j \in Rows,
             \/ MarkSending(p, j) \/ LedgerTimeout(p, j) \/ LedgerMissed(p, j) \/ Push(p, j)
             \/ DropBeforePush(p, j) \/ RecheckLinks(p, j) \/ PushResult(p, j)
      PROVE  row' = row
  BY <1>9 DEF MarkSending, LedgerTimeout, LedgerMissed, Push, DropBeforePush, RecheckLinks, PushResult
<1>10. ASSUME NEW p \in Procs, NEW j \in Rows, Flush(p, j)
       PROVE  OpensNone(row, row') \/ Inserts(row, row')
  <2>1. Head(queue[p][j]) \in Ops
    BY <1>0, <1>10, QueueMoves, OpsMade DEF Flush
  <2>. QED BY <1>0, <1>10, <2>1, ApplyOpOpens DEF Flush
<1>11. ASSUME NEW p \in Procs, Replay(p) PROVE OpensNone(row, row') \/ Inserts(row, row')
  <2>1. CASE row' # row
    <3>. PICK j \in Rows : spill[j] # <<>> /\ row' \in ApplyOp(row, j, Head(spill[j]))
      BY <1>11, <2>1 DEF Replay
    <3>1. Head(spill[j]) \in Ops
      BY <1>0, QueueMoves, OpsMade
    <3>. QED BY <1>0, <3>1, ApplyOpOpens
  <2>. QED BY <1>a, <2>1
<1>12. ASSUME NEW p \in Procs, Stop(p) PROVE OpensNone(row, row')
  <2>. DEFINE back(j) == SetStatus(row, j, "pending", "running", slot[p][j].tok, 0)
  <2>1. \A j \in Rows : row'[j] \in {row[j], back(j)[j]}
    BY <1>0, <1>12 DEF Stop, CalmTypes
  <2>2. \A j \in Rows : OpensNone(row, back(j))
    BY <1>0, SetStatusOpensNone
  <2>. HIDE DEF back
  <2>. QED BY <2>1, <2>2 DEF OpensNone
<1>13. ASSUME NEW p \in Procs, Boot(p) \/ Exit(p) \/ Crash(p) PROVE row' = row
  BY <1>13 DEF Boot, Exit, Crash
<1>14. CASE UNCHANGED vars
  BY <1>14, <1>a DEF vars
<1>15. ASSUME NEW p \in Procs, RunnerNext(p) PROVE OpensNone(row, row')
  BY <1>a, <1>4, <1>5, <1>6, <1>7, <1>8, <1>15 DEF RunnerNext
<1>16. ASSUME NEW p \in Procs, SendNext(p) PROVE OpensNone(row, row') \/ Inserts(row, row')
  BY <1>a, <1>9, <1>10, <1>16 DEF SendNext
<1>17. ASSUME NEW p \in Procs, ProcNext(p) PROVE OpensNone(row, row') \/ Inserts(row, row')
  BY <1>a, <1>11, <1>12, <1>13, <1>17 DEF ProcNext
<1>. QED BY <1>a, <1>1, <1>2, <1>3, <1>14, <1>15, <1>16, <1>17 DEF Next

\* At most one row of a dedupe key is open, whoever inserts, recovers, settles, returns or
\* replays, in any number of processes (enqueueJob, jobs_open_uq).
THEOREM OneOpenPerKeyHolds == Spec => []OneOpenPerKey
<1>1. Init => OneOpenPerKey
  BY DEF Init, OneOpenPerKey
<1>2. ASSUME TInv, OneOpenPerKey, [Next]_vars PROVE TInv' /\ OneOpenPerKey'
  <2>1. OneOpenIn(row) /\ row \in Table
    BY <1>2 DEF OneOpenPerKey, OneOpenIn, TInv, TypeOf
  <2>2. OneOpenIn(row')
    BY <1>2, <2>1, OpensStep, OneOpenKept
  <2>. QED BY <1>2, <2>2, TInvStep DEF OneOpenPerKey, OneOpenIn
<1>. QED BY TInvInit, <1>1, <1>2, PTL DEF Spec
=============================================================================
