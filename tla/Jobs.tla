-------------------------------- MODULE Jobs --------------------------------
(***************************************************************************)
(* The jobs table (db/repo/jobs.ts), the runner that claims and executes   *)
(* it (jobs/runner.ts) and the sending half of a follow-up                 *)
(* (jobs/followup.ts), for several application processes that take over    *)
(* from one another through the tenant lock (config/source.ts).            *)
(*                                                                         *)
(* A row's `tok' is claimed_at, the claim token.  Time is abstracted: any  *)
(* pending row may be due, and `clock' numbers the claims so that two of   *)
(* them never carry the same instant.                                      *)
(***************************************************************************)
EXTENDS Naturals, FiniteSets, Sequences

CONSTANTS Procs,        \* application processes, past and present
          Rows,         \* ids of rows of the jobs table
          Kind,         \* [Rows -> Kinds]
          Key,          \* [Rows -> dedupe keys]
          MaxAttempts,  \* max_attempts of every row
          Batch,        \* BATCH: rows claimed by one lane at once
          MaxClaims,    \* bound: claims in a behaviour
          MaxBoots      \* bound: process starts in a behaviour

CONSTANT NoProc

Kinds == {"followup", "handoff_notify", "ops_daily_digest"}

ASSUME JobsAssumption ==
    /\ Kind \in [Rows -> Kinds]
    /\ MaxAttempts \in Nat \ {0}
    /\ Batch \in Nat \ {0}
    /\ MaxClaims \in Nat
    /\ MaxBoots \in Nat
    /\ NoProc \notin Procs

VARIABLES row,      \* the table: row[j] = [st, attempts, tok]
          lock,     \* who holds the advisory lock in the database
          belief,   \* configHealth().lock of each process, "taken" once it was lost for good
          proc,     \* down, up, stopping
          recovered,\* own.recovered
          lane,     \* own.laneTasks: what each lane of a process is doing
          slot,     \* own.mine and own.unsettled: a process's hold on a row
          queue,    \* job ops waiting in the session write queue
          applied,  \* rows jobOpApplied will report
          spill,    \* job ops in spill files
          pushed,   \* how often a row's text was handed to the channel
          finished, \* tokens of the claims whose executor decided the row's final outcome
          clock,    \* claims so far
          boots     \* starts so far

vars == <<row, lock, belief, proc, recovered, lane, slot, queue, applied, spill,
          pushed, finished, clock, boots>>

Final == {"done", "failed", "cancelled", "abandoned"}
OpenSt == {"pending", "running", "sending"}
Status == {"absent"} \cup OpenSt \cup Final

\* A followup, once here, is never executed again.
PostSend == {"sending"} \cup Final

\* A lane serves one kind; lanes without rows of theirs have nothing to do.
Lanes == {Kind[j] : j \in Rows}
Phases == {"none", "claimed", "started", "ledger", "recheck", "pushed",
           "settling", "unsettled"}
Outcomes == Final \cup {"pending", "none"}

NoSlot == [phase |-> "none", tok |-> 0, att |-> 0, out |-> "none", delta |-> 0]

\* A slot just claimed, in another phase, and with an outcome to be written.
Taken(tok, att) == [phase |-> "claimed", tok |-> tok, att |-> att, out |-> "none", delta |-> 0]
To(s, ph) == [s EXCEPT !.phase = ph]
Decided(s, o, d) == [s EXCEPT !.phase = "settling", !.out = o, !.delta = d]

Idle   == [k \in Lanes |-> "idle"]

-----------------------------------------------------------------------------
(* db/repo/jobs.ts: operations on the table, as functions of the table.    *)

\* Mutant: a row in `sending' does not count as open.
HasOpen_NotSending(t, k) == \E i \in Rows : Key[i] = k /\ t[i].st \in {"pending", "running"}

HasOpen(t, k) == \E i \in Rows : Key[i] = k /\ t[i].st \in OpenSt

\* enqueueJob: nothing happens while a row of the key is open (jobs_open_uq).
EnqueueRow(t, j) ==
    IF t[j].st = "absent" /\ ~HasOpen(t, Key[j])
    THEN [t EXCEPT ![j] = [st |-> "pending", attempts |-> 0, tok |-> 0]]
    ELSE t

\* setJobStatus with `from' and the claim token.
\* Mutants: without the token; without the status; attempts counted down.
Hits_AnyToken(t, j, from, tok) == t[j].st = from
Hits_AnyStatus(t, j, from, tok) == t[j].tok = tok
Hits(t, j, from, tok) == t[j].st = from /\ t[j].tok = tok
Moved_Minus(r, to, delta) == [st |-> to, attempts |-> r.attempts - delta, tok |-> r.tok]
Moved(r, to, delta) == [st |-> to, attempts |-> r.attempts + delta, tok |-> r.tok]
SetStatus(t, j, to, from, tok, delta) ==
    IF Hits(t, j, from, tok) THEN [t EXCEPT ![j] = Moved(@, to, delta)] ELSE t

\* Mutants: a follow-up in `sending' is sent again; it is left alone.
Released(r) == [r EXCEPT !.st = "pending", !.tok = 0]
RecoverRow_Resend(r, k) == IF r.st \in {"running", "sending"} THEN Released(r) ELSE r
RecoverRow_KeepSending(r, k) == IF r.st = "running" THEN Released(r) ELSE r

\* recoverJobsAtStartup, its five UPDATEs in order.
RecoverRow(r, k) ==
    CASE r.st = "running" /\ k \in {"followup", "ops_daily_digest"} -> Released(r)
      [] r.st = "sending" /\ k = "followup" -> [r EXCEPT !.st = "abandoned"]
      [] r.st = "running" /\ k = "handoff_notify" ->
             IF r.attempts + 1 >= MaxAttempts THEN Moved(r, "failed", 1)
                                              ELSE Released(Moved(r, "pending", 1))
      [] OTHER -> r
RecoverTable(t) == [j \in Rows |-> RecoverRow(t[j], Kind[j])]

\* claimDueJobs, one row.
Claimed(r, tok) == [r EXCEPT !.st = "running", !.tok = tok]

\* A job op of a session's write queue (followup.ts statusOp, enqueueOp).  The ops of one
\* commit are applied one by one: a commit of several is these steps in a row.
StatusOp(to, from, tok) == [to |-> to, from |-> from, tok |-> tok]
EnqueueAgain == StatusOp("pending", "absent", 0)

Fresh(t, k) == {i \in Rows : Key[i] = k /\ t[i].st = "absent"}
ApplyOp(t, j, op) ==
    IF op.from # "absent" THEN {SetStatus(t, j, op.to, op.from, op.tok, 0)}
    ELSE IF HasOpen(t, Key[j]) \/ Fresh(t, Key[j]) = {} THEN {t}
    ELSE {EnqueueRow(t, i) : i \in Fresh(t, Key[j])}

-----------------------------------------------------------------------------
Init ==
    /\ row = [j \in Rows |-> [st |-> "absent", attempts |-> 0, tok |-> 0]]
    /\ lock = NoProc
    /\ belief = [p \in Procs |-> "lost"]
    /\ proc = [p \in Procs |-> "down"]
    /\ recovered = [p \in Procs |-> FALSE]
    /\ lane = [p \in Procs |-> Idle]
    /\ slot = [p \in Procs |-> [j \in Rows |-> NoSlot]]
    /\ queue = [p \in Procs |-> [j \in Rows |-> <<>>]]
    /\ applied = [p \in Procs |-> {}]
    /\ spill = [j \in Rows |-> <<>>]
    /\ pushed = [j \in Rows |-> 0]
    /\ finished = [j \in Rows |-> {}]
    /\ clock = 0
    /\ boots = 0

LockHeld(p) == belief[p] = "held"
Writable(p) == belief[p] # "taken"      \* tenantLockTaken() closes every transaction
Alive(p)    == proc[p] # "down"

-----------------------------------------------------------------------------
(* Sessions: scheduling and cancelling.  Both commit with a session, or in  *)
(* a short transaction of their own; either way the table decides.          *)

Enqueue(j) ==
    /\ \E p \in Procs : proc[p] \in {"up", "stopping"}
    /\ row[j].st = "absent" /\ ~HasOpen(row, Key[j])
    /\ row' = EnqueueRow(row, j)
    /\ UNCHANGED <<lock, belief, proc, recovered, lane, slot, queue, applied, spill,
                   pushed, finished, clock, boots>>

\* cancelPendingJobs: the customer spoke, or the session was reset.
CancelPending(k) ==
    /\ \E p \in Procs : proc[p] \in {"up", "stopping"}
    /\ \E j \in Rows : Key[j] = k /\ row[j].st = "pending"
    /\ row' = [j \in Rows |-> IF Key[j] = k /\ row[j].st = "pending"
                               THEN Moved(row[j], "cancelled", 0) ELSE row[j]]
    /\ UNCHANGED <<lock, belief, proc, recovered, lane, slot, queue, applied, spill,
                   pushed, finished, clock, boots>>

-----------------------------------------------------------------------------
(* The tenant lock.                                                         *)

\* The database drops the lock with its connection; the process learns it later.
BreakLock(p) ==
    /\ lock = p
    /\ lock' = NoProc
    /\ UNCHANGED <<row, belief, proc, recovered, lane, slot, queue, applied, spill,
                   pushed, finished, clock, boots>>

NoticeLost(p) ==
    /\ proc[p] = "up" /\ belief[p] = "held" /\ lock # p
    /\ belief' = [belief EXCEPT ![p] = "lost"]
    /\ UNCHANGED <<row, lock, proc, recovered, lane, slot, queue, applied, spill,
                   pushed, finished, clock, boots>>

\* reacquireOnce: a free lock is taken back; one held by another process is lost for good.
Reacquire(p) ==
    /\ proc[p] = "up" /\ belief[p] = "lost"
    /\ IF lock = NoProc
       THEN lock' = p /\ belief' = [belief EXCEPT ![p] = "held"]
       ELSE lock' = lock /\ belief' = [belief EXCEPT ![p] = "taken"]
    /\ UNCHANGED <<row, proc, recovered, lane, slot, queue, applied, spill,
                   pushed, finished, clock, boots>>

-----------------------------------------------------------------------------
(* The runner.                                                              *)

\* recover(): its transaction commits, and the process may or may not learn of it.
Recover(p) ==
    /\ proc[p] = "up" /\ LockHeld(p) /\ ~recovered[p]
    /\ row' = RecoverTable(row)
    /\ recovered' \in {recovered, [recovered EXCEPT ![p] = TRUE]}
    /\ UNCHANGED <<lock, belief, proc, lane, slot, queue, applied, spill,
                   pushed, finished, clock, boots>>

OfLane(k) == {j \in Rows : Kind[j] = k}
InPhase(p, S) == {j \in Rows : slot[p][j].phase \in S}

\* Mutant: claims do not wait for the recovery.
MayClaim_Early(p) == proc[p] = "up" /\ LockHeld(p)
MayClaim(p) == proc[p] = "up" /\ LockHeld(p) /\ recovered[p]

\* prelude: the lock is looked at here, the claim comes some awaits later.
Prelude(p, k) ==
    /\ MayClaim(p)
    /\ lane[p][k] = "idle"
    /\ InPhase(p, {"unsettled"}) = {}
    /\ lane' = [lane EXCEPT ![p][k] = "ready"]
    /\ UNCHANGED <<row, lock, belief, proc, recovered, slot, queue, applied, spill,
                   pushed, finished, clock, boots>>

\* claimDueJobs: the due rows become running under a new token.  With `known' FALSE the
\* commit's answer is lost: the rows are running and nobody in this process knows.
Claim(p, k) ==
    /\ Alive(p) /\ Writable(p)
    /\ lane[p][k] = "ready" /\ clock < MaxClaims
    /\ \E S \in SUBSET {j \in OfLane(k) : row[j].st = "pending"}, known \in BOOLEAN :
          /\ S # {} /\ Cardinality(S) <= Batch
          /\ row' = [j \in Rows |-> IF j \in S
                        THEN Claimed(row[j], clock + 1) ELSE row[j]]
          /\ slot' = [slot EXCEPT ![p] = [j \in Rows |->
                        IF known /\ j \in S
                        THEN Taken(clock + 1, row[j].attempts)
                        ELSE slot[p][j]]]
          /\ lane' = [lane EXCEPT ![p][k] = IF known THEN "running" ELSE "idle"]
    /\ clock' = clock + 1
    /\ UNCHANGED <<lock, belief, proc, recovered, queue, applied, spill, pushed, finished, boots>>

\* Nothing was due, or the claim failed.
ClaimNothing(p, k) ==
    /\ Alive(p) /\ lane[p][k] = "ready"
    /\ lane' = [lane EXCEPT ![p][k] = "idle"]
    /\ UNCHANGED <<row, lock, belief, proc, recovered, slot, queue, applied, spill,
                   pushed, finished, clock, boots>>

Working == {"started", "ledger", "recheck", "pushed", "settling"}
Busy(p, k) == InPhase(p, Working) \cap OfLane(k) # {}

\* tickLane, one row of the batch: run it while the lock is held, else give it back.
Start(p, j) ==
    LET k == Kind[j] IN
    /\ slot[p][j].phase = "claimed" /\ ~Busy(p, k)
    /\ \/ /\ lane[p][k] = "running" /\ proc[p] = "up" /\ LockHeld(p)
          /\ slot' = [slot EXCEPT ![p][j] = To(@, "started")]
          /\ lane' = lane
       \/ /\ \/ lane[p][k] = "releasing"
             \/ lane[p][k] = "running" /\ proc[p] = "up" /\ ~LockHeld(p)
          /\ slot' = [slot EXCEPT ![p][j] = Decided(@, "pending", 0)]
          /\ lane' = [lane EXCEPT ![p][k] = "releasing"]
    /\ UNCHANGED <<row, lock, belief, proc, recovered, queue, applied, spill,
                   pushed, finished, clock, boots>>

LaneDone(p, k) ==
    /\ lane[p][k] \in {"running", "releasing"} /\ ~Busy(p, k)
    /\ \/ InPhase(p, {"claimed"}) \cap OfLane(k) = {}
       \/ proc[p] = "stopping" /\ lane[p][k] = "running"
    /\ lane' = [lane EXCEPT ![p][k] = "idle"]
    /\ UNCHANGED <<row, lock, belief, proc, recovered, slot, queue, applied, spill,
                   pushed, finished, clock, boots>>

\* The executor returns before anything was sent: finished, cancelled or put off; or it
\* throws (retryOutcome).  A follow-up woken by the shutdown gives up instead.
Decide(p, j) ==
    /\ slot[p][j].phase = "started"
    /\ IF Kind[j] = "followup" THEN proc[p] = "up" ELSE Alive(p)
    /\ LET s == slot[p][j]
           thrown == IF s.att + 1 >= MaxAttempts THEN "failed" ELSE "pending"
           final == IF Kind[j] = "followup" THEN "cancelled" ELSE "done"
       IN \E o \in {<<final, 0>>, <<"pending", 0>>, <<thrown, 1>>} :
            /\ slot' = [slot EXCEPT ![p][j] = Decided(@, o[1], o[2])]
            /\ finished' = IF o[1] \in Final
                           THEN [finished EXCEPT ![j] = @ \cup {s.tok}] ELSE finished
    /\ UNCHANGED <<row, lock, belief, proc, recovered, lane, queue, applied, spill,
                   pushed, clock, boots>>

\* What settle writes for the slot of p on j.
Settled(p, j) ==
    LET s == slot[p][j] IN SetStatus(row, j, s.out, "running", s.tok, s.delta)

\* settleOrQueue: the short transaction commits or fails, and a commit may go unheard.
Settle(p, j) ==
    /\ slot[p][j].phase = "settling"
    /\ \/ /\ Writable(p)
          /\ row' = Settled(p, j)
          /\ slot' = [slot EXCEPT ![p][j] = NoSlot]
       \/ /\ row' \in IF Writable(p) THEN {row, Settled(p, j)} ELSE {row}
          /\ slot' = [slot EXCEPT ![p][j] = To(@, "unsettled")]
    /\ UNCHANGED <<lock, belief, proc, recovered, lane, queue, applied, spill,
                   pushed, finished, clock, boots>>

\* retryUnsettled: one more try, then the row is left to the next start.
RetryUnsettled(p, j) ==
    /\ MayClaim(p)
    /\ slot[p][j].phase = "unsettled"
    /\ row' \in {row, Settled(p, j)}
    /\ slot' = [slot EXCEPT ![p][j] = NoSlot]
    /\ UNCHANGED <<lock, belief, proc, recovered, lane, queue, applied, spill,
                   pushed, finished, clock, boots>>

-----------------------------------------------------------------------------
(* A follow-up's sending half (sendAfterLedger).                            *)

\* The books and running -> sending enter the session's next commit; only then markSending.
MarkSending(p, j) ==
    /\ Kind[j] = "followup" /\ proc[p] = "up" /\ slot[p][j].phase = "started"
    /\ queue' = [queue EXCEPT ![p][j] =
                   Append(@, StatusOp("sending", "running", slot[p][j].tok))]
    /\ slot' = [slot EXCEPT ![p][j] = To(@, "ledger")]
    /\ UNCHANGED <<row, lock, belief, proc, recovered, lane, applied, spill,
                   pushed, finished, clock, boots>>

\* The session's write queue commits its next job op.
Flush(p, j) ==
    /\ proc[p] \in {"up", "stopping"} /\ Writable(p)
    /\ queue[p][j] # <<>>
    /\ LET op == Head(queue[p][j]) IN
         /\ row' \in ApplyOp(row, j, op)
         /\ applied' = IF op.to = "sending" /\ Hits(row, j, op.from, op.tok)
                       THEN [applied EXCEPT ![p] = @ \cup {j}] ELSE applied
    /\ queue' = [queue EXCEPT ![p][j] = Tail(@)]
    /\ UNCHANGED <<lock, belief, proc, recovered, lane, slot, spill, pushed, finished, clock, boots>>

Waiting(p, j) ==
    \E i \in 1..Len(queue[p][j]) :
        queue[p][j][i] = StatusOp("sending", "running", slot[p][j].tok)

GiveUp(p, j, to) ==
    /\ queue' = [queue EXCEPT ![p][j] = Append(@, StatusOp(to, "sending", slot[p][j].tok))]
    /\ slot' = [slot EXCEPT ![p][j] = NoSlot]

\* flushSession ran out of LEDGER_TIMEOUT_MS: never push.
LedgerTimeout(p, j) ==
    /\ Alive(p) /\ slot[p][j].phase = "ledger" /\ Waiting(p, j)
    /\ GiveUp(p, j, "abandoned")
    /\ UNCHANGED <<row, lock, belief, proc, recovered, lane, applied, spill,
                   pushed, finished, clock, boots>>

\* Committed, but jobOpApplied says the row is no longer this claim's: never push.
LedgerMissed(p, j) ==
    /\ Alive(p) /\ slot[p][j].phase = "ledger" /\ ~Waiting(p, j) /\ j \notin applied[p]
    /\ slot' = [slot EXCEPT ![p][j] = NoSlot]
    /\ UNCHANGED <<row, lock, belief, proc, recovered, lane, queue, applied, spill,
                   pushed, finished, clock, boots>>

\* Mutant: the executor does not ask whether its update hit.
Granted_Unasked(p, j) == slot[p][j].phase \in {"ledger", "recheck"} /\ ~Waiting(p, j)
Granted(p, j) ==
    \/ slot[p][j].phase = "ledger" /\ ~Waiting(p, j) /\ j \in applied[p]
    \/ slot[p][j].phase = "recheck"

\* The checks before the push: limits, takeover, the pack's gate and the links decide
\* whether to push, to drop the message, or to commit a shorter text and check again.
Push(p, j) ==
    /\ Alive(p) /\ Granted(p, j)
    /\ pushed' = [pushed EXCEPT ![j] = @ + 1]
    /\ applied' = [applied EXCEPT ![p] = @ \ {j}]
    /\ slot' = [slot EXCEPT ![p][j] = To(@, "pushed")]
    /\ UNCHANGED <<row, lock, belief, proc, recovered, lane, queue, spill, finished, clock, boots>>

DropBeforePush(p, j) ==
    /\ Alive(p) /\ Granted(p, j)
    /\ applied' = [applied EXCEPT ![p] = @ \ {j}]
    /\ GiveUp(p, j, "abandoned")
    /\ UNCHANGED <<row, lock, belief, proc, recovered, lane, spill, pushed, finished, clock, boots>>

RecheckLinks(p, j) ==
    /\ Alive(p) /\ slot[p][j].phase = "ledger" /\ Granted(p, j)
    /\ applied' = [applied EXCEPT ![p] = @ \ {j}]
    /\ slot' = [slot EXCEPT ![p][j] = To(@, "recheck")]
    /\ UNCHANGED <<row, lock, belief, proc, recovered, lane, queue, spill,
                   pushed, finished, clock, boots>>

\* The push came back: delivered, not delivered (perhaps scheduled again), or unknown.
PushResult(p, j) ==
    /\ Alive(p) /\ slot[p][j].phase = "pushed"
    /\ LET op(to) == StatusOp(to, "sending", slot[p][j].tok) IN
       \E ops \in {<<op("done")>>, <<op("failed")>>, <<op("failed"), EnqueueAgain>>, <<op("abandoned")>>} :
          queue' = [queue EXCEPT ![p][j] = @ \o ops]
    /\ finished' = [finished EXCEPT ![j] = @ \cup {slot[p][j].tok}]
    /\ slot' = [slot EXCEPT ![p][j] = NoSlot]
    /\ UNCHANGED <<row, lock, belief, proc, recovered, lane, applied, spill, pushed, clock, boots>>

-----------------------------------------------------------------------------
(* Processes.                                                               *)

\* initConfig takes the lock, initSessionStore replays the spill files.
Boot(p) ==
    /\ proc[p] = "down" /\ lock = NoProc /\ boots < MaxBoots
    /\ lock' = p
    /\ belief' = [belief EXCEPT ![p] = "held"]
    /\ proc' = [proc EXCEPT ![p] = "replaying"]
    /\ boots' = boots + 1
    /\ UNCHANGED <<row, recovered, lane, slot, queue, applied, spill, pushed, finished, clock>>

Replay(p) ==
    /\ proc[p] = "replaying"
    /\ IF \A j \in Rows : spill[j] = <<>>
       THEN proc' = [proc EXCEPT ![p] = "up"] /\ UNCHANGED <<row, spill>>
       ELSE /\ \E j \in Rows : /\ spill[j] # <<>>
                                /\ row' \in ApplyOp(row, j, Head(spill[j]))
                                /\ spill' = [spill EXCEPT ![j] = Tail(@)]
            /\ proc' = proc
    /\ UNCHANGED <<lock, belief, recovered, lane, slot, queue, applied, pushed, finished, clock, boots>>

\* stopJobs: follow-ups not yet sending go back to pending under their token, in one
\* transaction that may fail, or commit unheard.
Unsent(p) == InPhase(p, {"claimed", "started"}) \cap OfLane("followup")
Stop(p) ==
    /\ proc[p] = "up" /\ (boots < MaxBoots \/ belief[p] = "taken")
    /\ LET returned == [j \in Rows |-> IF j \in Unsent(p)
                           THEN SetStatus(row, j, "pending", "running", slot[p][j].tok, 0)[j]
                           ELSE row[j]]
       IN \/ /\ Writable(p)
             /\ row' = returned
             /\ slot' = [slot EXCEPT ![p] = [j \in Rows |->
                           IF j \in Unsent(p) THEN NoSlot ELSE slot[p][j]]]
          \/ /\ row' \in IF Writable(p) THEN {row, returned} ELSE {row}
             /\ slot' = slot
    /\ proc' = [proc EXCEPT ![p] = "stopping"]
    /\ UNCHANGED <<lock, belief, recovered, lane, queue, applied, spill, pushed, finished, clock, boots>>

Vanish(p) ==
    /\ proc' = [proc EXCEPT ![p] = "down"]
    /\ belief' = [belief EXCEPT ![p] = "lost"]
    /\ recovered' = [recovered EXCEPT ![p] = FALSE]
    /\ lane' = [lane EXCEPT ![p] = Idle]
    /\ slot' = [slot EXCEPT ![p] = [j \in Rows |-> NoSlot]]
    /\ queue' = [queue EXCEPT ![p] = [j \in Rows |-> <<>>]]
    /\ applied' = [applied EXCEPT ![p] = {}]
    /\ lock' = IF lock = p THEN NoProc ELSE lock

\* The end of a graceful exit: what was not committed is spilled.
Exit(p) ==
    /\ proc[p] = "stopping"
    /\ spill' = [j \in Rows |-> spill[j] \o queue[p][j]]
    /\ Vanish(p)
    /\ UNCHANGED <<row, pushed, finished, clock, boots>>

\* The last start of a behaviour is not followed by an end (MaxBoots).
Crash(p) ==
    /\ Alive(p) /\ boots < MaxBoots
    /\ Vanish(p)
    /\ UNCHANGED <<row, spill, pushed, finished, clock, boots>>

-----------------------------------------------------------------------------
LockNext(p) == BreakLock(p) \/ NoticeLost(p) \/ Reacquire(p)
RunnerNext(p) ==
    \/ Recover(p)
    \/ \E k \in Lanes : Prelude(p, k) \/ Claim(p, k) \/ ClaimNothing(p, k) \/ LaneDone(p, k)
    \/ \E j \in Rows : Start(p, j) \/ Decide(p, j) \/ Settle(p, j) \/ RetryUnsettled(p, j)
SendNext(p) ==
    \E j \in Rows :
        \/ MarkSending(p, j) \/ Flush(p, j) \/ LedgerTimeout(p, j) \/ LedgerMissed(p, j)
        \/ Push(p, j) \/ DropBeforePush(p, j) \/ RecheckLinks(p, j) \/ PushResult(p, j)
ProcNext(p) == Boot(p) \/ Replay(p) \/ Stop(p) \/ Exit(p) \/ Crash(p)

Next ==
    \/ \E j \in Rows : Enqueue(j) \/ CancelPending(Key[j])
    \/ \E p \in Procs : LockNext(p) \/ RunnerNext(p) \/ SendNext(p) \/ ProcNext(p)

Spec == Init /\ [][Next]_vars
-----------------------------------------------------------------------------
(* Properties.                                                              *)

Ops == [to: {"sending"}, from: {"running"}, tok: Nat]
       \cup [to: Final, from: {"sending"}, tok: Nat]
       \cup {EnqueueAgain}

TypeOK ==
    /\ row \in [Rows -> [st: Status, attempts: Nat, tok: Nat]]
    /\ lock \in Procs \cup {NoProc}
    /\ belief \in [Procs -> {"held", "lost", "taken"}]
    /\ proc \in [Procs -> {"down", "replaying", "up", "stopping"}]
    /\ recovered \in [Procs -> BOOLEAN]
    /\ lane \in [Procs -> [Lanes -> {"idle", "ready", "running", "releasing"}]]
    /\ slot \in [Procs -> [Rows -> [phase: Phases, tok: Nat, att: Nat, out: Outcomes, delta: Nat]]]
    /\ queue \in [Procs -> [Rows -> Seq(Ops)]]
    /\ applied \in [Procs -> SUBSET Rows]
    /\ spill \in [Rows -> Seq(Ops)]
    /\ pushed \in [Rows -> Nat]
    /\ finished \in [Rows -> SUBSET Nat]
    /\ clock \in Nat
    /\ boots \in Nat

\* A follow-up row's text is handed to the channel at most once, over every restart, lock
\* handover and repeated claim of the row (followup.ts sendAfterLedger, "at most once").
AtMostOncePush == \A j \in Rows : pushed[j] <= 1

\* A row in `sending' or finished is never pending or running again: what may have been
\* sent is never executed again (spec 02, invariant 38; recoverJobsAtStartup, settle).
NeverRerun ==
    [][\A j \in Rows : row[j].st \in PostSend =>
          /\ row'[j].st \in PostSend
          /\ row[j].st \in Final => row'[j] = row[j]]_vars


\* While a process that is not stopping executes a claim, the row of that claim is not open
\* to a second claim; only another process's recovery, which clears the token, takes it
\* (claimDueJobs, stopJobs and the release in tickLane all keep to the token).
NotReclaimable ==
    \A p \in Procs, j \in Rows :
        /\ proc[p] = "up" /\ slot[p][j].phase \in {"claimed", "started", "ledger", "recheck", "pushed"}
        /\ row[j].tok = slot[p][j].tok
        => row[j].st # "pending"

\* At most one open row per dedupe key, whoever enqueues, recovers or settles (jobs_open_uq).
OneOpenPerKey ==
    \A i, j \in Rows :
        i # j /\ Key[i] = Key[j] => ~(row[i].st \in OpenSt /\ row[j].st \in OpenSt)

\* Startup recovery never resets a claim of the recovering process itself: nothing is
\* claimed before own.recovered is set (runner.ts recover, prelude).
RecoverySparesOwn ==
    [][\A p \in Procs, j \in Rows :
          recovered'[p] /\ ~recovered[p] /\ slot[p][j].phase # "none" => row'[j] = row[j]]_vars

\* A row says `done' only of the claim whose executor decided so: an executor whose row was
\* recovered and claimed again meanwhile cannot close the new claim with its own result
\* (setJobStatus with claimedAt).
DoneIsEarned == \A j \in Rows : row[j].st = "done" => row[j].tok \in finished[j]

\* max_attempts is a budget: it is never overdrawn, and a row that used it up is not claimed
\* again, however throws, restarts and repeated writes of one result mix (retryOutcome,
\* settle, recoverJobsAtStartup).
AttemptsWithinBudget ==
    \A j \in Rows : /\ row[j].attempts <= MaxAttempts
                    /\ row[j].st \in {"pending", "running"} => row[j].attempts < MaxAttempts

ResultsAreEarned == DoneIsEarned /\ AttemptsWithinBudget

\* The tickets of SendTicket, read off the table and the executors.
Holder(p, j) == j \in applied[p] \/ slot[p][j].phase = "recheck"
Ticket == [j \in Rows |->
    IF pushed[j] > 0 THEN "used"
    ELSE IF \E p \in Procs : Holder(p, j) THEN "granted"
    ELSE IF row[j].st \in PostSend THEN "void"
    ELSE "free"]

Tickets == INSTANCE SendTicket WITH Rows <- Rows, ticket <- Ticket

\* The runner implements the one-ticket-per-row promise.
TicketSpec == Tickets!Spec

-----------------------------------------------------------------------------
(* Liveness, for one process that keeps the lock and is restarted whenever  *)
(* it goes down.                                                            *)

\* The event loop runs every ready handler, the supervisor restarts the process, and the
\* database eventually answers.
Fairness ==
    \A p \in Procs :
        /\ WF_vars(Boot(p)) /\ WF_vars(Replay(p)) /\ WF_vars(Exit(p)) /\ WF_vars(Reacquire(p))
        /\ WF_vars(NoticeLost(p))
        /\ SF_vars(Recover(p) /\ recovered'[p])
        /\ \A j \in Rows : /\ SF_vars(Flush(p, j))
                           /\ WF_vars(Settle(p, j)) /\ WF_vars(Decide(p, j))
                           /\ WF_vars(Push(p, j)) /\ WF_vars(PushResult(p, j))

FairSpec == Spec /\ Fairness

\* A follow-up that entered `sending' gets a final status: the executor's result commits,
\* or a spill file or the next start settles it.
SendingResolved == \A j \in Rows : (row[j].st = "sending") ~> (row[j].st \in Final)
=============================================================================
