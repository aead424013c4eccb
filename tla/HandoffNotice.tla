--------------------------- MODULE HandoffNotice ---------------------------
(***************************************************************************)
(* A conversation is handed to people, and the advisors' group is told     *)
(* (handoff/record.ts, handoff/takeover.ts, jobs/notify.ts,                *)
(* notify/handoff.ts).  The notice is a job that commits together with     *)
(* the handoff; when that flush does not commit, an `unsaved' notice may   *)
(* be sent ahead of it, and whichever comes second must see the first.     *)
(* A COMMIT and the write queue's knowledge of it are two steps: in        *)
(* between the job may run, and the flush may count as failed.             *)
(* The flush, the timer of the unsaved notice, the sender of each and the  *)
(* job runner interleave freely; the process may stop (its spill is        *)
(* replayed) or crash, and start again.                                    *)
(*                                                                         *)
(* One conversation.  The rows of the jobs table are in Jobs, the write    *)
(* queue in SessionStore: both appear here by what this code sees of them. *)
(***************************************************************************)
EXTENDS Naturals, FiniteSets

CONSTANTS
    NHandoffs,      \* records of a handoff (or an escalation), numbered in order
    MaxAttempts,    \* of the job (HANDOFF_NOTIFY_MAX_ATTEMPTS)
    MaxRetries,     \* of an unsaved notice (unsavedTiming.retryMs)
    MaxFailures     \* bound: failed flushes, failed sends and exits

ASSUME NoticeAssumption ==
    NHandoffs \in Nat /\ MaxAttempts \in Nat \ {0} /\ MaxRetries \in Nat

Handoffs == 1..NHandoffs

VARIABLES
    handedOver, taken, count, \* session.handedOver, .assignee # null, .handoffCount
    rec,        \* per handoff: kind, the count it belongs to, escalated, cancelled at once
    op,         \* where its `started' job is
    mark,       \* payload.unsavedSent of that job while the write queue has it
    flush,      \* e.inflight: idle, flying, retry (it has failed before)
    poisoned,
    job, tried, \* the row of the jobs table
    wrote,      \* payload.unsavedSent of that row
    unsaved,    \* own.unsaved and own.waiting
    retried,    \* how often its sending has failed
    told,       \* ghost: notices the group received
    blind,      \* ghost: sendings nothing told of one before (Begins, Forgets)
    failures

sessionPart == <<handedOver, taken, count, rec>>
storePart == <<op, mark, flush, poisoned>>
jobPart == <<job, tried, wrote>>
unsavedPart == <<unsaved, retried>>
noticeVars == <<sessionPart, storePart, jobPart, unsavedPart, told, blind, failures>>

NoRec == [kind |-> "none", count |-> 0, escalated |-> FALSE, cancelled |-> FALSE]

NoticeInit ==
    /\ handedOver = FALSE /\ taken = FALSE /\ count = 0
    /\ rec = [h \in Handoffs |-> NoRec]
    /\ op = [h \in Handoffs |-> "none"] /\ mark = [h \in Handoffs |-> FALSE]
    /\ flush = "idle" /\ poisoned = FALSE
    /\ job = [h \in Handoffs |-> "none"] /\ tried = [h \in Handoffs |-> 0]
    /\ wrote = [h \in Handoffs |-> FALSE]
    /\ unsaved = [h \in Handoffs |-> "none"] /\ retried = [h \in Handoffs |-> 0]
    /\ told = [h \in Handoffs |-> 0] /\ blind = [h \in Handoffs |-> 0] /\ failures = 0

MaxOf(S) == CHOOSE n \in S : \A k \in S : k <= n

Fault == failures < MaxFailures /\ failures' = failures + 1

Recorded == {h \in Handoffs : rec[h].kind # "none"}
Fresh(h) == h \notin Recorded /\ \A g \in Handoffs : g < h => g \in Recorded

\* Mutants: one that was sent is sent again; only emergencies are noted.
Noted_Again(S, h) ==
    IF h \in S THEN IF rec'[h].kind = "emergency" THEN "sending" ELSE "waiting" ELSE unsaved[h]

\* noteUnsaved, for every event of a set: at once when it is an emergency,
\* else after 30 seconds; once per record.  A consent record has no event.
Noted(S, h) ==
    IF h \in S /\ unsaved[h] = "none"
    THEN IF rec'[h].kind = "emergency" THEN "sending" ELSE "waiting"
    ELSE unsaved[h]
NoteUnsaved(S) ==
    /\ unsaved' = [h \in Handoffs |-> Noted({g \in S : rec'[g].kind # "consent"}, h)]
    /\ retried' = [h \in Handoffs |-> IF unsaved'[h] = unsaved[h] THEN retried[h] ELSE 0]

\* Notice h begins to be sent although its job is already in the table: whatever
\* that job has done or is doing, the unsaved notice does not look at it.
Begins(h) == op[h] = "landed" /\ unsaved[h] # "sending" /\ unsaved'[h] = "sending"
Blind(S) == blind' = [h \in Handoffs |-> IF h \in S THEN blind[h] + 1 ELSE blind[h]]

-----------------------------------------------------------------------------
(* The conversation *)

\* emitAfterCommit and queueJobs of one record, in the write queue.
Queue(h, r) ==
    /\ rec' = [rec EXCEPT ![h] = r]
    /\ op' = [op EXCEPT ![h] = "queued"]
    /\ NoteUnsaved(IF poisoned \/ flush = "retry" THEN {h} ELSE {})
    /\ UNCHANGED <<mark, flush, poisoned, jobPart, told, blind, failures>>

EnterHandoff(h, kind) ==
    /\ Fresh(h) /\ ~handedOver
    /\ handedOver' = TRUE /\ taken' = FALSE /\ count' = count + 1
    /\ Queue(h, [kind |-> kind, count |-> count + 1, escalated |-> FALSE, cancelled |-> FALSE])

\* Already handed over: only an emergency is recorded anew.
Escalate(h) ==
    /\ Fresh(h) /\ handedOver
    /\ \A g \in Recorded : rec[g].count = count => rec[g].kind # "emergency"
    /\ Queue(h, [kind |-> "emergency", count |-> count, escalated |-> TRUE, cancelled |-> FALSE])
    /\ UNCHANGED <<handedOver, taken, count>>

\* A request about consent in a conversation handed over before: no event, but a
\* notice of its own, which like an escalation goes to whoever has it.
AskConsent(h) ==
    /\ Fresh(h) /\ handedOver
    /\ Queue(h, [kind |-> "consent", count |-> count, escalated |-> TRUE, cancelled |-> FALSE])
    /\ UNCHANGED <<handedOver, taken, count>>

\* takeover: somebody becomes the assignee.  A handoff that begins with it
\* cancels the notices it has just queued.
AdvisorTakes(h) ==
    \/ /\ handedOver /\ ~taken
       /\ taken' = TRUE
       /\ UNCHANGED <<handedOver, count, rec, storePart, jobPart, unsavedPart, told, blind, failures>>
    \/ /\ ~handedOver /\ Fresh(h)
       /\ handedOver' = TRUE /\ taken' = TRUE /\ count' = count + 1
       /\ Queue(h, [kind |-> "agent", count |-> count + 1, escalated |-> FALSE, cancelled |-> TRUE])

ReleaseToAI ==
    /\ handedOver
    /\ handedOver' = FALSE /\ taken' = FALSE
    /\ UNCHANGED <<count, rec, storePart, jobPart, unsavedPart, told, blind, failures>>

-----------------------------------------------------------------------------
(* The flush of the conversation *)

\* Operations of the snapshot: read, inserted, and committed unheard.
Aboard == {h \in Handoffs : op[h] \in {"flight", "written", "landed"}}
Waiting == {h \in Handoffs : op[h] = "queued"}
MoveOps(from, to) == [h \in Handoffs |-> IF op[h] \in from THEN to ELSE op[h]]

StartFlush ==
    /\ flush = "idle" /\ ~poisoned /\ Waiting # {}
    /\ flush' = "flying"
    /\ op' = MoveOps({"queued"}, "flight")
    /\ UNCHANGED <<sessionPart, mark, poisoned, jobPart, unsavedPart, told, blind, failures>>

\* The transaction has executed the inserts: the payload is what it was now.
WriteRows ==
    /\ flush # "idle" /\ \E h \in Handoffs : op[h] = "flight"
    /\ op' = MoveOps({"flight"}, "written")
    /\ wrote' = [h \in Handoffs |-> IF op[h] = "flight" THEN mark[h] ELSE wrote[h]]
    /\ UNCHANGED <<sessionPart, mark, flush, poisoned, job, tried, unsavedPart, told, blind, failures>>

Inserted(h) == IF rec[h].cancelled THEN "done" ELSE "pending"

\* The database commits: the job is there to be claimed, and nobody here knows.
Commit ==
    /\ \E h \in Handoffs : op[h] = "written"
    /\ op' = MoveOps({"written"}, "landed")
    /\ job' = [h \in Handoffs |-> IF op[h] = "written" THEN Inserted(h) ELSE job[h]]
    /\ UNCHANGED <<sessionPart, mark, flush, poisoned, tried, wrote, unsavedPart, told, blind, failures>>

\* afterCommit, of the answer or of the retry that recognises its flush_id: the
\* events go out, and an unsaved notice that still waits is dropped.
AfterCommit ==
    /\ \E h \in Handoffs : op[h] = "landed"
    /\ flush' = "idle"
    /\ op' = MoveOps({"landed"}, "row")
    /\ mark' = [h \in Handoffs |-> mark[h] /\ op[h] # "landed"]
    /\ unsaved' = [h \in Handoffs |->
            IF op[h] = "landed" /\ unsaved[h] = "waiting" THEN "none" ELSE unsaved[h]]
    /\ UNCHANGED <<sessionPart, poisoned, jobPart, retried, told, blind, failures>>

\* failed, a connection error: the same snapshot is tried again.  It may have
\* committed for all that.
FlushFails ==
    /\ flush # "idle" /\ Fault
    /\ flush' = "retry"
    /\ op' = MoveOps({"written"}, "flight")
    /\ UNCHANGED <<sessionPart, mark, poisoned, jobPart, told>>
    /\ NoteUnsaved(Aboard \cup Waiting)
    /\ Blind({h \in Handoffs : Begins(h)})

\* failed, a data error: the conversation writes no more until the next start.
\* (A snapshot that committed is recognised before any row is written.)
Poison ==
    /\ flush # "idle" /\ ~poisoned /\ Fault
    /\ \A h \in Handoffs : op[h] # "landed"
    /\ poisoned' = TRUE /\ flush' = "idle"
    /\ op' = MoveOps({"flight", "written"}, "stuck")
    /\ UNCHANGED <<sessionPart, mark, jobPart, told, blind>>
    /\ NoteUnsaved(Aboard \cup Waiting)

-----------------------------------------------------------------------------
(* The unsaved notice *)

TimerFires(h) ==
    /\ unsaved[h] = "waiting"
    /\ unsaved' = [unsaved EXCEPT ![h] = "sending"]
    /\ Blind({g \in {h} : Begins(g)})
    /\ UNCHANGED <<sessionPart, storePart, jobPart, retried, told, failures>>

\* patchQueuedJob reaches the operations in the queue and in the snapshot; the
\* row a transaction has already inserted keeps its payload.
UnsavedSent(h) ==
    /\ unsaved[h] = "sending"
    /\ told' = [told EXCEPT ![h] = @ + 1]
    /\ unsaved' = [unsaved EXCEPT ![h] = "sent"]
    /\ mark' = [mark EXCEPT ![h] = @ \/ op[h] # "row"]
    /\ retried' = [retried EXCEPT ![h] = 0]
    /\ UNCHANGED <<sessionPart, op, flush, poisoned, jobPart, blind, failures>>

UnsavedFails(h) ==
    /\ unsaved[h] = "sending" /\ Fault
    /\ retried' = [retried EXCEPT ![h] = @ + 1]
    /\ unsaved' = [unsaved EXCEPT ![h] = IF retried[h] < MaxRetries THEN @ ELSE "none"]
    /\ UNCHANGED <<sessionPart, storePart, jobPart, told, blind>>

-----------------------------------------------------------------------------
(* The job *)

Claim(h) ==
    /\ op[h] \in {"landed", "row"} /\ job[h] = "pending"
    /\ job' = [job EXCEPT ![h] = "running"]
    /\ UNCHANGED <<sessionPart, storePart, tried, wrote, unsavedPart, told, blind, failures>>

\* runHandoffNotifyJob up to its send.
RunJob(h) ==
    LET already == wrote[h] \/ unsaved[h] = "sent"
        same == handedOver /\ rec[h].count = count
    IN
    /\ job[h] = "running"
    /\ job' = [job EXCEPT ![h] =
            IF already THEN "done"
            ELSE IF unsaved[h] = "sending" THEN "pending"
            ELSE IF ~same \/ (taken /\ ~rec[h].escalated) THEN "done"
            ELSE "delivering"]
    /\ unsaved' = [unsaved EXCEPT ![h] = IF already THEN "none" ELSE @]
    /\ UNCHANGED <<sessionPart, storePart, tried, wrote, retried, told, blind, failures>>

Delivered(h) ==
    /\ job[h] = "delivering"
    /\ told' = [told EXCEPT ![h] = @ + 1]
    /\ job' = [job EXCEPT ![h] = "told"]
    /\ UNCHANGED <<sessionPart, storePart, tried, wrote, unsavedPart, blind, failures>>

\* The runner writes the result of the job.
Reported(h) ==
    /\ job[h] = "told"
    /\ job' = [job EXCEPT ![h] = "done"]
    /\ UNCHANGED <<sessionPart, storePart, tried, wrote, unsavedPart, told, blind, failures>>

DeliveryFails(h) ==
    /\ job[h] = "delivering" /\ Fault
    /\ tried' = [tried EXCEPT ![h] = @ + 1]
    /\ job' = [job EXCEPT ![h] = IF tried[h] + 1 >= MaxAttempts THEN "failed" ELSE "pending"]
    /\ UNCHANGED <<sessionPart, storePart, wrote, unsavedPart, told, blind>>

-----------------------------------------------------------------------------
(* The process *)

\* What an exit makes the next process forget of notice h: that its job has
\* sent it, or that the unsaved one went out and the row does not say so.
Forgets(h) ==
    \/ job[h] = "told"
    \/ /\ op[h] \in {"landed", "row"} /\ job[h] \in {"pending", "running"}
       /\ unsaved[h] = "sent" /\ ~wrote[h]

\* Memory goes.  A spill keeps what the write queue held and is replayed at the
\* next start (what had committed is recognised there), which also puts
\* interrupted jobs back; a crash keeps only rows, and the session as some commit
\* left it.
Restart(spilled) ==
    LET memory == {"queued", "flight", "written", "stuck"}
        kept(h) == op[h] \in memory /\ spilled
        lost(h) == op[h] \in memory /\ ~spilled
        cut(h) == job[h] \in {"running", "delivering", "told"}
        known == {h \in Recorded : op[h] # "lost" /\ ~lost(h)}
    IN
    /\ Fault
    /\ Blind({h \in Handoffs : Forgets(h)})
    /\ op' = [h \in Handoffs |->
            IF lost(h) THEN "lost" ELSE IF kept(h) \/ op[h] = "landed" THEN "row" ELSE op[h]]
    /\ wrote' = [h \in Handoffs |-> IF kept(h) THEN mark[h] ELSE wrote[h]]
    /\ job' = [h \in Handoffs |->
            IF kept(h) THEN Inserted(h)
            ELSE IF cut(h) THEN IF tried[h] + 1 >= MaxAttempts THEN "failed" ELSE "pending"
            ELSE job[h]]
    /\ tried' = [h \in Handoffs |-> IF cut(h) THEN tried[h] + 1 ELSE tried[h]]
    /\ flush' = "idle" /\ poisoned' = FALSE /\ mark' = [h \in Handoffs |-> FALSE]
    /\ unsaved' = [h \in Handoffs |-> "none"] /\ retried' = [h \in Handoffs |-> 0]
    /\ IF spilled
       THEN UNCHANGED <<handedOver, taken, count>>
       ELSE /\ count' = MaxOf({0} \cup {rec[h].count : h \in known})
            /\ handedOver' \in {b \in BOOLEAN : b => count' > 0}
            /\ taken' \in {b \in BOOLEAN : b => handedOver'}
    /\ UNCHANGED <<rec, told>>

Flushes == StartFlush \/ WriteRows \/ Commit \/ AfterCommit
UnsavedProceeds(h) == TimerFires(h) \/ UnsavedSent(h) \/ UnsavedFails(h)
JobProceeds(h) == Claim(h) \/ RunJob(h) \/ Delivered(h) \/ DeliveryFails(h) \/ Reported(h)

NoticeNext ==
    \/ \E h \in Handoffs :
        \/ \E k \in {"request", "emergency"} : EnterHandoff(h, k)
        \/ Escalate(h) \/ AskConsent(h) \/ AdvisorTakes(h) \/ UnsavedProceeds(h) \/ JobProceeds(h)
    \/ ReleaseToAI \/ Flushes \/ FlushFails \/ Poison
    \/ \E spilled \in BOOLEAN : Restart(spilled)

NoticeSpec == NoticeInit /\ [][NoticeNext]_noticeVars

-----------------------------------------------------------------------------
(* Properties *)

\* The group is told once of each handoff, by the job or ahead of it, in
\* whatever order the two come: a second time only if the sending of the unsaved
\* notice began with the job in the table and the flush not heard of, or an exit
\* made the process forget that it had told.
NoticedOnce == \A h \in Handoffs : told[h] <= 1 + blind[h]

\* Every handoff is told of, or looked at by its job and found settled, unless
\* its record is gone, or cannot be written and the unsaved notice failed too
\* (a consent record has none).
HandoffNoticed ==
    <>[](\A h \in Recorded :
            \/ told[h] > 0 \/ job[h] \in {"done", "failed"}
            \/ op[h] = "lost" \/ (poisoned /\ (retried[h] > MaxRetries \/ rec[h].kind = "consent")))

=============================================================================
