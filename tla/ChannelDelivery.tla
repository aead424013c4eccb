-------------------------- MODULE ChannelDelivery --------------------------
(***************************************************************************)
(* One database WeCom account, from the page it pulls to the segment it    *)
(* sends: the inbox (channels/inbox.ts), the per-conversation chain and    *)
(* the sender (adapters/wecom.ts), the ledger (quota/ledger.ts), the       *)
(* transition tables (channels/transitions.ts) and startup recovery        *)
(* (channels/recovery.ts, channels/recovery-rules.ts).                     *)
(*                                                                         *)
(* A conversation's write queue (store/pg-backend.ts) is a sequence of     *)
(* batches: what one synchronous stretch of code queued commits at once.   *)
(* A segment is <<message, boot it was planned in, number>>; number 0 is   *)
(* the apology of a failed turn, which answers no inbox row.               *)
(***************************************************************************)
EXTENDS Naturals, FiniteSets, Sequences, Functions, Lines

CONSTANTS Users,       \* conversations
          N,           \* customer messages WeCom holds, 1..N in its order
          From,        \* [1..N -> Users]
          Withdrawals, \* messages that withdraw consent: answered under staff too
          NSeg,        \* segments of a reply, at most
          PageSize,    \* messages of a page, at most
          MaxInboxAttempts, MaxTries,
          MaxBoots,    \* bound: starts at most
          Budgets      \* bounds: what may go wrong in a behaviour, one of these

Limits == {"starts",    \* starts of the process
           "segs",      \* segments of a reply
           "old",       \* messages too old to be answered, from the first on
           "sleep",     \* a downtime after which all messages pulled before are too old
           "takeover", "receipt",
           "stall",     \* database writes that fail or are given up on
           "drop",      \* results dropped with their savepoint
           "page",      \* pages whose commit is never answered
           "ack",       \* attempt counts whose commit is not answered
           "poison"}    \* conversations whose main transaction stops

ASSUME ChannelAssumption ==
    /\ N \in Nat /\ NSeg \in Nat /\ PageSize \in Nat \ {0}
    /\ From \in [1..N -> Users]
    /\ Withdrawals \subseteq 1..N
    /\ MaxInboxAttempts \in Nat \ {0} /\ MaxTries \in Nat \ {0}
    /\ MaxBoots \in Nat /\ Budgets \subseteq [Limits -> Nat]
    /\ \A b \in Budgets : b.segs <= NSeg /\ b.starts <= MaxBoots

Msgs == 1..N
Segs == Msgs \X (1..MaxBoots) \X (0..NSeg)
MsgOf(s) == s[1]
IsReply(s) == s[3] > 0          \* has an inboxId
UserOf(s) == From[MsgOf(s)]

VARIABLES
    \* the database
    cursor,      \* channel_accounts.cursor
    inbox,       \* channel_inbox.state, "none" without a row
    attempts,    \* channel_inbox.attempts
    outbound,    \* outbound_sends.status, "none" without a row
    conv,        \* messages: what the conversation holds of a message and its reply
    owner,       \* handedOver and assignee: "ai", "queue" (nobody yet), "human"
    receipt,     \* channel_inbox rows of send_fail receipts, by segment
    \* the process
    proc,        \* "down", "up", "stopping", "closed" (past the send deadline)
    cur, cold,   \* AccountInbox.cursor, coldStartCutoff
    mout,        \* the ledger: status of each segment
    mconv, mowner, \* the sessions in memory
    gen,         \* takeoverGen
    wq,          \* per conversation, batches queued and not committed
    poisoned,    \* conversations whose main transaction stopped
    chain,       \* userChains: messages dispatched, head first
    turn,        \* what the head of the chain is at
    halted,      \* haltedChains
    rtask,       \* receipts whose short transaction is still to be written
    \* history
    sent,        \* boots in which a send_msg of the segment was posted, in order
    got,         \* segments WeCom took
    unsafe,      \* segments posted without `sending' committed (noteUnsafeSend)
    dequeued, worked, \* times a message was dequeued, and handled after its count
    boots, faults

dbVars   == <<cursor, inbox, attempts, outbound, conv, owner, receipt>>
memVars  == <<proc, cur, cold, mout, mconv, mowner, gen, wq, poisoned, chain, turn, halted, rtask>>
histVars == <<sent, got, unsafe, dequeued, worked, boots, faults>>
vars     == <<dbVars, memVars, histVars>>

InboxOpen == {"received", "recorded", "replied"}
Alive == proc # "down"
Pulling == proc = "up"
SendsClosed == proc = "closed"

-----------------------------------------------------------------------------
(* channels/transitions.ts *)

OutboundTransitions ==
    {<<"none", "pending", "plan">>, <<"none", "accepted", "settle">>,
     <<"none", "rejected", "settle">>, <<"none", "unknown", "settle">>,
     <<"none", "failed", "receipt">>,
     <<"pending", "sending", "mark">>, <<"sending", "pending", "unmark">>,
     <<"unknown", "accepted", "settle">>, <<"unknown", "unknown", "settle">>,
     <<"pending", "cancelled", "cancel">>, <<"pending", "cancelled", "recover">>,
     <<"sending", "cancelled", "cancel">>, <<"sending", "unknown", "recover">>}
    \cup {<<f, t, "settle">> : f \in {"pending", "sending"}, t \in {"accepted", "rejected", "unknown"}}
    \cup {<<f, "failed", "receipt">> : f \in {"pending", "sending", "accepted", "unknown"}}

CanMove(from, to, writers) == \E w \in writers : <<from, to, w>> \in OutboundTransitions
Moved(from, to, writers) == IF CanMove(from, to, writers) THEN to ELSE from

InboxTransitions ==
    {<<"none", "received">>, <<"none", "done">>, <<"none", "abandoned">>,
     <<"received", "recorded">>, <<"recorded", "replied">>}
    \cup {<<f, t>> : f \in InboxOpen, t \in {"done", "abandoned"}}

InboxMoved(from, to) == IF <<from, to>> \in InboxTransitions THEN to ELSE from

\* NO_MORE_SENDS
NoMoreSends == {"accepted", "rejected", "failed", "cancelled"}

-----------------------------------------------------------------------------
(* A batch of a conversation's write queue, and the order its parts are     *)
(* written in: conversation, inbox, pending and cancelled, results.         *)

NoBatch == [say |-> {}, ans |-> {}, own |-> "same", inb |-> {},
            plan |-> {}, cancel |-> {}, res |-> {}]

Queue(u, b) == [wq EXCEPT ![u] = Append(@, b)]

\* insertOutboundSends: rows in the database move only along the table.
FlushWriters == {"plan", "settle", "cancel", "receipt"}

InboxAfter(st, changes) ==
    LET step(x, to) == IF to \in changes THEN InboxMoved(x, to) ELSE x
    IN step(step(step(step(st, "recorded"), "replied"), "done"), "abandoned")

OutboundAfter(st, s, b, results) ==
    LET p == IF s \in b.plan THEN Moved(st, "pending", FlushWriters) ELSE st
        c == IF s \in b.cancel THEN Moved(p, "cancelled", FlushWriters) ELSE p
        R == {r \in results : r[1] = s}
    IN IF R = {} THEN c ELSE Moved(c, (CHOOSE r \in R : TRUE)[2], FlushWriters)

\* The channel rows of a batch; `results' are the rows of its savepoint that were kept.
WriteChannel(b, results) ==
    /\ inbox' = [m \in Msgs |-> InboxAfter(inbox[m], {c[2] : c \in {x \in b.inb : x[1] = m}})]
    /\ outbound' = [s \in Segs |-> OutboundAfter(outbound[s], s, b, results)]

WriteConversation(u, b) ==
    /\ conv' = [m \in Msgs |-> IF m \in b.ans THEN "answered"
                               ELSE IF m \in b.say THEN "said" ELSE conv[m]]
    /\ owner' = [owner EXCEPT ![u] = IF b.own = "same" THEN @ ELSE b.own]

\* A fault that spends its budget.
Fault(kind) == faults[kind] > 0 /\ faults' = [faults EXCEPT ![kind] = @ - 1]

-----------------------------------------------------------------------------
NoTurn == [pc |-> "idle", m |-> 0, seen |-> 0, gen |-> 0, egen |-> 0, kind |-> "reply",
           todo |-> <<>>, mark |-> "none", tries |-> 0, outc |-> "none"]

Init ==
    /\ cursor = 0
    /\ inbox = [m \in Msgs |-> "none"]
    /\ attempts = [m \in Msgs |-> 0]
    /\ outbound = [s \in Segs |-> "none"]
    /\ conv = [m \in Msgs |-> "no"]
    /\ owner = [u \in Users |-> "ai"]
    /\ receipt = [s \in Segs |-> "none"]
    /\ proc = "down" /\ cur = 0 /\ cold = FALSE
    /\ mout = outbound /\ mconv = conv /\ mowner = owner
    /\ gen = [u \in Users |-> 0]
    /\ wq = [u \in Users |-> <<>>]
    /\ poisoned = {}
    /\ chain = [u \in Users |-> <<>>]
    /\ turn = [u \in Users |-> NoTurn]
    /\ halted = {}
    /\ rtask = {}
    /\ sent = [s \in Segs |-> <<>>]
    /\ got = {}
    /\ unsafe = {}
    /\ dequeued = [m \in Msgs |-> 0]
    /\ worked = [m \in Msgs |-> 0]
    /\ boots = 0
    /\ faults \in Budgets

\* The chain goes on with the next row.
Pop(u) ==
    /\ chain' = [chain EXCEPT ![u] = Tail(@)]
    /\ turn' = [turn EXCEPT ![u] = NoTurn]

\* finishInboxRow: with the session's next commit.
FinishRow_Forgotten(u, m, st) == wq
FinishRow(u, m, st) == Queue(u, [NoBatch EXCEPT !.inb = {<<m, st>>}])

At(u, pc) == Alive /\ turn[u].pc = pc
GoTo(u, pc) == turn' = [turn EXCEPT ![u].pc = pc]
Set(f, S, v) == [x \in DOMAIN f |-> IF x \in S THEN v ELSE f[x]]

-----------------------------------------------------------------------------
(* Pulling *)

\* From before the cold start, or outside the 48 h window.
TooOld(m) == m <= faults.old

\* acceptPage, drainInbox: rows and cursor in one transaction; then the cursor in memory and
\* the dispatch of what was new.  When the answer of the commit is lost neither happens.
\* A page whose commit is under way when the stop comes counts as pulled before it.
Pull(k) ==
    /\ Pulling /\ k \in 1..PageSize /\ cur + k <= N
    /\ LET page == {m \in Msgs : cur < m /\ m <= cur + k}
           new  == {m \in page : inbox[m] = "none"}
           first(m) == IF cold /\ TooOld(m) THEN "abandoned" ELSE "received"
           live(u) == InSequence({m \in new : From[m] = u /\ first(m) = "received"})
       IN /\ inbox' = [m \in Msgs |-> IF m \in new THEN first(m) ELSE inbox[m]]
          /\ cursor' = cur + k
          /\ \/ /\ cur' = cur + k
                /\ chain' = [u \in Users |-> chain[u] \o live(u)]
                /\ UNCHANGED faults
             \/ Fault("page") /\ UNCHANGED <<cur, chain>>
    /\ UNCHANGED <<attempts, outbound, conv, owner, receipt, proc, cold, mout, mconv, mowner, gen,
                   wq, poisoned, turn, halted, rtask, sent, got, unsafe, dequeued, worked, boots>>

-----------------------------------------------------------------------------
(* The chain of a conversation *)

OpenSegsOf(m) == {s \in Segs : MsgOf(s) = m /\ IsReply(s) /\ mout[s] \in {"pending", "sending"}}
PendingOf(m)  == {s \in Segs : MsgOf(s) = m /\ IsReply(s) /\ mout[s] = "pending"}
InOrder(S) == Listed(S, [s \in S |-> s[2] * (NSeg + 1) + s[3]])

\* abandonInboxRow: poison, too_old.
Abandon(u, m) ==
    /\ mout' = Set(mout, OpenSegsOf(m), "cancelled")
    /\ wq' = Queue(u, [NoBatch EXCEPT !.cancel = OpenSegsOf(m), !.inb = {<<m, "abandoned">>}])
    /\ Pop(u)

WornOut_Late(m) == attempts[m] > MaxInboxAttempts

\* beginInboxAttempt: the row has used up its attempts.
WornOut(m) == attempts[m] >= MaxInboxAttempts

\* processInboxRow, up to beginInboxAttempt.
Dequeue(u) ==
    /\ At(u, "idle") /\ chain[u] # <<>>
    /\ LET m == Head(chain[u]) IN
       \/ /\ u \in halted
          /\ Pop(u) /\ UNCHANGED <<mout, wq, dequeued>>
       \/ /\ u \notin halted /\ (WornOut(m) \/ TooOld(m))
          /\ Abandon(u, m) /\ UNCHANGED dequeued
       \/ /\ u \notin halted /\ ~WornOut(m) /\ ~TooOld(m)
          /\ turn' = [turn EXCEPT ![u] = [NoTurn EXCEPT !.pc = "attempt", !.m = m,
                                                        !.seen = attempts[m]]]
          /\ dequeued' = [dequeued EXCEPT ![m] = @ + 1]
          /\ UNCHANGED <<chain, mout, wq>>
    /\ UNCHANGED <<dbVars, proc, cur, cold, mconv, mowner, gen, poisoned, halted, rtask,
                   sent, got, unsafe, worked, boots, faults>>

\* effectiveInboxState
Effective(m) ==
    CASE inbox[m] = "received" /\ \E s \in Segs : MsgOf(s) = m /\ IsReply(s) /\ outbound[s] # "none"
             -> "replied"
      [] inbox[m] = "received" /\ mconv[m] # "no" -> "recorded"
      [] OTHER -> inbox[m]

Run(u, m) == [NoTurn EXCEPT !.pc = "hear", !.m = m, !.gen = gen[u]]

\* processMessageRow: a new message.
ResumeReceived(u, m) ==
    /\ turn' = [turn EXCEPT ![u] = Run(u, m)]
    /\ UNCHANGED <<chain, mout, mconv, wq>>

\* resumeRecordedRow
ResumeRecorded(u, m) ==
    LET restore == IF mconv[m] = "no" THEN {m} ELSE {}
        upgrade == IF inbox[m] = "received" THEN {<<m, "recorded">>} ELSE {}
        note(b) == IF b = NoBatch THEN wq ELSE Queue(u, b)
        base    == [NoBatch EXCEPT !.say = restore, !.inb = upgrade]
    IN /\ mconv' = Set(mconv, restore, "said")
       /\ \/ /\ mconv[m] = "answered" /\ mowner[u] # "human"       \* send_reply
             /\ turn' = [turn EXCEPT ![u] = [Run(u, m) EXCEPT !.pc = "plan"]]
             /\ wq' = note(base)
             /\ UNCHANGED <<chain, mout>>
          \/ /\ mconv[m] = "answered" /\ mowner[u] = "human"       \* cancel_reply
             /\ \E n \in 1..faults.segs :
                    LET S == {<<m, boots, i>> : i \in 1..n} IN
                    /\ mout' = Set(mout, S, "cancelled")
                    /\ wq' = Queue(u, [base EXCEPT !.plan = S, !.cancel = S,
                                                   !.inb = @ \cup {<<m, "replied">>, <<m, "done">>}])
             /\ Pop(u)
          \/ /\ mconv[m] # "answered" /\ mowner[u] # "ai"          \* done, handed_over
             /\ wq' = Queue(u, [base EXCEPT !.inb = @ \cup {<<m, "done">>}])
             /\ Pop(u) /\ UNCHANGED mout
          \/ /\ mconv[m] # "answered" /\ mowner[u] = "ai"          \* rerun
             /\ turn' = [turn EXCEPT ![u] = Run(u, m)]
             /\ wq' = note(base)
             /\ UNCHANGED <<chain, mout>>

\* resumeRepliedRow
ResumeReplied(u, m) ==
    /\ IF PendingOf(m) # {} /\ mowner[u] # "human"
       THEN /\ turn' = [turn EXCEPT ![u] = [Run(u, m) EXCEPT !.pc = "send",
                                                            !.todo = InOrder(PendingOf(m))]]
            /\ UNCHANGED <<chain, mout, wq>>
       ELSE /\ mout' = Set(mout, PendingOf(m), "cancelled")
            /\ wq' = Queue(u, [NoBatch EXCEPT !.cancel = PendingOf(m), !.inb = {<<m, "done">>}])
            /\ Pop(u)
    /\ UNCHANGED mconv

Resume(u, m) ==
    CASE Effective(m) = "received" -> ResumeReceived(u, m)
      [] Effective(m) = "recorded" -> ResumeRecorded(u, m)
      [] OTHER -> ResumeReplied(u, m)

\* bumpInboxAttempts: counted only while the row still holds what was read when it was dequeued.
Bumped(have, seen) == IF have = seen THEN have + 1 ELSE have

\* beginInboxAttempt: its commit, then processOpenMessageRow.  A lost answer is tried again.
Attempt(u) ==
    /\ At(u, "attempt")
    /\ LET m == turn[u].m IN
       /\ attempts' = [attempts EXCEPT ![m] = Bumped(@, turn[u].seen)]
       /\ \/ /\ worked' = [worked EXCEPT ![m] = @ + 1]
             /\ Resume(u, m)
             /\ UNCHANGED faults
          \/ Fault("ack") /\ UNCHANGED <<chain, turn, mout, mconv, wq, worked>>
    /\ UNCHANGED <<cursor, inbox, outbound, conv, owner, receipt, proc, cur, cold, mowner, gen,
                   poisoned, halted, rtask, sent, got, unsafe, dequeued, boots>>

\* The count cannot be written and the process is stopping: the whole chain waits for the next start.
AttemptHalts(u) ==
    /\ At(u, "attempt") /\ ~Pulling
    /\ Fault("stall")
    /\ halted' = halted \cup {u}
    /\ Pop(u)
    /\ UNCHANGED <<dbVars, proc, cur, cold, mout, mconv, mowner, gen, wq, poisoned, rtask,
                   sent, got, unsafe, dequeued, worked, boots>>

-----------------------------------------------------------------------------
(* A turn of the engine, as far as the chain sees it (core/engine/index.ts). *)

\* The customer's message, `recorded' and a reply that needs no model are one batch; a handed-over
\* conversation stays silent, but for the answer to a withdrawal.
Hear(u) ==
    /\ At(u, "hear")
    /\ LET m == turn[u].m
           new == IF mconv[m] = "no" THEN {m} ELSE {}
           b == [NoBatch EXCEPT !.say = new, !.inb = {<<x, "recorded">> : x \in new}]
           next(pc) == [turn EXCEPT ![u].pc = pc, ![u].egen = gen[u]]
       IN \/ /\ mowner[u] = "ai" \/ m \in Withdrawals
             /\ \E own \in IF mowner[u] # "ai" THEN {"same"}
                            ELSE IF m \in Withdrawals THEN {"queue"} ELSE {"same", "queue"} :
                   /\ wq' = Queue(u, [b EXCEPT !.ans = {m}, !.own = own])
                   /\ mowner' = [mowner EXCEPT ![u] = IF own = "same" THEN @ ELSE own]
             /\ mconv' = [mconv EXCEPT ![m] = "answered"]
             /\ turn' = next("plan")
          \/ /\ m \notin Withdrawals
             /\ mconv' = Set(mconv, new, "said")
             /\ wq' = IF new = {} THEN wq ELSE Queue(u, b)
             /\ turn' = next(IF mowner[u] = "ai" THEN "think" ELSE "finish")
             /\ UNCHANGED mowner
    /\ UNCHANGED <<dbVars, proc, cur, cold, mout, gen, poisoned, chain, halted, rtask, histVars>>

\* The reply enters the conversation, perhaps with a handoff to nobody yet.
Think(u) ==
    /\ At(u, "think")
    /\ IF gen[u] # turn[u].egen
       THEN GoTo(u, "finish") /\ UNCHANGED <<mconv, mowner, wq>>      \* unsentTakenOver
       ELSE \E own \in {"same", "queue"} :
            /\ mconv' = [mconv EXCEPT ![turn[u].m] = "answered"]
            /\ mowner' = [mowner EXCEPT ![u] = IF own = "same" THEN @ ELSE own]
            /\ wq' = Queue(u, [NoBatch EXCEPT !.ans = {turn[u].m}, !.own = own])
            /\ GoTo(u, "plan")
    /\ UNCHANGED <<dbVars, proc, cur, cold, mout, gen, poisoned, chain, halted, rtask, histVars>>

\* The model failed: an apology, planned without the inbox row.
Throw(u) ==
    /\ At(u, "think")
    /\ LET s == <<turn[u].m, boots, 0>> IN
       /\ mout' = [mout EXCEPT ![s] = "pending"]
       /\ wq' = Queue(u, [NoBatch EXCEPT !.plan = {s}])
       /\ turn' = [turn EXCEPT ![u].pc = "commit", ![u].kind = "sorry", ![u].todo = <<s>>]
    /\ UNCHANGED <<dbVars, proc, cur, cold, mconv, mowner, gen, poisoned, chain, halted, rtask, histVars>>

\* finishInboxRow done: silent, after an apology, after the last segment.
Finish(u) ==
    /\ At(u, "finish")
    /\ wq' = FinishRow(u, turn[u].m, "done")
    /\ Pop(u)
    /\ UNCHANGED <<dbVars, proc, cur, cold, mout, mconv, mowner, gen, poisoned, halted, rtask, histVars>>

-----------------------------------------------------------------------------
(* Sending a group *)

\* replyDb, planGroup, planOutbound: `pending' of every segment and `replied' in one batch.
PlanBatch_Silent(S, m) == [NoBatch EXCEPT !.plan = S]
PlanBatch(S, m) == [NoBatch EXCEPT !.plan = S, !.inb = {<<m, "replied">>}]
Plan(u) ==
    /\ At(u, "plan")
    /\ \/ \E n \in 1..faults.segs :
            LET m == turn[u].m
                S == {<<m, boots, i>> : i \in 1..n}
            IN /\ mout' = Set(mout, S, "pending")
               /\ wq' = Queue(u, PlanBatch(S, m))
               /\ turn' = [turn EXCEPT ![u].pc = "commit", ![u].todo = InOrder(S)]
       \/ GoTo(u, "finish") /\ UNCHANGED <<mout, wq>>                 \* planFailed
    /\ UNCHANGED <<dbVars, proc, cur, cold, mconv, mowner, gen, poisoned, chain, halted, rtask, histVars>>

Planned(u) == UNION {wq[u][i].plan : i \in DOMAIN wq[u]}

\* commitOutbound: committed, or five seconds have passed and the group is sent all the same (R6).
CommitOutbound(u) ==
    /\ At(u, "commit")
    /\ \/ Range(turn[u].todo) \cap Planned(u) = {} /\ UNCHANGED faults
       \/ Range(turn[u].todo) \cap Planned(u) # {} /\ Fault("stall")
    /\ GoTo(u, "send")
    /\ UNCHANGED <<dbVars, proc, cur, cold, mout, mconv, mowner, gen, wq, poisoned, chain, halted,
                   rtask, sent, got, unsafe, dequeued, worked, boots>>

StillCurrent_Always(u) == TRUE
\* The group still counts: nobody took over since its turn began.
StillCurrent(u) == gen[u] = turn[u].gen

\* runGroup, afterAiGroup: what follows a group that stopped at the deadline.
Deferred(u) ==
    IF turn[u].kind = "sorry" THEN GoTo(u, "finish") /\ UNCHANGED chain ELSE Pop(u)

\* dropRest: nothing of the group that is left is sent.
DropRest(u, S) ==
    LET C == {s \in S : CanMove(mout[s], "cancelled", {"cancel"})} IN
    /\ mout' = Set(mout, C, "cancelled")
    /\ wq' = Queue(u, [NoBatch EXCEPT !.cancel = C])
    /\ GoTo(u, "finish")
    /\ UNCHANGED chain

\* The head of the loop of sendGroup.
NextSegment(u) ==
    /\ At(u, "send")
    /\ IF turn[u].todo = <<>> THEN GoTo(u, "finish") /\ UNCHANGED <<chain, mout, wq>>
       ELSE IF SendsClosed THEN Deferred(u) /\ UNCHANGED <<mout, wq>>
       ELSE IF ~StillCurrent(u) THEN DropRest(u, Range(turn[u].todo))
       ELSE GoTo(u, "mark") /\ UNCHANGED <<chain, mout, wq>>
    /\ UNCHANGED <<dbVars, proc, cur, cold, mconv, mowner, gen, poisoned, halted, rtask, histVars>>

\* settleIntent, and on to the next segment.
Settle(u, result) ==
    LET s == Head(turn[u].todo)
        moves == CanMove(mout[s], result, {"settle"})
    IN /\ mout' = [mout EXCEPT ![s] = Moved(@, result, {"settle"})]
       /\ wq' = IF moves THEN Queue(u, [NoBatch EXCEPT !.res = {<<s, result>>}]) ELSE wq
       /\ turn' = [turn EXCEPT ![u].pc = "send", ![u].todo = Tail(@),
                               ![u].tries = 0, ![u].outc = "none", ![u].mark = "none"]

\* No access token: the segment was not sent and never will be.
TokenFails(u) ==
    /\ At(u, "mark")
    /\ Settle(u, "rejected")
    /\ UNCHANGED <<dbVars, proc, cur, cold, mconv, mowner, gen, poisoned, chain, halted, rtask, histVars>>

\* markSending in the database.  Given up on, its commit may have landed all the same.
MarkResult(st) ==
    CASE st = "pending" -> "marked" [] st = "none" -> "absent" [] OTHER -> "not_pending"
MarkSending(u) ==
    /\ At(u, "mark")
    /\ LET s == Head(turn[u].todo)
           marked == [outbound EXCEPT ![s] = Moved(@, "sending", {"mark"})]
       IN \/ /\ outbound' = marked
             /\ turn' = [turn EXCEPT ![u].pc = "marked", ![u].mark = MarkResult(outbound[s])]
             /\ UNCHANGED faults
          \/ /\ Fault("stall")
             /\ outbound' \in {outbound, marked}
             /\ turn' = [turn EXCEPT ![u].pc = "marked", ![u].mark = "db_unavailable"]
    /\ UNCHANGED <<cursor, inbox, attempts, conv, owner, receipt, proc, cur, cold, mout, mconv, mowner,
                   gen, wq, poisoned, chain, halted, rtask, sent, got, unsafe, dequeued, worked, boots>>

\* A request for the segment at the head goes out.
Post(u) ==
    LET s == Head(turn[u].todo) IN
    /\ sent' = [sent EXCEPT ![s] = Append(@, boots)]
    /\ unsafe' = IF turn[u].mark = "marked" THEN unsafe ELSE unsafe \cup {s}
    /\ turn' = [turn EXCEPT ![u].pc = "wait", ![u].tries = @ + 1]

\* sendSegment between markSending's answer and the request: one synchronous stretch.
FirstPost(u) ==
    /\ At(u, "marked")
    /\ LET s == Head(turn[u].todo)
           rest == Range(turn[u].todo)
           now == IF turn[u].mark = "marked"
                  THEN [mout EXCEPT ![s] = Moved(@, "sending", {"mark"})] ELSE mout
           C == {x \in rest : CanMove(now[x], "cancelled", {"cancel"})}
       IN IF turn[u].mark = "not_pending"
          THEN /\ turn' = [turn EXCEPT ![u].pc = "send", ![u].todo = Tail(@)]
               /\ UNCHANGED <<mout, wq, chain, sent, unsafe>>
          ELSE IF ~StillCurrent(u)
          THEN /\ mout' = Set(now, C, "cancelled")
               /\ wq' = Queue(u, [NoBatch EXCEPT !.cancel = C])
               /\ GoTo(u, "finish")
               /\ UNCHANGED <<chain, sent, unsafe>>
          ELSE /\ mout' = now
               /\ UNCHANGED wq
               /\ IF ~SendsClosed THEN Post(u) /\ UNCHANGED chain
                  ELSE IF turn[u].mark = "marked"
                       THEN GoTo(u, "unmark") /\ UNCHANGED <<chain, sent, unsafe>>
                       ELSE Deferred(u) /\ UNCHANGED <<sent, unsafe>>
    /\ UNCHANGED <<dbVars, proc, cur, cold, mconv, mowner, gen, poisoned, halted, rtask,
                   got, dequeued, worked, boots, faults>>

\* unmarkSending, then deferred.
Unmark(u) ==
    /\ At(u, "unmark")
    /\ LET s == Head(turn[u].todo) IN
       \/ /\ outbound' = [outbound EXCEPT ![s] = Moved(@, "pending", {"unmark"})]
          /\ mout' = [mout EXCEPT ![s] = Moved(@, "pending", {"unmark"})]
          /\ UNCHANGED faults
       \/ Fault("stall") /\ UNCHANGED <<outbound, mout>>
    /\ Deferred(u)
    /\ UNCHANGED <<cursor, inbox, attempts, conv, owner, receipt, proc, cur, cold, mconv, mowner, gen, wq,
                   poisoned, halted, rtask, sent, got, unsafe, dequeued, worked, boots>>

\* WeCom takes the message; the answer is still on its way.
WecomTakes(u) ==
    /\ turn[u].pc = "wait"
    /\ turn' = [turn EXCEPT ![u].pc = "taken"]
    /\ got' = got \cup {Head(turn[u].todo)}
    /\ UNCHANGED <<dbVars, proc, cur, cold, mout, mconv, mowner, gen, wq, poisoned, chain, halted, rtask,
                   sent, unsafe, dequeued, worked, boots, faults>>

\* The outcome so far: a lost answer is never downgraded to a refusal.
Worse(outc) == IF outc = "unknown" THEN "unknown" ELSE "rejected"

MayTryAgain_Late(u) == turn[u].tries <= MaxTries
MayTryAgain(u) == turn[u].tries < MaxTries

\* errcode 0, or a refusal: final, or 45009, -1 and an expired token, which are tried again.
Answered(u) ==
    /\ \/ At(u, "taken") /\ Settle(u, "accepted")
       \/ At(u, "wait") /\ Settle(u, Worse(turn[u].outc))
       \/ /\ At(u, "wait") /\ MayTryAgain(u)
          /\ turn' = [turn EXCEPT ![u].pc = "backoff", ![u].outc = Worse(@)]
          /\ UNCHANGED <<mout, wq>>
    /\ UNCHANGED <<dbVars, proc, cur, cold, mconv, mowner, gen, poisoned, chain, halted, rtask, histVars>>

\* No answer: noteUnknown at once, then another attempt or the end.
AnswerLost(u) ==
    /\ At(u, "wait") \/ At(u, "taken")
    /\ LET s == Head(turn[u].todo) IN
       IF MayTryAgain(u)
       THEN /\ mout' = [mout EXCEPT ![s] = Moved(@, "unknown", {"settle"})]
            /\ wq' = IF CanMove(mout[s], "unknown", {"settle"})
                     THEN Queue(u, [NoBatch EXCEPT !.res = {<<s, "unknown">>}]) ELSE wq
            /\ turn' = [turn EXCEPT ![u].pc = "backoff", ![u].outc = "unknown"]
       ELSE Settle(u, "unknown")
    /\ UNCHANGED <<dbVars, proc, cur, cold, mconv, mowner, gen, poisoned, chain, halted, rtask, histVars>>

MaySendAgain_Always(s) == TRUE
MaySendAgain(s) == mout[s] \notin NoMoreSends

\* After the pause: taken over, past the deadline, settled meanwhile or no token ends it.
Retry(u) ==
    /\ At(u, "backoff")
    /\ \/ /\ StillCurrent(u) /\ ~SendsClosed /\ MaySendAgain(Head(turn[u].todo))
          /\ Post(u)
          /\ UNCHANGED <<mout, wq>>
       \/ Settle(u, turn[u].outc) /\ UNCHANGED <<sent, unsafe>>
    /\ UNCHANGED <<dbVars, proc, cur, cold, mconv, mowner, gen, poisoned, chain, halted, rtask,
                   got, dequeued, worked, boots, faults>>

-----------------------------------------------------------------------------
(* Commits of a conversation (store/pg-backend.ts) *)

\* One batch; the savepoint of the results may fail alone.  A poisoned conversation writes its
\* channel rows only.
Flush(u) ==
    /\ Alive /\ wq[u] # <<>>
    /\ LET b == Head(wq[u]) IN
       /\ \/ WriteChannel(b, b.res) /\ UNCHANGED faults
          \/ b.res # {} /\ Fault("drop") /\ WriteChannel(b, {})
       /\ IF u \in poisoned THEN UNCHANGED <<conv, owner>> ELSE WriteConversation(u, b)
    /\ wq' = [wq EXCEPT ![u] = Tail(@)]
    /\ UNCHANGED <<cursor, attempts, receipt, proc, cur, cold, mout, mconv, mowner, gen, poisoned, chain,
                   turn, halted, rtask, sent, got, unsafe, dequeued, worked, boots>>

Poison(u) ==
    /\ Alive /\ u \notin poisoned /\ wq[u] # <<>>
    /\ Fault("poison")
    /\ poisoned' = poisoned \cup {u}
    /\ UNCHANGED <<dbVars, proc, cur, cold, mout, mconv, mowner, gen, wq, chain, turn, halted, rtask,
                   sent, got, unsafe, dequeued, worked, boots>>

-----------------------------------------------------------------------------
(* A member of staff takes the conversation over, or hands it back. *)

Takeover(u) ==
    /\ Alive /\ Fault("takeover")
    /\ mowner' = [mowner EXCEPT ![u] = "human"]
    /\ gen' = [gen EXCEPT ![u] = @ + 1]
    /\ wq' = Queue(u, [NoBatch EXCEPT !.own = "human"])
    /\ UNCHANGED <<dbVars, proc, cur, cold, mout, mconv, poisoned, chain, turn, halted, rtask,
                   sent, got, unsafe, dequeued, worked, boots>>

HandBack(u) ==
    /\ Alive /\ mowner[u] # "ai"
    /\ mowner' = [mowner EXCEPT ![u] = "ai"]
    /\ wq' = Queue(u, [NoBatch EXCEPT !.own = "ai"])
    /\ UNCHANGED <<dbVars, proc, cur, cold, mout, mconv, gen, poisoned, chain, turn, halted, rtask, histVars>>

-----------------------------------------------------------------------------
(* A receipt (msg_send_fail) for a segment WeCom had taken. *)

\* row.dbRow: the queued batch that writes the segment last.
WritesLast(s, i) ==
    LET q == wq[UserOf(s)]
        writes(j) == s \in q[j].plan \/ \E r \in q[j].res : r[1] = s
    IN writes(i) /\ \A j \in DOMAIN q : j > i => ~writes(j)

\* Its row of the segment becomes failed.
FailedInQueue(b, s) ==
    [b EXCEPT !.plan = @ \ {s}, !.res = {r \in @ : r[1] # s} \cup {<<s, "failed">>}]

\* receipt(): the ledger and a row still queued become failed in one stretch.
ReceiptArrives(s) ==
    /\ Pulling /\ s \in got /\ receipt[s] = "none"
    /\ Fault("receipt")
    /\ receipt' = [receipt EXCEPT ![s] = "received"]
    /\ IF mout[s] # "none" /\ CanMove(mout[s], "failed", {"receipt"})
       THEN /\ mout' = [mout EXCEPT ![s] = "failed"]
            /\ wq' = [wq EXCEPT ![UserOf(s)] =
                         [i \in DOMAIN @ |-> IF WritesLast(s, i) THEN FailedInQueue(@[i], s) ELSE @[i]]]
       ELSE UNCHANGED <<mout, wq>>
    /\ rtask' = rtask \cup {s}
    /\ UNCHANGED <<cursor, inbox, attempts, outbound, conv, owner, proc, cur, cold, mconv, mowner, gen,
                   poisoned, chain, turn, halted, sent, got, unsafe, dequeued, worked, boots>>

\* markFailedInDb: the segment and the receipt's row in one short transaction, or not at all.
ReceiptWritten(s) ==
    /\ Alive /\ s \in rtask
    /\ rtask' = rtask \ {s}
    /\ \/ /\ receipt' = [receipt EXCEPT ![s] = "done"]
          /\ outbound' = [outbound EXCEPT ![s] =
                              IF mout[s] = "failed" THEN Moved(@, "failed", FlushWriters) ELSE @]
          /\ UNCHANGED faults
       \/ Fault("stall") /\ UNCHANGED <<receipt, outbound>>
    /\ UNCHANGED <<cursor, inbox, attempts, conv, owner, proc, cur, cold, mout, mconv, mowner, gen, wq,
                   poisoned, chain, turn, halted, sent, got, unsafe, dequeued, worked, boots>>

-----------------------------------------------------------------------------
(* Stopping and starting.  The last process of a behaviour stays up. *)

Stop ==
    /\ proc \in {"up", "stopping"} /\ boots < faults.starts
    /\ proc' = IF proc = "up" THEN "stopping" ELSE "closed"
    /\ UNCHANGED <<dbVars, cur, cold, mout, mconv, mowner, gen, wq, poisoned, chain, turn, halted, rtask, histVars>>

Forget ==
    /\ proc' = "down"
    /\ wq' = [u \in Users |-> <<>>]
    /\ chain' = [u \in Users |-> <<>>]
    /\ turn' = [u \in Users |-> NoTurn]
    /\ rtask' = {} /\ halted' = {} /\ poisoned' = {}
    /\ UNCHANGED <<cursor, inbox, attempts, outbound, receipt, cur, cold, mout, mconv, mowner, gen,
                   histVars>>

\* drainForShutdown: chains and receipts run out and what is queued is written, by a last commit
\* or from the spill file before the next start; a poisoned conversation's spill may not replay.
Exit ==
    /\ proc \in {"stopping", "closed"}
    /\ \A u \in Users : chain[u] = <<>> /\ wq[u] = <<>>
    /\ rtask = {}
    /\ \E S \in SUBSET poisoned :
         /\ conv' = [m \in Msgs |-> IF From[m] \in S THEN mconv[m] ELSE conv[m]]
         /\ owner' = [u \in Users |-> IF u \in S THEN mowner[u] ELSE owner[u]]
    /\ Forget

Crash == Alive /\ boots < faults.starts /\ Forget /\ UNCHANGED <<conv, owner>>

OutboundRecovery_Cancel(s) == IF outbound[s] = "sending" THEN "cancelled" ELSE outbound[s]

\* outboundRecovery, for a row still pending or sending.
OutboundRecovery(s) ==
    CASE receipt[s] = "received" /\ outbound[s] # "none" -> Moved(outbound[s], "failed", {"receipt"})
      [] outbound[s] = "sending" -> "unknown"
      [] outbound[s] = "pending" /\ ~(IsReply(s) /\ inbox[MsgOf(s)] \in InboxOpen) -> "cancelled"
      [] OTHER -> outbound[s]

OpenRowsOf(u) == {m \in Msgs : From[m] = u /\ inbox[m] \in InboxOpen}
OpenRows_Backwards(u) == Listed(OpenRowsOf(u), [m \in Msgs |-> N - m])

\* loadForRecovery: the open rows of a conversation in their order.
OpenRows(u) == InSequence(OpenRowsOf(u))

\* initChannels and runRecovery: outbound first, then the open inbox rows in order.
Boot ==
    /\ proc = "down" /\ boots < faults.starts
    /\ boots' = boots + 1
    /\ proc' = "up"
    /\ cur' = cursor /\ cold' = (cursor = 0)
    /\ mconv' = conv /\ mowner' = owner
    /\ mout' = [s \in Segs |-> OutboundRecovery(s)]
    /\ LET changed(u, to) == {s \in Segs : UserOf(s) = u /\ outbound[s] # to
                                           /\ OutboundRecovery(s) = to}
       IN wq' = [u \in Users |->
                   IF changed(u, "unknown") \cup changed(u, "cancelled") = {} THEN <<>>
                   ELSE <<[NoBatch EXCEPT !.res = {<<s, "unknown">> : s \in changed(u, "unknown")},
                                          !.cancel = changed(u, "cancelled")]>>]
    /\ chain' = [u \in Users |-> OpenRows(u)]
    /\ rtask' = {s \in Segs : receipt[s] = "received"}
    /\ \/ UNCHANGED faults
       \/ faults.sleep > 0 /\ cursor > faults.old
          /\ faults' = [faults EXCEPT !.sleep = @ - 1, !.old = cursor]
    /\ UNCHANGED <<dbVars, gen, poisoned, turn, halted, sent, got, unsafe, dequeued, worked>>

-----------------------------------------------------------------------------
Chain(u) == \/ Dequeue(u) \/ Attempt(u) \/ Hear(u) \/ Think(u) \/ Plan(u) \/ CommitOutbound(u)
            \/ NextSegment(u) \/ MarkSending(u) \/ FirstPost(u) \/ Unmark(u) \/ Answered(u)
            \/ Retry(u) \/ Finish(u)
Trouble(u) == AttemptHalts(u) \/ Throw(u) \/ TokenFails(u) \/ AnswerLost(u) \/ Poison(u)
Staff(u) == Takeover(u) \/ HandBack(u)

Next ==
    \/ \E k \in 1..PageSize : Pull(k)
    \/ \E u \in Users : Chain(u) \/ Trouble(u) \/ WecomTakes(u) \/ Flush(u) \/ Staff(u)
    \/ \E s \in Segs : ReceiptArrives(s) \/ ReceiptWritten(s)
    \/ Stop \/ Exit \/ Crash \/ Boot

Spec == Init /\ [][Next]_vars

\* A process that is up goes on, the database answers in the end, WeCom answers or times out,
\* and a process that ended is started again.
Fairness ==
    /\ \A u \in Users : WF_vars(Chain(u) \/ AnswerLost(u)) /\ WF_vars(Flush(u))
    /\ \A k \in 1..PageSize : WF_vars(Pull(k))
    /\ \A s \in Segs : WF_vars(ReceiptWritten(s))
    /\ WF_vars(Stop /\ proc = "stopping") /\ WF_vars(Exit) /\ WF_vars(Boot)

LiveSpec == Spec /\ Fairness

-----------------------------------------------------------------------------
(* Properties *)

TurnOK(t) ==
    /\ t.pc \in {"idle", "attempt", "hear", "think", "plan", "commit", "send", "mark", "marked",
                 "unmark", "wait", "taken", "backoff", "finish"}
    /\ t.m \in 0..N /\ t.seen \in 0..MaxInboxAttempts /\ t.tries \in 0..MaxTries
    /\ t.gen \in Nat /\ t.egen \in Nat
    /\ t.kind \in {"reply", "sorry"} /\ t.todo \in Seq(Segs)
    /\ t.mark \in {"none", "marked", "not_pending", "absent", "db_unavailable"}
    /\ t.outc \in {"none", "unknown", "rejected"}

BatchOK(b) ==
    /\ b.say \subseteq Msgs /\ b.ans \subseteq Msgs
    /\ b.own \in {"same", "ai", "queue", "human"}
    /\ b.inb \subseteq Msgs \X {"recorded", "replied", "done", "abandoned"}
    /\ b.plan \subseteq Segs /\ b.cancel \subseteq Segs
    /\ b.res \subseteq Segs \X {"accepted", "rejected", "unknown", "failed"}

OutStatus == {"none", "pending", "sending", "accepted", "rejected", "unknown", "cancelled", "failed"}

\* Every variable keeps to its type.
TypeOK ==
    /\ cursor \in 0..N /\ cur \in 0..N /\ cold \in BOOLEAN
    /\ inbox \in [Msgs -> {"none", "done", "abandoned"} \cup InboxOpen]
    /\ attempts \in [Msgs -> Nat] /\ dequeued \in [Msgs -> Nat] /\ worked \in [Msgs -> Nat]
    /\ outbound \in [Segs -> OutStatus] /\ mout \in [Segs -> OutStatus]
    /\ conv \in [Msgs -> {"no", "said", "answered"}] /\ mconv \in [Msgs -> {"no", "said", "answered"}]
    /\ owner \in [Users -> {"ai", "queue", "human"}] /\ mowner \in [Users -> {"ai", "queue", "human"}]
    /\ receipt \in [Segs -> {"none", "received", "done"}]
    /\ proc \in {"down", "up", "stopping", "closed"}
    /\ \A u \in Users : \A i \in DOMAIN wq[u] : BatchOK(wq[u][i])
    /\ \A u \in Users : chain[u] \in Seq(Msgs) /\ TurnOK(turn[u]) /\ gen[u] \in Nat
    /\ \A s \in Segs : sent[s] \in Seq(1..MaxBoots)
    /\ poisoned \subseteq Users /\ halted \subseteq Users
    /\ faults \in [Limits -> Nat]
    /\ rtask \subseteq Segs /\ got \subseteq Segs /\ unsafe \subseteq Segs

SegsOf(m) == {s \in Segs : MsgOf(s) = m /\ IsReply(s)}
Posted(s) == sent'[s] # sent[s]

\* 03 spec invariant 5: whatever crashes, stops and restarts do, one customer message gets the
\* segments of one reply at most, unless one of them went out before its `sending' was committed;
\* and a segment a process asked WeCom to deliver is never asked for again by a later process.
OneReply ==
    /\ \A m \in Msgs : SegsOf(m) \cap unsafe = {} =>
        Cardinality({s[2] : s \in {x \in SegsOf(m) : sent[x] # <<>>}}) <= 1
    /\ \A s \in Segs \ unsafe : \A i, j \in DOMAIN sent[s] : sent[s][i] = sent[s][j]

\* A segment whose fate the ledger or the database knows is not sent any more, nor is one of a
\* row that is done or abandoned in the database.
EndedStaysUnsent ==
    [][\A s \in Segs : Posted(s) =>
        /\ s \notin unsafe' => {mout[s], outbound[s]} \cap NoMoreSends = {}
        /\ IsReply(s) => inbox[MsgOf(s)] \in InboxOpen]_vars

\* 03 spec invariants 3 and 6.  Segments in the database mean the inbox row says so, so that a
\* restart resends them instead of asking the model again (a receipt may come before the plan is
\* committed); and what WeCom took is never shown as not sent.
LedgerIsTrue ==
    /\ \A s \in Segs : IsReply(s) /\ outbound[s] \notin {"none", "failed"}
                        => inbox[MsgOf(s)] \in {"replied", "done", "abandoned"}
    /\ \A s \in got \ unsafe : outbound[s] \in {"sending", "accepted", "unknown", "failed"}

\* While a member of staff has the conversation no request of an AI reply starts, over restarts
\* too: only the answer to a withdrawal of consent is sent.
SilentUnderStaff ==
    [][\A s \in Segs : Posted(s) /\ mowner[UserOf(s)] = "human" => MsgOf(s) \in Withdrawals]_vars

\* 03 spec invariant 12: a conversation's messages are answered in their order, over restarts too.
InOrderAnswers ==
    [][\A s \in Segs \ unsafe' : Posted(s) /\ IsReply(s) =>
           \A x \in Segs \ unsafe : UserOf(x) = UserOf(s) /\ MsgOf(x) > MsgOf(s) => sent[x] = <<>>]_vars

\* 03 spec invariant 11: what is handled was counted before, only real dequeues are counted, and
\* a message that keeps taking the process down is given up after MAX_INBOX_ATTEMPTS.
CrashLoopEnds ==
    \A m \in Msgs : /\ worked[m] <= attempts[m] /\ attempts[m] <= dequeued[m]
                    /\ worked[m] <= MaxInboxAttempts

\* 03 spec invariant 15: every row of the inbox is finished in the end, and no segment stays
\* pending or sending for good.
EverythingResolves ==
    <>[](/\ \A m \in Msgs : inbox[m] \notin InboxOpen
         /\ \A s \in Segs : outbound[s] \notin {"pending", "sending"})
=============================================================================
