---------------------------- MODULE UsageCounters ----------------------------
(***************************************************************************)
(* The number of AI replies a tenant has used this month (tenancy/         *)
(* limits.ts) is kept in memory as a baseline read from the database plus  *)
(* the replies of this process since.  The same replies reach the database *)
(* in batches (trace/usage-daily.ts), so a baseline read after a batch     *)
(* would count them twice: it is read in turn with the batches, and what   *)
(* this process has already committed is subtracted.                       *)
(*                                                                         *)
(* One tenant; only replies are counted, costs go the same way.            *)
(***************************************************************************)
EXTENDS Naturals

CONSTANTS
    Months,      \* 1..n
    MaxReplies,  \* bound: replies a month
    MaxMisses    \* bound: failed writes, lost answers, failed reads, crashes

ASSUME UsageAssumption == Months \in Nat \ {0} /\ MaxReplies \in Nat

VARIABLES
    month,       \* the month it is
    acc,         \* per month, replies of the accumulator
    batch,       \* the batch being written
    db,          \* usage_daily
    persisted,   \* persistedReplies
    turn,        \* whose turn it is on state.chain: nobody, flush, landed (the
                 \* flush is committed and not yet noted), read
    limits,      \* the month and the counters of tenancy/limits.ts
    poll,        \* the poll under way: its month (0: none) and the count it read
    known,       \* ghost: the baseline of limits.month was read or is zero
    made,        \* ghost: replies made, as far as no crash has lost them
    doubled,     \* ghost: replies of a batch that was committed without an answer
    misses

usageVars == <<month, acc, batch, db, persisted, turn, limits, poll, known, made, doubled, misses>>

Month == 1..Months
Zero == [m \in Month |-> 0]
Plus(f, g) == [m \in Month |-> f[m] + g[m]]
Less(a, b) == IF a > b THEN a - b ELSE 0

NoPoll == [month |-> 0, read |-> FALSE, base |-> 0]
Fresh(m) == [month |-> m, base |-> 0, local |-> 0, used |-> 0]

UsageInit ==
    /\ month = 1 /\ acc = Zero /\ batch = Zero /\ persisted = Zero /\ turn = "nobody"
    /\ db = [Zero EXCEPT ![1] = 1] /\ made = db
    /\ limits = Fresh(1) /\ poll = NoPoll /\ known = FALSE
    /\ doubled = Zero /\ misses = 0

Misses == misses < MaxMisses /\ misses' = misses + 1

\* rollMonth
Rolled == IF limits.month = month THEN limits ELSE Fresh(month)
KnownNow == known \/ limits.month # month

MonthTurns ==
    /\ month < Months /\ month' = month + 1
    /\ UNCHANGED <<acc, batch, db, persisted, turn, limits, poll, known, made, doubled, misses>>

\* noteAiReply
NoteReply ==
    /\ made[month] < MaxReplies
    /\ limits' = LET l == Rolled
                 IN  [l EXCEPT !.local = l.local + 1, !.used = l.base + l.local + 1]
    /\ known' = KnownNow
    /\ acc' = [acc EXCEPT ![month] = @ + 1]
    /\ made' = [made EXCEPT ![month] = @ + 1]
    /\ UNCHANGED <<month, batch, db, persisted, turn, poll, doubled, misses>>

-----------------------------------------------------------------------------
(* flushOnce *)

FlushTakes ==
    /\ turn = "nobody" /\ acc # Zero
    /\ turn' = "flush" /\ batch' = acc /\ acc' = Zero
    /\ UNCHANGED <<month, db, persisted, limits, poll, known, made, doubled, misses>>

FlushLands ==
    /\ turn = "flush" /\ turn' = "landed"
    /\ db' = Plus(db, batch)
    /\ UNCHANGED <<month, acc, batch, persisted, limits, poll, known, made, doubled, misses>>

FlushNoted ==
    /\ turn = "landed" /\ turn' = "nobody"
    /\ persisted' = Plus(persisted, batch) /\ batch' = Zero
    /\ UNCHANGED <<month, acc, db, limits, poll, known, made, doubled, misses>>

\* The batch goes back; if only the answer was lost, its rows are there.
FlushThrows ==
    /\ turn \in {"flush", "landed"} /\ Misses /\ turn' = "nobody"
    /\ acc' = Plus(acc, batch) /\ batch' = Zero
    /\ doubled' = IF turn = "landed" THEN Plus(doubled, batch) ELSE doubled
    /\ UNCHANGED <<month, db, persisted, limits, poll, known, made>>

-----------------------------------------------------------------------------
(* initializeTenantLimits, at the start and every thirty seconds *)

PollBegins ==
    /\ poll = NoPoll
    /\ limits' = Rolled /\ known' = KnownNow
    /\ poll' = [NoPoll EXCEPT !.month = month]
    /\ UNCHANGED <<month, acc, batch, db, persisted, turn, made, doubled, misses>>

\* Mutant: the count is read without waiting for a turn.
PollReads_AtOnce ==
    /\ poll.month # 0 /\ ~poll.read
    /\ poll' = [poll EXCEPT !.read = TRUE, !.base = Less(db[poll.month], persisted[poll.month])]
    /\ UNCHANGED <<month, acc, batch, db, persisted, turn, limits, known, made, doubled, misses>>

\* withUsageDailySnapshot: its turn has come.
PollReads ==
    /\ poll.month # 0 /\ ~poll.read /\ turn = "nobody"
    /\ turn' = "read"
    /\ poll' = [poll EXCEPT !.read = TRUE, !.base = Less(db[poll.month], persisted[poll.month])]
    /\ UNCHANGED <<month, acc, batch, db, persisted, limits, known, made, doubled, misses>>

\* What was read of a month that is over is dropped (current()).
PollLands ==
    /\ poll.read
    /\ IF limits.month = poll.month /\ month = poll.month
       THEN /\ limits' = [limits EXCEPT !.base = poll.base, !.used = poll.base + limits.local]
            /\ known' = TRUE
       ELSE UNCHANGED <<limits, known>>
    /\ turn' = "nobody" /\ poll' = NoPoll
    /\ UNCHANGED <<month, acc, batch, db, persisted, made, doubled, misses>>

PollFails ==
    /\ poll.month # 0 /\ Misses /\ poll' = NoPoll
    /\ turn' = IF poll.read THEN "nobody" ELSE turn
    /\ UNCHANGED <<month, acc, batch, db, persisted, limits, known, made, doubled>>

-----------------------------------------------------------------------------
(* A crash and the start after it *)

\* What had not been written is lost; what the database holds is the count.
UsageCrash ==
    /\ Misses
    /\ made' = db /\ doubled' = Zero
    /\ acc' = Zero /\ batch' = Zero /\ persisted' = Zero /\ turn' = "nobody"
    /\ limits' = Fresh(month) /\ poll' = NoPoll /\ known' = FALSE
    /\ UNCHANGED <<month, db>>

UsageNext ==
    \/ MonthTurns \/ NoteReply \/ FlushTakes \/ FlushLands \/ FlushNoted \/ FlushThrows
    \/ PollBegins \/ PollReads \/ PollLands \/ PollFails \/ UsageCrash

UsageSpec == UsageInit /\ [][UsageNext]_usageVars

-----------------------------------------------------------------------------
(* Properties *)

\* Once a baseline is known the month's count is exact: no reply is missed
\* and none is counted twice, in whatever order replies, batches, their
\* failures, polls and the turn of a month come.  Only a batch whose answer
\* was lost may be counted again, never short (limits.ts, "subtract what this
\* process has committed").
UsedIsExact ==
    known /\ limits.month = month =>
        /\ made[month] <= limits.used
        /\ limits.used <= made[month] + doubled[month]
=============================================================================
