------------------------------ MODULE PurgeHold ------------------------------
(***************************************************************************)
(* Two ways to delete a conversation.  The nightly purge (jobs/purge.ts)   *)
(* runs in the process that serves it: it holds the conversation's write   *)
(* queue (holdForPurge in store/pg-backend.ts) while the SQL deletes the   *)
(* row, and gives way to a change that comes meanwhile.  The erasure on    *)
(* demand (cli/erase-conversation.ts) is a command of its own, run when    *)
(* the application has stopped: it wants no spill file and the tenant's    *)
(* lock.                                                                   *)
(*                                                                         *)
(* One conversation.  A version stands for its content.                    *)
(***************************************************************************)
EXTENDS Naturals

CONSTANTS
    MaxSays,    \* bound: changes of the conversation
    MaxSlips    \* bound: failed or unanswered commits of the purge, stops

VARIABLES
    row,        \* the version in the database, 0 when there is no row
    rowAged,    \* updated_at of the row is past the retention
    alive,      \* the session is in the identity map, with an entry
    said,       \* the version in memory (entry.gen)
    saved,      \* the version that is committed as far as the entry knows
    inDb,       \* entry.inDb
    aged,       \* the session in memory is past the retention
    flight,     \* the version a flush in flight writes, 0 without one
    held,       \* entry.purgeHeld
    purge,      \* where the purge is
    cand,       \* the version of the candidate it read
    genAtHold,
    app,        \* up, late (closed, lock given back), down, refused
    conflict,   \* a flush found its row gone: the process stops
    spill,      \* the spill file: none, or known / new as the entry was inDb or not
    erase,      \* where the command is: idle, checked, locked, done, exited
    cliLock,    \* it holds the tenant's lock
    unanswered, \* ghost: a purge was committed without an answer
    slips

rowVars == <<row, rowAged>>
entryVars == <<alive, said, saved, inDb, aged, flight, held>>
purgeVars == <<purge, cand, genAtHold>>
appVars == <<app, conflict, spill>>
cliVars == <<erase, cliLock>>
holdVars == <<rowVars, entryVars, purgeVars, appVars, cliVars, unanswered, slips>>

HoldInit ==
    /\ row = 1 /\ rowAged = TRUE
    /\ alive = TRUE /\ said = 1 /\ saved = 1 /\ inDb = TRUE /\ aged = TRUE
    /\ flight = 0 /\ held = FALSE
    /\ purge = "idle" /\ cand = 0 /\ genAtHold = 0
    /\ app = "up" /\ conflict = FALSE /\ spill = "none"
    /\ erase = "idle" /\ cliLock = FALSE
    /\ unanswered = FALSE /\ slips = 0

Slip == slips < MaxSlips /\ slips' = slips + 1
Dirty == alive /\ said # saved
Runs == app = "up" /\ ~conflict

-----------------------------------------------------------------------------
(* The conversation and its write queue *)

\* A customer who was forgotten comes back as a new session.
Speak ==
    /\ Runs /\ said < MaxSays
    /\ said' = said + 1 /\ aged' = FALSE
    /\ alive' = TRUE
    /\ IF alive THEN UNCHANGED <<saved, inDb>> ELSE saved' = said /\ inDb' = FALSE
    /\ UNCHANGED <<rowVars, flight, held, purgeVars, appVars, cliVars, unanswered, slips>>

DaysPass ==
    /\ alive /\ ~Dirty /\ purge = "idle" /\ ~aged
    /\ aged' = TRUE /\ rowAged' = TRUE
    /\ UNCHANGED <<row, alive, said, saved, inDb, flight, held, purgeVars, appVars, cliVars, unanswered, slips>>

\* kick: not while the purge holds the queue.
Kick ==
    /\ Runs /\ Dirty /\ flight = 0 /\ ~held
    /\ flight' = said
    /\ UNCHANGED <<rowVars, alive, said, saved, inDb, aged, held, purgeVars, appVars, cliVars, unanswered, slips>>

\* writeSnap: without its row the flush is a conflict and stops the process.
FlushEnds ==
    /\ flight # 0 /\ app \in {"up", "late"} /\ flight' = 0
    /\ IF row = 0 /\ inDb
       THEN conflict' = TRUE /\ UNCHANGED <<rowVars, saved, inDb>>
       ELSE /\ row' = flight /\ rowAged' = FALSE /\ saved' = flight /\ inDb' = TRUE
            /\ UNCHANGED conflict
    /\ UNCHANGED <<alive, said, aged, held, purgeVars, app, spill, cliVars, unanswered, slips>>

-----------------------------------------------------------------------------
(* The nightly purge *)

Candidate ==
    /\ Runs /\ purge = "idle" /\ row # 0 /\ rowAged
    /\ purge' = "candidate" /\ cand' = row
    /\ UNCHANGED <<rowVars, entryVars, genAtHold, appVars, cliVars, unanswered, slips>>

\* What is younger in memory, or about to be written, is passed over.
PassOver ==
    /\ Runs /\ purge = "candidate" /\ ((alive /\ ~aged) \/ Dirty \/ flight # 0)
    /\ purge' = "idle"
    /\ UNCHANGED <<rowVars, entryVars, cand, genAtHold, appVars, cliVars, unanswered, slips>>

HoldForPurge ==
    /\ Runs /\ purge = "candidate" /\ (alive => aged) /\ ~Dirty /\ flight = 0
    /\ purge' = "held" /\ held' = alive /\ genAtHold' = said
    /\ UNCHANGED <<rowVars, alive, said, saved, inDb, aged, flight, cand, appVars, cliVars, unanswered, slips>>

\* purge_conversation: the row must still be what the candidate was.
SqlDeletes ==
    /\ Runs /\ purge = "held" /\ row = cand /\ rowAged
    /\ purge' = "deleted"
    /\ UNCHANGED <<rowVars, entryVars, cand, genAtHold, appVars, cliVars, unanswered, slips>>

\* release: kick takes up what came while it was held.
Released == purge' = "idle" /\ held' = FALSE

\* The transaction fails or a change came: it rolls back.
PurgeGivesWay ==
    /\ Runs
    /\ \/ purge = "deleted" /\ said # genAtHold /\ UNCHANGED slips
       \/ purge \in {"held", "deleted", "commit"} /\ Slip
    /\ Released
    /\ UNCHANGED <<rowVars, alive, said, saved, inDb, aged, flight, cand, genAtHold, appVars, cliVars, unanswered>>

\* Mutant: what came during the hold is not looked at.
StillClean_Blind ==
    /\ Runs /\ purge = "deleted"
    /\ purge' = "commit"
    /\ UNCHANGED <<rowVars, entryVars, cand, genAtHold, appVars, cliVars, unanswered, slips>>

\* stillClean, the last thing before the COMMIT.
StillClean ==
    /\ Runs /\ purge = "deleted" /\ said = genAtHold
    /\ purge' = "commit"
    /\ UNCHANGED <<rowVars, entryVars, cand, genAtHold, appVars, cliVars, unanswered, slips>>

PurgeCommits ==
    /\ Runs /\ purge = "commit"
    /\ purge' = "forget" /\ row' = 0
    /\ UNCHANGED <<rowAged, entryVars, cand, genAtHold, appVars, cliVars, unanswered, slips>>

\* Committed, but the answer is lost: taken for a failure.
PurgeUnanswered ==
    /\ Runs /\ purge = "commit" /\ Slip
    /\ row' = 0 /\ unanswered' = TRUE /\ Released
    /\ UNCHANGED <<rowAged, alive, said, saved, inDb, aged, flight, cand, genAtHold, appVars, cliVars>>

\* forgetSession: what came since the check goes with it.
Forget ==
    /\ Runs /\ purge = "forget"
    /\ purge' = "idle" /\ alive' = FALSE /\ saved' = said /\ held' = FALSE /\ flight' = 0
    /\ UNCHANGED <<rowVars, said, inDb, aged, cand, genAtHold, appVars, cliVars, unanswered, slips>>

-----------------------------------------------------------------------------
(* Stop and start *)

\* The late phase: no flush starts any more, the lock is given back.
StopLate ==
    /\ app = "up" /\ Slip /\ app' = "late"
    /\ purge' = "idle" /\ held' = FALSE
    /\ UNCHANGED <<rowVars, alive, said, saved, inDb, aged, flight, cand, genAtHold, conflict, spill, cliVars, unanswered>>

\* At exit what was not written goes into the spill file.
Exit ==
    /\ app = "late" /\ app' = "down"
    /\ spill' = IF ~Dirty THEN "none" ELSE IF inDb THEN "known" ELSE "new"
    /\ flight' = 0 /\ conflict' = FALSE
    /\ UNCHANGED <<rowVars, alive, said, saved, inDb, aged, held, purgeVars, cliVars, unanswered, slips>>

\* A spilled conversation whose row is gone refuses the start (spill_conflict);
\* one that was never in the database is inserted.
Start ==
    /\ app = "down" /\ ~cliLock
    /\ IF spill = "known" /\ row = 0
       THEN app' = "refused" /\ UNCHANGED <<rowVars, alive, saved, inDb, spill>>
       ELSE /\ app' = "up" /\ spill' = "none"
            /\ row' = IF spill = "none" THEN row ELSE said
            /\ rowAged' = IF spill = "none" THEN rowAged ELSE FALSE
            /\ alive' = (row' # 0) /\ saved' = said /\ inDb' = (row' # 0)
    /\ UNCHANGED <<said, aged, flight, held, purgeVars, conflict, cliVars, unanswered, slips>>

-----------------------------------------------------------------------------
(* erase-conversation *)

CheckSpill ==
    /\ erase = "idle"
    /\ erase' = IF spill = "none" THEN "checked" ELSE "exited"
    /\ UNCHANGED <<rowVars, entryVars, purgeVars, appVars, cliLock, unanswered, slips>>

TakeLock ==
    /\ erase = "checked"
    /\ IF app = "up" THEN erase' = "exited" /\ UNCHANGED cliLock
       ELSE erase' = "locked" /\ cliLock' = TRUE
    /\ UNCHANGED <<rowVars, entryVars, purgeVars, appVars, unanswered, slips>>

EraseDeletes ==
    /\ erase = "locked" /\ erase' = "done"
    /\ row' = 0 /\ cliLock' = FALSE
    /\ UNCHANGED <<rowAged, entryVars, purgeVars, appVars, unanswered, slips>>

HoldNext ==
    \/ Speak \/ DaysPass \/ Kick \/ FlushEnds
    \/ Candidate \/ PassOver \/ HoldForPurge \/ SqlDeletes \/ PurgeGivesWay \/ StillClean
    \/ PurgeCommits \/ PurgeUnanswered \/ Forget
    \/ StopLate \/ Exit \/ Start
    \/ CheckSpill \/ TakeLock \/ EraseDeletes

HoldSpec == HoldInit /\ [][HoldNext]_holdVars

-----------------------------------------------------------------------------
(* Properties *)

\* When the purge passes its last check, all that was ever said is in the row
\* it deletes, the conversation is past its retention in memory too, and no
\* flush is on its way (holdForPurge and stillClean).
PurgeLosesNothing ==
    [][purge = "deleted" /\ purge' = "commit" /\ alive =>
        said = row /\ saved = said /\ aged /\ flight = 0]_holdVars

\* The purge never makes the process stop: no flush finds the row of its
\* conversation gone; except after a COMMIT of the purge that was not answered,
\* and after an erasure that a stopping application still wrote behind.
PurgeStopsNobody == conflict => unanswered \/ erase = "done"

PurgeIsSafe == []PurgeStopsNobody /\ PurgeLosesNothing

\* "Refuses when var/ holds a spill file that was not replayed": then an
\* erasure sees all that the application had to write.
EraseSeesAll == [][erase = "locked" /\ erase' = "done" => spill = "none"]_holdVars
=============================================================================
