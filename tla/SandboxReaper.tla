---------------------------- MODULE SandboxReaper ----------------------------
(***************************************************************************)
(* The removal of an expired, ended or idle sandbox (tenancy/sandbox/      *)
(* reaper.ts).  Six steps are taken by a sweep every minute and each may   *)
(* fail or outlast its time: close the streams (1), seal and drain the     *)
(* work in flight (2), flush the usage counters (3), close the backend     *)
(* (4), delete the rows (5), give the runtime and the tenant's lock back   *)
(* (6).  A failed sweep is taken up by the next one from the step it had   *)
(* reached; a crash forgets the step and the runtime.                      *)
(*                                                                         *)
(* The lock lives on one connection (db/client.ts).  When that drops,      *)
(* Postgres frees the lock at once and the process goes on serving and     *)
(* purging until it notices and exits (failStop); meanwhile another one    *)
(* may take the lock and delete the sandbox itself.                        *)
(*                                                                         *)
(* One sandbox; the process that serves it and, for the lock, another one. *)
(***************************************************************************)
EXTENDS Naturals

CONSTANTS
    MaxWork,    \* bound: works in flight at once
    MaxMishaps  \* bound: failures, timeouts, lost connections and crashes

VARIABLES
    tenant,     \* its row: live, expired (expires_at <= now()), gone
    rt,         \* its runtime: none, serving, closing, closed
    flying,     \* works tracked in rt.inflight
    sealed,     \* rt.inflight refuses new work
    usage,      \* usage that the accumulator has not written yet
    backend,    \* pgBackend: none, open, closed
    lock,       \* the advisory lock of the tenant: free, us, other
    cut,        \* the lock's connection has dropped, the process has not noticed
    stuck,      \* an unlock failed: our connection keeps the lock
    released,   \* release() of progress.lock was called: it does nothing any more
    ending,     \* a transaction of endSandbox is in flight
    limbo,      \* a purge's COMMIT whose answer was lost: none, open; or
                \* "unheard": the row went and the process was not told
    stage,      \* progress.step, 0 without an entry
    sweep,      \* where the running sweep is
    saw,        \* row.expired as the sweep read it
    booting,    \* the start has not come to loading the sandbox
    mishaps     \* how much went wrong so far

workVars == <<flying, sealed, usage>>
lockVars == <<lock, cut, stuck, released>>
endVars == <<ending, limbo>>
reaperVars == <<tenant, rt, workVars, backend, lockVars, endVars, stage, sweep, saw, booting, mishaps>>

ReaperInit ==
    /\ tenant = "live" /\ rt = "serving" /\ backend = "open" /\ lock = "us"
    /\ flying = 0 /\ sealed = FALSE /\ usage = FALSE
    /\ cut = FALSE /\ stuck = FALSE /\ released = FALSE /\ ending = FALSE /\ limbo = "none"
    /\ stage = 0 /\ sweep = "rest" /\ saw = FALSE /\ booting = FALSE /\ mishaps = 0

Mishap == mishaps < MaxMishaps /\ mishaps' = mishaps + 1

Registered == rt # "none"

-----------------------------------------------------------------------------
(* The sandbox at work *)

\* Only a serving runtime is entered; what runs in it may start more until
\* the registry is sealed.
Enter ==
    /\ flying < MaxWork /\ ~sealed
    /\ rt = "serving" \/ (rt = "closing" /\ flying > 0)
    /\ flying' = flying + 1
    /\ UNCHANGED <<tenant, rt, sealed, usage, backend, lockVars, endVars, stage, sweep, saw, booting, mishaps>>

\* Work ends; it may have called a model.
Finish ==
    /\ flying > 0 /\ flying' = flying - 1
    /\ usage' \in {usage, TRUE}
    /\ UNCHANGED <<tenant, rt, sealed, backend, lockVars, endVars, stage, sweep, saw, booting, mishaps>>

\* The flush of every thirty seconds; its rows refer to the tenant's.
WriteUsage ==
    /\ rt = "serving" /\ usage /\ tenant # "gone" /\ usage' = FALSE
    /\ UNCHANGED <<tenant, rt, flying, sealed, backend, lockVars, endVars, stage, sweep, saw, booting, mishaps>>

Expire ==
    /\ tenant = "live" /\ tenant' = "expired"
    /\ UNCHANGED <<rt, workVars, backend, lockVars, endVars, stage, sweep, saw, booting, mishaps>>

-----------------------------------------------------------------------------
(* The end a visitor or idleness brings about *)

\* beginSandboxClosing and, unless one is under way, the transaction.
Ends ==
    /\ rt' = IF rt = "serving" THEN "closing" ELSE rt
    /\ ending' = TRUE

VisitorEnds ==
    /\ rt = "serving" /\ Ends
    /\ UNCHANGED <<tenant, workVars, backend, lockVars, limbo, stage, sweep, saw, booting, mishaps>>

EndCommits ==
    /\ ending /\ ending' = FALSE
    /\ tenant' = IF tenant = "live" THEN "expired" ELSE tenant
    /\ UNCHANGED <<rt, workVars, backend, lockVars, limbo, stage, sweep, saw, booting, mishaps>>

EndFails ==
    /\ ending /\ Mishap /\ ending' = FALSE
    /\ UNCHANGED <<tenant, rt, workVars, backend, lockVars, limbo, stage, sweep, saw, booting>>

-----------------------------------------------------------------------------
(* The sweep *)

\* Mutant: after a barrier that timed out it goes on behind the barrier.
From_Next(s) ==
    IF s = 1 THEN "close" ELSE IF s \in {2, 3} THEN "flush"
    ELSE IF s = 6 THEN "release" ELSE IF Registered THEN "purge" ELSE "acquire"

\* reap() goes on where the last sweep stopped.
From(s) ==
    IF s \in {1, 2} THEN "close" ELSE IF s = 3 THEN "flush"
    ELSE IF s = 6 THEN "release" ELSE IF Registered THEN "purge" ELSE "acquire"

TakesUp ==
    LET s == IF stage # 0 THEN stage ELSE IF Registered THEN 1 ELSE 5
    IN  /\ stage' = s /\ sweep' = From(s) /\ saw' = (tenant = "expired")

SweepExpired ==
    /\ sweep = "rest" /\ tenant = "expired" /\ TakesUp
    /\ UNCHANGED <<tenant, rt, workVars, backend, lockVars, endVars, booting, mishaps>>

\* A serving sandbox that was idle for too long, or one whose end has not
\* been committed yet.
SweepUnexpired ==
    /\ sweep = "rest" /\ tenant = "live" /\ rt \in {"serving", "closing"}
    /\ Ends /\ TakesUp
    /\ UNCHANGED <<tenant, workVars, backend, lockVars, limbo, booting, mishaps>>

\* Mutant: a sweep takes up only tenants that still have a row.
SweepRemoved_NoRow ==
    /\ sweep = "rest" /\ tenant = "expired" /\ stage = 6
    /\ sweep' = "finish"
    /\ UNCHANGED <<tenant, rt, workVars, backend, lockVars, endVars, stage, saw, booting, mishaps>>

\* The row is gone, the release has not succeeded yet.
SweepRemoved ==
    /\ sweep = "rest" /\ tenant = "gone" /\ stage = 6
    /\ sweep' = "finish"
    /\ UNCHANGED <<tenant, rt, workVars, backend, lockVars, endVars, stage, saw, booting, mishaps>>

\* Steps 1 and 2 up to the barrier.
Close ==
    /\ sweep = "close"
    /\ rt' = IF rt = "serving" THEN "closing" ELSE rt
    /\ sealed' = TRUE /\ stage' = 2 /\ sweep' = "barrier"
    /\ UNCHANGED <<tenant, flying, usage, backend, lockVars, endVars, saw, booting, mishaps>>

\* The transaction of an end counts as work in flight.
Drained == flying = 0 /\ ~ending

\* Without an expiry the sweep throws: the end failed.
Barrier ==
    /\ sweep = "barrier" /\ Drained
    /\ IF saw \/ tenant = "expired" THEN stage' = 3 /\ sweep' = "flush"
       ELSE stage' = stage /\ sweep' = "rest"
    /\ UNCHANGED <<tenant, rt, workVars, backend, lockVars, endVars, saw, booting, mishaps>>

BarrierTimesOut ==
    /\ sweep = "barrier" /\ ~Drained /\ Mishap
    /\ sweep' = "rest"
    /\ UNCHANGED <<tenant, rt, workVars, backend, lockVars, endVars, stage, saw, booting>>

\* flushUsageDailyForPurge, then the backend of step 4 closes.
Flush ==
    /\ sweep = "flush" /\ (usage => tenant # "gone")
    /\ usage' = FALSE /\ backend' = "closed" /\ stage' = 5 /\ sweep' = "purge"
    /\ UNCHANGED <<tenant, rt, flying, sealed, lockVars, endVars, saw, booting, mishaps>>

FlushFails ==
    /\ sweep = "flush" /\ usage
    /\ IF tenant = "gone" THEN UNCHANGED mishaps ELSE Mishap
    /\ sweep' = "rest"
    /\ UNCHANGED <<tenant, rt, workVars, backend, lockVars, endVars, stage, saw, booting>>

\* Without a runtime the lock comes first; held elsewhere, or asked for over
\* a connection that is gone, the sweep throws.
Acquire ==
    /\ sweep = "acquire"
    /\ IF lock = "other" \/ cut THEN sweep' = "rest" /\ UNCHANGED <<lock, released>>
       ELSE sweep' = "purge" /\ lock' = "us" /\ released' = FALSE
    /\ UNCHANGED <<tenant, rt, workVars, backend, cut, stuck, endVars, stage, saw, booting, mishaps>>

\* sandbox_tenant_purge refuses a row that has not expired, finds nothing to
\* do without one, and waits for a transaction that is deleting it.
Purge ==
    /\ sweep = "purge" /\ tenant # "live" /\ limbo # "open"
    /\ tenant' = "gone" /\ stage' = 6 /\ sweep' = "finish"
    /\ UNCHANGED <<rt, workVars, backend, lockVars, endVars, saw, booting, mishaps>>

\* The purge is rolled back, or refused; what it holds is released all the same.
PurgeFails ==
    /\ sweep = "purge" /\ Mishap
    /\ stage' = 6 /\ sweep' = "release"
    /\ UNCHANGED <<tenant, rt, workVars, backend, lockVars, endVars, saw, booting>>

\* The connection of the purge drops in its COMMIT: a failure like any other
\* for the sweep, while Postgres may delete the rows or not.
PurgeUnheard ==
    /\ sweep = "purge" /\ tenant = "expired" /\ limbo # "open" /\ Mishap
    /\ limbo' = "open" /\ stage' = 6 /\ sweep' = "release"
    /\ UNCHANGED <<tenant, rt, workVars, backend, lockVars, ending, saw, booting>>

PurgeLands ==
    /\ limbo = "open" /\ limbo' = "unheard" /\ tenant' = "gone"
    /\ UNCHANGED <<rt, workVars, backend, lockVars, ending, stage, sweep, saw, booting, mishaps>>

PurgeDies ==
    /\ limbo = "open" /\ limbo' = "none"
    /\ UNCHANGED <<tenant, rt, workVars, backend, lockVars, ending, stage, sweep, saw, booting, mishaps>>

\* The runtime's state goes first, then the runtime, then the lock.
Dropped ==
    /\ rt' = "none" /\ backend' = "none" /\ sealed' = FALSE /\ usage' = FALSE

Releasing == sweep \in {"release", "finish"}

\* After a purge that succeeded, or of a sandbox whose row is gone, the entry
\* goes too; otherwise the next sweep purges again, if it finds the row.  The
\* query that unlocks needs the connection.
Release ==
    /\ Releasing /\ (~cut \/ released) /\ Dropped
    /\ lock' = IF stuck \/ released THEN lock ELSE "free"
    /\ released' = TRUE
    /\ stage' = IF sweep = "finish" THEN 0 ELSE 5
    /\ sweep' = "rest"
    /\ UNCHANGED <<tenant, flying, cut, stuck, endVars, saw, booting, mishaps>>

\* A cleanup throws: the runtime stays registered, and closed.
DropFails ==
    /\ Releasing /\ Registered /\ Mishap
    /\ rt' = "closed" /\ sweep' = "rest"
    /\ UNCHANGED <<tenant, workVars, backend, lockVars, endVars, stage, saw, booting>>

\* The query that unlocks fails; calling release() again does nothing.
UnlockFails ==
    /\ Releasing /\ ~released /\ Mishap /\ Dropped
    /\ stuck' = (stuck \/ ~cut) /\ released' = TRUE /\ sweep' = "rest"
    /\ UNCHANGED <<tenant, flying, lock, cut, endVars, stage, saw, booting>>

-----------------------------------------------------------------------------
(* Lost lock, crash and start *)

\* The connection drops: Postgres frees what it held, and for a while nobody
\* here knows (keepalive, at the latest).
LoseLock ==
    /\ ~cut /\ Mishap /\ cut' = TRUE /\ stuck' = FALSE
    /\ lock' = IF lock = "us" THEN "free" ELSE lock
    /\ UNCHANGED <<tenant, rt, workVars, backend, released, endVars, stage, sweep, saw, booting>>

\* What another process does with a lock it has: the next sandbox process, or
\* `sandbox purge` on the command line.
OtherTakes ==
    /\ cut /\ lock = "free" /\ lock' = "other"
    /\ UNCHANGED <<tenant, rt, workVars, backend, cut, stuck, released, endVars, stage, sweep, saw, booting, mishaps>>

OtherPurges ==
    /\ lock = "other" /\ tenant = "expired" /\ limbo # "open"
    /\ tenant' = "gone" /\ limbo' = "unheard"
    /\ UNCHANGED <<rt, workVars, backend, lockVars, ending, stage, sweep, saw, booting, mishaps>>

OtherLets ==
    /\ lock = "other" /\ lock' = "free"
    /\ UNCHANGED <<tenant, rt, workVars, backend, cut, stuck, released, endVars, stage, sweep, saw, booting, mishaps>>

\* The process is gone and its lock's connection with it; before it starts
\* again another one may have taken the lock.  A COMMIT already sent goes on.
Dies ==
    /\ rt' = "none" /\ backend' = "none" /\ flying' = 0 /\ sealed' = FALSE /\ usage' = FALSE
    /\ lock' \in {"free", "other"} /\ cut' = FALSE /\ stuck' = FALSE /\ released' = FALSE
    /\ ending' = FALSE /\ stage' = 0 /\ sweep' = "rest" /\ saw' = FALSE /\ booting' = TRUE
    /\ UNCHANGED <<tenant, limbo>>

Crash == Mishap /\ Dies

\* failStop: everything is closed and the process exits, in one turn of the
\* event loop.
Notices == cut /\ Dies /\ UNCHANGED mishaps

\* loadSandboxRuntime, for a row that has not expired; one whose lock is held
\* elsewhere is passed over.
Load ==
    /\ booting /\ sweep = "rest" /\ ~cut /\ booting' = FALSE
    /\ IF tenant = "live" /\ lock # "other"
       THEN rt' = "serving" /\ backend' = "open" /\ lock' = "us"
       ELSE UNCHANGED <<rt, backend, lock>>
    /\ UNCHANGED <<tenant, workVars, cut, stuck, released, endVars, stage, sweep, saw, mishaps>>

\* Its data is broken: marked expired and not served.
LoadBreaks ==
    /\ booting /\ sweep = "rest" /\ ~cut /\ tenant = "live" /\ lock # "other" /\ Mishap
    /\ booting' = FALSE /\ tenant' = "expired"
    /\ UNCHANGED <<rt, workVars, backend, lockVars, endVars, stage, sweep, saw>>

SweepStep ==
    \/ SweepExpired \/ SweepRemoved \/ Close \/ Barrier \/ Flush \/ Acquire
    \/ Purge \/ Release

\* Of a purge whose answer was lost, Postgres comes to one end or the other.
PurgeSettles == PurgeLands \/ PurgeDies

ReaperNext ==
    \/ SweepStep \/ SweepUnexpired
    \/ Enter \/ Finish \/ WriteUsage \/ Expire \/ VisitorEnds \/ EndCommits \/ EndFails
    \/ BarrierTimesOut \/ FlushFails \/ PurgeFails \/ PurgeUnheard \/ PurgeSettles
    \/ DropFails \/ UnlockFails
    \/ LoseLock \/ OtherTakes \/ OtherPurges \/ OtherLets \/ Notices \/ Crash
    \/ Load \/ LoadBreaks

ReaperSpec == ReaperInit /\ [][ReaperNext]_reaperVars

-----------------------------------------------------------------------------
(* Properties *)

\* Rows are deleted only when nothing of the sandbox runs or will be written
\* any more: otherwise work of a visitor writes to a tenant that is no more,
\* or its cost is lost to the pool's budget (the order of the six steps).
\* The exception is another process's purge, in the time this one takes to
\* notice that it has lost the lock.
PurgeIsClean ==
    [][tenant # "gone" /\ tenant' = "gone" =>
        \/ flying = 0 /\ ~usage /\ backend # "open"
        \/ cut /\ lock = "other" /\ sweep' = sweep /\ limbo # "open"]_reaperVars

\* A runtime is registered, and a purge begun, only with the tenant's lock or
\* with one that was lost unnoticed: never without having had it, after
\* giving it back, or after noticing.
ServedUnderLock == Registered \/ sweep = "purge" => lock = "us" \/ cut

SandboxIsSafe == []ServedUnderLock /\ PurgeIsClean

\* An expired sandbox goes in the end, whatever failed on the way, and its
\* runtime and its lock with it; a lock whose unlocking failed stays with the
\* process (a second release() of the same lock is a no-op), and so does the
\* sweep's entry, at step 5, when the row went without the process hearing.
EverySandboxGoes ==
    <>[](tenant = "live" \/
            /\ tenant = "gone" /\ rt = "none" /\ (lock # "us" \/ stuck)
            /\ stage = 0 \/ (stage = 5 /\ limbo = "unheard"))
=============================================================================
