---------------------------- MODULE SessionStore ----------------------------
(***************************************************************************)
(* The write queue of one conversation (store/pg-backend.ts): flushes with *)
(* a flush_id, answers of COMMIT that get lost, a second writer, poisoned  *)
(* conversations, the spill file written at exit and replayed at the next  *)
(* start, the tenant's lock (config/source.ts), the phases of a shutdown   *)
(* (shutdown.ts, store.ts).                                                *)
(*                                                                         *)
(* Processes are numbered in the order they start.  A change is <<process, *)
(* number>>: a message ("talk"), a side row ("note": an audit, a job, a    *)
(* consent) or a state of the conversation's inbox row ("step").  Every    *)
(* change takes the generation after the last one, so what is queued and   *)
(* what a snapshot holds are ranges of generations.                        *)
(***************************************************************************)
EXTENDS Naturals, Sequences, SequencesExt, Functions, Lines

CONSTANTS MaxBoots,   \* bound: starts
          Plans       \* bounds: what a behaviour may do, one of these

Procs == 1..MaxBoots
FaultKinds == {"cut",     \* COMMIT of a flush not answered
               "replay",  \* COMMIT of a replay not answered
               "reject",  \* data errors, in a flush, a snapshot or a replay
               "crash",   \* exits without the exit handlers
               "break"}   \* the lock's connection drops

ASSUME StoreAssumption ==
    /\ MaxBoots \in Nat \ {0}
    /\ Plans \subseteq
         [changes: [Procs -> Nat],   \* how many changes each process makes
          kinds: SUBSET {"talk", "note", "step"},
          overlap: BOOLEAN,          \* a process may start before the last one has ended
          faults: [FaultKinds -> Nat]]

VARIABLES
    db,      \* the conversation in the database: log, side rows, inbox stage, flush_id
    limbo,   \* a COMMIT sent and not decided, as what it would make of db; holds the row
    lock,    \* the process that holds the tenant's lock, 0 without one
    files,   \* spill files, oldest first, one entry each
    aside,   \* the ones renamed .failed
    \* per process
    life,    \* "off", "boot", "up", "closed", and how it ended
    taken,   \* lockTaken: not writable() any more
    start,   \* what it preloaded: log and inbox stage
    made,    \* its changes; gen is their number
    cgen,    \* committedGen
    fly,     \* gen of the snapshot in flight, 0 without one
    run,     \* its attempt: "idle", "sent", "backoff"
    dead,    \* it failed with a data error
    sick,    \* poisoned
    pc, pcRun, \* inbox states of a poisoned conversation: waiting, in their short transaction
    clash,   \* conflict
    reload, todo, at, \* of the replay: preload again, files still to do, stage of the first
    left     \* its bounds, and of them the faults that are left

lockVars  == <<lock, taken>>
diskVars  == <<files, aside>>
flushVars == <<cgen, fly, run, dead>>
pcVars    == <<sick, pc, pcRun>>
bootVars  == <<start, reload, todo, at>>
vars == <<db, limbo, lockVars, diskVars, life, made, flushVars, pcVars, clash, bootVars, left>>

Alive(p) == life[p] \in {"up", "closed"}
Over == {"exited", "killed", "refused", "blocked"}
Spend(f) == left.faults[f] > 0 /\ left' = [left EXCEPT !.faults[f] = @ - 1]

-----------------------------------------------------------------------------
(* Rows, batches and what a transaction makes of the database *)

Gen(p) == Len(made[p])

\* The changes of a kind with generations in a+1..b, in order.
Those(p, kind, a, b) == {i \in (a + 1)..b : made[p][i].kind = kind}
ChangesIn(p, kind, a, b) ==
    LET I == InSequence(Those(p, kind, a, b)) IN [j \in DOMAIN I |-> <<p, I[j]>>]

\* last_seq after the changes up to generation g.
LastSeq(p, g) == Len(start[p].log) + Len(ChangesIn(p, "talk", 0, g))

\* The inbox table: received 0, recorded 1, replied 2, done 3.
InboxMoved(from, to) == IF to = from + 1 \/ (to = 3 /\ from < 3) THEN to ELSE from
ApplyInboxStates(stage, steps) ==
    LET after[n \in 0..Len(steps)] ==
            IF n = 0 THEN stage ELSE InboxMoved(after[n - 1], made[steps[n][1]][steps[n][2]].to)
    IN after[Len(steps)]

\* The snapshot in flight.
Snap(p) == [id    |-> <<p, fly[p]>>,
            base  |-> LastSeq(p, cgen[p]),
            last  |-> LastSeq(p, fly[p]),
            msgs  |-> ChangesIn(p, "talk", cgen[p], fly[p]),
            side  |-> ChangesIn(p, "note", cgen[p], fly[p]),
            steps |-> IF dead[p] THEN <<>> ELSE ChangesIn(p, "step", cgen[p], fly[p])]

\* Mutants: the length alone decides; last_seq is not compared.
Known_ByLength(d, b) == Len(d.log) = b.last
Fits_Anyway(d, b) == d.flush # b.id

Known(d, b) == d.flush = b.id /\ Len(d.log) = b.last
Fits(d, b)  == d.flush # b.id /\ Len(d.log) = b.base

Written(d, b) == [log   |-> d.log \o b.msgs,
                  side  |-> d.side \o b.side,
                  stage |-> ApplyInboxStates(d.stage, b.steps),
                  flush |-> b.id]

Stepped(d, steps) == [d EXCEPT !.stage = ApplyInboxStates(@, steps)]

\* The generation after which changes are still queued, and the queued inbox states.
Queued(p) == IF fly[p] = 0 THEN cgen[p] ELSE fly[p]
QueuedSteps(p) == IF sick[p] THEN <<>> ELSE ChangesIn(p, "step", Queued(p), Gen(p))

Dirty(p) == Gen(p) # cgen[p]
MayWrite(p) == life[p] = "up" /\ ~clash[p] /\ ~taken[p]

-----------------------------------------------------------------------------
(* Changes, and poisoning *)

\* The stage the process holds in memory.
Stage(p) == ApplyInboxStates(start[p].stage, ChangesIn(p, "step", 0, Gen(p)))

Change(p, kind) ==
    /\ Alive(p) /\ Gen(p) < left.changes[p]
    /\ \E to \in 0..3 :
         /\ IF kind = "step" THEN InboxMoved(Stage(p), to) # Stage(p) ELSE to = 0
         /\ made' = [made EXCEPT ![p] = Append(@, [kind |-> kind, to |-> to])]
    /\ pc' = IF kind = "step" /\ sick[p] THEN [pc EXCEPT ![p] = Append(@, <<p, Gen(p) + 1>>)] ELSE pc
    /\ UNCHANGED <<db, limbo, lockVars, diskVars, life, flushVars, sick, pcRun, clash, bootVars, left>>

\* The window does not add up (schedule) or a snapshot cannot be taken (kick).
Poison(p) ==
    /\ Alive(p) /\ ~sick[p] /\ Dirty(p) /\ Spend("reject")
    /\ sick' = [sick EXCEPT ![p] = TRUE]
    /\ pc' = [pc EXCEPT ![p] = @ \o QueuedSteps(p)]
    /\ UNCHANGED <<db, limbo, lockVars, diskVars, life, made, flushVars, pcRun, clash, bootVars>>

-----------------------------------------------------------------------------
(* A flush *)

Kick(p) ==
    /\ MayWrite(p) /\ ~sick[p] /\ fly[p] = 0 /\ Dirty(p)
    /\ fly' = [fly EXCEPT ![p] = Gen(p)]
    /\ run' = [run EXCEPT ![p] = "sent"]
    /\ dead' = [dead EXCEPT ![p] = FALSE]
    /\ UNCHANGED <<db, limbo, lockVars, diskVars, life, made, cgen, pcVars, clash, bootVars, left>>

Attempted(p) == Alive(p) /\ run[p] = "sent" /\ limbo = <<>>

\* Mutant: the snapshot stays in flight.
AfterCommit_Keeps(p) ==
    /\ cgen' = [cgen EXCEPT ![p] = fly[p]]
    /\ run' = [run EXCEPT ![p] = "idle"]
    /\ UNCHANGED <<limbo, lockVars, diskVars, life, made, fly, dead, pcVars, clash, bootVars, left>>

AfterCommit(p) ==
    /\ cgen' = [cgen EXCEPT ![p] = fly[p]]
    /\ fly' = [fly EXCEPT ![p] = 0]
    /\ run' = [run EXCEPT ![p] = "idle"]
    /\ UNCHANGED <<limbo, lockVars, diskVars, life, made, dead, pcVars, clash, bootVars, left>>

FlushCommits(p) ==
    /\ Attempted(p) /\ Fits(db, Snap(p))
    /\ db' = Written(db, Snap(p))
    /\ AfterCommit(p)

\* The attempt before was committed after all.
FlushKnown(p) ==
    /\ Attempted(p) /\ Known(db, Snap(p))
    /\ AfterCommit(p) /\ UNCHANGED db

\* StoreConflictError: the process goes for a graceful stop and writes no more.
FlushConflicts(p) ==
    /\ Attempted(p) /\ ~Known(db, Snap(p)) /\ ~Fits(db, Snap(p))
    /\ clash' = [clash EXCEPT ![p] = TRUE]
    /\ run' = [run EXCEPT ![p] = "idle"]
    /\ UNCHANGED <<db, limbo, lockVars, diskVars, life, made, cgen, fly, dead, pcVars, bootVars, left>>

\* Mutant: no retry is planned.
FlushCut_NoRetry(p) ==
    /\ Attempted(p) /\ Fits(db, Snap(p)) /\ Spend("cut")
    /\ limbo' = <<Written(db, Snap(p))>>
    /\ run' = [run EXCEPT ![p] = "idle"]
    /\ UNCHANGED <<db, lockVars, diskVars, life, made, cgen, fly, dead, pcVars, clash, bootVars>>

\* The connection goes after COMMIT was sent.
FlushCut(p) ==
    /\ Attempted(p) /\ Fits(db, Snap(p)) /\ Spend("cut")
    /\ limbo' = <<Written(db, Snap(p))>>
    /\ run' = [run EXCEPT ![p] = "backoff"]
    /\ UNCHANGED <<db, lockVars, diskVars, life, made, cgen, fly, dead, pcVars, clash, bootVars>>

\* A data error: the snapshot is dead, its inbox states go before the ones that wait.
FlushRejected(p) ==
    /\ Attempted(p) /\ Fits(db, Snap(p)) /\ Spend("reject")
    /\ dead' = [dead EXCEPT ![p] = TRUE]
    /\ run' = [run EXCEPT ![p] = "idle"]
    /\ pc' = [pc EXCEPT ![p] = Snap(p).steps \o @ \o QueuedSteps(p)]
    /\ sick' = [sick EXCEPT ![p] = TRUE]
    /\ UNCHANGED <<db, limbo, lockVars, diskVars, life, made, cgen, fly, pcRun, clash, bootVars>>

Retry(p) ==
    /\ run[p] = "backoff" /\ MayWrite(p)
    /\ run' = [run EXCEPT ![p] = "sent"]
    /\ UNCHANGED <<db, limbo, lockVars, diskVars, life, made, cgen, fly, dead, pcVars, clash, bootVars, left>>

LimboEnds ==
    /\ limbo # <<>>
    /\ db' \in {db, limbo[1]} /\ limbo' = <<>>
    /\ UNCHANGED <<lockVars, diskVars, life, made, flushVars, pcVars, clash, bootVars, left>>

-----------------------------------------------------------------------------
(* The short transactions of a poisoned conversation *)

PumpPoisoned(p) ==
    /\ MayWrite(p) /\ sick[p] /\ pcRun[p] = <<>> /\ pc[p] # <<>>
    /\ fly[p] = 0 \/ dead[p]
    /\ pcRun' = [pcRun EXCEPT ![p] = pc[p]]
    /\ pc' = [pc EXCEPT ![p] = <<>>]
    /\ UNCHANGED <<db, limbo, lockVars, diskVars, life, made, flushVars, sick, clash, bootVars, left>>

PoisonedWritten(p) ==
    /\ Alive(p) /\ pcRun[p] # <<>> /\ limbo = <<>>
    /\ db' = Stepped(db, pcRun[p])
    /\ pcRun' = [pcRun EXCEPT ![p] = <<>>]
    /\ UNCHANGED <<limbo, lockVars, diskVars, life, made, flushVars, sick, pc, clash, bootVars, left>>

\* No answer: written or not, the batch goes back to the front.
PoisonedCut(p) ==
    /\ Alive(p) /\ pcRun[p] # <<>> /\ limbo = <<>> /\ Spend("cut")
    /\ db' \in {db, Stepped(db, pcRun[p])}
    /\ pcRun' = [pcRun EXCEPT ![p] = <<>>]
    /\ pc' = [pc EXCEPT ![p] = pcRun[p] \o @]
    /\ UNCHANGED <<limbo, lockVars, diskVars, life, made, flushVars, sick, clash, bootVars>>

-----------------------------------------------------------------------------
(* The tenant's lock *)

OnLockLost(p) ==
    /\ life[p] = "up" /\ lock = p /\ Spend("break")
    /\ lock' = 0
    /\ UNCHANGED <<db, limbo, taken, diskVars, life, made, flushVars, pcVars, clash, bootVars>>

ReacquireOnce(p) ==
    /\ life[p] = "up" /\ lock # p /\ ~taken[p]
    /\ IF lock = 0 THEN lock' = p /\ UNCHANGED taken
       ELSE taken' = [taken EXCEPT ![p] = TRUE] /\ UNCHANGED lock
    /\ UNCHANGED <<db, limbo, diskVars, life, made, flushVars, pcVars, clash, bootVars, left>>

Unlocked(p) == IF lock = p THEN 0 ELSE lock

-----------------------------------------------------------------------------
(* The end of a process *)

\* The late phase: no flush starts any more, the lock is given back before the exit.
Close(p) ==
    /\ life[p] = "up" /\ p < MaxBoots
    /\ life' = [life EXCEPT ![p] = "closed"]
    /\ lock' = Unlocked(p)
    /\ UNCHANGED <<db, limbo, taken, diskVars, made, flushVars, pcVars, clash, bootVars, left>>

\* Mutant: the snapshot in flight is left out.
SpillEntryOf_NoFly(p) ==
    [id    |-> <<p, 0>>,
     base  |-> LastSeq(p, cgen[p]),
     fly   |-> <<>>,
     last  |-> LastSeq(p, Gen(p)),
     msgs  |-> ChangesIn(p, "talk", cgen[p], Gen(p)),
     side  |-> ChangesIn(p, "note", Queued(p), Gen(p)),
     steps |-> pcRun[p] \o pc[p] \o QueuedSteps(p)]

SpillEntryOf(p) ==
    [id    |-> <<p, 0>>,
     base  |-> LastSeq(p, cgen[p]),
     fly   |-> IF fly[p] = 0 THEN <<>> ELSE <<Snap(p)>>,
     last  |-> LastSeq(p, Gen(p)),
     msgs  |-> ChangesIn(p, "talk", cgen[p], Gen(p)),
     side  |-> ChangesIn(p, "note", Queued(p), Gen(p)),
     steps |-> pcRun[p] \o pc[p] \o QueuedSteps(p)]

SpillSync(p) ==
    files' = IF Dirty(p) \/ pc[p] \o pcRun[p] # <<>> THEN Append(files, SpillEntryOf(p)) ELSE files

\* A transaction of the process may be at its COMMIT when the process goes.
Leave(p, how) ==
    /\ limbo' = IF run[p] = "sent" /\ limbo = <<>> /\ Fits(db, Snap(p))
                THEN <<Written(db, Snap(p))>> ELSE limbo
    /\ db' \in {db} \cup {Stepped(db, s) : s \in {x \in {pcRun[p]} : x # <<>> /\ limbo = <<>>}}
    /\ life' = [life EXCEPT ![p] = how]
    /\ lock' = Unlocked(p)
    /\ taken' = [taken EXCEPT ![p] = FALSE]
    /\ fly' = [fly EXCEPT ![p] = 0] /\ run' = [run EXCEPT ![p] = "idle"]
    /\ dead' = [dead EXCEPT ![p] = FALSE] /\ sick' = [sick EXCEPT ![p] = FALSE]
    /\ pc' = [pc EXCEPT ![p] = <<>>] /\ pcRun' = [pcRun EXCEPT ![p] = <<>>]
    /\ UNCHANGED <<aside, made, cgen, clash, start>>

Exit(p) ==
    /\ Alive(p) /\ p < MaxBoots
    /\ Leave(p, "exited") /\ SpillSync(p)
    /\ UNCHANGED <<reload, todo, at, left>>

Crash(p) ==
    /\ Alive(p) \/ life[p] = "boot"
    /\ p < MaxBoots /\ Spend("crash")
    /\ Leave(p, "killed")
    /\ reload' = [reload EXCEPT ![p] = FALSE] /\ todo' = [todo EXCEPT ![p] = 0]
    /\ at' = [at EXCEPT ![p] = "read"]
    /\ UNCHANGED files

-----------------------------------------------------------------------------
(* The start: lock, preload, replay of the spill files, install *)

Preloaded == [log |-> db.log, stage |-> db.stage]

Boot(p) ==
    /\ life[p] = "off" /\ lock = 0
    /\ \A q \in 1..(p - 1) : life[q] # "off" /\ (left.overlap \/ life[q] \in Over)
    /\ life' = [life EXCEPT ![p] = "boot"] /\ lock' = p
    /\ start' = [start EXCEPT ![p] = Preloaded]
    /\ todo' = [todo EXCEPT ![p] = Len(files)]
    /\ UNCHANGED <<db, limbo, taken, diskVars, made, flushVars, pcVars, clash, reload, at, left>>

FlyIn(d, e) == e.fly # <<>> /\ Known(d, e.fly[1])
Replayed(d, e) == d.flush = e.id
Continues(d, e) == ~Replayed(d, e) /\ (FlyIn(d, e) \/ Len(d.log) = e.base)
Same(d, e) ==
    /\ ~Replayed(d, e) /\ ~Continues(d, e)
    /\ Len(d.log) = e.last /\ e.msgs # <<>> /\ SubSeq(d.log, e.base + 1, e.last) = e.msgs

\* replayChannelOf and the rest of the entry: after the flush in flight, or with it.
RestOf(d, e) ==
    LET f == IF e.fly = <<>> \/ FlyIn(d, e) THEN [side |-> <<>>, steps |-> <<>>] ELSE e.fly[1]
        from == IF FlyIn(d, e) THEN e.fly[1].last - e.base ELSE 0
    IN [id |-> e.id, msgs |-> SubSeq(e.msgs, from + 1, Len(e.msgs)),
        side |-> f.side \o e.side, steps |-> f.steps \o e.steps]

Replaying(p) == life[p] = "boot" /\ todo[p] > 0 /\ at[p] = "read" /\ limbo = <<>>
Entry == files[1]

ReplayedTo(p, d, again, next) ==
    /\ db' = d
    /\ reload' = [reload EXCEPT ![p] = @ \/ again]
    /\ at' = [at EXCEPT ![p] = next]
    /\ UNCHANGED <<limbo, lockVars, diskVars, life, made, flushVars, pcVars, clash, start, todo>>

ReplayApplies(p) ==
    /\ Replaying(p) /\ Continues(db, Entry)
    /\ ReplayedTo(p, Written(db, RestOf(db, Entry)), TRUE, "delete")
    /\ UNCHANGED left

\* Replayed before, or the messages are there: at most the inbox states are written.
ReplaySkips(p) ==
    /\ Replaying(p)
    /\ \/ /\ Replayed(db, Entry) /\ Len(db.log) = Entry.last
          /\ ReplayedTo(p, db, FALSE, "delete")
       \/ /\ Same(db, Entry)
          /\ LET steps == RestOf(db, Entry).steps
             IN ReplayedTo(p, Stepped(db, steps), steps # <<>>, "delete")
    /\ UNCHANGED left

\* A data error: the inbox states alone.
ReplayRejected(p) ==
    /\ Replaying(p) /\ Continues(db, Entry) /\ Spend("reject")
    /\ LET steps == RestOf(db, Entry).steps
       IN ReplayedTo(p, Stepped(db, steps), steps # <<>>, "aside")

Refuse(p, how) ==
    /\ life' = [life EXCEPT ![p] = how] /\ lock' = Unlocked(p)
    /\ reload' = [reload EXCEPT ![p] = FALSE] /\ todo' = [todo EXCEPT ![p] = 0]
    /\ UNCHANGED <<db, taken, diskVars, made, flushVars, pcVars, clash, start, at>>

\* db_unreachable: the COMMIT of a replay is not answered.
ReplayCut(p) ==
    /\ Replaying(p) /\ Continues(db, Entry) /\ p < MaxBoots /\ Spend("replay")
    /\ limbo' = <<Written(db, RestOf(db, Entry))>>
    /\ Refuse(p, "refused")

\* spill_conflict
ReplayConflicts(p) ==
    /\ Replaying(p) /\ ~Continues(db, Entry) /\ ~Same(db, Entry)
    /\ ~(Replayed(db, Entry) /\ Len(db.log) = Entry.last)
    /\ Refuse(p, "blocked")
    /\ UNCHANGED <<limbo, left>>

\* The file is deleted, or renamed .failed.
FileDone(p) ==
    /\ life[p] = "boot" /\ at[p] # "read"
    /\ files' = Tail(files)
    /\ aside' = IF at[p] = "aside" THEN Append(aside, Entry) ELSE aside
    /\ todo' = [todo EXCEPT ![p] = @ - 1]
    /\ at' = [at EXCEPT ![p] = "read"]
    /\ UNCHANGED <<db, limbo, lockVars, life, made, flushVars, pcVars, clash, start, reload, left>>

\* Mutant: the replay is not followed by another preload.
Install_Stale(p) ==
    /\ life[p] = "boot" /\ todo[p] = 0
    /\ life' = [life EXCEPT ![p] = "up"]
    /\ reload' = [reload EXCEPT ![p] = FALSE]
    /\ UNCHANGED <<db, limbo, lockVars, diskVars, made, flushVars, pcVars, clash, start, todo, at, left>>

Install(p) ==
    /\ life[p] = "boot" /\ todo[p] = 0
    /\ life' = [life EXCEPT ![p] = "up"]
    /\ start' = IF reload[p] THEN [start EXCEPT ![p] = Preloaded] ELSE start
    /\ reload' = [reload EXCEPT ![p] = FALSE]
    /\ UNCHANGED <<db, limbo, lockVars, diskVars, made, flushVars, pcVars, clash, todo, at, left>>

-----------------------------------------------------------------------------
Init ==
    /\ db = [log |-> <<>>, side |-> <<>>, stage |-> 0, flush |-> <<0, 0>>]
    /\ limbo = <<>> /\ lock = 0 /\ files = <<>> /\ aside = <<>>
    /\ life = [p \in Procs |-> "off"]
    /\ taken = [p \in Procs |-> FALSE] /\ clash = [p \in Procs |-> FALSE]
    /\ start = [p \in Procs |-> [log |-> <<>>, stage |-> 0]]
    /\ made = [p \in Procs |-> <<>>]
    /\ cgen = [p \in Procs |-> 0] /\ fly = [p \in Procs |-> 0]
    /\ run = [p \in Procs |-> "idle"]
    /\ dead = [p \in Procs |-> FALSE] /\ sick = [p \in Procs |-> FALSE]
    /\ pc = [p \in Procs |-> <<>>] /\ pcRun = [p \in Procs |-> <<>>]
    /\ reload = [p \in Procs |-> FALSE] /\ todo = [p \in Procs |-> 0]
    /\ at = [p \in Procs |-> "read"]
    /\ left \in Plans

Flush(p) == FlushCommits(p) \/ FlushKnown(p) \/ FlushConflicts(p)
FlushFails(p) == FlushCut(p) \/ FlushRejected(p)
Channel(p) == PumpPoisoned(p) \/ PoisonedWritten(p) \/ PoisonedCut(p)
Replay(p) == ReplayApplies(p) \/ ReplaySkips(p) \/ ReplayConflicts(p)
ReplayFails(p) == ReplayCut(p) \/ ReplayRejected(p)

Next ==
    \/ \E p \in Procs :
         \/ \E kind \in left.kinds : Change(p, kind)
         \/ Poison(p) \/ Kick(p) \/ Flush(p) \/ FlushFails(p) \/ Retry(p) \/ Channel(p)
         \/ OnLockLost(p) \/ ReacquireOnce(p)
         \/ Close(p) \/ Exit(p) \/ Crash(p)
         \/ Boot(p) \/ Replay(p) \/ ReplayFails(p) \/ FileDone(p) \/ Install(p)
    \/ LimboEnds

Spec == Init /\ [][Next]_vars

\* Microtasks and retries run, PostgreSQL decides a COMMIT, a stop reaches its exit, a process
\* that ended is started again.
Fairness ==
    /\ WF_vars(LimboEnds)
    /\ \A p \in Procs :
         /\ WF_vars(Kick(p)) /\ WF_vars(Flush(p)) /\ WF_vars(Retry(p))
         /\ WF_vars(life[p] = "closed" /\ Exit(p))
         /\ WF_vars(Boot(p)) /\ WF_vars(Replay(p)) /\ WF_vars(FileDone(p)) /\ WF_vars(Install(p))

LiveSpec == Spec /\ Fairness

-----------------------------------------------------------------------------
(* Properties *)

ChangeSeq(s) == s \in Seq(Procs \X Nat)
DbOK(d) == ChangeSeq(d.log) /\ ChangeSeq(d.side) /\ d.stage \in 0..3 /\ d.flush \in Nat \X Nat
EntryOK(e) ==
    /\ e.base \in Nat /\ e.last \in Nat /\ e.last = e.base + Len(e.msgs)
    /\ ChangeSeq(e.msgs) /\ ChangeSeq(e.side) /\ ChangeSeq(e.steps)

\* Every variable keeps to its type.
TypeOK ==
    /\ DbOK(db) /\ Len(limbo) \in 0..1 /\ \A i \in DOMAIN limbo : DbOK(limbo[i])
    /\ lock \in 0..MaxBoots
    /\ \A e \in Range(files) \cup Range(aside) : EntryOK(e)
    /\ life \in [Procs -> {"off", "boot", "up", "closed"} \cup Over]
    /\ {taken, clash, dead, sick, reload} \subseteq [Procs -> BOOLEAN]
    /\ \A p \in Procs : /\ ChangeSeq(start[p].log) /\ start[p].stage \in 0..3
                        /\ cgen[p] \in 0..Gen(p) /\ fly[p] \in {0} \cup (cgen[p] + 1)..Gen(p)
                        /\ ChangeSeq(pc[p]) /\ ChangeSeq(pcRun[p])
                        /\ todo[p] \in 0..Len(files)
    /\ run \in [Procs -> {"idle", "sent", "backoff"}]
    /\ at \in [Procs -> {"read", "delete", "aside"}]
    /\ left.faults \in [FaultKinds -> Nat]

ChangesOf(p) == {<<p, i>> : i \in DOMAIN made[p]}
KindOf(c) == made[c[1]][c[2]].kind

Recorded(c) ==
    \/ c \in Range(db.log) \cup Range(db.side)
    \/ KindOf(c) = "step" /\ db.stage >= made[c[1]][c[2]].to

InMemory(c) ==
    LET p == c[1] IN
    /\ Alive(p)
    /\ \/ c \in Range(pc[p]) \cup Range(pcRun[p])
       \/ c[2] > cgen[p] /\ KindOf(c) # "step"
       \/ c[2] > Queued(p) /\ ~sick[p]
       \/ c[2] \in (cgen[p] + 1)..fly[p] /\ ~dead[p]

InEntry(e, c) ==
    \/ c \in Range(e.msgs) \cup Range(e.side) \cup Range(e.steps)
    \/ \E i \in DOMAIN e.fly : c \in Range(e.fly[i].side) \cup Range(e.fly[i].steps)

\* 02 spec invariant 13: a change of a process that was not killed is in the database, on its way
\* there, or in a spill file, and inbox states get there in their order.
NothingVanishes ==
    \A p \in {q \in Procs : life[q] # "killed"} : \A c \in ChangesOf(p) :
        Recorded(c) \/ InMemory(c) \/ \E e \in Range(files) \cup Range(aside) : InEntry(e, c)

\* 02 spec invariants 8 and 10: the conversation is one log (see DurableLog), whatever is cut,
\* retried, replayed or written by two processes; who was told of a commit was told the truth.
told == {c \in UNION {ChangesOf(p) : p \in Procs} : KindOf(c) # "step" /\ c[2] <= cgen[c[1]]}
Log == INSTANCE DurableLog WITH log <- db.log, side <- db.side, told <- told
LogSpec == Log!Spec

\* A process appends only to messages it knows: no answer lands after one its writer never saw.
NoForeignTail ==
    [][db'.log # db.log =>
         LET p == db'.flush[1]
         IN IsPrefix(db.log, start[p].log \o ChangesIn(p, "talk", 0, Gen(p)))]_vars

\* What a process that stopped in order left behind is in the memory of the next one, unless its
\* file was set aside.
NoAmnesia ==
    \A p \in {x \in Procs : Alive(x)} : \A q \in {x \in 1..(p - 1) : life[x] = "exited"} :
        \A c \in {x \in ChangesOf(q) : KindOf(x) = "talk"} :
            c \in Range(start[p].log) \/ \E e \in Range(aside) : InEntry(e, c)

\* 02 spec invariant 12 is about another writer: processes that stop in order and start one after
\* the other never conflict and never fail to start on a spill file.
LoneWriterIsSafe ==
    \A p \in Procs : clash[p] \/ life[p] = "blocked" => \E q \in 1..(p - 1) : life[q] = "killed"

StopsAreSafe == NoAmnesia /\ LoneWriterIsSafe

\* Every change gets into the database in the end.
EverythingLands == <>[](\A p \in Procs : \A c \in ChangesOf(p) : Recorded(c))
=============================================================================
