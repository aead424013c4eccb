----------------------------- MODULE EventStream -----------------------------
(***************************************************************************)
(* The console's event stream (console-api/events.ts, the /events route of *)
(* console-api/app.ts, console/src/shell/live.ts).  A committed change is  *)
(* published to the connected consoles and kept in a ring; a console that  *)
(* reconnects says which event it has seen last, and is sent the ones      *)
(* after it, or told to reload.  An event makes the console fetch its      *)
(* lists again; without a connection it polls.  The process restarts, the  *)
(* connection drops with events in it and a fetch fails at any point.      *)
(*                                                                         *)
(* One console: consoles share nothing but the ring.  `counts' events      *)
(* carry the figures and cause no fetch, but take numbers and ring slots.  *)
(***************************************************************************)
EXTENDS Naturals, Sequences

CONSTANTS
    Ring,           \* RING
    MaxRevs,        \* bound: committed changes
    MaxFaults       \* bound: restarts, drops and failed fetches

ASSUME EventAssumption == Ring \in Nat \ {0} /\ MaxRevs \in Nat /\ MaxFaults \in Nat

VARIABLES
    rev,        \* changes committed
    owed,       \* of them, not yet delivered to the subscribers
    boot,       \* hub.boot
    hooked,     \* the hub is subscribed (hub.unsubscribe)
    last, ring, \* hub.last and the kinds of the last events
    countsDue,  \* hub.countsTimer
    conn,       \* down, up, out (logged off)
    polling,
    pipe,       \* written to the connection, not yet received: [n, kind]
    seen,       \* the EventSource's last event id: [boot, n], or none
    view,       \* the revision the lists show, or none before the first load
    fetch,      \* none, asked, or the revision a response carries
    excused,    \* ghost: up to here the lists may lack a change (NoSilentGap)
    faults

hubVars == <<boot, hooked, last, ring, countsDue>>
linkVars == <<conn, polling, pipe, seen>>
pageVars == <<view, fetch>>
eventVars == <<rev, owed, hubVars, linkVars, pageVars, excused, faults>>

NoId == [boot |-> 0, n |-> 0]
Nothing == MaxRevs + 1
Asked == MaxRevs + 2
Idle == MaxRevs + 3

EventInit ==
    /\ rev = 0 /\ owed = 0
    /\ boot = 1 /\ hooked = FALSE /\ last = 0 /\ ring = <<>> /\ countsDue = FALSE
    /\ conn = "down" /\ polling = FALSE /\ pipe = <<>> /\ seen = NoId
    /\ view = Nothing /\ fetch = Asked
    /\ excused = 0 /\ faults = 0

EventFault == faults < MaxFaults /\ faults' = faults + 1

\* publish
Publish(kind) ==
    /\ last' = last + 1
    /\ ring' = LET r == Append(ring, kind) IN IF Len(r) > Ring THEN Tail(r) ELSE r
    /\ pipe' = IF conn = "up" THEN Append(pipe, [n |-> last + 1, kind |-> kind]) ELSE pipe

\* Mutant: a fetch in flight is left to finish.
Invalidate_Joins ==
    IF fetch # Idle THEN UNCHANGED <<fetch, excused>>
    ELSE fetch' = Asked /\ UNCHANGED excused

\* invalidateConversations: a fetch in flight is dropped and asked again, but
\* the first load, which has no data yet, is left to finish.
Invalidate ==
    IF view = Nothing /\ fetch # Idle
    THEN excused' = rev /\ UNCHANGED fetch
    ELSE fetch' = Asked /\ UNCHANGED excused

-----------------------------------------------------------------------------
(* The process *)

CommitChange ==
    /\ rev < MaxRevs
    /\ rev' = rev + 1 /\ owed' = owed + 1
    /\ UNCHANGED <<hubVars, linkVars, pageVars, excused, faults>>

\* deliverCommitted, and relay when the hub listens.
Deliver ==
    /\ owed > 0 /\ owed' = owed - 1
    /\ IF hooked THEN Publish("change") /\ countsDue' = TRUE
       ELSE UNCHANGED <<last, ring, pipe, countsDue>>
    /\ UNCHANGED <<rev, boot, hooked, conn, polling, seen, pageVars, excused, faults>>

CountsTimer ==
    /\ countsDue /\ countsDue' = FALSE
    /\ Publish("counts")
    /\ UNCHANGED <<rev, owed, boot, hooked, conn, polling, seen, pageVars, excused, faults>>

ProcessRestarts ==
    /\ EventFault
    /\ boot' = boot + 1 /\ hooked' = FALSE /\ last' = 0 /\ ring' = <<>>
    /\ countsDue' = FALSE /\ owed' = 0
    /\ pipe' = <<>> /\ conn' = (IF conn = "out" THEN "out" ELSE "down")
    /\ fetch' = Idle
    /\ UNCHANGED <<rev, polling, seen, view, excused>>

-----------------------------------------------------------------------------
(* The connection *)

Oldest == last - Len(ring) + 1

\* Mutant: the start the event belongs to is not compared.
Answer_AnyBoot ==
    IF seen = NoId THEN <<[n |-> last, kind |-> "counts"]>>
    ELSE IF seen.n > last \/ seen.n < Oldest - 1
    THEN <<[n |-> last, kind |-> "resync"]>>
    ELSE [k \in 1..(last - seen.n) |->
            [n |-> seen.n + k, kind |-> ring[seen.n + k - Oldest + 1]]]

\* replayAfter, or the reason to reload.
Answer ==
    IF seen = NoId THEN <<[n |-> last, kind |-> "counts"]>>
    ELSE IF seen.boot # boot \/ seen.n > last \/ seen.n < Oldest - 1
    THEN <<[n |-> last, kind |-> "resync"]>>
    ELSE [k \in 1..(last - seen.n) |->
            [n |-> seen.n + k, kind |-> ring[seen.n + k - Oldest + 1]]]

\* GET /events: what was missed and the subscription in one stretch.
Connect ==
    /\ conn = "down"
    /\ conn' = "up" /\ polling' = FALSE
    /\ hooked' = TRUE
    /\ pipe' = Answer
    /\ excused' = IF seen = NoId THEN rev - owed ELSE excused
    /\ UNCHANGED <<rev, owed, boot, last, ring, countsDue, seen, pageVars, faults>>

Receive ==
    /\ conn = "up" /\ pipe # <<>>
    /\ LET e == Head(pipe) IN
       /\ seen' = [boot |-> boot, n |-> e.n]
       /\ IF e.kind = "counts" THEN UNCHANGED <<fetch, excused>> ELSE Invalidate
    /\ pipe' = Tail(pipe)
    /\ UNCHANGED <<rev, owed, hubVars, conn, polling, view, faults>>

Drop ==
    /\ conn = "up" /\ EventFault
    /\ conn' = "down" /\ pipe' = <<>>
    /\ UNCHANGED <<rev, owed, hubVars, polling, seen, pageVars, excused>>

\* The recheck finds the session over: auth is sent and the stream closed.
LogOff ==
    /\ conn = "up"
    /\ conn' = "out" /\ pipe' = <<>> /\ view' = Nothing /\ fetch' = Idle
    /\ UNCHANGED <<rev, owed, hubVars, polling, seen, excused, faults>>

-----------------------------------------------------------------------------
(* The page *)

GraceExpires ==
    /\ conn = "down" /\ ~polling
    /\ polling' = TRUE
    /\ Invalidate
    /\ UNCHANGED <<rev, owed, hubVars, conn, pipe, seen, view, faults>>

Poll ==
    /\ conn = "down" /\ polling /\ fetch = Idle
    /\ fetch' = Asked
    /\ UNCHANGED <<rev, owed, hubVars, linkVars, view, excused, faults>>

ServerReads ==
    /\ fetch = Asked /\ fetch' = rev
    /\ UNCHANGED <<rev, owed, hubVars, linkVars, view, excused, faults>>

FetchLands ==
    /\ fetch \notin {Idle, Asked}
    /\ view' = fetch /\ fetch' = Idle
    /\ UNCHANGED <<rev, owed, hubVars, linkVars, excused, faults>>

\* retry: false.  Nothing asks again before the next event or poll.
FetchFails ==
    /\ fetch # Idle /\ EventFault
    /\ fetch' = Idle
    /\ excused' = rev
    /\ UNCHANGED <<rev, owed, hubVars, linkVars, view>>

EventNext ==
    \/ CommitChange \/ Deliver \/ CountsTimer \/ ProcessRestarts
    \/ Connect \/ Receive \/ Drop \/ LogOff
    \/ GraceExpires \/ Poll \/ ServerReads \/ FetchLands \/ FetchFails

EventSpec == EventInit /\ [][EventNext]_eventVars

-----------------------------------------------------------------------------
(* Properties *)

\* A connected console with nothing left to receive or to fetch shows every
\* change, whatever was missed, replayed or pushed out of the ring before; but
\* for what came before it first connected, during the first load, or before
\* a fetch failed.
NoSilentGap ==
    conn = "up" /\ pipe = <<>> /\ fetch = Idle /\ owed = 0 => rev \in {view, excused}

\* Connected or not, a console comes to show what the last change left.
EventuallyFresh == <>[](view = rev \/ excused = rev \/ conn = "out")
=============================================================================
