------------------------------ MODULE LlmGate ------------------------------
(***************************************************************************)
(* The gate every model request of the process passes (llm-gate.ts) and    *)
(* the two budgets it reserves from: the day of a standard tenant          *)
(* (tenancy/budget.ts) and the pool all sandboxes share                    *)
(* (tenancy/sandbox/budget.ts).  A call waits for a slot of its pool,      *)
(* reserves before each attempt, may fail and back off, and is charged     *)
(* when its body was parsed.  Callers give up at any moment, a tenant is   *)
(* cancelled and closed, and the day ends, all while calls are in flight.  *)
(*                                                                         *)
(* JavaScript runs one synchronous stretch at a time: an action is such a  *)
(* stretch.  Time, models and prices are abstracted: a call has a fixed    *)
(* estimate and costs at most that.                                        *)
(***************************************************************************)
EXTENDS Integers, Lines

CONSTANTS
    Calls,          \* gatedFetch calls
    Pool,           \* [Calls -> {"chat", "vision"}]
    Limit,          \* slots of a pool (MAX_INFLIGHT, LLM_VISION_MAX_INFLIGHT)
    MaxRetry,       \* retries of a pool (vision is tried once)
    Tenants, Sandboxes,
    Of,             \* the tenant a call belongs to
    Est,            \* what a call reserves
    PoolCap, TenantCap, DayCap,
    MaxDays         \* bound: how often the day may end

Pools == {"chat", "vision"}

ASSUME GateAssumption ==
    /\ Pool \in [Calls -> Pools] /\ Of \in [Calls -> Tenants]
    /\ Limit \in [Pools -> Nat \ {0}] /\ MaxRetry \in [Pools -> Nat]
    /\ Sandboxes \subseteq Tenants /\ Est \in [Calls -> Nat]
    /\ IsFiniteSet(Calls) /\ {PoolCap, TenantCap, DayCap} \subseteq Nat

VARIABLES
    at,         \* where each call is
    tries,      \* failed attempts of each call
    gone,       \* calls whose caller has given up
    queue,      \* waiting: per pool, in order
    inflight,   \* per pool
    open,       \* calls with a reservation that is not settled
    fresh,      \* those of them reserved on the current day
    runtime,    \* per tenant: serving, cancelled (rt.cancel aborted), closed
    pool,       \* sandbox pool of the day: spent (reservations included), held
    allowance,  \* per sandbox: spent of what it may (never rolls)
    day,        \* per standard tenant: spent of the day, held
    days

gateVars == <<at, tries, gone, queue, inflight, open, fresh, runtime, pool, allowance, day, days>>
slotVars == <<queue, inflight>>
moneyVars == <<open, fresh, pool, allowance, day>>

Phases == {"idle", "queued", "granted", "backoff", "sent", "body", "done"}

GateInit ==
    /\ at = [c \in Calls |-> "idle"] /\ tries = [c \in Calls |-> 0] /\ gone = {}
    /\ queue = [p \in Pools |-> <<>>] /\ inflight = [p \in Pools |-> 0]
    /\ open = {} /\ fresh = {}
    /\ runtime = [t \in Tenants |-> "serving"]
    /\ pool = [spent |-> 0, held |-> 0] /\ allowance = [t \in Tenants |-> 0]
    /\ day = [t \in Tenants |-> [spent |-> 0, held |-> 0]]
    /\ days = 0

InSandbox(c) == Of[c] \in Sandboxes
Aborted(c) == c \in gone \/ runtime[Of[c]] # "serving"

\* A vision slot is held until the body was parsed.
Holds(c) ==
    \/ at[c] \in {"granted", "backoff", "sent"}
    \/ at[c] = "body" /\ Pool[c] = "vision"
Holders(p) == {c \in Calls : Pool[c] = p /\ Holds(c)}

-----------------------------------------------------------------------------
(* Budgets *)

\* The sum of the estimates of S, counted unit by unit.
Reserved(S) == Cardinality(UNION {{c} \X (1..Est[c]) : c \in S})

Affordable(c) ==
    LET t == Of[c] IN
    IF InSandbox(c)
    THEN allowance[t] + Est[c] <= TenantCap /\ pool.spent + Est[c] <= PoolCap
    ELSE day[t].spent + day[t].held + Est[c] <= DayCap

Reserve(c) ==
    LET t == Of[c] IN
    /\ Affordable(c)
    /\ open' = open \cup {c} /\ fresh' = fresh \cup {c}
    /\ IF InSandbox(c)
       THEN /\ pool' = [spent |-> pool.spent + Est[c], held |-> pool.held + Est[c]]
            /\ allowance' = [allowance EXCEPT ![t] = @ + Est[c]]
            /\ UNCHANGED day
       ELSE /\ day' = [day EXCEPT ![t] = [spent |-> @.spent, held |-> @.held + Est[c]]]
            /\ UNCHANGED <<pool, allowance>>

\* Mutant: settled as often as it is asked for.
Settle_Again(c, cost) ==
    LET t == Of[c] IN
    /\ open' = open \ {c} /\ fresh' = fresh \ {c}
    /\ IF InSandbox(c)
       THEN /\ pool' = [spent |-> pool.spent + cost - Est[c], held |-> pool.held - Est[c]]
            /\ allowance' = [allowance EXCEPT ![t] = @ + cost - Est[c]]
            /\ UNCHANGED day
       ELSE UNCHANGED <<pool, allowance, day>>

\* reservation.settle: a second one changes nothing, nor does one after the close.
Settle(c, cost) ==
    LET t == Of[c] IN
    /\ open' = open \ {c} /\ fresh' = fresh \ {c}
    /\ IF c \notin open \/ runtime[t] = "closed" THEN UNCHANGED <<pool, allowance, day>>
       ELSE IF InSandbox(c)
       THEN /\ pool' = [spent |-> pool.spent + cost - Est[c], held |-> pool.held - Est[c]]
            /\ allowance' = [allowance EXCEPT ![t] = @ + cost - Est[c]]
            /\ UNCHANGED day
       ELSE /\ UNCHANGED <<pool, allowance>>
            /\ IF runtime[t] = "serving"
               THEN day' = [day EXCEPT ![t] =
                        [spent |-> @.spent + cost,
                         held |-> IF c \notin fresh THEN @.held
                                  ELSE IF @.held > Est[c] THEN @.held - Est[c] ELSE 0]]
               ELSE UNCHANGED day

-----------------------------------------------------------------------------
(* Slots *)

CallEnters(c) ==
    LET p == Pool[c] IN
    /\ at[c] = "idle" /\ runtime[Of[c]] = "serving"
    /\ IF inflight[p] < Limit[p]
       THEN /\ at' = [at EXCEPT ![c] = "granted"]
            /\ inflight' = [inflight EXCEPT ![p] = @ + 1]
            /\ UNCHANGED queue
       ELSE /\ at' = [at EXCEPT ![c] = "queued"]
            /\ queue' = [queue EXCEPT ![p] = Append(@, c)]
            /\ UNCHANGED inflight
    /\ UNCHANGED <<tries, gone, moneyVars, runtime, days>>

\* Mutants: the slot goes to the last in line; it is put back, and nobody called.
ReleaseSlot_ToLast(c, phase) ==
    LET p == Pool[c] n == Len(queue[p]) IN
    IF n = 0
    THEN /\ at' = [at EXCEPT ![c] = phase]
         /\ inflight' = [inflight EXCEPT ![p] = @ - 1]
         /\ UNCHANGED queue
    ELSE /\ at' = [at EXCEPT ![c] = phase, ![queue[p][n]] = "granted"]
         /\ queue' = [queue EXCEPT ![p] = SubSeq(@, 1, n - 1)]
         /\ UNCHANGED inflight
ReleaseSlot_PutBack(c, phase) ==
    /\ at' = [at EXCEPT ![c] = phase]
    /\ inflight' = [inflight EXCEPT ![Pool[c]] = @ - 1]
    /\ UNCHANGED queue

\* release: the slot goes to the first in line and the count stays.
ReleaseSlot(c, phase) ==
    LET p == Pool[c] IN
    IF queue[p] = <<>>
    THEN /\ at' = [at EXCEPT ![c] = phase]
         /\ inflight' = [inflight EXCEPT ![p] = @ - 1]
         /\ UNCHANGED queue
    ELSE /\ at' = [at EXCEPT ![c] = phase, ![Head(queue[p])] = "granted"]
         /\ queue' = [queue EXCEPT ![p] = Tail(@)]
         /\ UNCHANGED inflight

Move(c, phase) == at' = [at EXCEPT ![c] = phase] /\ UNCHANGED slotVars

\* The caller's deadline passes or its hedge has won; a waiting call leaves the line.
CallerGivesUp(c) ==
    /\ at[c] \notin {"idle", "done"} /\ c \notin gone
    /\ gone' = gone \cup {c}
    /\ IF at[c] = "queued"
       THEN /\ at' = [at EXCEPT ![c] = "done"]
            /\ queue' = [queue EXCEPT ![Pool[c]] = Without(@, {c})]
       ELSE UNCHANGED <<at, queue>>
    /\ UNCHANGED <<tries, inflight, moneyVars, runtime, days>>

-----------------------------------------------------------------------------
(* Attempts *)

Attempt(c) ==
    /\ at[c] \in {"granted", "backoff"}
    /\ \/ ~Aborted(c) /\ Reserve(c) /\ Move(c, "sent")
       \/ /\ Aborted(c) \/ ~Affordable(c)
          /\ ReleaseSlot(c, "done")
          /\ UNCHANGED moneyVars
    /\ UNCHANGED <<tries, gone, runtime, days>>

\* The headers of a good answer: a chat slot is free from here on.
Answered(c) ==
    /\ at[c] = "sent" /\ runtime[Of[c]] = "serving"
    /\ IF Pool[c] = "vision" THEN Move(c, "body") ELSE ReleaseSlot(c, "body")
    /\ UNCHANGED <<tries, gone, moneyVars, runtime, days>>

\* A bad status, a network error, a timeout or an abort.
Failed(c) ==
    LET p == Pool[c] IN
    /\ at[c] = "sent"
    /\ Settle(c, Est[c])
    /\ \/ /\ tries[c] < MaxRetry[p]
          /\ tries' = [tries EXCEPT ![c] = @ + 1]
          /\ Move(c, "backoff")
       \/ ReleaseSlot(c, "done") /\ UNCHANGED tries
    /\ UNCHANGED <<gone, runtime, days>>

\* The caller has parsed the body (its usage, or nothing usable: the estimate).
Parsed(c) ==
    /\ at[c] = "body"
    /\ \E cost \in 0..Est[c] : Settle(c, cost)
    /\ IF Pool[c] = "vision" THEN ReleaseSlot(c, "done") ELSE Move(c, "done")
    /\ UNCHANGED <<tries, gone, runtime, days>>

-----------------------------------------------------------------------------
(* The tenant and the day *)

\* rt.cancel aborts.  A sandbox's listeners settle every open reservation
\* first (and free the slot of a vision body); then its waiting calls leave.
CancelTenant(t) ==
    LET mine == {c \in Calls : Of[c] = t}
        due == IF t \in Sandboxes THEN open \cap mine ELSE {}
        out(p) == {c \in due : Pool[c] = p /\ at[c] = "body" /\ Holds(c)}
        k(p) == IF Cardinality(out(p)) < Len(queue[p]) THEN Cardinality(out(p)) ELSE Len(queue[p])
        heirs == UNION {{queue[p][i] : i \in 1..k(p)} : p \in Pools}
        left == {c \in mine : at[c] = "queued"} \ heirs
    IN
    /\ runtime[t] = "serving"
    /\ runtime' = [runtime EXCEPT ![t] = "cancelled"]
    /\ open' = open \ due /\ fresh' = fresh \ due
    /\ pool' = [pool EXCEPT !.held = @ - Reserved(due)]
    /\ inflight' = [p \in Pools |-> inflight[p] - (Cardinality(out(p)) - k(p))]
    /\ queue' = [p \in Pools |->
            Without(SubSeq(queue[p], k(p) + 1, Len(queue[p])), left)]
    /\ at' = [c \in Calls |->
            IF c \in heirs THEN "granted"
            ELSE IF c \in left \/ (c \in due /\ at[c] = "body") THEN "done" ELSE at[c]]
    /\ UNCHANGED <<tries, gone, allowance, day, days>>

\* state = closed, and the budget is dropped.
CloseTenant(t) ==
    /\ runtime[t] = "cancelled"
    /\ runtime' = [runtime EXCEPT ![t] = "closed"]
    /\ UNCHANGED <<at, tries, gone, slotVars, moneyVars, days>>

\* rollDay: what is in flight stays charged to the pool, a standard tenant
\* starts the day with nothing reserved.
Midnight ==
    /\ days < MaxDays
    /\ days' = days + 1
    /\ fresh' = {}
    /\ pool' = [pool EXCEPT !.spent = pool.held]
    /\ day' = [t \in Tenants |-> [spent |-> 0, held |-> 0]]
    /\ UNCHANGED <<at, tries, gone, slotVars, open, allowance, runtime>>

\* A granted call goes on, a request ends (it has a timeout of its own), and
\* every caller parses what it was given (retrieval.ts, client.ts, vision.ts).
CallProceeds(c) == Attempt(c) \/ Answered(c) \/ Failed(c) \/ Parsed(c)

GateNext ==
    \/ \E c \in Calls : CallEnters(c) \/ CallerGivesUp(c) \/ CallProceeds(c)
    \/ \E t \in Tenants : CancelTenant(t) \/ CloseTenant(t)
    \/ Midnight

GateSpec == GateInit /\ [][GateNext]_gateVars

-----------------------------------------------------------------------------
(* Properties *)

GateTypeOK ==
    /\ at \in [Calls -> Phases] /\ tries \in [Calls -> Nat] /\ gone \subseteq Calls
    /\ queue \in [Pools -> Seq(Calls)] /\ inflight \in [Pools -> Nat]
    /\ open \subseteq Calls /\ fresh \subseteq open
    /\ runtime \in [Tenants -> {"serving", "cancelled", "closed"}]

Queued(p) == {c \in Calls : Pool[c] = p /\ at[c] = "queued"}

\* The line holds exactly the waiting calls, each once.
LineIsTrue ==
    \A p \in Pools :
        /\ Standing(queue[p]) = Queued(p)
        /\ \A i, j \in DOMAIN queue[p] : queue[p][i] = queue[p][j] => i = j

\* inflight counts the holders, and nobody waits beside a free slot.
CountIsTrue ==
    \A p \in Pools :
        /\ inflight[p] = Cardinality(Holders(p)) /\ inflight[p] <= Limit[p]
        /\ queue[p] # <<>> => inflight[p] = Limit[p]

\* No slot is lost or made up: not by a caller that gives up as it is granted,
\* not by a vision body, not by a cancelled tenant (llm-gate.ts:25 and 74).
SlotsAddUp == GateTypeOK /\ LineIsTrue /\ CountIsTrue

\* The sandboxes' pool holds exactly what open calls reserved, and neither the
\* pool nor a sandbox ever spends more than its cap, midnight included; nor do
\* concurrent attempts together pass a standard tenant's daily cap, until a
\* midnight moves what is in flight to the new day (tenancy/budget.ts).
BudgetsHold ==
    /\ pool.held = Reserved({c \in open : InSandbox(c)})
    /\ pool.held <= pool.spent /\ pool.spent <= PoolCap
    /\ \A t \in Sandboxes : allowance[t] <= TenantCap
    /\ days = 0 => \A t \in Tenants \ Sandboxes : day[t].spent + day[t].held <= DayCap

GateAddsUp == SlotsAddUp /\ BudgetsHold

\* Each pool is a first-come, first-served turnstile.
Chat == INSTANCE Turnstile WITH People <- {c \in Calls : Pool[c] = "chat"},
            Slots <- Limit["chat"], inside <- Holders("chat"), line <- queue["chat"]
Vision == INSTANCE Turnstile WITH People <- {c \in Calls : Pool[c] = "vision"},
            Slots <- Limit["vision"], inside <- Holders("vision"), line <- queue["vision"]
IsTurnstile == Chat!Spec /\ Vision!Spec

\* Every call that entered ends, however many wait before it.
EveryCallEnds == <>[](\A c \in Calls : at[c] \in {"idle", "done"})
=============================================================================
