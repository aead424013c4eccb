----------------------------- MODULE MCPlatform -----------------------------
(***************************************************************************)
(* TLC's instances of LlmGate, SandboxReaper, UsageCounters, PurgeHold,    *)
(* Quotes and Refunds.  They share no state; the initial state chooses one *)
(* of Parts (part) and the others stay as they begin, so that a behaviour  *)
(* is one of that component and every property is about all of them.       *)
(***************************************************************************)
EXTENDS LlmGate, SandboxReaper, UsageCounters, PurgeHold, Quotes, Refunds, TLC

CONSTANTS
    Parts,      \* the components a run is about
    v1, v2, v3, k1, k2, sand, std

VARIABLE part

\* Three vision calls, or one and two chat calls, of a sandbox and a tenant.
Kind == [c \in Calls |-> IF c \in {v1, v2, v3} THEN "vision" ELSE "chat"]
Slots == [p \in {"chat", "vision"} |-> 1]
Retries == [chat |-> 1, vision |-> 0]
Owner == [c \in Calls |-> IF c \in {v1, v2, k1} THEN sand ELSE std]
Price == [c \in Calls |-> 1]

MCInit ==
    /\ part \in Parts
    /\ GateInit /\ ReaperInit /\ UsageInit /\ HoldInit /\ QuotesInit /\ RefundInit
    /\ part # "refunds" => mode = "online"

\* Bound: who calls at all, one who gives up, one tenant that goes on serving.
FewCalls ==
    /\ \E s \in {{v1, v2, v3}, {v1, k1, k2}} : {c \in Calls : at[c] # "idle"} \subseteq s
    /\ Cardinality(gone) <= 1
    /\ \E t \in Tenants : runtime[t] = "serving"

\* Bound: two rare events, a second request that waits being one.
FewOddities ==
    faults + Cardinality({q \in QuoteIds : book[q].expired})
        + (IF Len(boarded) + Len(later) > 1 THEN 1 ELSE 0) <= 2

MCNext ==
    /\ \/ part = "gate" /\ GateNext /\ FewCalls'
       \/ part # "gate" /\ UNCHANGED gateVars
    /\ \/ part = "reaper" /\ ReaperNext
       \/ part # "reaper" /\ UNCHANGED reaperVars
    /\ \/ part = "usage" /\ UsageNext
       \/ part # "usage" /\ UNCHANGED usageVars
    /\ \/ part = "purge" /\ HoldNext
       \/ part # "purge" /\ UNCHANGED holdVars
    /\ \/ part = "quotes" /\ QuotesNext /\ FewOddities'
       \/ part # "quotes" /\ UNCHANGED quoteVars
    /\ \/ part = "refunds" /\ RefundNext
       \/ part # "refunds" /\ UNCHANGED refundVars
    /\ UNCHANGED part

GateFairness == \A c \in Calls : WF_gateVars(part = "gate" /\ CallProceeds(c))

\* The sweep comes every minute; works and transactions end, and a lost
\* connection is noticed.
ReaperFairness ==
    /\ WF_reaperVars(part = "reaper" /\ SweepStep)
    /\ WF_reaperVars(part = "reaper" /\ Finish)
    /\ WF_reaperVars(part = "reaper" /\ EndCommits)
    /\ WF_reaperVars(part = "reaper" /\ PurgeSettles)
    /\ WF_reaperVars(part = "reaper" /\ Notices)
    /\ WF_reaperVars(part = "reaper" /\ OtherLets)
    /\ WF_reaperVars(part = "reaper" /\ Load)

MCSpec ==
    /\ MCInit
    /\ [][MCNext]_<<gateVars, reaperVars, usageVars, holdVars, quoteVars, refundVars, part>>
    /\ GateFairness /\ ReaperFairness
=============================================================================
