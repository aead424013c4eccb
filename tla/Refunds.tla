------------------------------- MODULE Refunds -------------------------------
(***************************************************************************)
(* The refund of a paid order (payment/refunds.ts): the customer requests  *)
(* it, an advisor approves or rejects it when its amount is over the       *)
(* threshold, and it is settled by the mock payment at once or by an       *)
(* advisor.  Each decision is taken in memory, waits for its commit and    *)
(* only then is told to the customer; the same request may come again.     *)
(*                                                                         *)
(* One order; who may decide and how the amount is computed are left out.  *)
(***************************************************************************)
EXTENDS Naturals, FiniteSets

CONSTANTS
    MaxClicks,  \* bound: requests of advisors
    MaxTroubles \* bound: stalls, poison, restarts and changes of the payment mode

ASSUME RefundAssumption == MaxClicks \in Nat /\ MaxTroubles \in Nat

VARIABLES
    order, stored,      \* in memory and as committed
    edits, kept,        \* changes of the conversation, and how many are committed
    writing,            \* the flush in flight: its order and its edits
    lag,                \* ok, slow (storeLagging), broken
    mode,               \* paymentMode()
    waits,              \* requests that wait for a commit
    toldOf,             \* ghost: how often each outcome was told
    clicks, troubles

refundStore == <<stored, kept, writing, lag>>
refundVars == <<order, refundStore, edits, mode, waits, toldOf, clicks, troubles>>

Outcomes == {"settled", "rejected"}
NoWrite == [edits |-> 0, order |-> <<>>]

RefundInit ==
    /\ order = [status |-> "paid", approval |-> "none", settlement |-> "none"] /\ stored = order
    /\ edits = 1 /\ kept = 1 /\ writing = NoWrite /\ lag = "ok"
    /\ mode \in {"online", "advisor"}
    /\ waits = {} /\ toldOf = [o \in Outcomes |-> 0]
    /\ clicks = 0 /\ troubles = 0

Trouble == troubles < MaxTroubles /\ troubles' = troubles + 1
Click == clicks < MaxClicks /\ clicks' = clicks + 1

Edit(o) == order' = o /\ edits' = edits + 1

\* committed(): the request waits; notice is what it will tell, or "".
Waits(n, notice) == waits' = waits \cup {[edits |-> n, notice |-> notice, id |-> clicks]}

-----------------------------------------------------------------------------
(* The requests *)

\* requestRefund; one that needs nobody is refunded at once.
Request(approval) ==
    /\ order.status = "paid" /\ order.approval = "none" /\ lag = "ok"
    /\ LET settlement == IF mode = "online" THEN "mock" ELSE "advisor"
           done == approval = "auto" /\ settlement = "mock"
       IN  Edit([status |-> IF done THEN "refunded" ELSE "refund_pending",
                 approval |-> approval, settlement |-> settlement])
    /\ UNCHANGED <<refundStore, mode, waits, toldOf, clicks, troubles>>

Pending == order.status = "refund_pending" /\ order.approval = "pending"

ApproveRefund ==
    /\ Pending /\ lag = "ok" /\ Click
    /\ LET mock == order.settlement = "mock" IN
       /\ Edit([order EXCEPT !.approval = "approved", !.status = IF mock THEN "refunded" ELSE @])
       /\ Waits(edits + 1, IF mock THEN "settled" ELSE "")
    /\ UNCHANGED <<refundStore, mode, toldOf, troubles>>

RejectRefund ==
    /\ Pending /\ lag = "ok" /\ Click
    /\ Edit([order EXCEPT !.approval = "rejected", !.status = "paid"])
    /\ Waits(edits + 1, "rejected")
    /\ UNCHANGED <<refundStore, mode, toldOf, troubles>>

ByAdvisor == mode = "advisor" /\ order.settlement = "advisor" /\ order.approval \in {"auto", "approved"}

SettleRefund ==
    /\ ByAdvisor /\ order.status = "refund_pending" /\ lag = "ok" /\ Click
    /\ Edit([order EXCEPT !.status = "refunded"])
    /\ Waits(edits + 1, "settled")
    /\ UNCHANGED <<refundStore, mode, toldOf, troubles>>

\* What was decided before is confirmed once it is committed, and not told.
DecidedBefore ==
    \/ order.approval = "approved"
    \/ order.approval = "rejected" /\ order.status = "paid"
    \/ ByAdvisor /\ order.status = "refunded"

AskAgain ==
    /\ DecidedBefore /\ lag # "broken" /\ Click
    /\ Waits(edits, "")
    /\ UNCHANGED <<order, edits, refundStore, mode, toldOf, troubles>>

\* Mutant: the customer is told before the commit.
Tell_Early(w) ==
    /\ waits' = waits \ {w}
    /\ IF w.notice \in Outcomes
       THEN toldOf' = [toldOf EXCEPT ![w.notice] = @ + 1] /\ edits' = edits + 1
       ELSE UNCHANGED <<toldOf, edits>>
    /\ UNCHANGED <<order, refundStore, mode, clicks, troubles>>

\* The wait is over: the notice is written and sent.
Tell(w) ==
    /\ w.edits <= kept
    /\ waits' = waits \ {w}
    /\ IF w.notice \in Outcomes
       THEN toldOf' = [toldOf EXCEPT ![w.notice] = @ + 1] /\ edits' = edits + 1
       ELSE UNCHANGED <<toldOf, edits>>
    /\ UNCHANGED <<order, refundStore, mode, clicks, troubles>>

\* Five seconds: 503, and nobody is told.
GiveUp(w) ==
    /\ lag = "slow" /\ w.edits > kept
    /\ waits' = waits \ {w}
    /\ UNCHANGED <<order, edits, refundStore, mode, toldOf, clicks, troubles>>

-----------------------------------------------------------------------------
(* The store and the configuration *)

WriteOut ==
    /\ edits # kept /\ writing = NoWrite /\ lag # "broken"
    /\ writing' = [edits |-> edits, order |-> order]
    /\ UNCHANGED <<order, stored, kept, lag, edits, mode, waits, toldOf, clicks, troubles>>

Written ==
    /\ writing # NoWrite
    /\ stored' = writing.order /\ kept' = writing.edits /\ writing' = NoWrite /\ lag' = "ok"
    /\ UNCHANGED <<order, edits, mode, waits, toldOf, clicks, troubles>>

Lag ==
    /\ writing # NoWrite /\ lag = "ok" /\ Trouble /\ lag' = "slow"
    /\ UNCHANGED <<order, stored, kept, writing, edits, mode, waits, toldOf, clicks>>

\* Poisoned: every wait throws.
Poison ==
    /\ writing # NoWrite /\ Trouble
    /\ lag' = "broken" /\ writing' = NoWrite
    /\ waits' = {w \in waits : w.edits <= kept}
    /\ UNCHANGED <<order, stored, kept, edits, mode, toldOf, clicks>>

RefundRestart(spilled) ==
    /\ Trouble
    /\ order' = (IF spilled THEN order ELSE stored) /\ stored' = order'
    /\ kept' = edits /\ writing' = NoWrite /\ lag' = "ok" /\ waits' = {}
    /\ UNCHANGED <<edits, mode, toldOf, clicks>>

ModeChanges ==
    /\ Trouble
    /\ mode' = IF mode = "online" THEN "advisor" ELSE "online"
    /\ UNCHANGED <<order, refundStore, edits, waits, toldOf, clicks>>

RefundNext ==
    \/ \E a \in {"auto", "pending"} : Request(a)
    \/ ApproveRefund \/ RejectRefund \/ SettleRefund \/ AskAgain
    \/ \E w \in waits : Tell(w) \/ GiveUp(w)
    \/ WriteOut \/ Written \/ Lag \/ Poison \/ ModeChanges
    \/ \E spilled \in BOOLEAN : RefundRestart(spilled)

RefundSpec == RefundInit /\ [][RefundNext]_refundVars

-----------------------------------------------------------------------------
(* Properties *)

\* The customer is told one outcome and once, however often and by whomever a
\* decision is repeated; and what was told is what the database holds, through
\* every restart (committed).
RefundToldOnce ==
    /\ toldOf["settled"] + toldOf["rejected"] <= 1
    /\ toldOf["settled"] = 1 => stored.status = "refunded"
    /\ toldOf["rejected"] = 1 => stored.status = "paid" /\ stored.approval = "rejected"
=============================================================================
