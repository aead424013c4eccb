----------------------------- MODULE HumanReply -----------------------------
(***************************************************************************)
(* Advisors answer a customer by hand (handoff/takeover.ts) while the      *)
(* follow-up job may be writing to the same customer (jobs/followup.ts).   *)
(* The channel takes Sends messages after each customer message; whoever   *)
(* wants to send checks what is left and holds one of them (quota/         *)
(* ledger.ts), waits for the commit of the message, then sends it.  A      *)
(* request may be repeated with the same clientId at any point of this,    *)
(* the conversation may change hands, the store may stall or give up, and  *)
(* the tenant may close.                                                   *)
(*                                                                         *)
(* One conversation of one process; every send is one segment.             *)
(***************************************************************************)
EXTENDS Naturals, FiniteSets

CONSTANTS
    Replies,        \* requests to reply
    Follows,        \* runs of the follow-up job
    Advisors, Nobody,
    AuthorOf,       \* [Replies -> Advisors]
    ClientOf,       \* the clientId a request carries
    Sends,          \* WINDOW_SENDS
    FollowMin,      \* FOLLOWUP_MIN_REMAINING
    MaxWindows,     \* bound: customer messages
    MaxHands        \* bound: takeovers and releases

ASSUME ReplyAssumption ==
    /\ AuthorOf \in [Replies -> Advisors] /\ IsFiniteSet(Replies \cup Follows)
    /\ Replies \cap Follows = {} /\ Nobody \notin Advisors \cup Replies
    /\ Sends \in Nat \ {0} /\ FollowMin \in Nat \ {0}

Items == Replies \cup Follows
Clients == {ClientOf[r] : r \in Replies}

VARIABLES
    handed, assignee, gen,  \* session.handedOver, .assignee, takeoverGen
    window, shut,           \* the last customer message; its 48 hours are over
    store,                  \* ok, slow (storeLagging), broken (storeUnrecoverable)
    serving,                \* rt.state
    step,                   \* of each item
    row,                    \* its row of the ledger
    granted,                \* the window it was admitted in
    hit,                    \* the window of its last attempt
    genAt,                  \* gen0 of a follow-up
    cache,                  \* per clientId, the request whose result is kept
    expired,                \* ghost: how often a result was pruned
    wire                    \* ghost: items that reached the channel

handVars == <<handed, assignee, gen>>
windowVars == <<window, shut>>
worldVars == <<store, serving>>
ledgerVars == <<row, granted, hit>>
cacheVars == <<cache, expired>>
replyVars == <<handVars, windowVars, worldVars, step, ledgerVars, genAt, cacheVars, wire>>

Running == {"commit", "push", "sending"}
Ended == {"sent", "unsent", "thrown", "same"}

ReplyInit ==
    /\ handed = FALSE /\ assignee = Nobody /\ gen = 0
    /\ window = 1 /\ shut = FALSE /\ store = "ok" /\ serving = TRUE
    /\ step = [i \in Items |-> "idle"] /\ row = [i \in Items |-> "none"]
    /\ granted = [i \in Items |-> 0] /\ hit = [i \in Items |-> 0]
    /\ genAt = [f \in Follows |-> 0]
    /\ cache = [c \in Clients |-> Nobody] /\ expired = [c \in Clients |-> 0]
    /\ wire = {}

-----------------------------------------------------------------------------
(* The ledger *)

Counted == {"held", "open", "counted"}
\* Mutant: what others hold and have not sent yet is not counted.
Used_NoHolds == Cardinality({i \in Items : hit[i] = window /\ row[i] \in {"open", "counted"}})

Used == Cardinality({i \in Items : hit[i] = window /\ row[i] \in Counted})
Remaining == IF shut \/ Used >= Sends THEN 0 ELSE Sends - Used

HoldSend(i) ==
    /\ row' = [row EXCEPT ![i] = "held"]
    /\ granted' = [granted EXCEPT ![i] = window]
    /\ hit' = [hit EXCEPT ![i] = window]

\* releaseHold: the row goes unless a segment has taken it over.
Freed(i) == IF row[i] = "held" THEN "none" ELSE row[i]

Ends(i, how) ==
    /\ step' = [step EXCEPT ![i] = how]
    /\ row' = [row EXCEPT ![i] = Freed(i)]
    /\ UNCHANGED <<granted, hit>>

-----------------------------------------------------------------------------
(* Hands *)

Take(a) ==
    /\ handed' = TRUE /\ assignee' = a /\ gen' = gen + 1

Takeover(a) ==
    /\ serving /\ assignee # a /\ gen < MaxHands
    /\ Take(a)
    /\ UNCHANGED <<windowVars, worldVars, step, ledgerVars, genAt, cacheVars, wire>>

Release ==
    /\ serving /\ handed
    /\ handed' = FALSE /\ assignee' = Nobody
    /\ UNCHANGED <<gen, windowVars, worldVars, step, ledgerVars, genAt, cacheVars, wire>>

\* enterHandoff by anybody else: nobody is assigned, no takeover is counted.
HandedOver ==
    /\ ~handed
    /\ handed' = TRUE /\ assignee' = Nobody
    /\ UNCHANGED <<gen, windowVars, worldVars, step, ledgerVars, genAt, cacheVars, wire>>

-----------------------------------------------------------------------------
(* The customer, the clock, the store and the tenant *)

CustomerSpeaks ==
    /\ window < MaxWindows
    /\ window' = window + 1 /\ shut' = FALSE
    /\ UNCHANGED <<handVars, worldVars, step, ledgerVars, genAt, cacheVars, wire>>

WindowShuts ==
    /\ ~shut /\ shut' = TRUE
    /\ UNCHANGED <<handVars, window, worldVars, step, ledgerVars, genAt, cacheVars, wire>>

StoreChanges(to) ==
    /\ store \notin {to, "broken"} /\ store' = to
    /\ UNCHANGED <<handVars, windowVars, serving, step, ledgerVars, genAt, cacheVars, wire>>

TenantCloses ==
    /\ serving /\ serving' = FALSE
    /\ UNCHANGED <<handVars, windowVars, store, step, ledgerVars, genAt, cacheVars, wire>>

-----------------------------------------------------------------------------
(* A reply *)

\* replySync: a kept result answers before anything is checked.
Repeated(r) ==
    /\ step[r] = "idle" /\ serving
    /\ cache[ClientOf[r]] # Nobody
    /\ step' = [step EXCEPT ![r] = "same"]
    /\ UNCHANGED <<handVars, windowVars, worldVars, ledgerVars, genAt, cacheVars, wire>>

MayReply(r) ==
    /\ ~handed \/ assignee \in {Nobody, AuthorOf[r]}
    /\ store = "ok"
    /\ Remaining > 0

\* Mutant: a request is remembered only after its sends.
Keeps_Later(r) == UNCHANGED cache

Keeps(r) == cache' = [cache EXCEPT ![ClientOf[r]] = r]

Refused(r) ==
    /\ step[r] = "idle" /\ serving
    /\ cache[ClientOf[r]] = Nobody /\ ~MayReply(r)
    /\ step' = [step EXCEPT ![r] = "thrown"]
    /\ UNCHANGED <<handVars, windowVars, worldVars, ledgerVars, genAt, cacheVars, wire>>

Reply(r) ==
    /\ step[r] = "idle" /\ serving
    /\ cache[ClientOf[r]] = Nobody /\ MayReply(r)
    /\ HoldSend(r)
    /\ IF handed /\ assignee # Nobody THEN UNCHANGED handVars ELSE Take(AuthorOf[r])
    /\ step' = [step EXCEPT ![r] = "commit"]
    /\ Keeps(r)
    /\ UNCHANGED <<windowVars, worldVars, genAt, expired, wire>>

\* awaitCommit returned: committed or not in five seconds, it is sent; it is
\* not when it never will be, and then the result is not kept.
ReplyCommits(r) ==
    /\ step[r] = "commit"
    /\ IF store = "broken"
       THEN /\ Ends(r, "thrown")
            /\ cache' = [cache EXCEPT ![ClientOf[r]] = IF @ = r THEN Nobody ELSE @]
       ELSE /\ UNCHANGED cache
            /\ IF ~serving THEN Ends(r, "unsent")
               ELSE step' = [step EXCEPT ![r] = "push"] /\ UNCHANGED ledgerVars
    /\ UNCHANGED <<handVars, windowVars, worldVars, genAt, expired, wire>>

\* pruneRecent, ten minutes later: its sends are long over.
Expire(c) ==
    /\ cache[c] # Nobody /\ step[cache[c]] \in Ended
    /\ cache' = [cache EXCEPT ![c] = Nobody]
    /\ expired' = [expired EXCEPT ![c] = @ + 1]
    /\ UNCHANGED <<handVars, windowVars, worldVars, step, ledgerVars, genAt, wire>>

-----------------------------------------------------------------------------
(* A follow-up *)

FollowUp(f) ==
    /\ step[f] = "idle" /\ serving /\ ~handed
    /\ Remaining >= FollowMin
    /\ HoldSend(f)
    /\ genAt' = [genAt EXCEPT ![f] = gen]
    /\ step' = [step EXCEPT ![f] = "commit"]
    /\ UNCHANGED <<handVars, windowVars, worldVars, cacheVars, wire>>

\* Mutant: it waits for its commit, however long that takes.
FollowCommits_Waits(f) ==
    /\ step[f] = "commit" /\ store = "ok"
    /\ IF serving /\ gen = genAt[f] /\ ~handed
       THEN step' = [step EXCEPT ![f] = "push"] /\ UNCHANGED ledgerVars
       ELSE Ends(f, "unsent")
    /\ UNCHANGED <<handVars, windowVars, worldVars, genAt, cacheVars, wire>>

\* Charged and committed: sent unless the conversation was taken meanwhile.
FollowCommits(f) ==
    /\ step[f] = "commit"
    /\ IF store = "ok" /\ serving /\ gen = genAt[f] /\ ~handed
       THEN step' = [step EXCEPT ![f] = "push"] /\ UNCHANGED ledgerVars
       ELSE Ends(f, "unsent")
    /\ UNCHANGED <<handVars, windowVars, worldVars, genAt, cacheVars, wire>>

-----------------------------------------------------------------------------
(* The send *)

\* recordSend takes the held row over; attempt() moves it to now.
Attempt(i) ==
    /\ step[i] = "push"
    /\ step' = [step EXCEPT ![i] = "sending"]
    /\ row' = [row EXCEPT ![i] = "open"] /\ hit' = [hit EXCEPT ![i] = window]
    /\ wire' = wire \cup {i}
    /\ UNCHANGED <<handVars, windowVars, worldVars, granted, genAt, cacheVars>>

Retry(i) ==
    /\ step[i] = "sending" /\ hit[i] # window
    /\ hit' = [hit EXCEPT ![i] = window]
    /\ UNCHANGED <<handVars, windowVars, worldVars, step, row, granted, genAt, cacheVars, wire>>

\* settle (accepted and unknown count, rejected does not) or discard.
Settle(i, how) ==
    /\ step[i] = "sending"
    /\ row' = [row EXCEPT ![i] = how]
    /\ step' = [step EXCEPT ![i] = IF how = "counted" THEN "sent" ELSE "unsent"]
    /\ UNCHANGED <<handVars, windowVars, worldVars, granted, hit, genAt, cacheVars, wire>>

\* The channel refused before the first segment.
PushFails(i) ==
    /\ step[i] = "push"
    /\ Ends(i, "unsent")
    /\ UNCHANGED <<handVars, windowVars, worldVars, genAt, cacheVars, wire>>

\* The receipt of a failed delivery.
Receipt(i) ==
    /\ row[i] = "counted" /\ row' = [row EXCEPT ![i] = "refused"]
    /\ UNCHANGED <<handVars, windowVars, worldVars, step, granted, hit, genAt, cacheVars, wire>>

\* What one that was let through does next.
Proceeds(i) ==
    \/ i \in Replies /\ ReplyCommits(i)
    \/ i \in Follows /\ FollowCommits(i)
    \/ Attempt(i) \/ PushFails(i)
    \/ \E how \in {"counted", "refused", "none"} : Settle(i, how)

ReplyNext ==
    \/ \E a \in Advisors : Takeover(a)
    \/ Release \/ HandedOver \/ CustomerSpeaks \/ WindowShuts \/ TenantCloses
    \/ \E to \in {"ok", "slow", "broken"} : StoreChanges(to)
    \/ \E r \in Replies : Repeated(r) \/ Refused(r) \/ Reply(r)
    \/ \E c \in Clients : Expire(c)
    \/ \E f \in Follows : FollowUp(f)
    \/ \E i \in Items : Proceeds(i) \/ Retry(i) \/ Receipt(i)

ReplySpec == ReplyInit /\ [][ReplyNext]_replyVars

-----------------------------------------------------------------------------
(* Properties *)

\* Sends that were let through on what was left of one window never come to
\* more than it had, however the checks, the commits and the sends interleave;
\* and one that is over gives back what it held (takeover.ts, holdSend).
WindowHolds ==
    /\ \A w \in 1..MaxWindows :
        Cardinality({i \in Items : granted[i] = w /\ row[i] \in Counted}) <= Sends
    /\ \A i \in Items : row[i] \in {"held", "open"} => step[i] \in Running

\* A request repeated with its clientId reaches the customer once, as long as
\* its result is kept (replies in takeover.ts).
ReplyOnce == \A c \in Clients :
    Cardinality({r \in wire \cap Replies : ClientOf[r] = c}) <= 1 + expired[c]

\* Whoever was let through gets an answer: in the end nobody is left waiting.
EverySendEnds == <>[](\A i \in Items : step[i] \notin Running)
=============================================================================
