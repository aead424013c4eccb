------------------------------- MODULE Quotes -------------------------------
(***************************************************************************)
(* The quotes of one conversation (payment/orders.ts, core/order-view.ts,  *)
(* store.ts).  A quote is created, approved by an advisor or at once,      *)
(* sent as a link, and then accepted, paid, withdrawn, superseded by       *)
(* another or left to expire.  Each action changes memory in one stretch,  *)
(* waits for the commit, looks again at what it changed and only then      *)
(* tells the customer: whatever comes between the change and the commit    *)
(* must be seen by that second look.                                       *)
(*                                                                         *)
(* Who may decide, what a quote is made of and the customer's acceptance   *)
(* are left out.                                                           *)
(***************************************************************************)
EXTENDS Naturals, Sequences, FiniteSets, SequencesExt

CONSTANTS
    NQuotes,        \* quotes, numbered as they are created
    MaxWaits,       \* bound: requests that wait at once
    MaxFaults       \* bound: stalls, crashes, stops and resets

ASSUME QuoteAssumption == NQuotes \in Nat /\ MaxWaits \in Nat /\ MaxFaults \in Nat

QuoteIds == 1..NQuotes

VARIABLES
    book,       \* the orders in memory, and which of their links the messages hold
    disk,       \* as last committed
    snap,       \* as the flush in flight will commit it, or NoSnap
    dirty,      \* memory has changed since the last snapshot
    boarded, later, ready,  \* who waits for the flight, for the next one, for nothing
    store,      \* ok, slow (storeLagging), broken (storeUnrecoverable)
    linked,     \* ghost: links sent
    thanked,    \* ghost: payments confirmed to the customer
    forgot,     \* ghost: what was told and lost with the process
    faults

storeVars == <<disk, snap, store>>
waitVars == <<boarded, later, ready>>
ghosts == <<linked, thanked, forgot>>
quoteVars == <<book, storeVars, dirty, waitVars, ghosts, faults>>

NoQuote == [status |-> "none", approval |-> "none",
            expired |-> FALSE, link |-> FALSE, thanks |-> FALSE]
NoSnap == <<>>

QuotesInit ==
    /\ book = [q \in QuoteIds |-> NoQuote] /\ disk = book
    /\ snap = NoSnap /\ dirty = FALSE
    /\ boarded = <<>> /\ later = <<>> /\ ready = <<>>
    /\ store = "ok"
    /\ linked = [q \in QuoteIds |-> 0] /\ thanked = [q \in QuoteIds |-> 0]
    /\ forgot = [q \in QuoteIds |-> 0]
    /\ faults = 0

QuoteFault == faults < MaxFaults /\ faults' = faults + 1

\* quoteState
Superseded(o) == o.status = "superseded"
Invalid(o) == o.status \in {"none", "void", "cancelled"}
Draft(o) == o.status = "pending_payment" /\ o.approval = "pending"
Approved(o) == o.status = "pending_payment" /\ o.approval = "approved"
Valid(o) == Approved(o) /\ ~o.expired
Open == {q \in QuoteIds : book[q].status = "pending_payment"}

\* supersedeOrder, for every member of S.
Supersede(b, S) == [q \in QuoteIds |->
    IF q \in S /\ b[q].status = "pending_payment" THEN [b[q] EXCEPT !.status = "superseded"] ELSE b[q]]

\* Every handler below runs to its first wait, and those whose wait is over go
\* on before any other starts (microtasks).
Turn == ready = <<>>

Write(b) == book' = b /\ dirty' = TRUE

\* flushSession: what is written by now has to be committed.
Wait(w, unsaved) ==
    /\ Len(boarded) + Len(later) < MaxWaits
    /\ IF unsaved THEN later' = Append(later, w) /\ UNCHANGED <<boarded, ready>>
       ELSE IF snap # NoSnap THEN boarded' = Append(boarded, w) /\ UNCHANGED <<later, ready>>
       ELSE ready' = Append(ready, w) /\ UNCHANGED <<boarded, later>>

-----------------------------------------------------------------------------
(* The model and the customer *)

\* createLineOrder: a usable quote of the same lines is given back, ...
Reuse(q) ==
    LET late == {p \in Open : Approved(book[p]) /\ book[p].expired} IN
    /\ Turn
    /\ Draft(book[q]) \/ Valid(book[q])
    /\ late # {} /\ Write(Supersede(book, late))
    /\ UNCHANGED <<storeVars, waitVars, ghosts, faults>>

\* ... else another is made, and takes the place of those it may not live with.
Create(q, auto) ==
    LET old == {p \in Open : auto \/ Draft(book[p]) \/ book[p].expired} IN
    /\ Turn
    /\ book[q].status = "none" /\ \A p \in QuoteIds : p < q => book[p].status # "none"
    /\ Write([Supersede(book, old) EXCEPT ![q] =
            [NoQuote EXCEPT !.status = "pending_payment",
                            !.approval = IF auto THEN "approved" ELSE "pending"]])
    /\ UNCHANGED <<storeVars, waitVars, ghosts, faults>>

\* The model's answer carries the link of a valid quote.
ModelSendsLink(q) ==
    /\ Turn /\ Valid(book[q]) /\ ~book[q].link
    /\ Write([book EXCEPT ![q].link = TRUE])
    /\ UNCHANGED <<storeVars, waitVars, ghosts, faults>>

DayPasses(q) ==
    /\ Turn /\ Valid(book[q])
    /\ book' = [book EXCEPT ![q].expired = TRUE]
    /\ UNCHANGED <<storeVars, dirty, waitVars, ghosts, faults>>

\* deleteOrdersOfSession
Reset ==
    /\ Turn /\ QuoteFault
    /\ Write([q \in QuoteIds |-> IF book[q].status = "none" THEN book[q]
                               ELSE [book[q] EXCEPT !.status = "void"]])
    /\ UNCHANGED <<storeVars, waitVars, ghosts>>

-----------------------------------------------------------------------------
(* The advisors *)

Approve(q) ==
    /\ Turn /\ Draft(book[q]) /\ store = "ok"
    /\ Write([Supersede(book, {p \in QuoteIds \ {q} : Approved(book[p])})
              EXCEPT ![q].approval = "approved"])
    /\ Wait([op |-> "approve", q |-> q], TRUE)
    /\ UNCHANGED <<storeVars, ghosts, faults>>

\* Approved before: the request is a retry.
ApproveAgain(q) ==
    /\ Turn /\ Approved(book[q]) /\ store # "broken"
    /\ Wait([op |-> "again", q |-> q], dirty)
    /\ UNCHANGED <<book, dirty, storeVars, ghosts, faults>>

\* rejectQuote, and cancelOrder of a draft or of an approved quote.
Cancel(q) ==
    /\ Turn /\ (Draft(book[q]) \/ Approved(book[q])) /\ store = "ok"
    /\ Write([book EXCEPT ![q].status = "cancelled",
                          ![q].approval = IF @ = "pending" THEN "rejected" ELSE "withdrawn"])
    /\ Wait([op |-> "cancel", q |-> q], TRUE)
    /\ UNCHANGED <<storeVars, ghosts, faults>>

\* markPaidByAdvisor; an expired quote may still be paid.
MarkPaid(q) ==
    /\ Turn /\ Approved(book[q]) /\ store = "ok"
    /\ Write([book EXCEPT ![q].status = "paid"])
    /\ Wait([op |-> "paid", q |-> q], TRUE)
    /\ UNCHANGED <<storeVars, ghosts, faults>>

\* Mutants: a retry does not ask whether the link went; the quote is not looked at again.
MaySend_Again(w) == Valid(book[w.q])
MaySend_Unchecked(w) == w.op = "again" => ~book[w.q].link

\* recheckApproved, quoteLinkSent
MaySend(w) ==
    /\ Valid(book[w.q])
    /\ w.op = "again" => ~book[w.q].link

\* notifyPaid writes the confirmation with the change it is sent after.
Thank(q) ==
    /\ thanked' = [thanked EXCEPT ![q] = @ + 1]
    /\ Write([book EXCEPT ![q].thanks = TRUE])

\* The rest of a handler whose wait is over, to the moment it has sent.
Resume ==
    /\ ready # <<>> /\ ready' = Tail(ready)
    /\ LET w == Head(ready) IN
       CASE w.op \in {"approve", "again"} /\ MaySend(w) ->
                /\ linked' = [linked EXCEPT ![w.q] = @ + 1]
                /\ Write([book EXCEPT ![w.q].link = TRUE])
                /\ UNCHANGED thanked
         [] w.op = "paid" /\ book[w.q].status = "paid" -> Thank(w.q) /\ UNCHANGED linked
         [] OTHER -> UNCHANGED <<book, dirty, linked, thanked>>
    /\ UNCHANGED <<storeVars, boarded, later, forgot, faults>>

\* One request gives up; another of the same kind has a timer of its own.
Leaves(w, line, rest) == \E i \in DOMAIN line : line[i] = w /\ rest = RemoveAt(line, i)

\* Five seconds: the request fails, but a payment is confirmed all the same.
TimesOut(w) ==
    /\ Turn /\ store = "slow"
    /\ \/ Leaves(w, boarded, boarded') /\ UNCHANGED later
       \/ Leaves(w, later, later') /\ UNCHANGED boarded
    /\ IF w.op = "paid" /\ book[w.q].status = "paid" THEN Thank(w.q)
       ELSE UNCHANGED <<book, dirty, thanked>>
    /\ UNCHANGED <<storeVars, ready, linked, forgot, faults>>

-----------------------------------------------------------------------------
(* The store *)

Snapshot ==
    /\ Turn /\ dirty /\ snap = NoSnap /\ store # "broken"
    /\ snap' = book /\ dirty' = FALSE
    /\ boarded' = later /\ later' = <<>>
    /\ UNCHANGED <<book, disk, store, ready, ghosts, faults>>

Commit ==
    /\ Turn /\ snap # NoSnap
    /\ disk' = snap /\ snap' = NoSnap /\ store' = "ok"
    /\ ready' = boarded /\ boarded' = <<>>
    /\ UNCHANGED <<book, dirty, later, ghosts, faults>>

Stall ==
    /\ Turn /\ snap # NoSnap /\ store = "ok" /\ QuoteFault
    /\ store' = "slow"
    /\ UNCHANGED <<book, disk, snap, dirty, waitVars, ghosts>>

\* Poisoned: nobody's wait will end well, awaitCommit throws.
Breaks ==
    /\ Turn /\ snap # NoSnap /\ QuoteFault
    /\ store' = "broken" /\ snap' = NoSnap /\ dirty' = TRUE
    /\ boarded' = <<>> /\ later' = <<>>
    /\ UNCHANGED <<book, disk, ready, ghosts>>

\* A stop writes what was not committed to the spill, a crash loses it.
QuotesRestart(spilled) ==
    /\ Turn /\ QuoteFault
    /\ LET b == IF spilled THEN book ELSE disk IN
       /\ book' = [q \in QuoteIds |-> [b[q] EXCEPT !.expired = book[q].expired /\ Approved(b[q])]]
       /\ disk' = book'
       /\ forgot' = [q \in QuoteIds |-> forgot[q]
            + (IF (book[q].link /\ ~b[q].link) \/ (book[q].thanks /\ ~b[q].thanks) THEN 1 ELSE 0)]
    /\ snap' = NoSnap /\ dirty' = FALSE /\ store' = "ok"
    /\ boarded' = <<>> /\ later' = <<>> /\ ready' = <<>>
    /\ UNCHANGED <<linked, thanked>>

Waiters == ToSet(boarded) \cup ToSet(later)

QuotesNext ==
    \/ \E q \in QuoteIds :
        \/ \E auto \in BOOLEAN : Create(q, auto)
        \/ Reuse(q) \/ ModelSendsLink(q) \/ DayPasses(q)
        \/ Approve(q) \/ ApproveAgain(q) \/ Cancel(q) \/ MarkPaid(q)
    \/ \E w \in Waiters : TimesOut(w)
    \/ Reset \/ Resume \/ Snapshot \/ Commit \/ Stall \/ Breaks
    \/ \E spilled \in BOOLEAN : QuotesRestart(spilled)

QuotesSpec == QuotesInit /\ [][QuotesNext]_quoteVars

-----------------------------------------------------------------------------
(* Properties *)

\* A customer never has two quotes to pay, nor an advisor two to decide,
\* in memory or in the database.
OneLiveQuote == \A b \in {book, disk} :
    /\ Cardinality({q \in QuoteIds : Approved(b[q])}) <= 1
    /\ Cardinality({q \in QuoteIds : Draft(b[q])}) <= 1

\* The link goes out once, however often the approval is retried, and so does
\* the confirmation of a payment; unless an exit forgot that it went.
QuoteToldOnce == \A q \in QuoteIds :
    linked[q] <= 1 + forgot[q] /\ thanked[q] <= 1 + forgot[q]

QuotesAgree == OneLiveQuote /\ QuoteToldOnce

\* A link is sent only for a quote that is valid at that moment and committed
\* as approved; and what the database knows as paid stays paid.
QuoteSteps ==
    [][\A q \in QuoteIds :
        /\ linked'[q] > linked[q] => Valid(book[q]) /\ Approved(disk[q])
        /\ disk[q].status = "paid" => disk'[q].status \in {"paid", "void"}]_quoteVars

\* However approvals, withdrawals, payments and expiries cross while a request
\* waits for its commit, customer, advisor and database read one story.
QuotesAreSafe == []QuotesAgree /\ QuoteSteps
=============================================================================
