----------------------------- MODULE DeskProofs -----------------------------
(***************************************************************************)
(* Theorems about HumanReply, EventStream, ConfigSource and HandoffNotice. *)
(***************************************************************************)
EXTENDS HumanReply, HandoffNotice, EventStream, ConfigSource, FiniteSetTheorems, SequenceTheorems, TLAPS

-----------------------------------------------------------------------------
(***************************************************************************)
(* HumanReply.  What is let through on a window never exceeds what it had, *)
(* and a repeated request reaches the customer once: for any number of     *)
(* requests, follow-ups, customer messages and changes of hands.           *)
(***************************************************************************)

Steps == {"idle", "commit", "push", "sending", "sent", "unsent", "thrown", "same"}
Rows == {"none", "held", "open", "counted", "refused"}

ReplyTypes ==
    /\ window \in Nat /\ window > 0
    /\ step \in [Items -> Steps] /\ row \in [Items -> Rows]
    /\ granted \in [Items -> Nat] /\ hit \in [Items -> Nat]
    /\ cache \in [Clients -> Replies \cup {Nobody}] /\ expired \in [Clients -> Nat]

\* The ledger's row of an item is where the item is.
RowFits(i) ==
    /\ step[i] \in {"commit", "push"} => row[i] = "held"
    /\ step[i] = "sending" => row[i] = "open"
    /\ row[i] \in {"held", "open"} => step[i] \in Running
    /\ i \in wire => step[i] \in {"sending", "sent", "unsent"}

\* What was granted on the window of now counts on it, wherever its attempts
\* move its row to.
HitFits(i) == granted[i] <= window /\ (granted[i] = window => hit[i] = window)

LedgerInv == ReplyTypes /\ \A i \in Items : RowFits(i) /\ HitFits(i)

\* What was granted on a window and still counts.
Granted(w) == {i \in Items : granted[i] = w /\ row[i] \in Counted}
WindowSums == \A w \in Nat : Cardinality(Granted(w)) <= Sends

\* The requests of a client that were let through: the one whose result is
\* kept, and no more others than results have expired.
Got(c) == {r \in Replies : ClientOf[r] = c /\ step[r] \notin {"idle", "same", "thrown"}}
ClientSums == \A c \in Clients : Cardinality(Got(c)) <= expired[c] + (IF cache[c] = Nobody THEN 0 ELSE 1)

-----------------------------------------------------------------------------

LEMMA Finite ==
    /\ IsFiniteSet(Items) /\ IsFiniteSet(Replies)
    /\ \A T \in SUBSET Items : IsFiniteSet(T) /\ Cardinality(T) \in Nat
    /\ Replies \subseteq Items
<1>1. IsFiniteSet(Items)
    BY ReplyAssumption DEF Items
<1>2. Replies \in SUBSET Items
    BY DEF Items
<1>3. ASSUME NEW T \in SUBSET Items PROVE IsFiniteSet(T) /\ Cardinality(T) \in Nat
    BY <1>1, FS_Subset, FS_CardinalityType
<1> QED BY <1>1, <1>2, <1>3

LEMMA ClientOfReply == \A r \in Replies : ClientOf[r] \in Clients /\ r \in Items
  BY DEF Clients, Items

LEMMA LedgerInvInit == ReplyInit => LedgerInv /\ WindowSums /\ ClientSums
<1> SUFFICES ASSUME ReplyInit PROVE LedgerInv /\ WindowSums /\ ClientSums
    OBVIOUS
<1>1. LedgerInv
    BY DEF ReplyInit, LedgerInv, ReplyTypes, Steps, Rows, RowFits, HitFits, Running
<1>2. WindowSums
  <2>1. \A w \in Nat : Granted(w) = {}
      BY DEF ReplyInit, Granted, Counted
  <2> QED BY <2>1, FS_EmptySet, ReplyAssumption DEF WindowSums
<1>3. ClientSums
  <2>1. \A c \in Clients : Got(c) = {} /\ cache[c] = Nobody /\ expired[c] = 0
      BY ClientOfReply DEF ReplyInit, Got
  <2> QED BY <2>1, FS_EmptySet DEF ClientSums
<1> QED BY <1>1, <1>2, <1>3

-----------------------------------------------------------------------------
(* Where an item is, and its row *)

\* One item goes on.
LEMMA ItemMoves ==
    ASSUME LedgerInv, NEW i \in Items, NEW s \in Steps, NEW r \in Rows,
           step' = [step EXCEPT ![i] = s], row' = [row EXCEPT ![i] = r],
           granted' \in [Items -> Nat], hit' \in [Items -> Nat],
           \A j \in Items : j # i => granted'[j] = granted[j] /\ hit'[j] = hit[j] /\ (j \in wire' => j \in wire),
           window' = window,
           cache' \in [Clients -> Replies \cup {Nobody}], expired' = expired,
           RowFits(i)', HitFits(i)'
    PROVE  LedgerInv'
<1>1. ReplyTypes'
    BY DEF LedgerInv, ReplyTypes
<1>2. ASSUME NEW j \in Items, j # i PROVE RowFits(j)' /\ HitFits(j)'
  <2>1. step'[j] = step[j] /\ row'[j] = row[j]
    BY <1>2 DEF LedgerInv, ReplyTypes
  <2>2. RowFits(j) /\ HitFits(j)
    BY DEF LedgerInv
  <2>3. granted'[j] = granted[j] /\ hit'[j] = hit[j] /\ (j \in wire' => j \in wire)
    BY <1>2
  <2> QED BY <2>1, <2>2, <2>3 DEF RowFits, HitFits
<1> QED BY <1>1, <1>2 DEF LedgerInv

\* Nothing of the items moves, but the window may.
LEMMA OthersKeepLedger ==
    ASSUME LedgerInv,
           \/ \E a \in Advisors : Takeover(a)
           \/ Release \/ HandedOver \/ CustomerSpeaks \/ WindowShuts \/ TenantCloses
           \/ \E to \in {"ok", "slow", "broken"} : StoreChanges(to)
    PROVE  LedgerInv' /\ UNCHANGED <<step, row, granted, cache, expired>>
<1>1. window' \in {window, window + 1} /\ UNCHANGED <<step, row, granted, hit, wire, cache, expired>>
    BY DEF Takeover, Release, HandedOver, CustomerSpeaks, WindowShuts, TenantCloses, StoreChanges,
           windowVars, ledgerVars, cacheVars
<1>2. ReplyTypes'
    BY <1>1 DEF LedgerInv, ReplyTypes
<1>3. ASSUME NEW i \in Items PROVE RowFits(i)' /\ HitFits(i)'
  <2>1. RowFits(i) /\ HitFits(i) /\ granted[i] \in Nat /\ window \in Nat
    BY DEF LedgerInv, ReplyTypes
  <2> QED BY <1>1, <2>1 DEF RowFits, HitFits
<1> QED BY <1>1, <1>2, <1>3 DEF LedgerInv

\* An item that is refused, repeated or over.
LEMMA EndsKeepLedger ==
    ASSUME LedgerInv, NEW i \in Items, NEW how \in {"thrown", "unsent"},
           step[i] \in {"commit", "push"}, Ends(i, how),
           UNCHANGED <<window, expired, wire>>, cache' \in [Clients -> Replies \cup {Nobody}]
    PROVE  LedgerInv'
<1>1. step[i] \in Steps /\ row[i] = "held" /\ i \notin wire /\ HitFits(i)
    BY DEF LedgerInv, ReplyTypes, RowFits
<1>2. step' = [step EXCEPT ![i] = how] /\ row' = [row EXCEPT ![i] = "none"] /\ UNCHANGED <<granted, hit>>
    BY <1>1 DEF Ends, Freed
<1>3. step'[i] = how /\ row'[i] = "none"
    BY <1>2 DEF LedgerInv, ReplyTypes
<1>4. RowFits(i)' /\ HitFits(i)'
    BY <1>1, <1>2, <1>3 DEF RowFits, HitFits
<1> QED BY <1>2, <1>4, ItemMoves DEF LedgerInv, ReplyTypes, Steps, Rows

LEMMA HoldKeepsLedger ==
    ASSUME LedgerInv, NEW i \in Items, step[i] = "idle", HoldSend(i),
           step' = [step EXCEPT ![i] = "commit"],
           UNCHANGED <<window, expired, wire>>, cache' \in [Clients -> Replies \cup {Nobody}]
    PROVE  LedgerInv'
<1>1. i \notin wire /\ window \in Nat
    BY DEF LedgerInv, RowFits, ReplyTypes
<1>2. row' = [row EXCEPT ![i] = "held"] /\ granted' = [granted EXCEPT ![i] = window]
      /\ hit' = [hit EXCEPT ![i] = window]
    BY DEF HoldSend
<1>3. step'[i] = "commit" /\ row'[i] = "held" /\ granted'[i] = window /\ hit'[i] = window
      /\ granted' \in [Items -> Nat] /\ hit' \in [Items -> Nat]
    BY <1>1, <1>2 DEF LedgerInv, ReplyTypes
<1>4. \A j \in Items : j # i => granted'[j] = granted[j] /\ hit'[j] = hit[j]
    BY <1>2 DEF LedgerInv, ReplyTypes
<1>5. RowFits(i)' /\ HitFits(i)'
    BY <1>1, <1>3 DEF RowFits, HitFits, Running
<1> QED BY <1>2, <1>3, <1>4, <1>5, ItemMoves DEF Steps, Rows

\* The step of an item changes, and nothing else of it.
LEMMA StepKeepsLedger ==
    ASSUME LedgerInv, NEW i \in Items, NEW s \in Steps, step' = [step EXCEPT ![i] = s],
           \/ step[i] = "idle" /\ s \in {"same", "thrown"}
           \/ step[i] = "commit" /\ s = "push",
           UNCHANGED <<window, row, granted, hit, cache, expired, wire>>
    PROVE  LedgerInv'
<1>1. RowFits(i) /\ HitFits(i) /\ row[i] \in Rows
    BY DEF LedgerInv, ReplyTypes
<1>2. row' = [row EXCEPT ![i] = row[i]] /\ step'[i] = s
    BY DEF LedgerInv, ReplyTypes
<1>3. RowFits(i)' /\ HitFits(i)'
    BY <1>1, <1>2 DEF RowFits, HitFits, Running
<1> QED BY <1>1, <1>2, <1>3, ItemMoves DEF LedgerInv, ReplyTypes

\* Sends, retries, receipts: the row moves with the item, or after it.
LEMMA SendsKeepLedger ==
    ASSUME LedgerInv, NEW i \in Items,
           \/ Attempt(i) \/ PushFails(i)
           \/ \E how \in {"counted", "refused", "none"} : Settle(i, how)
           \/ Retry(i) \/ Receipt(i)
    PROVE  LedgerInv' /\ UNCHANGED <<granted, cache, expired>>
           /\ \/ step' = step
              \/ /\ step[i] \in {"push", "sending"}
                 /\ \E s \in {"sending", "sent", "unsent"} : step' = [step EXCEPT ![i] = s]
           /\ \/ row' = row
              \/ \E r \in Rows : row' = [row EXCEPT ![i] = r] /\ (r \in Counted => row[i] \in Counted)
<1>0. RowFits(i) /\ HitFits(i) /\ row[i] \in Rows /\ step[i] \in Steps /\ window \in Nat
      /\ step \in [Items -> Steps] /\ row \in [Items -> Rows]
      /\ granted \in [Items -> Nat] /\ hit \in [Items -> Nat]
      /\ cache \in [Clients -> Replies \cup {Nobody}] /\ expired \in [Clients -> Nat]
    BY DEF LedgerInv, ReplyTypes
<1>1. CASE Attempt(i)
  <2>1. /\ step[i] = "push" /\ step' = [step EXCEPT ![i] = "sending"]
        /\ row' = [row EXCEPT ![i] = "open"] /\ hit' = [hit EXCEPT ![i] = window]
        /\ wire' = wire \cup {i}
        /\ UNCHANGED <<window, granted, cache, expired>>
    BY <1>1 DEF Attempt, windowVars, cacheVars
  <2>2. row[i] = "held"
    BY <1>0, <2>1 DEF RowFits
  <2>3. step'[i] = "sending" /\ row'[i] = "open" /\ hit'[i] = window /\ hit' \in [Items -> Nat]
        /\ \A j \in Items : j # i => hit'[j] = hit[j]
    BY <1>0, <2>1
  <2>4. RowFits(i)' /\ HitFits(i)'
    BY <1>0, <2>1, <2>3 DEF RowFits, HitFits, Running
  <2>5. LedgerInv'
    BY <1>0, <2>1, <2>3, <2>4, ItemMoves DEF Steps, Rows
  <2> QED BY <2>1, <2>2, <2>5 DEF Counted, Rows
<1>2. CASE PushFails(i)
  <2>1. /\ step[i] = "push" /\ Ends(i, "unsent")
        /\ UNCHANGED <<window, cache, expired, wire>>
    BY <1>2 DEF PushFails, windowVars, cacheVars
  <2>2. row[i] = "held"
    BY <1>0, <2>1 DEF RowFits
  <2>3. step' = [step EXCEPT ![i] = "unsent"] /\ row' = [row EXCEPT ![i] = "none"] /\ granted' = granted
    BY <2>1, <2>2 DEF Ends, Freed
  <2>4. LedgerInv'
    BY <1>0, <2>1, EndsKeepLedger
  <2> QED BY <2>1, <2>3, <2>4 DEF Rows, Counted
<1>3. ASSUME NEW how \in {"counted", "refused", "none"}, Settle(i, how)
      PROVE  /\ LedgerInv' /\ UNCHANGED <<granted, cache, expired>>
             /\ step[i] = "sending" /\ \E s \in {"sent", "unsent"} : step' = [step EXCEPT ![i] = s]
             /\ row' = [row EXCEPT ![i] = how] /\ row[i] \in Counted
  <2> DEFINE s == IF how = "counted" THEN "sent" ELSE "unsent"
  <2>1. /\ step[i] = "sending" /\ step' = [step EXCEPT ![i] = s]
        /\ row' = [row EXCEPT ![i] = how]
        /\ UNCHANGED <<window, granted, hit, cache, expired, wire>>
    BY <1>3 DEF Settle, windowVars, cacheVars
  <2>2. s \in {"sent", "unsent"}
    OBVIOUS
  <2> HIDE DEF s
  <2>3. row[i] \in Counted
    BY <1>0, <2>1 DEF RowFits, Counted
  <2>4. step'[i] = s /\ row'[i] = how
    BY <1>0, <2>1
  <2>5. RowFits(i)' /\ HitFits(i)'
    BY <1>0, <2>1, <2>2, <2>4 DEF RowFits, HitFits, Running
  <2>6. LedgerInv'
    BY <1>0, <2>1, <2>2, <2>5, ItemMoves DEF Steps, Rows
  <2> QED BY <2>1, <2>2, <2>3, <2>6
<1>4. CASE Retry(i)
  <2>1. /\ hit' = [hit EXCEPT ![i] = window] /\ step[i] = "sending"
        /\ UNCHANGED <<window, step, row, granted, cache, expired, wire>>
    BY <1>4 DEF Retry, windowVars, cacheVars
  <2>2. step' = [step EXCEPT ![i] = step[i]] /\ row' = [row EXCEPT ![i] = row[i]]
        /\ hit'[i] = window /\ hit' \in [Items -> Nat] /\ \A j \in Items : j # i => hit'[j] = hit[j]
    BY <1>0, <2>1
  <2>3. RowFits(i)' /\ HitFits(i)'
    BY <1>0, <2>1, <2>2 DEF RowFits, HitFits
  <2>4. LedgerInv'
    BY <1>0, <2>1, <2>2, <2>3, ItemMoves
  <2> QED BY <2>1, <2>4
<1>5. CASE Receipt(i)
  <2>1. /\ row[i] = "counted" /\ row' = [row EXCEPT ![i] = "refused"]
        /\ UNCHANGED <<window, step, granted, hit, cache, expired, wire>>
    BY <1>5 DEF Receipt, windowVars, cacheVars
  <2>2. step' = [step EXCEPT ![i] = step[i]] /\ row'[i] = "refused"
    BY <1>0, <2>1
  <2>3. RowFits(i)' /\ HitFits(i)'
    BY <1>0, <2>1, <2>2 DEF RowFits, HitFits
  <2>4. LedgerInv'
    BY <1>0, <2>1, <2>2, <2>3, ItemMoves DEF Rows
  <2> QED BY <2>1, <2>4 DEF Rows, Counted
<1>6. CASE \E how \in {"counted", "refused", "none"} : Settle(i, how)
  <2> PICK how \in {"counted", "refused", "none"} : Settle(i, how)
    BY <1>6
  <2> QED BY <1>3 DEF Rows
<1> QED BY <1>1, <1>2, <1>4, <1>5, <1>6

-----------------------------------------------------------------------------
(* What was granted on a window *)

LEMMA GrantedFinite ==
    \A w : IsFiniteSet(Granted(w)) /\ Cardinality(Granted(w)) \in Nat
  BY Finite DEF Granted

\* What nobody is granted does not add up.
LEMMA SumsShrink ==
    ASSUME WindowSums, granted' = granted,
           \A j \in Items : row'[j] \in Counted => row[j] \in Counted
    PROVE  WindowSums'
<1> SUFFICES ASSUME NEW w \in Nat PROVE Cardinality(Granted(w)') <= Sends
    BY DEF WindowSums
<1>1. Granted(w)' \in SUBSET Granted(w)
    BY DEF Granted
<1>2. /\ IsFiniteSet(Granted(w)) /\ Cardinality(Granted(w)) \in Nat
      /\ Cardinality(Granted(w)) <= Sends /\ Sends \in Nat
    BY GrantedFinite, ReplyAssumption DEF WindowSums
<1>3. Cardinality(Granted(w)') <= Cardinality(Granted(w)) /\ Cardinality(Granted(w)') \in Nat
    BY <1>1, <1>2, FS_Subset, FS_CardinalityType
<1> QED BY <1>2, <1>3

\* Whoever finds something left of the window of now is granted one of it:
\* all that was granted on it counts among what is used.
LEMMA SumsGrow ==
    ASSUME LedgerInv, WindowSums, NEW i \in Items, HoldSend(i), Remaining > 0
    PROVE  WindowSums'
<1>0. Sends \in Nat /\ window \in Nat
    BY ReplyAssumption DEF LedgerInv, ReplyTypes
<1>1. row' = [row EXCEPT ![i] = "held"] /\ granted' = [granted EXCEPT ![i] = window]
      /\ row \in [Items -> Rows] /\ granted \in [Items -> Nat]
    BY DEF HoldSend, LedgerInv, ReplyTypes
<1>2. /\ \A j \in Items : j # i => row'[j] = row[j] /\ granted'[j] = granted[j]
      /\ granted'[i] = window
    BY <1>1
<1> SUFFICES ASSUME NEW w \in Nat PROVE Cardinality(Granted(w)') <= Sends
    BY DEF WindowSums
<1>3. IsFiniteSet(Granted(w)) /\ Cardinality(Granted(w)) \in Nat /\ Cardinality(Granted(w)) <= Sends
    BY GrantedFinite DEF WindowSums
<1>4. CASE w # window
  <2>1. Granted(w)' \in SUBSET Granted(w)
    BY <1>2, <1>4 DEF Granted
  <2>2. Cardinality(Granted(w)') <= Cardinality(Granted(w)) /\ Cardinality(Granted(w)') \in Nat
    BY <1>3, <2>1, FS_Subset, FS_CardinalityType
  <2> QED BY <1>0, <1>3, <2>2
<1>5. CASE w = window
  <2> DEFINE Using == {j \in Items : hit[j] = window /\ row[j] \in Counted}
  <2>1. Granted(w) \in SUBSET Using /\ Using \in SUBSET Items
    BY <1>5 DEF Granted, LedgerInv, HitFits
  <2>2. Cardinality(Using) = Used
    BY DEF Used
  <2> HIDE DEF Using
  <2>3. IsFiniteSet(Using) /\ Cardinality(Using) \in Nat
    BY <2>1, Finite
  <2>4. Cardinality(Granted(w)) <= Cardinality(Using)
    BY <2>1, <2>3, FS_Subset
  <2>5. Cardinality(Using) < Sends
    BY <1>0, <2>2, <2>3 DEF Remaining
  <2>6. IsFiniteSet(Granted(w) \cup {i}) /\ Cardinality(Granted(w) \cup {i}) <= Cardinality(Granted(w)) + 1
    <3>1. /\ IsFiniteSet(Granted(w) \cup {i})
          /\ Cardinality(Granted(w) \cup {i}) =
                IF i \in Granted(w) THEN Cardinality(Granted(w)) ELSE Cardinality(Granted(w)) + 1
      BY <1>3, FS_AddElement, Zenon
    <3> QED BY <1>3, <3>1
  <2>7. Granted(w)' \in SUBSET (Granted(w) \cup {i})
    BY <1>2 DEF Granted
  <2>8. Cardinality(Granted(w)') <= Cardinality(Granted(w) \cup {i})
        /\ Cardinality(Granted(w) \cup {i}) \in Nat /\ Cardinality(Granted(w)') \in Nat
    BY <2>6, <2>7, FS_Subset, FS_CardinalityType
  <2> QED BY <1>0, <1>3, <2>3, <2>4, <2>5, <2>6, <2>8
<1> QED BY <1>4, <1>5

-----------------------------------------------------------------------------
(* The requests of a client *)

Apart == {"idle", "same", "thrown"}

LEMMA GotFinite ==
    \A c : IsFiniteSet(Got(c)) /\ Cardinality(Got(c)) \in Nat
  BY Finite DEF Got

\* Nobody of a client is let through who was not.
LEMMA GotShrinks ==
    ASSUME NEW c, \A r \in Replies : step[r] \in Apart => step'[r] \in Apart
    PROVE  /\ IsFiniteSet(Got(c)') /\ Cardinality(Got(c)') \in Nat
           /\ Cardinality(Got(c)') <= Cardinality(Got(c))
<1>1. Got(c)' \in SUBSET Got(c)
    BY DEF Got, Apart
<1> QED BY <1>1, GotFinite, FS_Subset, FS_CardinalityType

LEMMA ClientsStay ==
    ASSUME LedgerInv, ClientSums, UNCHANGED <<cache, expired>>,
           \A r \in Replies : step[r] \in Apart => step'[r] \in Apart
    PROVE  ClientSums'
<1> SUFFICES ASSUME NEW c \in Clients
             PROVE  Cardinality(Got(c)') <= expired[c] + (IF cache[c] = Nobody THEN 0 ELSE 1)
    BY DEF ClientSums
<1>1. Cardinality(Got(c)') \in Nat /\ Cardinality(Got(c)) \in Nat
      /\ Cardinality(Got(c)') <= Cardinality(Got(c))
    BY GotShrinks, GotFinite
<1>2. Cardinality(Got(c)) <= expired[c] + (IF cache[c] = Nobody THEN 0 ELSE 1) /\ expired[c] \in Nat
    BY DEF ClientSums, LedgerInv, ReplyTypes
<1> QED BY <1>1, <1>2

\* A request is let through when no result of its client is kept, and is
\* kept in the same step.
LEMMA ReplyKeepsClients ==
    ASSUME LedgerInv, ClientSums, NEW r \in Replies, Reply(r)
    PROVE  ClientSums'
<1>0. /\ cache \in [Clients -> Replies \cup {Nobody}] /\ expired \in [Clients -> Nat]
      /\ step \in [Items -> Steps] /\ ClientOf[r] \in Clients /\ r \in Items /\ r # Nobody
    BY ClientOfReply, ReplyAssumption DEF LedgerInv, ReplyTypes
<1>1. /\ cache[ClientOf[r]] = Nobody /\ cache' = [cache EXCEPT ![ClientOf[r]] = r]
      /\ step' = [step EXCEPT ![r] = "commit"] /\ expired' = expired
    BY DEF Reply, Keeps
<1> SUFFICES ASSUME NEW c \in Clients
             PROVE  Cardinality(Got(c)') <= expired[c] + (IF cache'[c] = Nobody THEN 0 ELSE 1)
    BY <1>1 DEF ClientSums
<1>2. Cardinality(Got(c)) \in Nat /\ IsFiniteSet(Got(c)) /\ expired[c] \in Nat
      /\ Cardinality(Got(c)) <= expired[c] + (IF cache[c] = Nobody THEN 0 ELSE 1)
    BY <1>0, GotFinite DEF ClientSums
<1>3. \A q \in Replies : q # r => step'[q] = step[q]
    BY <1>0, <1>1, ClientOfReply
<1>4. CASE c = ClientOf[r]
  <2>1. cache'[c] # Nobody /\ cache[c] = Nobody
    BY <1>0, <1>1, <1>4
  <2>2. Got(c)' \in SUBSET (Got(c) \cup {r})
    BY <1>3 DEF Got
  <2>3. /\ IsFiniteSet(Got(c) \cup {r})
        /\ Cardinality(Got(c) \cup {r}) = IF r \in Got(c) THEN Cardinality(Got(c)) ELSE Cardinality(Got(c)) + 1
    BY <1>2, FS_AddElement, Zenon
  <2>4. Cardinality(Got(c)') <= Cardinality(Got(c) \cup {r}) /\ Cardinality(Got(c)') \in Nat
    BY <2>2, <2>3, FS_Subset, FS_CardinalityType
  <2> QED BY <1>2, <2>1, <2>3, <2>4
<1>5. CASE c # ClientOf[r]
  <2>1. cache'[c] = cache[c]
    BY <1>0, <1>1, <1>5
  <2>2. Got(c)' \in SUBSET Got(c)
    BY <1>3, <1>5 DEF Got
  <2>3. Cardinality(Got(c)') <= Cardinality(Got(c)) /\ Cardinality(Got(c)') \in Nat
    BY <1>2, <2>2, FS_Subset, FS_CardinalityType
  <2> QED BY <1>2, <2>1, <2>3
<1> QED BY <1>4, <1>5

\* A result that is not kept after all is of a request that is not let through.
LEMMA ThrownKeepsClients ==
    ASSUME LedgerInv, ClientSums, NEW r \in Replies, step[r] = "commit",
           step' = [step EXCEPT ![r] = "thrown"], expired' = expired,
           cache' = [cache EXCEPT ![ClientOf[r]] = IF @ = r THEN Nobody ELSE @]
    PROVE  ClientSums'
<1>0. /\ cache \in [Clients -> Replies \cup {Nobody}] /\ expired \in [Clients -> Nat]
      /\ step \in [Items -> Steps] /\ ClientOf[r] \in Clients /\ r \in Items /\ r # Nobody
    BY ClientOfReply, ReplyAssumption DEF LedgerInv, ReplyTypes
<1> SUFFICES ASSUME NEW c \in Clients
             PROVE  Cardinality(Got(c)') <= expired[c] + (IF cache'[c] = Nobody THEN 0 ELSE 1)
    BY DEF ClientSums
<1>2. Cardinality(Got(c)) \in Nat /\ IsFiniteSet(Got(c)) /\ expired[c] \in Nat
      /\ Cardinality(Got(c)) <= expired[c] + (IF cache[c] = Nobody THEN 0 ELSE 1)
    BY <1>0, GotFinite DEF ClientSums
<1>3. step'[r] = "thrown" /\ \A q \in Replies : q # r => step'[q] = step[q]
    BY <1>0, ClientOfReply
<1>4. CASE c = ClientOf[r] /\ cache[c] = r
  <2>1. cache'[c] = Nobody /\ cache[c] # Nobody
    BY <1>0, <1>4
  <2>2. Got(c)' \in SUBSET (Got(c) \ {r}) /\ r \in Got(c)
    BY <1>3, <1>4 DEF Got
  <2>3. /\ IsFiniteSet(Got(c) \ {r})
        /\ Cardinality(Got(c) \ {r}) = IF r \in Got(c) THEN Cardinality(Got(c)) - 1 ELSE Cardinality(Got(c))
    BY <1>2, FS_RemoveElement, Zenon
  <2>4. Cardinality(Got(c)') <= Cardinality(Got(c) \ {r}) /\ Cardinality(Got(c)') \in Nat
    BY <2>2, <2>3, FS_Subset, FS_CardinalityType
  <2> QED BY <1>2, <2>1, <2>2, <2>3, <2>4
<1>5. CASE ~(c = ClientOf[r] /\ cache[c] = r)
  <2>1. cache'[c] = cache[c]
    BY <1>0, <1>5
  <2>2. Got(c)' \in SUBSET Got(c)
    BY <1>3 DEF Got
  <2>3. Cardinality(Got(c)') <= Cardinality(Got(c)) /\ Cardinality(Got(c)') \in Nat
    BY <1>2, <2>2, FS_Subset, FS_CardinalityType
  <2> QED BY <1>2, <2>1, <2>3
<1> QED BY <1>4, <1>5

\* A result that is not kept any more is counted as expired.
LEMMA ExpireKeepsClients ==
    ASSUME LedgerInv, ClientSums, NEW k \in Clients, Expire(k)
    PROVE  LedgerInv' /\ ClientSums' /\ UNCHANGED <<row, granted>>
<1>0. cache \in [Clients -> Replies \cup {Nobody}] /\ expired \in [Clients -> Nat]
    BY DEF LedgerInv, ReplyTypes
<1>1. /\ cache[k] # Nobody /\ cache' = [cache EXCEPT ![k] = Nobody]
      /\ expired' = [expired EXCEPT ![k] = @ + 1]
      /\ UNCHANGED <<window, step, row, granted, hit, wire>>
    BY DEF Expire, windowVars, ledgerVars
<1>2. LedgerInv'
  <2>1. cache' \in [Clients -> Replies \cup {Nobody}] /\ expired' \in [Clients -> Nat]
    BY <1>0, <1>1
  <2> QED BY <1>1, <2>1 DEF LedgerInv, ReplyTypes, RowFits, HitFits
<1>3. ASSUME NEW c \in Clients
      PROVE  Cardinality(Got(c)') <= expired'[c] + (IF cache'[c] = Nobody THEN 0 ELSE 1)
  <2>1. Got(c)' = Got(c)
    BY <1>1 DEF Got
  <2>2. Cardinality(Got(c)) \in Nat /\ expired[c] \in Nat
        /\ Cardinality(Got(c)) <= expired[c] + (IF cache[c] = Nobody THEN 0 ELSE 1)
    BY <1>0, GotFinite DEF ClientSums
  <2>3. CASE c = k
    <3>1. cache'[c] = Nobody /\ expired'[c] = expired[c] + 1
      BY <1>0, <1>1, <2>3
    <3> QED BY <2>1, <2>2, <3>1
  <2>4. CASE c # k
    <3>1. cache'[c] = cache[c] /\ expired'[c] = expired[c]
      BY <1>0, <1>1, <2>4
    <3> QED BY <2>1, <2>2, <3>1
  <2> QED BY <2>3, <2>4
<1> QED BY <1>1, <1>2, <1>3 DEF ClientSums

-----------------------------------------------------------------------------
(* Every step *)

ReplyInv == LedgerInv /\ WindowSums /\ ClientSums

LEMMA OthersKeepInv ==
    ASSUME ReplyInv,
           \/ \E a \in Advisors : Takeover(a)
           \/ Release \/ HandedOver \/ CustomerSpeaks \/ WindowShuts \/ TenantCloses
           \/ \E to \in {"ok", "slow", "broken"} : StoreChanges(to)
    PROVE  ReplyInv'
<1>1. LedgerInv /\ WindowSums /\ ClientSums
    BY DEF ReplyInv
<1>2. LedgerInv' /\ UNCHANGED <<step, row, granted, cache, expired>>
    BY <1>1, OthersKeepLedger
<1>3. WindowSums'
    BY <1>1, <1>2, SumsShrink
<1>4. ClientSums'
    BY <1>1, <1>2, ClientsStay
<1> QED BY <1>2, <1>3, <1>4 DEF ReplyInv

\* A request that is answered at once, or refused.
LEMMA AnswersKeepInv ==
    ASSUME ReplyInv, NEW r \in Replies, Repeated(r) \/ Refused(r)
    PROVE  ReplyInv'
<1>1. LedgerInv /\ WindowSums /\ ClientSums /\ r \in Items
    BY ClientOfReply DEF ReplyInv
<1>2. PICK s \in {"same", "thrown"} : step' = [step EXCEPT ![r] = s]
    BY DEF Repeated, Refused
<1>3. step[r] = "idle" /\ UNCHANGED <<window, row, granted, hit, cache, expired, wire>>
    BY DEF Repeated, Refused, windowVars, ledgerVars, cacheVars
<1>4. LedgerInv'
    BY <1>1, <1>2, <1>3, StepKeepsLedger DEF Steps
<1>5. WindowSums'
    BY <1>1, <1>3, SumsShrink
<1>6. ClientSums'
  <2>1. \A q \in Replies : step[q] \in Apart => step'[q] \in Apart
    BY <1>1, <1>2, ClientOfReply DEF Apart, LedgerInv, ReplyTypes
  <2> QED BY <1>1, <1>3, <2>1, ClientsStay
<1> QED BY <1>4, <1>5, <1>6 DEF ReplyInv

LEMMA ReplyKeepsInv ==
    ASSUME ReplyInv, NEW r \in Replies, Reply(r)
    PROVE  ReplyInv'
<1>1. LedgerInv /\ WindowSums /\ ClientSums /\ r \in Items /\ ClientOf[r] \in Clients
    BY ClientOfReply DEF ReplyInv
<1>2. /\ step[r] = "idle" /\ HoldSend(r) /\ Remaining > 0
      /\ step' = [step EXCEPT ![r] = "commit"] /\ cache' = [cache EXCEPT ![ClientOf[r]] = r]
      /\ UNCHANGED <<window, expired, wire>>
    BY DEF Reply, MayReply, Keeps, windowVars
<1>3. cache' \in [Clients -> Replies \cup {Nobody}]
    BY <1>1, <1>2 DEF LedgerInv, ReplyTypes
<1>4. LedgerInv'
    BY <1>1, <1>2, <1>3, HoldKeepsLedger
<1>5. WindowSums'
    BY <1>1, <1>2, SumsGrow
<1>6. ClientSums'
    BY <1>1, ReplyKeepsClients
<1> QED BY <1>4, <1>5, <1>6 DEF ReplyInv

LEMMA FollowUpKeepsInv ==
    ASSUME ReplyInv, NEW f \in Follows, FollowUp(f)
    PROVE  ReplyInv'
<1>1. LedgerInv /\ WindowSums /\ ClientSums /\ f \in Items /\ f \notin Replies
    BY ReplyAssumption DEF ReplyInv, Items
<1>2. /\ step[f] = "idle" /\ HoldSend(f) /\ Remaining >= FollowMin
      /\ step' = [step EXCEPT ![f] = "commit"]
      /\ UNCHANGED <<window, cache, expired, wire>>
    BY DEF FollowUp, windowVars, cacheVars
<1>3. Remaining > 0
  <2>1. Remaining \in Nat
    <3>1. Used \in Nat
      BY Finite DEF Used
    <3> QED BY <3>1, ReplyAssumption DEF Remaining
  <2> QED BY <1>2, <2>1, ReplyAssumption
<1>4. LedgerInv'
    BY <1>1, <1>2, HoldKeepsLedger DEF LedgerInv, ReplyTypes
<1>5. WindowSums'
    BY <1>1, <1>2, <1>3, SumsGrow
<1>6. ClientSums'
  <2>1. \A q \in Replies : step[q] \in Apart => step'[q] \in Apart
    BY <1>1, <1>2, ClientOfReply DEF Apart, LedgerInv, ReplyTypes
  <2> QED BY <1>1, <1>2, <2>1, ClientsStay
<1> QED BY <1>4, <1>5, <1>6 DEF ReplyInv

\* The end of an item that was let through and not sent.
LEMMA UnsentKeepsInv ==
    ASSUME ReplyInv, NEW i \in Items, step[i] = "commit", Ends(i, "unsent"),
           UNCHANGED <<window, cache, expired, wire>>
    PROVE  ReplyInv'
<1>1. LedgerInv /\ WindowSums /\ ClientSums /\ row[i] = "held"
      /\ row \in [Items -> Rows] /\ step \in [Items -> Steps]
      /\ cache \in [Clients -> Replies \cup {Nobody}]
    BY DEF ReplyInv, LedgerInv, RowFits, ReplyTypes
<1>2. step' = [step EXCEPT ![i] = "unsent"] /\ row' = [row EXCEPT ![i] = "none"] /\ granted' = granted
    BY <1>1 DEF Ends, Freed
<1>3. LedgerInv'
    BY <1>1, EndsKeepLedger
<1>4. WindowSums'
  <2>1. \A j \in Items : row'[j] \in Counted => row[j] \in Counted
    BY <1>1, <1>2 DEF Counted
  <2> QED BY <1>1, <1>2, <2>1, SumsShrink
<1>5. ClientSums'
  <2>1. \A q \in Replies : step[q] \in Apart => step'[q] \in Apart
    BY <1>1, <1>2, ClientOfReply DEF Apart
  <2> QED BY <1>1, <2>1, ClientsStay
<1> QED BY <1>3, <1>4, <1>5 DEF ReplyInv

LEMMA LetThroughKeepsInv ==
    ASSUME ReplyInv, NEW i \in Items, step[i] = "commit", step' = [step EXCEPT ![i] = "push"],
           UNCHANGED <<window, row, granted, hit, cache, expired, wire>>
    PROVE  ReplyInv'
<1>1. LedgerInv /\ WindowSums /\ ClientSums /\ step \in [Items -> Steps]
    BY DEF ReplyInv, LedgerInv, ReplyTypes
<1>2. LedgerInv'
    BY <1>1, StepKeepsLedger DEF Steps
<1>3. WindowSums'
    BY <1>1, SumsShrink
<1>4. ClientSums'
  <2>1. \A q \in Replies : step[q] \in Apart => step'[q] \in Apart
    BY <1>1, ClientOfReply DEF Apart
  <2> QED BY <1>1, <2>1, ClientsStay
<1> QED BY <1>2, <1>3, <1>4 DEF ReplyInv

LEMMA FollowCommitsKeepsInv ==
    ASSUME ReplyInv, NEW f \in Follows, FollowCommits(f)
    PROVE  ReplyInv'
<1>1. f \in Items /\ step[f] = "commit" /\ UNCHANGED <<window, cache, expired, wire>>
    BY DEF FollowCommits, windowVars, cacheVars, Items
<1>2. \/ step' = [step EXCEPT ![f] = "push"] /\ UNCHANGED <<row, granted, hit>>
      \/ Ends(f, "unsent")
    BY DEF FollowCommits, ledgerVars
<1> QED BY <1>1, <1>2, LetThroughKeepsInv, UnsentKeepsInv

LEMMA ReplyCommitsKeepsInv ==
    ASSUME ReplyInv, NEW r \in Replies, ReplyCommits(r)
    PROVE  ReplyInv'
<1>1. r \in Items /\ step[r] = "commit" /\ UNCHANGED <<window, expired, wire>>
    BY ClientOfReply DEF ReplyCommits, windowVars
<1>2. CASE store # "broken"
  <2>1. cache' = cache
    BY <1>2 DEF ReplyCommits
  <2>2. \/ step' = [step EXCEPT ![r] = "push"] /\ UNCHANGED <<row, granted, hit>>
        \/ Ends(r, "unsent")
    BY <1>2 DEF ReplyCommits, ledgerVars
  <2> QED BY <1>1, <2>1, <2>2, LetThroughKeepsInv, UnsentKeepsInv
<1>3. CASE store = "broken"
  <2>0. LedgerInv /\ WindowSums /\ ClientSums /\ row[r] = "held" /\ ClientOf[r] \in Clients
        /\ row \in [Items -> Rows] /\ cache \in [Clients -> Replies \cup {Nobody}]
    BY <1>1, ClientOfReply DEF ReplyInv, LedgerInv, RowFits, ReplyTypes
  <2>1. Ends(r, "thrown") /\ cache' = [cache EXCEPT ![ClientOf[r]] = IF @ = r THEN Nobody ELSE @]
    BY <1>3 DEF ReplyCommits
  <2>2. step' = [step EXCEPT ![r] = "thrown"] /\ row' = [row EXCEPT ![r] = "none"] /\ granted' = granted
    BY <2>0, <2>1 DEF Ends, Freed
  <2>3. cache' \in [Clients -> Replies \cup {Nobody}]
    BY <2>0, <2>1
  <2>4. LedgerInv'
    BY <1>1, <2>0, <2>1, <2>3, EndsKeepLedger
  <2>5. WindowSums'
    <3>1. \A j \in Items : row'[j] \in Counted => row[j] \in Counted
      BY <2>0, <2>2 DEF Counted
    <3> QED BY <2>0, <2>2, <3>1, SumsShrink
  <2>6. ClientSums'
    BY <1>1, <2>0, <2>1, <2>2, ThrownKeepsClients
  <2> QED BY <2>4, <2>5, <2>6 DEF ReplyInv
<1> QED BY <1>2, <1>3

LEMMA SendsKeepInv ==
    ASSUME ReplyInv, NEW i \in Items,
           \/ Attempt(i) \/ PushFails(i)
           \/ \E how \in {"counted", "refused", "none"} : Settle(i, how)
           \/ Retry(i) \/ Receipt(i)
    PROVE  ReplyInv'
<1>1. LedgerInv /\ WindowSums /\ ClientSums
    BY DEF ReplyInv
<1>2. /\ LedgerInv' /\ UNCHANGED <<granted, cache, expired>>
      /\ \/ step' = step
         \/ /\ step[i] \in {"push", "sending"}
            /\ \E s \in {"sending", "sent", "unsent"} : step' = [step EXCEPT ![i] = s]
      /\ \/ row' = row
         \/ \E r \in Rows : row' = [row EXCEPT ![i] = r] /\ (r \in Counted => row[i] \in Counted)
    BY <1>1, SendsKeepLedger
<1>3. row \in [Items -> Rows] /\ step \in [Items -> Steps]
    BY <1>1 DEF LedgerInv, ReplyTypes
<1>4. \A j \in Items : row'[j] \in Counted => row[j] \in Counted
    BY <1>2, <1>3
<1>5. \A q \in Replies : step[q] \in Apart => step'[q] \in Apart
    BY <1>2, <1>3, ClientOfReply DEF Apart
<1> QED BY <1>1, <1>2, <1>4, <1>5, SumsShrink, ClientsStay DEF ReplyInv

LEMMA ExpireKeepsInv ==
    ASSUME ReplyInv, NEW k \in Clients, Expire(k)
    PROVE  ReplyInv'
<1>1. LedgerInv /\ WindowSums /\ ClientSums
    BY DEF ReplyInv
<1>2. LedgerInv' /\ ClientSums' /\ UNCHANGED <<row, granted>>
    BY <1>1, ExpireKeepsClients
<1>3. WindowSums'
    BY <1>1, <1>2, SumsShrink
<1> QED BY <1>2, <1>3 DEF ReplyInv

LEMMA ReplyInvNext == ReplyInv /\ [ReplyNext]_replyVars => ReplyInv'
<1> SUFFICES ASSUME ReplyInv, [ReplyNext]_replyVars PROVE ReplyInv'
    OBVIOUS
<1>1. CASE ReplyNext
    BY <1>1, OthersKeepInv, AnswersKeepInv, ReplyKeepsInv, FollowUpKeepsInv, FollowCommitsKeepsInv,
       ReplyCommitsKeepsInv, SendsKeepInv, ExpireKeepsInv DEF ReplyNext, Proceeds
<1>2. CASE UNCHANGED replyVars
  <2>1. UNCHANGED <<window, step, row, granted, hit, cache, expired, wire>>
    BY <1>2 DEF replyVars, windowVars, ledgerVars, cacheVars
  <2> QED BY <2>1 DEF ReplyInv, LedgerInv, ReplyTypes, RowFits, HitFits, WindowSums, Granted, ClientSums, Got
<1> QED BY <1>1, <1>2

-----------------------------------------------------------------------------

\* Sends let through on one window never come to more than it had, and what
\* is over holds nothing, for any number of requests, follow-ups and windows.
THEOREM WindowHoldsAlways == ReplySpec => []WindowHolds
<1>1. ReplyInv => WindowHolds
  <2> SUFFICES ASSUME ReplyInv PROVE WindowHolds
    OBVIOUS
  <2>1. ASSUME NEW w \in 1..MaxWindows
        PROVE  Cardinality({i \in Items : granted[i] = w /\ row[i] \in Counted}) <= Sends
    <3>1. w \in Nat
      OBVIOUS
    <3> QED BY <3>1 DEF ReplyInv, WindowSums, Granted
  <2>2. \A i \in Items : row[i] \in {"held", "open"} => step[i] \in Running
    BY DEF ReplyInv, LedgerInv, RowFits
  <2> QED BY <2>1, <2>2 DEF WindowHolds
<1> QED
    BY <1>1, LedgerInvInit, ReplyInvNext, PTL DEF ReplySpec, ReplyInv

\* A request repeated with its clientId reaches the customer once, as long as
\* its result is kept, for any number of requests and repetitions.
THEOREM ReplyOnceHolds == ReplySpec => []ReplyOnce
<1>1. ReplyInv => ReplyOnce
  <2> SUFFICES ASSUME ReplyInv, NEW c \in Clients
               PROVE  Cardinality({r \in wire \cap Replies : ClientOf[r] = c}) <= 1 + expired[c]
    BY DEF ReplyOnce
  <2> DEFINE Sent == {r \in wire \cap Replies : ClientOf[r] = c}
  <2>1. Sent \in SUBSET Got(c)
    BY ClientOfReply DEF ReplyInv, LedgerInv, RowFits, Got
  <2> HIDE DEF Sent
  <2>2. IsFiniteSet(Got(c)) /\ Cardinality(Got(c)) \in Nat
    BY GotFinite
  <2>3. Cardinality(Sent) <= Cardinality(Got(c)) /\ Cardinality(Sent) \in Nat
    BY <2>1, <2>2, FS_Subset, FS_CardinalityType
  <2>4. Cardinality(Got(c)) <= expired[c] + (IF cache[c] = Nobody THEN 0 ELSE 1) /\ expired[c] \in Nat
    BY DEF ReplyInv, ClientSums, LedgerInv, ReplyTypes
  <2>5. Cardinality(Sent) <= 1 + expired[c]
    BY <2>2, <2>3, <2>4
  <2> QED BY <2>5 DEF Sent
<1> QED
    BY <1>1, LedgerInvInit, ReplyInvNext, PTL DEF ReplySpec, ReplyInv


(***************************************************************************)
(* EventStream.  What was delivered (rev - owed) is shown, asked for,      *)
(* excused, or told by an event that the console has yet to receive: one   *)
(* in the pipe, or one still in the ring behind the last it has seen.      *)
(***************************************************************************)

Kinds == {"change", "counts", "resync"}
EventTypes ==
    /\ rev \in 0..MaxRevs /\ owed \in 0..rev
    /\ boot \in Nat \ {0} /\ hooked \in BOOLEAN
    /\ last \in Nat /\ ring \in Seq(Kinds) /\ Len(ring) <= last /\ Len(ring) <= Ring
    /\ conn \in {"down", "up", "out"}
    /\ pipe \in Seq([n : Nat, kind : Kinds])
    /\ seen \in [boot : Nat, n : Nat] /\ seen.boot <= boot
    /\ view \in 0..rev \cup {Nothing} /\ fetch \in 0..rev \cup {Asked, Idle}
    /\ excused \in 0..rev

UpToDate ==
    \/ fetch = Asked \/ (fetch # Idle /\ fetch >= rev - owed)
    \/ (view # Nothing /\ view >= rev - owed)
    \/ excused >= rev - owed

\* The ring holds the events numbered last - Len(ring) + 1 to last.
After(n) ==
    n <= last /\ last <= n + Len(ring) =>
        UpToDate \/ \E k \in DOMAIN ring : ring[k] # "counts" /\ last + k > n + Len(ring)
Told(k) == \E j \in 1..k : pipe[j].kind # "counts"

ReadsInOrder == fetch \notin {Asked, Idle} /\ view # Nothing => view <= fetch
LinkTrue ==
    /\ countsDue => hooked
    /\ conn = "up" => hooked /\ (UpToDate \/ Told(Len(pipe)))
    /\ conn = "up" => \A k \in DOMAIN pipe : pipe[k].n <= last /\ (After(pipe[k].n) \/ Told(k))
    /\ conn # "out" /\ seen.boot = boot => hooked /\ seen.n <= last /\ After(seen.n)

EventInv == EventTypes /\ ReadsInOrder /\ LinkTrue

LEMMA EventInvInit ==
    ASSUME EventInit
    PROVE  EventInv
<1>1. MaxRevs \in Nat /\ Ring \in Nat \ {0}
  BY EventAssumption
<1>2. EventTypes
  <2>1. <<>> \in Seq(Kinds) /\ Len(<<>>) = 0 /\ <<>> \in Seq([n : Nat, kind : Kinds])
    OBVIOUS
  <2>2. rev = 0 /\ owed = 0 /\ 0 \in 0..MaxRevs /\ 0 \in 0..rev /\ excused = 0
    BY <1>1 DEF EventInit
  <2>3. seen \in [boot : Nat, n : Nat] /\ seen.boot = 0
    BY DEF EventInit, NoId
  <2>4. Len(ring) <= last /\ Len(ring) <= Ring
    BY <1>1, <2>1 DEF EventInit
  <2>5. view \in {Nothing} /\ fetch \in {Asked}
    BY DEF EventInit
  <2>6. last \in Nat /\ ring \in Seq(Kinds) /\ pipe \in Seq([n : Nat, kind : Kinds])
    BY <2>1 DEF EventInit
  <2>7. boot \in Nat \ {0} /\ seen.boot <= boot /\ hooked \in BOOLEAN /\ conn \in {"down", "up", "out"}
    <3>1. boot = 1 /\ hooked = FALSE /\ conn = "down"
      BY DEF EventInit
    <3>2. hooked \in BOOLEAN
      BY <3>1
    <3>. QED BY <2>3, <3>1, <3>2
  <2>. QED BY <2>2, <2>3, <2>4, <2>5, <2>6, <2>7 DEF EventTypes
<1>. QED BY <1>1, <1>2 DEF EventInit, EventInv, ReadsInOrder, LinkTrue, Nothing, NoId, Asked, Idle

\* A published event is the last of the ring; what the ring drops is the oldest.
LEMMA RingMoves ==
    ASSUME EventTypes, NEW kind \in Kinds, Publish(kind)
    PROVE  /\ last' = last + 1 /\ ring' \in Seq(Kinds) /\ Len(ring') <= last' /\ Len(ring') <= Ring
           /\ \A n \in Nat : n <= last /\ last' <= n + Len(ring') =>
                /\ last <= n + Len(ring)
                /\ kind # "counts" => \E k \in DOMAIN ring' : ring'[k] # "counts" /\ last' + k > n + Len(ring')
                /\ (\E k \in DOMAIN ring : ring[k] # "counts" /\ last + k > n + Len(ring)) =>
                    \E k \in DOMAIN ring' : ring'[k] # "counts" /\ last' + k > n + Len(ring')
<1>1. /\ last \in Nat /\ ring \in Seq(Kinds) /\ Len(ring) \in Nat /\ Len(ring) <= last /\ Len(ring) <= Ring
      /\ Ring \in Nat \ {0} /\ last' = last + 1
  BY EventAssumption DEF EventTypes, Publish
<1>2. PICK r : r = Append(ring, kind)
  OBVIOUS
<1>3. /\ r \in Seq(Kinds) /\ Len(r) = Len(ring) + 1 /\ r[Len(ring) + 1] = kind
      /\ \A k \in 1..Len(ring) : r[k] = ring[k]
  BY <1>1, <1>2
<1>4. ring' = IF Len(r) > Ring THEN Tail(r) ELSE r
  BY <1>2 DEF Publish
<1>5. CASE Len(r) > Ring
  <2>1. ring' = Tail(r) /\ Len(ring) = Ring
    BY <1>1, <1>3, <1>4, <1>5
  <2>2. ring' \in Seq(Kinds) /\ Len(ring') = Len(ring) /\ \A k \in 1..Len(ring) : ring'[k] = r[k + 1]
    BY <1>1, <1>3, <2>1
  <2>3. DOMAIN ring' = 1..Len(ring) /\ DOMAIN ring = 1..Len(ring)
    BY <1>1, <2>2
  <2>4. ASSUME NEW n \in Nat, NEW k \in 1..Len(ring), ring[k] # "counts", last + k > n + Len(ring),
               last + 1 <= n + Len(ring)
        PROVE  \E i \in 1..Len(ring) : ring'[i] # "counts" /\ last + 1 + i > n + Len(ring)
    <3>1. k > 1 /\ k - 1 \in 1..Len(ring) /\ (k - 1) + 1 = k
      BY <1>1, <2>4
    <3>2. ring'[k - 1] = ring[k]
      BY <1>1, <1>3, <2>2, <3>1
    <3>3. last + 1 + (k - 1) > n + Len(ring)
      BY <1>1, <2>4
    <3>. QED BY <2>4, <3>1, <3>2, <3>3
  <2>5. ring'[Len(ring)] = kind /\ Len(ring) \in 1..Len(ring)
    BY <1>1, <1>3, <2>1, <2>2
  <2>6. \A n \in Nat : last + 1 <= n + Len(ring) => last <= n + Len(ring)
    BY <1>1
  <2>7. \A n \in Nat : n <= last => last + 1 + Len(ring) > n + Len(ring)
    BY <1>1
  <2>8. Len(ring) <= last + 1
    BY <1>1
  <2>. QED BY <1>1, <2>2, <2>3, <2>4, <2>5, <2>6, <2>7, <2>8
<1>6. CASE ~(Len(r) > Ring)
  <2>1. ring' = r /\ DOMAIN r = 1..(Len(ring) + 1) /\ DOMAIN ring = 1..Len(ring)
    BY <1>1, <1>3, <1>4, <1>6
  <2>2. ASSUME NEW n \in Nat, NEW k \in 1..Len(ring), ring[k] # "counts", last + k > n + Len(ring)
        PROVE  \E i \in DOMAIN ring' : ring'[i] # "counts" /\ last + 1 + i > n + Len(ring')
    BY <1>1, <1>3, <2>1, <2>2
  <2>. QED BY <1>1, <1>3, <1>6, <2>1, <2>2
<1>. QED BY <1>5, <1>6

LEMMA EventPublished ==
    ASSUME EventInv, hooked, NEW kind \in Kinds, Publish(kind), UNCHANGED <<conn, seen, hooked, boot>>,
           kind = "counts" => (UpToDate => UpToDate')
    PROVE  LinkTrue' /\ pipe' \in Seq([n : Nat, kind : Kinds])
           /\ last' \in Nat /\ ring' \in Seq(Kinds) /\ Len(ring') <= last' /\ Len(ring') <= Ring
<1>1. /\ EventTypes /\ LinkTrue /\ last \in Nat /\ last' = last + 1 /\ pipe \in Seq([n : Nat, kind : Kinds])
      /\ ring' \in Seq(Kinds) /\ Len(ring') <= last' /\ Len(ring') <= Ring /\ seen.n \in Nat
      /\ pipe' = IF conn = "up" THEN Append(pipe, [n |-> last + 1, kind |-> kind]) ELSE pipe
      /\ conn' = conn /\ seen' = seen /\ hooked' = hooked /\ boot' = boot
  BY RingMoves DEF EventInv, EventTypes, Publish
<1>2. ASSUME NEW n \in Nat, n <= last, After(n) PROVE After(n)'
  <2>1. kind # "counts" /\ n <= last /\ last' <= n + Len(ring') =>
            \E k \in DOMAIN ring' : ring'[k] # "counts" /\ last' + k > n + Len(ring')
    BY <1>1, <1>2, RingMoves
  <2>2. n <= last /\ last' <= n + Len(ring') =>
            /\ last <= n + Len(ring)
            /\ (\E k \in DOMAIN ring : ring[k] # "counts" /\ last + k > n + Len(ring)) =>
                    \E k \in DOMAIN ring' : ring'[k] # "counts" /\ last' + k > n + Len(ring')
    BY <1>1, <1>2, RingMoves
  <2>. QED BY <1>2, <2>1, <2>2 DEF After
<1>3. CASE conn = "up"
  <2>1. PICK e : e = [n |-> last + 1, kind |-> kind]
    OBVIOUS
  <2>2. e \in [n : Nat, kind : Kinds] /\ e.n = last + 1 /\ e.kind = kind /\ pipe' = Append(pipe, e)
    BY <1>1, <1>3, <2>1
  <2>0. PICK m \in Nat : m = Len(pipe)
    BY <1>1
  <2>3. /\ pipe' \in Seq([n : Nat, kind : Kinds]) /\ Len(pipe') = m + 1
        /\ pipe'[m + 1] = e /\ \A k \in 1..m : pipe'[k] = pipe[k]
        /\ DOMAIN pipe = 1..m /\ DOMAIN pipe' = 1..(m + 1)
        /\ \A k \in 1..m : pipe[k] \in [n : Nat, kind : Kinds]
    <3>1. PICK S : S = [n : Nat, kind : Kinds]
      OBVIOUS
    <3>2. pipe \in Seq(S) /\ e \in S /\ pipe' = Append(pipe, e)
      BY <1>1, <2>2, <3>1
    <3>3. /\ pipe' \in Seq(S) /\ Len(pipe') = Len(pipe) + 1
          /\ pipe'[Len(pipe) + 1] = e /\ \A k \in 1..Len(pipe) : pipe'[k] = pipe[k]
      BY <3>2, AppendProperties
    <3>4. DOMAIN pipe = 1..Len(pipe) /\ DOMAIN pipe' = 1..Len(pipe')
      BY <3>2, <3>3
    <3>5. \A k \in 1..Len(pipe) : pipe[k] \in S
      BY <3>2
    <3>. QED BY <2>0, <3>1, <3>3, <3>4, <3>5
  <2>4. \A k \in 1..m : Told(k)' <=> Told(k)
    <3>1. \A k \in 1..m : \A j \in 1..k : j \in 1..m
      BY <2>0
    <3>. QED BY <2>3, <3>1 DEF Told
  <2>5. Told(m) => Told(m + 1)'
    <3>1. \A j \in 1..m : j \in 1..(m + 1)
      BY <2>0
    <3>. QED BY <2>3, <3>1 DEF Told
  <2>6. kind # "counts" => Told(m + 1)'
    <3>1. m + 1 \in 1..(m + 1) /\ pipe'[m + 1].kind = kind
      BY <2>2, <2>3
    <3>. QED BY <3>1 DEF Told
  <2>7. UpToDate' \/ Told(m + 1)'
    BY <1>1, <1>3, <2>0, <2>5, <2>6 DEF LinkTrue
  <2>8. ASSUME NEW k \in DOMAIN pipe' PROVE pipe'[k].n <= last' /\ (After(pipe[k].n)' \/ Told(k)')
    <3>1. CASE k \in 1..m
      <4>1. pipe[k].n \in Nat /\ pipe[k].n <= last /\ (After(pipe[k].n) \/ Told(k)) /\ pipe'[k] = pipe[k]
        <5>1. pipe[k] \in [n : Nat, kind : Kinds] /\ k \in DOMAIN pipe /\ pipe'[k] = pipe[k]
          BY <1>1, <2>3, <3>1
        <5>. QED BY <1>1, <1>3, <5>1 DEF LinkTrue
      <4>2. PICK n \in Nat : n = pipe[k].n
        BY <4>1
      <4>3. After(n) => After(n)'
        BY <1>2, <4>1, <4>2
      <4>4. After(n)' => After(pipe[k].n)'
        BY <4>1, <4>2 DEF After
      <4>. QED BY <1>1, <2>4, <3>1, <4>1, <4>2, <4>3, <4>4
    <3>2. CASE k = m + 1
      <4>1. pipe'[k].n = last' /\ pipe'[k].kind = kind
        BY <1>1, <2>2, <2>3, <3>2
      <4>2. UpToDate' => After(pipe[k].n)'
        BY DEF After
      <4>. QED BY <1>1, <2>7, <3>2, <4>1, <4>2
    <3>. QED BY <2>3, <3>1, <3>2
  <2>9. PICK n \in Nat : n = seen.n
    BY <1>1
  <2>10. n <= last /\ After(n) => After(n)'
    BY <1>2
  <2>11. Told(Len(pipe))' <=> Told(m + 1)'
    BY <2>3 DEF Told
  <2>12. conn' # "out" /\ seen'.boot = boot' => hooked' /\ seen'.n <= last' /\ After(seen.n)'
    BY <1>1, <1>3, <2>9, <2>10 DEF LinkTrue, After
  <2>. QED BY <1>1, <1>3, <2>3, <2>7, <2>8, <2>11, <2>12 DEF LinkTrue
<1>4. CASE conn # "up"
  <2>1. pipe' = pipe
    BY <1>1, <1>4
  <2>2. PICK n \in Nat : n = seen.n
    BY <1>1
  <2>3. n <= last /\ After(n) => After(n)'
    BY <1>2
  <2>. QED BY <1>1, <1>4, <2>1, <2>2, <2>3 DEF LinkTrue, After
<1>. QED BY <1>3, <1>4

\* What one step leaves of the console's knowledge: the page and what was delivered.
LEMMA PageKeeps ==
    ASSUME EventInv, UNCHANGED <<boot, hooked, last, ring, conn, pipe, seen>>, UpToDate => UpToDate',
           countsDue' => countsDue
    PROVE  LinkTrue'
<1>1. \A n : After(n) => After(n)'
  BY DEF After
<1>2. \A k : Told(k)' <=> Told(k)
  BY DEF Told
<1>. QED BY <1>1, <1>2 DEF EventInv, LinkTrue, After, Told

LEMMA InvalidateFresh ==
    ASSUME EventInv, Invalidate, UNCHANGED <<rev, owed, view>>
    PROVE  /\ UpToDate' /\ fetch' \in 0..rev \cup {Asked, Idle} /\ excused' \in 0..rev
           /\ ReadsInOrder'
BY EventAssumption DEF EventInv, EventTypes, Invalidate, UpToDate, ReadsInOrder

LEMMA CommitChangeKeeps == ASSUME EventInv, CommitChange PROVE EventInv'
<1>1. /\ rev \in 0..MaxRevs /\ MaxRevs \in Nat /\ owed \in 0..rev /\ rev < MaxRevs
      /\ rev' = rev + 1 /\ owed' = owed + 1
      /\ UNCHANGED <<hubVars, linkVars, pageVars, excused, faults>>
  BY EventAssumption DEF EventInv, EventTypes, CommitChange
<1>2. 0..rev \subseteq 0..rev' /\ rev' - owed' = rev - owed /\ rev' \in 0..MaxRevs /\ owed' \in 0..rev'
  BY <1>1
<1>3. EventTypes'
  BY <1>1, <1>2 DEF EventInv, EventTypes, hubVars, linkVars, pageVars
<1>4. UpToDate' <=> UpToDate
  BY <1>1, <1>2 DEF UpToDate, pageVars
<1>. QED BY <1>1, <1>3, <1>4, PageKeeps DEF EventInv, ReadsInOrder, hubVars, linkVars, pageVars

LEMMA DeliverKeeps == ASSUME EventInv, Deliver PROVE EventInv'
<1>1. /\ EventTypes /\ LinkTrue /\ ReadsInOrder /\ owed' \in 0..rev
      /\ UNCHANGED <<rev, boot, hooked, conn, polling, seen, pageVars, excused, faults>>
  BY DEF EventInv, EventTypes, Deliver
<1>2. ReadsInOrder'
  BY <1>1 DEF ReadsInOrder, pageVars
<1>3. CASE hooked
  <2>1. Publish("change")
    BY <1>3 DEF Deliver
  <2>2. /\ LinkTrue' /\ pipe' \in Seq([n : Nat, kind : Kinds])
        /\ last' \in Nat /\ ring' \in Seq(Kinds) /\ Len(ring') <= last' /\ Len(ring') <= Ring
    BY <1>1, <1>3, <2>1, EventPublished DEF Kinds
  <2>. QED BY <1>1, <1>2, <2>2 DEF EventInv, EventTypes, pageVars
<1>4. CASE ~hooked
  <2>1. UNCHANGED <<last, ring, pipe, countsDue>>
    BY <1>4 DEF Deliver
  <2>2. LinkTrue'
    BY <1>1, <1>4, <2>1 DEF LinkTrue
  <2>. QED BY <1>1, <1>2, <2>1, <2>2 DEF EventInv, EventTypes, pageVars
<1>. QED BY <1>3, <1>4

LEMMA CountsTimerKeeps == ASSUME EventInv, CountsTimer PROVE EventInv'
<1>1. /\ EventTypes /\ LinkTrue /\ ReadsInOrder /\ hooked /\ Publish("counts")
      /\ UNCHANGED <<rev, owed, boot, hooked, conn, polling, seen, pageVars, excused, faults>>
  BY DEF EventInv, LinkTrue, CountsTimer
<1>2. UpToDate' <=> UpToDate
  BY <1>1 DEF UpToDate, pageVars
<1>3. /\ LinkTrue' /\ pipe' \in Seq([n : Nat, kind : Kinds])
      /\ last' \in Nat /\ ring' \in Seq(Kinds) /\ Len(ring') <= last' /\ Len(ring') <= Ring
  BY <1>1, <1>2, EventPublished DEF Kinds
<1>. QED BY <1>1, <1>3 DEF EventInv, EventTypes, ReadsInOrder, pageVars

LEMMA ProcessRestartsKeeps == ASSUME EventInv, ProcessRestarts PROVE EventInv'
<1>1. /\ EventTypes /\ boot' = boot + 1 /\ hooked' = FALSE /\ last' = 0 /\ ring' = <<>> /\ pipe' = <<>>
      /\ countsDue' = FALSE /\ owed' = 0 /\ fetch' = Idle /\ conn' \in {"down", "out"}
      /\ UNCHANGED <<rev, polling, seen, view, excused>>
  BY DEF EventInv, ProcessRestarts
<1>2. <<>> \in Seq(Kinds) /\ Len(<<>>) = 0 /\ <<>> \in Seq([n : Nat, kind : Kinds])
  OBVIOUS
<1>3. boot' \in Nat \ {0} /\ seen'.boot <= boot' /\ seen'.boot # boot'
  BY <1>1 DEF EventTypes
<1>4. EventTypes'
  <2>1. owed' \in 0..rev' /\ Len(ring') <= last' /\ Len(ring') <= Ring
    BY <1>1, <1>2, EventAssumption DEF EventTypes
  <2>2. hooked' \in BOOLEAN
    BY <1>1
  <2>. QED BY <1>1, <1>2, <1>3, <2>1, <2>2 DEF EventTypes
<1>. QED BY <1>1, <1>3, <1>4 DEF EventInv, ReadsInOrder, LinkTrue

LEMMA DropKeeps == ASSUME EventInv, Drop PROVE EventInv'
<1>1. /\ EventTypes /\ LinkTrue /\ conn = "up" /\ conn' = "down" /\ pipe' = <<>>
      /\ UNCHANGED <<rev, owed, hubVars, polling, seen, pageVars, excused>>
  BY DEF EventInv, Drop
<1>2. <<>> \in Seq([n : Nat, kind : Kinds])
  OBVIOUS
<1>3. \A n : After(n)' <=> After(n)
  BY <1>1 DEF After, UpToDate, hubVars, pageVars
<1>4. LinkTrue'
  BY <1>1, <1>3 DEF LinkTrue, After, UpToDate, hubVars, pageVars
<1>. QED BY <1>1, <1>2, <1>4 DEF EventInv, EventTypes, ReadsInOrder, hubVars, pageVars

LEMMA LogOffKeeps == ASSUME EventInv, LogOff PROVE EventInv'
<1>1. /\ EventTypes /\ LinkTrue /\ conn' = "out" /\ pipe' = <<>> /\ view' = Nothing /\ fetch' = Idle
      /\ UNCHANGED <<rev, owed, hubVars, polling, seen, excused, faults>>
  BY DEF EventInv, LogOff
<1>2. <<>> \in Seq([n : Nat, kind : Kinds])
  OBVIOUS
<1>3. LinkTrue'
  BY <1>1 DEF LinkTrue, hubVars
<1>. QED BY <1>1, <1>2, <1>3 DEF EventInv, EventTypes, ReadsInOrder, hubVars

\* The answer to a reconnect names the events missed, or a reload.
LEMMA AnswerTrue ==
    ASSUME EventInv, conn = "down", pipe' = Answer, hooked', conn' = "up",
           excused' = IF seen = NoId THEN rev - owed ELSE excused,
           UNCHANGED <<rev, owed, boot, last, ring, countsDue, seen, pageVars>>
    PROVE  LinkTrue' /\ pipe' \in Seq([n : Nat, kind : Kinds])
<1>1. /\ EventTypes /\ LinkTrue /\ last \in Nat /\ seen.n \in Nat /\ seen \in [boot : Nat, n : Nat]
      /\ rev \in Nat /\ owed \in 0..rev /\ excused \in 0..rev /\ ring \in Seq(Kinds) /\ boot # 0
      /\ Len(ring) \in Nat /\ Len(ring) <= last
  BY DEF EventInv, EventTypes
<1>2. UpToDate => UpToDate'
  BY <1>1 DEF UpToDate, pageVars
<1>3. \A n : After(n) => After(n)'
  BY <1>1, <1>2 DEF After
<1>4. seen'.boot = boot' => seen.n <= last /\ After(seen.n)'
  BY <1>1, <1>3 DEF LinkTrue, After
<1>5. CASE seen = NoId
  <2>1. pipe' = <<[n |-> last, kind |-> "counts"]>> /\ UpToDate'
    BY <1>1, <1>5 DEF Answer, UpToDate
  <2>2. /\ pipe' \in Seq([n : Nat, kind : Kinds]) /\ DOMAIN pipe' = 1..1 /\ pipe'[1].n = last
    BY <1>1, <2>1 DEF Kinds
  <2>. QED BY <1>1, <1>4, <2>1, <2>2 DEF LinkTrue, After
<1>6. CASE seen # NoId /\ (seen.boot # boot \/ seen.n > last \/ seen.n < Oldest - 1)
  <2>1. pipe' = <<[n |-> last, kind |-> "resync"]>>
    BY <1>6 DEF Answer
  <2>2. /\ pipe' \in Seq([n : Nat, kind : Kinds]) /\ DOMAIN pipe' = 1..1 /\ Len(pipe') = 1
        /\ pipe'[1].n = last /\ pipe'[1].kind = "resync"
    BY <1>1, <2>1 DEF Kinds
  <2>3. Told(1)'
    BY <2>2 DEF Told
  <2>. QED BY <1>1, <1>4, <2>2, <2>3 DEF LinkTrue, After
<1>7. CASE seen # NoId /\ ~(seen.boot # boot \/ seen.n > last \/ seen.n < Oldest - 1)
  <2>0. seen.boot = boot /\ seen.n <= last /\ last <= seen.n + Len(ring)
    BY <1>1, <1>7 DEF Oldest
  <2>1. PICK m \in Nat : m = last - seen.n
    BY <1>1, <2>0
  <2>2. pipe' = [k \in 1..m |-> [n |-> seen.n + k, kind |-> ring[seen.n + k - Oldest + 1]]]
    BY <1>7, <2>1 DEF Answer
  <2>3. ASSUME NEW k \in 1..m
        PROVE  /\ k + Len(ring) - m \in 1..Len(ring) /\ seen.n + k - Oldest + 1 = k + Len(ring) - m
               /\ pipe'[k] \in [n : Nat, kind : Kinds] /\ pipe'[k].n = seen.n + k /\ seen.n + k <= last
               /\ pipe'[k].kind = ring[k + Len(ring) - m]
    <3>1. k + Len(ring) - m \in 1..Len(ring) /\ seen.n + k - Oldest + 1 = k + Len(ring) - m
          /\ seen.n + k <= last /\ seen.n + k \in Nat
      BY <1>1, <2>0, <2>1, <2>3 DEF Oldest
    <3>2. ring[k + Len(ring) - m] \in Kinds
      BY <1>1, <3>1
    <3>3. pipe'[k] = [n |-> seen.n + k, kind |-> ring[k + Len(ring) - m]]
      BY <2>2, <2>3, <3>1
    <3>. QED BY <3>1, <3>2, <3>3
  <2>4. pipe' \in Seq([n : Nat, kind : Kinds]) /\ DOMAIN pipe' = 1..m /\ Len(pipe') = m
    <3>1. PICK S : S = [n : Nat, kind : Kinds]
      OBVIOUS
    <3>2. PICK f : f = pipe'
      OBVIOUS
    <3>3. f \in [1..m -> S]
      BY <2>2, <2>3, <3>1, <3>2
    <3>4. f \in Seq(S) /\ DOMAIN f = 1..m /\ Len(f) = m
      BY <2>1, <3>3
    <3>. QED BY <3>1, <3>2, <3>4
  <2>5. UpToDate' \/ \E i \in 1..m : pipe'[i].kind # "counts"
    <3>1. UpToDate' \/ \E k \in DOMAIN ring : ring[k] # "counts" /\ last + k > seen.n + Len(ring)
      BY <1>1, <1>4, <2>0 DEF After
    <3>2. ASSUME NEW k \in DOMAIN ring, ring[k] # "counts", last + k > seen.n + Len(ring)
          PROVE  \E i \in 1..m : pipe'[i].kind # "counts"
      <4>1. k \in 1..Len(ring)
        BY <1>1
      <4>2. k + m - Len(ring) \in 1..m /\ (k + m - Len(ring)) + Len(ring) - m = k
        <5>1. \A l, n, r \in Nat : \A h \in 1..r :
                  n <= l /\ l <= n + r /\ l + h > n + r
                    => h + (l - n) - r \in 1..(l - n) /\ (h + (l - n) - r) + r - (l - n) = h
          OBVIOUS
        <5>2. last \in Nat /\ seen.n \in Nat /\ Len(ring) \in Nat /\ seen.n <= last /\ last <= seen.n + Len(ring)
          BY <1>1, <2>0, <2>1
        <5>. QED BY <2>1, <3>2, <4>1, <5>1, <5>2
      <4>. QED BY <2>3, <3>2, <4>2
    <3>. QED BY <3>1, <3>2
  <2>6. UpToDate' \/ Told(m)'
    BY <2>5 DEF Told
  <2>7. ASSUME NEW k \in 1..m PROVE After(pipe[k].n)' \/ Told(k)'
    <3>1. CASE UpToDate'
      BY <3>1 DEF After
    <3>2. CASE \E i \in 1..m : pipe'[i].kind # "counts"
      <4>1. PICK i \in 1..m : pipe'[i].kind # "counts"
        BY <3>2
      <4>2. CASE i <= k
        <5>1. i \in 1..k
          BY <2>1, <4>2
        <5>. QED BY <4>1, <5>1 DEF Told
      <4>3. CASE ~(i <= k)
        <5>1. PICK j : j = i + Len(ring) - m
          OBVIOUS
        <5>2. j \in 1..Len(ring) /\ ring[j] # "counts"
          BY <2>3, <4>1, <5>1
        <5>3. last + j > (seen.n + k) + Len(ring)
          <6>1. \A l, n, r \in Nat : \A h, g \in Nat :
                    n <= l /\ h > g => l + (h + r - (l - n)) > (n + g) + r
            OBVIOUS
          <6>2. i \in Nat /\ k \in Nat /\ i > k
            BY <2>1, <4>3
          <6>3. last \in Nat /\ seen.n \in Nat /\ Len(ring) \in Nat /\ seen.n <= last
            BY <1>1, <2>0, <2>1
          <6>. QED BY <2>1, <5>1, <6>1, <6>2, <6>3
        <5>4. j \in DOMAIN ring'
          BY <1>1, <5>2
        <5>. QED BY <1>1, <2>3, <5>2, <5>3, <5>4 DEF After
      <4>. QED BY <4>2, <4>3
    <3>. QED BY <2>5, <3>1, <3>2
  <2>8. Told(Len(pipe))' <=> Told(m)'
    BY <2>4
  <2>9. \A k \in 1..m : pipe'[k].n <= last'
    BY <1>1, <2>3
  <2>. QED BY <1>1, <1>4, <2>4, <2>6, <2>7, <2>8, <2>9 DEF LinkTrue
<1>. QED BY <1>5, <1>6, <1>7

LEMMA ConnectKeeps == ASSUME EventInv, Connect PROVE EventInv'
<1>1. /\ EventTypes /\ ReadsInOrder /\ conn = "down" /\ conn' = "up" /\ hooked' = TRUE /\ pipe' = Answer
      /\ excused' = IF seen = NoId THEN rev - owed ELSE excused
      /\ UNCHANGED <<rev, owed, boot, last, ring, countsDue, seen, pageVars, faults>>
  BY DEF EventInv, Connect
<1>2. LinkTrue' /\ pipe' \in Seq([n : Nat, kind : Kinds])
  BY <1>1, AnswerTrue
<1>3. excused' \in 0..rev
  BY <1>1 DEF EventTypes
<1>. QED BY <1>1, <1>2, <1>3 DEF EventInv, EventTypes, ReadsInOrder, pageVars

LEMMA ReceiveKeeps == ASSUME EventInv, Receive PROVE EventInv'
<1>1. /\ EventTypes /\ LinkTrue /\ ReadsInOrder /\ conn = "up" /\ pipe # <<>> /\ pipe' = Tail(pipe)
      /\ seen' = [boot |-> boot, n |-> Head(pipe).n]
      /\ IF Head(pipe).kind = "counts" THEN UNCHANGED <<fetch, excused>> ELSE Invalidate
      /\ UNCHANGED <<rev, owed, hubVars, conn, polling, view, faults>>
  BY DEF EventInv, Receive
<1>2. PICK m \in Nat : m + 1 = Len(pipe)
  <2>1. PICK S : S = [n : Nat, kind : Kinds]
    OBVIOUS
  <2>2. pipe \in Seq(S) /\ pipe # <<>>
    BY <1>1, <2>1 DEF EventTypes
  <2>3. Len(pipe) \in Nat \ {0}
    BY <2>2
  <2>4. Len(pipe) - 1 \in Nat /\ (Len(pipe) - 1) + 1 = Len(pipe)
    BY <2>3
  <2>. QED BY <2>4
<1>3. /\ Head(pipe) = pipe[1] /\ pipe[1] \in [n : Nat, kind : Kinds] /\ 1 \in DOMAIN pipe
      /\ pipe' \in Seq([n : Nat, kind : Kinds]) /\ Len(pipe') = m /\ DOMAIN pipe' = 1..m
      /\ \A k \in 1..m : k + 1 \in DOMAIN pipe /\ pipe'[k] = pipe[k + 1]
  <2>1. PICK S : S = [n : Nat, kind : Kinds]
    OBVIOUS
  <2>2. pipe \in Seq(S) /\ pipe # <<>>
    BY <1>1, <2>1 DEF EventTypes
  <2>3. /\ Head(pipe) = pipe[1] /\ pipe[1] \in S /\ 1 \in DOMAIN pipe
        /\ Tail(pipe) \in Seq(S) /\ Len(Tail(pipe)) = m
        /\ \A k \in 1..m : k + 1 \in DOMAIN pipe /\ Tail(pipe)[k] = pipe[k + 1]
    BY <1>2, <2>2
  <2>. QED BY <1>1, <2>1, <2>3
<1>4. /\ UpToDate => UpToDate'
      /\ Head(pipe).kind # "counts" => UpToDate'
      /\ fetch' \in 0..rev \cup {Asked, Idle} /\ excused' \in 0..rev /\ ReadsInOrder'
  <2>1. CASE Head(pipe).kind = "counts"
    BY <1>1, <2>1 DEF UpToDate, EventTypes, ReadsInOrder
  <2>2. CASE Head(pipe).kind # "counts"
    BY <1>1, <2>2, InvalidateFresh
  <2>. QED BY <2>1, <2>2
<1>0. /\ last' = last /\ ring' = ring /\ boot' = boot /\ hooked' = hooked /\ countsDue' = countsDue
      /\ conn' = conn
  BY <1>1 DEF hubVars
<1>5. \A n : After(n) => After(n)'
  BY <1>0, <1>4 DEF After
<1>12. pipe[1].kind # "counts" => UpToDate'
  BY <1>3, <1>4
<1>6. ASSUME NEW k \in 0..m, Told(k + 1), ~UpToDate' PROVE Told(k)'
  <2>1. PICK j \in 1..(k + 1) : pipe[j].kind # "counts"
    BY <1>6 DEF Told
  <2>2. j # 1
    BY <1>6, <1>12, <2>1
  <2>3. PICK i \in 1..k : i + 1 = j
    BY <2>1, <2>2
  <2>4. i \in 1..m
    BY <2>3
  <2>5. pipe'[i] = pipe[i + 1]
    BY <1>3, <2>4
  <2>. QED BY <2>1, <2>3, <2>5 DEF Told
<1>7. UpToDate' \/ Told(Len(pipe))'
  <2>1. UpToDate \/ Told(m + 1)
    BY <1>1, <1>2 DEF LinkTrue
  <2>2. m \in 0..m
    OBVIOUS
  <2>3. UpToDate' \/ Told(m)'
    BY <1>4, <1>6, <2>1, <2>2
  <2>4. Len(pipe') = m
    BY <1>3
  <2>. QED BY <2>3, <2>4
<1>8. ASSUME NEW k \in 1..m PROVE pipe'[k].n <= last' /\ (After(pipe[k].n)' \/ Told(k)')
  <2>1. pipe[k + 1].n <= last /\ (After(pipe[k + 1].n) \/ Told(k + 1)) /\ pipe'[k] = pipe[k + 1]
    BY <1>1, <1>3 DEF LinkTrue
  <2>2. PICK n : n = pipe[k + 1].n
    OBVIOUS
  <2>3. After(n)' => After(pipe[k].n)'
    BY <2>1, <2>2
  <2>4. UpToDate' => After(pipe[k].n)'
    BY DEF After
  <2>5. k \in 0..m
    OBVIOUS
  <2>. QED BY <1>0, <1>5, <1>6, <2>1, <2>2, <2>3, <2>4, <2>5
<1>9. seen'.n <= last' /\ After(seen.n)'
  <2>1. pipe[1].n <= last /\ (After(pipe[1].n) \/ Told(1)) /\ seen'.n = pipe[1].n
    BY <1>1, <1>3 DEF LinkTrue
  <2>2. UpToDate' => After(seen.n)'
    BY DEF After
  <2>3. Told(1) => UpToDate'
    <3>1. \A j \in 1..1 : j = 1
      OBVIOUS
    <3>. QED BY <1>12, <3>1 DEF Told
  <2>4. PICK n : n = pipe[1].n
    OBVIOUS
  <2>5. After(n)' => After(seen.n)'
    BY <2>1, <2>4
  <2>. QED BY <1>1, <1>5, <2>1, <2>2, <2>3, <2>4, <2>5 DEF hubVars
<1>10. LinkTrue'
  BY <1>1, <1>3, <1>7, <1>8, <1>9 DEF LinkTrue, hubVars
<1>11. seen' \in [boot : Nat, n : Nat] /\ seen'.boot <= boot'
  BY <1>1, <1>3 DEF EventTypes, hubVars
<1>. QED BY <1>1, <1>3, <1>4, <1>10, <1>11 DEF EventInv, EventTypes, hubVars

LEMMA GraceExpiresKeeps == ASSUME EventInv, GraceExpires PROVE EventInv'
<1>1. /\ EventTypes /\ Invalidate
      /\ UNCHANGED <<rev, owed, hubVars, conn, pipe, seen, view, faults>>
  BY DEF EventInv, GraceExpires
<1>2. UpToDate' /\ fetch' \in 0..rev \cup {Asked, Idle} /\ excused' \in 0..rev /\ ReadsInOrder'
  BY <1>1, InvalidateFresh
<1>3. LinkTrue'
  BY <1>1, <1>2, PageKeeps DEF hubVars
<1>. QED BY <1>1, <1>2, <1>3 DEF EventInv, EventTypes, hubVars

\* The page's own steps.
LEMMA PageSteps ==
    ASSUME EventInv, Poll \/ ServerReads \/ FetchLands \/ FetchFails
    PROVE  EventInv'
<1>1. EventTypes /\ ReadsInOrder /\ UNCHANGED <<rev, owed, hubVars, linkVars>>
  BY DEF EventInv, Poll, ServerReads, FetchLands, FetchFails
<1>2. /\ view' \in 0..rev \cup {Nothing} /\ fetch' \in 0..rev \cup {Asked, Idle} /\ excused' \in 0..rev
      /\ ReadsInOrder' /\ (UpToDate => UpToDate')
  <2>0. /\ MaxRevs \in Nat /\ rev \in 0..MaxRevs /\ owed \in 0..rev /\ excused \in 0..rev
        /\ view \in 0..rev \cup {Nothing} /\ fetch \in 0..rev \cup {Asked, Idle}
        /\ Asked # Idle /\ \A r \in 0..rev : r \notin {Asked, Idle, Nothing}
        /\ rev' = rev /\ owed' = owed
    BY <1>1, EventAssumption DEF EventTypes, Asked, Idle, Nothing
  <2>1. CASE Poll
    BY <1>1, <2>0, <2>1 DEF UpToDate, ReadsInOrder, Poll
  <2>2. CASE ServerReads
    BY <1>1, <2>0, <2>2 DEF UpToDate, ReadsInOrder, ServerReads
  <2>3. CASE FetchLands
    BY <1>1, <2>0, <2>3 DEF UpToDate, ReadsInOrder, FetchLands
  <2>4. CASE FetchFails
    BY <1>1, <2>0, <2>4 DEF UpToDate, ReadsInOrder, FetchFails
  <2>. QED BY <2>1, <2>2, <2>3, <2>4
<1>3. LinkTrue'
  BY <1>1, <1>2, PageKeeps DEF hubVars, linkVars
<1>. QED BY <1>1, <1>2, <1>3 DEF EventInv, EventTypes, hubVars, linkVars

LEMMA EventInvHolds == EventSpec => []EventInv
<1>1. EventInv /\ [EventNext]_eventVars => EventInv'
  <2>. SUFFICES ASSUME EventInv, [EventNext]_eventVars PROVE EventInv'
    OBVIOUS
  <2>1. CASE UNCHANGED eventVars
    <3>1. /\ EventTypes /\ ReadsInOrder /\ (UpToDate <=> UpToDate')
          /\ UNCHANGED <<rev, owed, hubVars, linkVars, pageVars, excused, faults>>
      BY <2>1 DEF EventInv, eventVars, UpToDate, pageVars
    <3>2. LinkTrue'
      BY <3>1, PageKeeps DEF hubVars, linkVars
    <3>. QED BY <3>1, <3>2 DEF EventInv, EventTypes, ReadsInOrder, hubVars, linkVars, pageVars
  <2>. QED BY <2>1, CommitChangeKeeps, DeliverKeeps, CountsTimerKeeps, ProcessRestartsKeeps, ConnectKeeps,
           ReceiveKeeps, DropKeeps, LogOffKeeps, GraceExpiresKeeps, PageSteps DEF EventNext
<1>. QED BY <1>1, EventInvInit, PTL DEF EventSpec

\* A connected console that has nothing left to receive or to fetch shows every change, whatever
\* the ring has dropped and however often the process, the connection or a fetch failed; but for
\* what is excused (console-api/events.ts, console/src/shell/live.ts).
THEOREM NoSilentGapHolds == EventSpec => []NoSilentGap
<1>1. EventInv => NoSilentGap
  <2>. SUFFICES ASSUME EventInv, conn = "up", pipe = <<>>, fetch = Idle, owed = 0
                PROVE  rev \in {view, excused}
    BY DEF NoSilentGap
  <2>1. ~Told(Len(pipe)) /\ Idle # Asked
    BY EventAssumption DEF Told, Idle, Asked
  <2>2. UpToDate
    BY <2>1 DEF EventInv, LinkTrue
  <2>. QED BY <2>1, <2>2 DEF UpToDate, EventInv, EventTypes
<1>. QED BY <1>1, EventInvHolds, PTL

-----------------------------------------------------------------------------
(***************************************************************************)
(* ConfigSource.  What a write leaves in doubt (limbo) is one step from    *)
(* what the database holds, since the configuration lock keeps every other *)
(* write away until it is decided.                                         *)
(***************************************************************************)

Texting == [Sections -> Texts]
Versions == [text : Texting, image : Images, by : {"import", "rerender", "rollback", "console", "override"}]
Drafts == {NoDraft} \cup [rev : Nat \ {0}, base : Nat, text : Texting]
Configs == [versions : Seq(Versions), draft : Drafts, revs : Nat, item : Nat]

ConfigTypes ==
    /\ cfg \in Configs /\ Latest >= 1 /\ image \in Images /\ Online.image = image
    /\ limbo \subseteq Configs /\ \A x, y \in limbo : x = y
    /\ screen \in Drafts /\ asked \in Drafts

\* A version takes back nobody's change to what the draft c was shown.
Kept(v, c) ==
    \A s \in Sections :
        LET base == cfg.versions[c.base].text[s]
            mine == c.text[s]
        IN  /\ v.text[s] = IF mine = base THEN Online.text[s] ELSE mine
            /\ mine = base \/ Online.text[s] = base

\* The gate passed what is version n, v.
Passed(v, n) ==
    v.by = "console" =>
        \E r \in passed :
            /\ r.prompt = [text |-> v.text, locked |-> v.image.locked]
            /\ r.tools = v.image.tools \/ Rerendered(r.at, n)

\* A run was started with the tools of now, or the SOP was rendered again since.
RunTrue(r) ==
    r.at \in Nat /\ r.at <= Latest /\ (r.tools = image.tools \/ Rerendered(r.at, Latest + 1))
Runs == passed \cup ({active} \ {NoRun})
RunsTrue == \A r \in Runs : RunTrue(r)

\* The draft c is what publishes next, if anything does.
OneStep(next, c) ==
    /\ next \in Configs
    /\ \/ next.versions = cfg.versions
       \/ \E v \in Versions : /\ next.versions = Append(cfg.versions, v) /\ Passed(v, Latest + 1)
                              /\ v.image = image
                              /\ v.by \in {"console", "override"} => Kept(v, c)
    /\ \/ next.draft = cfg.draft /\ next.revs = cfg.revs
       \/ next.draft = NoDraft /\ next.revs >= cfg.revs
       \/ next.draft # NoDraft /\ next.draft.rev = next.revs /\ next.revs > cfg.revs

\* A revision names one draft.
DraftsTrue ==
    /\ cfg.draft # NoDraft => cfg.draft.rev = cfg.revs
    /\ screen # NoDraft => screen.rev <= cfg.revs /\ (cfg.draft # NoDraft /\ screen.rev = cfg.draft.rev
                                                        => screen = cfg.draft)

PublishInv ==
    /\ ConfigTypes /\ DraftsTrue /\ RunsTrue /\ \A n \in 1..Latest : Passed(cfg.versions[n], n)
    /\ \A next \in limbo : OneStep(next, asked)

LEMMA PublishInvInit == ASSUME ConfigInit PROVE PublishInv
<1>1. Imported \in Texting
  BY ConfigAssumption DEF Imported, Texting
<1>2. PICK v : v = Version(Imported, FirstImage, "import")
  OBVIOUS
<1>3. v \in Versions /\ v.by = "import" /\ v.image = FirstImage
  BY <1>1, <1>2, ConfigAssumption DEF Version, Versions
<1>4. <<v>> \in Seq(Versions) /\ Len(<<v>>) = 1 /\ <<v>>[1] = v
  BY <1>3
<1>5. /\ cfg = [versions |-> <<v>>, draft |-> NoDraft, revs |-> 0, item |-> 1] /\ image = FirstImage
      /\ limbo = {} /\ screen = NoDraft /\ asked = NoDraft /\ Runs = {}
  BY <1>2 DEF ConfigInit, Runs
<1>6. cfg \in Configs
  BY <1>4, <1>5 DEF Configs, Drafts
<1>7. Latest = 1 /\ cfg.versions[1] = v /\ cfg.draft = NoDraft
  BY <1>4, <1>5 DEF Latest
<1>8. \A n \in 1..Latest : Passed(cfg.versions[n], n)
  BY <1>3, <1>7 DEF Passed
<1>9. Online.image = image /\ image \in Images
  BY <1>3, <1>5, <1>7, ConfigAssumption DEF Online
<1>. QED BY <1>5, <1>6, <1>7, <1>8, <1>9 DEF PublishInv, ConfigTypes, DraftsTrue, Drafts, RunsTrue

\* The fields of the database's configuration.
LEMMA ConfigFields ==
    ASSUME ConfigTypes
    PROVE  /\ cfg.versions \in Seq(Versions) /\ cfg.draft \in Drafts /\ cfg.revs \in Nat /\ cfg.item \in Nat
           /\ Latest \in Nat /\ Latest >= 1 /\ Online \in Versions /\ Online.text \in Texting
           /\ \A n \in 1..Latest : cfg.versions[n] \in Versions
<1>1. cfg.versions \in Seq(Versions) /\ cfg.draft \in Drafts /\ cfg.revs \in Nat /\ cfg.item \in Nat
  BY DEF ConfigTypes, Configs
<1>2. Latest \in Nat /\ Latest >= 1
  BY <1>1 DEF ConfigTypes, Latest
<1>3. \A n \in 1..Latest : cfg.versions[n] \in Versions
  BY <1>1 DEF Latest
<1>4. Online \in Versions
  BY <1>2, <1>3 DEF Online
<1>. QED BY <1>1, <1>2, <1>3, <1>4 DEF Versions

\* Versions are only added: what the gate passed before it still has.
LEMMA PassedStays ==
    ASSUME ConfigTypes, RunsTrue, passed \subseteq passed',
           \A n \in 1..Latest : cfg'.versions[n] = cfg.versions[n]
    PROVE  \A n \in 1..(Latest + 1) : \A v : Passed(v, n) => Passed(v, n)'
<1>. PICK l \in Nat : l = Latest
  BY ConfigFields
<1>1. ASSUME NEW n \in 1..(l + 1), NEW i \in Nat, Rerendered(i, n) PROVE Rerendered(i, n)'
  <2>1. PICK m \in (i + 1)..(n - 1) : cfg.versions[m].by = "rerender"
    BY <1>1 DEF Rerendered
  <2>2. m \in 1..Latest
    OBVIOUS
  <2>. QED BY <2>1, <2>2 DEF Rerendered
<1>2. \A r \in passed : r.at \in Nat
  BY DEF RunsTrue, Runs, RunTrue
<1>. QED BY <1>1, <1>2 DEF Passed

\* As long as the image stays, so does what the runs were started with.
LEMMA RunsStay ==
    ASSUME ConfigTypes, RunsTrue, image' = image, Latest' \in Nat, Latest' >= Latest,
           \A n \in 1..Latest : cfg'.versions[n] = cfg.versions[n],
           \A q \in Runs' : (q.at = Latest /\ q.tools = image.tools)
                                \/ \E r \in Runs : q.at = r.at /\ q.tools = r.tools
    PROVE  RunsTrue'
<1>. PICK l \in Nat, k \in Nat : l = Latest /\ k = Latest' /\ k >= l
  BY ConfigFields
<1>1. ASSUME NEW r, RunTrue(r) PROVE RunTrue(r)'
  <2>1. CASE r.tools = image.tools
    BY <1>1, <2>1 DEF RunTrue
  <2>2. CASE Rerendered(r.at, l + 1)
    <3>1. r.at \in Nat /\ r.at <= l
      BY <1>1 DEF RunTrue
    <3>2. PICK m \in (r.at + 1)..l : cfg.versions[m].by = "rerender"
      BY <2>2, <3>1 DEF Rerendered
    <3>3. m \in 1..Latest /\ m \in (r.at + 1)..((k + 1) - 1)
      BY <3>1
    <3>4. cfg'.versions[m].by = "rerender"
      BY <3>2, <3>3
    <3>5. Rerendered(r.at, k + 1)'
      BY <3>3, <3>4 DEF Rerendered
    <3>. QED BY <3>1, <3>5 DEF RunTrue
  <2>. QED BY <1>1, <2>1, <2>2 DEF RunTrue
<1>2. ASSUME NEW q \in Runs' PROVE RunTrue(q)'
  <2>1. CASE q.at = Latest /\ q.tools = image.tools
    BY <2>1 DEF RunTrue
  <2>2. CASE \E r \in Runs : q.at = r.at /\ q.tools = r.tools
    <3>1. PICK r \in Runs : q.at = r.at /\ q.tools = r.tools
      BY <2>2
    <3>2. RunTrue(q)
      BY <3>1 DEF RunTrue, RunsTrue
    <3>. QED BY <1>1, <3>2
  <2>. QED BY <2>1, <2>2
<1>. QED BY <1>2 DEF RunsTrue

\* What becomes the configuration next keeps the invariant, and takes back nobody's change.
LEMMA Landed ==
    ASSUME PublishInv, NEW next, NEW c, OneStep(next, c), cfg' = next, asked' = c, screen' = screen,
           limbo' = {}, image' = image, passed' = passed, active' = active, asked' \in Drafts
    PROVE  PublishInv' /\ (Published => Kept(Online', asked'))
<1>1. /\ ConfigTypes /\ DraftsTrue /\ RunsTrue /\ next \in Configs /\ cfg.versions \in Seq(Versions)
      /\ cfg.revs \in Nat /\ next.revs \in Nat /\ screen \in Drafts /\ image \in Images
  BY ConfigFields DEF PublishInv, OneStep, Configs, ConfigTypes
<1>2. PICK l \in Nat : l = Latest /\ l >= 1
  BY <1>1, ConfigFields
<1>3. /\ Latest' \in Nat /\ Latest' >= l /\ (\A n \in 1..l : cfg'.versions[n] = cfg.versions[n])
      /\ \A n \in 1..Latest' : Passed(cfg'.versions[n], n)
      /\ Online'.image = image
      /\ Published => Kept(Online', c)
  <2>1. CASE next.versions = cfg.versions
    <3>1. Latest' = Latest /\ cfg'.versions = cfg.versions /\ Online' = Online
      BY <2>1 DEF Latest, Online
    <3>. QED BY <1>1, <1>2, <3>1, ConfigFields DEF PublishInv, Published, ConfigTypes
  <2>2. CASE \E v \in Versions : /\ next.versions = Append(cfg.versions, v) /\ Passed(v, Latest + 1)
                                 /\ v.image = image
                                 /\ v.by \in {"console", "override"} => Kept(v, c)
    <3>1. PICK v \in Versions : /\ next.versions = Append(cfg.versions, v) /\ Passed(v, l + 1)
                                /\ v.image = image
                                /\ v.by \in {"console", "override"} => Kept(v, c)
      BY <1>2, <2>2
    <3>2. /\ Latest' = l + 1 /\ cfg'.versions[l + 1] = v
          /\ \A n \in 1..l : cfg'.versions[n] = cfg.versions[n]
      BY <1>1, <1>2, <3>1, AppendProperties DEF Latest
    <3>3. Online' = v
      BY <3>2 DEF Online
    <3>4. \A n \in 1..l : Passed(cfg.versions[n], n)
      BY <1>2 DEF PublishInv
    <3>5. ASSUME NEW n \in 1..(l + 1) PROVE Passed(cfg'.versions[n], n)
      <4>1. CASE n = l + 1
        BY <3>1, <3>2, <4>1
      <4>2. CASE n \in 1..l
        BY <3>2, <3>4, <4>2
      <4>. QED BY <4>1, <4>2
    <3>6. Published => Kept(Online', c)
      BY <3>1, <3>3 DEF Published
    <3>7. Latest' \in Nat /\ Latest' >= l /\ \A n \in 1..Latest' : Passed(cfg'.versions[n], n)
      BY <3>2, <3>5
    <3>. QED BY <3>1, <3>2, <3>3, <3>6, <3>7
  <2>. QED BY <2>1, <2>2 DEF OneStep
<1>4. \A n \in 1..Latest' : Passed(cfg.versions[n], n)'
  <2>1. Latest' = l \/ Latest' = l + 1
    <3>1. CASE next.versions = cfg.versions
      BY <1>2, <3>1 DEF Latest
    <3>2. CASE \E v \in Versions : next.versions = Append(cfg.versions, v)
      BY <1>1, <1>2, <3>2, AppendProperties DEF Latest
    <3>. QED BY <3>1, <3>2 DEF OneStep
  <2>2. \A n \in 1..(l + 1) : \A v : Passed(v, n) => Passed(v, n)'
    BY <1>1, <1>2, <1>3, PassedStays
  <2>3. ASSUME NEW n \in 1..Latest' PROVE Passed(cfg.versions[n], n)'
    <3>1. PICK w : w = cfg'.versions[n]
      OBVIOUS
    <3>2. Passed(w, n) /\ n \in 1..(l + 1)
      BY <1>3, <2>1, <3>1
    <3>3. Passed(w, n)'
      BY <2>2, <3>2
    <3>. QED BY <3>1, <3>3 DEF Passed
  <2>. QED BY <2>3
<1>5. RunsTrue'
  <2>1. Runs' = Runs
    BY DEF Runs, NoRun
  <2>. QED BY <1>1, <1>2, <1>3, <2>1, RunsStay
<1>6. ConfigTypes'
  BY <1>1, <1>2, <1>3 DEF ConfigTypes
<1>7. DraftsTrue'
  <2>1. screen.rev \in Nat /\ (next.draft # NoDraft => next.draft.rev \in Nat)
    BY <1>1 DEF Drafts, NoDraft, Configs
  <2>. QED BY <1>1, <2>1 DEF OneStep, DraftsTrue
<1>. QED BY <1>3, <1>4, <1>5, <1>6, <1>7 DEF PublishInv

LEMMA WritesKeep ==
    ASSUME PublishInv, NEW next, NEW answer, Writes(next, answer), OneStep(next, asked'), screen' = screen,
           asked' \in Drafts
    PROVE  PublishInv' /\ (Published => Kept(Online', asked'))
<1>1. limbo = {} /\ UNCHANGED <<active, passed, runs, image>>
  BY DEF Writes, gateRuns
<1>2. CASE cfg' = next /\ limbo' = limbo
  <2>1. PICK c : c = asked'
    OBVIOUS
  <2>. QED BY <1>1, <1>2, <2>1, Landed
<1>3. CASE cfg' = cfg /\ limbo' = {next}
  <2>1. PICK c : c = asked'
    OBVIOUS
  <2>2. next \in Configs
    BY DEF OneStep
  <2>3. OneStep(next, c)'
    <3>1. Latest' = Latest /\ Online' = Online
      BY <1>3 DEF Online, Latest
    <3>2. \A v : Passed(v, Latest + 1)' <=> Passed(v, Latest + 1)
      BY <1>1, <1>3, <3>1 DEF Passed, Rerendered
    <3>. QED BY <1>1, <1>3, <2>1, <3>1, <3>2 DEF OneStep, Kept
  <2>4. ConfigTypes' /\ DraftsTrue' /\ RunsTrue' /\ \A n \in 1..Latest' : Passed(cfg.versions[n], n)'
    BY <1>1, <1>3, <2>2 DEF PublishInv, ConfigTypes, DraftsTrue, RunsTrue, RunTrue, Runs, NoRun, Latest, Online, Passed,
       Rerendered
  <2>5. ~Published
    BY <1>3, ConfigFields DEF Published, Latest, PublishInv
  <2>. QED BY <1>3, <2>1, <2>3, <2>4, <2>5 DEF PublishInv
<1>. QED BY <1>2, <1>3 DEF Writes

\* Nothing of what publishes moves.
LEMMA PublishStays ==
    ASSUME PublishInv, limbo' \subseteq limbo, passed \subseteq passed', UNCHANGED <<cfg, image, editors>>,
           \A q \in Runs' : (q.at = Latest /\ q.tools = image.tools)
                                \/ \E r \in Runs : q.at = r.at /\ q.tools = r.tools
    PROVE  PublishInv' /\ ~Published
<1>1. /\ cfg' = cfg /\ image' = image /\ screen' = screen /\ asked' = asked /\ Latest \in Nat
      /\ Latest' = Latest /\ Online' = Online /\ ConfigTypes /\ RunsTrue
  BY ConfigFields DEF PublishInv, editors, Latest, Online
<1>2. \A n \in 1..(Latest + 1) : \A v : Passed(v, n) => Passed(v, n)'
  BY <1>1, PassedStays
<1>3. ASSUME NEW n \in 1..Latest' PROVE Passed(cfg.versions[n], n)'
  <2>1. PICK w : w = cfg.versions[n]
    OBVIOUS
  <2>2. Passed(w, n) /\ n \in 1..(Latest + 1)
    BY <1>1, <2>1 DEF PublishInv
  <2>3. Passed(w, n)'
    BY <1>2, <2>2
  <2>. QED BY <1>1, <2>1, <2>3 DEF Passed
<1>4. ASSUME NEW next \in limbo' PROVE OneStep(next, asked)'
  <2>1. OneStep(next, asked)
    BY DEF PublishInv
  <2>2. PICK c : c = asked
    OBVIOUS
  <2>3. \A v : Passed(v, Latest + 1) => Passed(v, Latest + 1)'
    <3>1. PICK k \in Nat : k = Latest
      BY <1>1
    <3>2. k + 1 \in 1..(Latest + 1)
      BY <3>1
    <3>3. \A v : Passed(v, k + 1) => Passed(v, k + 1)'
      BY <1>2, <3>2
    <3>. QED BY <1>1, <3>1, <3>3 DEF Passed, Rerendered
  <2>4. OneStep(next, c)'
    BY <1>1, <2>1, <2>2, <2>3 DEF OneStep, Kept
  <2>. QED BY <1>1, <2>2, <2>4
<1>5. ConfigTypes' /\ DraftsTrue'
  BY <1>1 DEF PublishInv, ConfigTypes, DraftsTrue
<1>6. RunsTrue'
  BY <1>1, RunsStay
<1>. QED BY <1>1, <1>3, <1>4, <1>5, <1>6 DEF PublishInv, Published

LEMMA EditedType ==
    ASSUME NEW text \in Texting, NEW keys, NEW t \in Texts
    PROVE  Edited(text, keys, t) \in Texting
BY DEF Edited, Texting

\* A saved draft has a revision of its own.
LEMMA SavesDraftKeeps ==
    ASSUME PublishInv, NEW d, SavesDraft(d), d \in Drafts, d # NoDraft, d.rev > cfg.revs
    PROVE  PublishInv' /\ (Published => Kept(Online', asked'))
<1>1. PICK next : next = [cfg EXCEPT !.draft = d, !.revs = IF d.rev > cfg.revs THEN d.rev ELSE cfg.revs]
  OBVIOUS
<1>2. cfg \in Configs /\ d.rev \in Nat
  BY DEF PublishInv, ConfigTypes, Drafts
<1>3. next = [cfg EXCEPT !.draft = d, !.revs = d.rev]
  BY <1>1
<1>4. /\ next \in Configs /\ next.versions = cfg.versions /\ next.draft = d /\ next.revs = d.rev
  BY <1>2, <1>3 DEF Configs
<1>5. Writes(next, {}) /\ asked' = asked /\ screen' = screen /\ asked \in Drafts
  BY <1>1 DEF SavesDraft, editors, PublishInv, ConfigTypes
<1>6. OneStep(next, asked')
  BY <1>4 DEF OneStep
<1>. QED BY <1>5, <1>6, WritesKeep

LEMMA RebasedType ==
    ASSUME ConfigTypes, cfg.draft # NoDraft
    PROVE  /\ Rebased \in Texting /\ cfg.draft.text \in Texting /\ cfg.draft.rev \in Nat
           /\ cfg.draft.base \in Nat
<1>1. cfg.draft \in [rev : Nat \ {0}, base : Nat, text : Texting] /\ Online.text \in Texting
  BY ConfigFields DEF Drafts
<1>2. PICK f : f = cfg.draft.text
  OBVIOUS
<1>3. f \in [Sections -> Texts]
  BY <1>1, <1>2 DEF Texting
<1>. QED BY <1>1, <1>2, <1>3 DEF Rebased, Texting

LEMMA DraftSteps ==
    ASSUME PublishInv, NEW keys, NEW t \in Texts, NEW c,
           FirstSave(keys, t) \/ SaveSopDraft(c, keys, t) \/ MergeSopDraft(c, keys, t)
    PROVE  PublishInv' /\ (Published => Kept(Online', asked'))
<1>0. ConfigTypes /\ DraftsTrue
  BY DEF PublishInv
<1>1. CASE FirstSave(keys, t)
  <2>1. PICK x : x = Edited(Online.text, keys, t)
    OBVIOUS
  <2>2. x \in Texting /\ Latest \in Nat /\ cfg.revs \in Nat
    BY <1>0, <2>1, ConfigFields, EditedType
  <2>3. SavesDraft(NewDraft(Latest, x))
    BY <1>1, <2>1 DEF FirstSave
  <2>4. NewDraft(Latest, x) \in Drafts /\ NewDraft(Latest, x).rev > cfg.revs /\ NewDraft(Latest, x) # NoDraft
    <3>1. NewDraft(Latest, x).rev = cfg.revs + 1 /\ NoDraft.rev = 0
      BY DEF NewDraft, NoDraft
    <3>2. NewDraft(Latest, x) \in [rev : Nat \ {0}, base : Nat, text : Texting]
      BY <2>2 DEF NewDraft
    <3>. QED BY <2>2, <3>1, <3>2 DEF Drafts
  <2>. QED BY <2>3, <2>4, SavesDraftKeeps
<1>2. ASSUME cfg.draft # NoDraft, NEW base \in Nat, NEW text \in Texting,
             SavesDraft(NextDraft(base, Edited(text, keys, t)))
      PROVE  PublishInv' /\ (Published => Kept(Online', asked'))
  <2>1. PICK x : x = Edited(text, keys, t)
    OBVIOUS
  <2>2. x \in Texting /\ cfg.draft.rev \in Nat /\ cfg.revs = cfg.draft.rev
    BY <1>0, <1>2, <2>1, EditedType, RebasedType DEF DraftsTrue
  <2>3. NextDraft(base, x) \in Drafts /\ NextDraft(base, x).rev > cfg.revs /\ NextDraft(base, x) # NoDraft
    <3>1. NextDraft(base, x).rev = cfg.draft.rev + 1 /\ NoDraft.rev = 0
      BY DEF NextDraft, NoDraft
    <3>2. NextDraft(base, x) \in [rev : Nat \ {0}, base : Nat, text : Texting]
      BY <1>2, <2>2 DEF NextDraft
    <3>. QED BY <2>2, <3>1, <3>2 DEF Drafts
  <2>. QED BY <1>2, <2>1, <2>3, SavesDraftKeeps
<1>3. CASE SaveSopDraft(c, keys, t)
  BY <1>0, <1>2, <1>3, RebasedType DEF SaveSopDraft, StillDraft
<1>4. CASE MergeSopDraft(c, keys, t)
  BY <1>0, <1>2, <1>4, RebasedType, ConfigFields DEF MergeSopDraft, StillDraft
<1>. QED BY <1>1, <1>3, <1>4

LEMMA DiscardKeeps ==
    ASSUME PublishInv, NEW c, DiscardSopDraft(c)
    PROVE  PublishInv' /\ (Published => Kept(Online', asked'))
<1>0. cfg \in Configs /\ cfg.draft # NoDraft /\ cfg.draft.rev \in Nat /\ cfg.draft.rev = cfg.revs
  BY RebasedType DEF PublishInv, ConfigTypes, DraftsTrue, DiscardSopDraft, StillDraft
<1>1. PICK r \in Nat : r = cfg.draft.rev + 1
  BY <1>0
<1>2. PICK next : next = [cfg EXCEPT !.draft = NoDraft, !.revs = r]
  OBVIOUS
<1>3. /\ next \in Configs /\ next.versions = cfg.versions /\ next.draft = NoDraft
      /\ next.revs = r
  <2>1. NoDraft \in Drafts
    BY DEF Drafts
  <2>. QED BY <1>0, <1>2, <2>1 DEF Configs
<1>4. Writes(next, {}) /\ asked' = asked /\ screen' = screen /\ asked \in Drafts
  BY <1>1, <1>2 DEF DiscardSopDraft, editors, PublishInv, ConfigTypes
<1>5. OneStep(next, asked')
  BY <1>0, <1>1, <1>3 DEF OneStep
<1>. QED BY <1>4, <1>5, WritesKeep

\* What is published is the draft on the publisher's screen, rebased without a conflict.
LEMMA PublishKeeps ==
    ASSUME PublishInv, NEW c \in OnScreen, NEW by \in {"console", "override"}, PublishSopDraft(c, by)
    PROVE  PublishInv' /\ (Published => Kept(Online', asked'))
<1>0. /\ ConfigTypes /\ DraftsTrue /\ cfg \in Configs /\ cfg.draft # NoDraft /\ cfg.draft.rev \in Nat
      /\ cfg.draft.rev = cfg.revs /\ cfg.draft \in Drafts /\ image \in Images /\ c = cfg.draft
  <2>1. ConfigTypes /\ DraftsTrue /\ cfg.draft # NoDraft /\ cfg.draft.rev = c.rev
    BY DEF PublishInv, PublishSopDraft, StillDraft
  <2>2. c = cfg.draft
    BY <2>1 DEF OnScreen, DraftsTrue
  <2>. QED BY <2>1, <2>2, RebasedType, ConfigFields DEF ConfigTypes, DraftsTrue
<1>1. PICK v : v = Version(Rebased, image, by)
  OBVIOUS
<1>2. v \in Versions /\ v.text = Rebased /\ v.image = image /\ v.by = by
  BY <1>0, <1>1, RebasedType DEF Version, Versions
<1>3. Passed(v, Latest + 1)
  <2>1. ASSUME by = "console"
        PROVE  \E r \in passed : /\ r.prompt = [text |-> Rebased, locked |-> image.locked]
                                 /\ r.tools = image.tools \/ Rerendered(r.at, Latest + 1)
    <3>1. PICK r \in passed : r.prompt = [text |-> Rebased, locked |-> image.locked]
      BY <2>1 DEF PublishSopDraft, Judged, Prompt
    <3>2. RunTrue(r)
      BY DEF PublishInv, RunsTrue, Runs
    <3>. QED BY <3>1, <3>2 DEF RunTrue
  <2>. QED BY <1>2, <2>1 DEF Passed
<1>4. Kept(v, c)
  <2>1. Conflicts = {}
    BY DEF PublishSopDraft
  <2>2. ASSUME NEW s \in Sections
        PROVE  /\ v.text[s] = IF c.text[s] = Base[s] THEN Online.text[s] ELSE c.text[s]
               /\ c.text[s] = Base[s] \/ Online.text[s] = Base[s]
    <3>1. s \in Upstream <=> Base[s] # Online.text[s]
      BY DEF Upstream
    <3>2. s \in Upstream => Base[s] = c.text[s]
      BY <1>0, <2>1 DEF Conflicts
    <3>3. v.text[s] = IF s \in Upstream THEN Online.text[s] ELSE c.text[s]
      BY <1>0, <1>2 DEF Rebased
    <3>. QED BY <3>1, <3>2, <3>3
  <2>. QED BY <1>0, <2>2 DEF Kept, Base
<1>5. PICK r \in Nat : r = cfg.draft.rev + 1
  BY <1>0
<1>6. PICK next : next = [cfg EXCEPT !.versions = Append(cfg.versions, v), !.draft = NoDraft, !.revs = r]
  OBVIOUS
<1>7. next \in Configs /\ next.versions = Append(cfg.versions, v) /\ next.draft = NoDraft /\ next.revs = r
  <2>1. PICK vs : vs = Append(cfg.versions, v)
    OBVIOUS
  <2>2. vs \in Seq(Versions) /\ NoDraft \in Drafts
    BY <1>0, <1>2, <2>1, ConfigFields, AppendProperties DEF Drafts
  <2>. QED BY <1>0, <1>6, <2>1, <2>2 DEF Configs
<1>8. Writes(next, {[what |-> "sop", no |-> Latest + 1]}) /\ asked' = c /\ screen' = screen
  BY <1>1, <1>5, <1>6 DEF PublishSopDraft, Publishes
<1>9. OneStep(next, asked')
  BY <1>0, <1>2, <1>3, <1>4, <1>5, <1>7, <1>8 DEF OneStep
<1>. QED BY <1>0, <1>8, <1>9, WritesKeep

LEMMA RollbackKeeps ==
    ASSUME PublishInv, NEW n \in 1..Latest, RollbackSop(n)
    PROVE  PublishInv' /\ (Published => Kept(Online', asked'))
<1>0. cfg \in Configs /\ image \in Images /\ cfg.versions[n] \in Versions
  BY ConfigFields DEF PublishInv, ConfigTypes
<1>1. PICK v : v = Version(cfg.versions[n].text, image, "rollback")
  OBVIOUS
<1>2. v \in Versions /\ v.by = "rollback" /\ v.image = image
  BY <1>0, <1>1 DEF Version, Versions
<1>3. PICK next : next = [cfg EXCEPT !.versions = Append(cfg.versions, v), !.draft = cfg.draft, !.revs = cfg.revs]
  OBVIOUS
<1>4. /\ next \in Configs /\ next.versions = Append(cfg.versions, v) /\ next.draft = cfg.draft
      /\ next.revs = cfg.revs
  <2>1. PICK vs : vs = Append(cfg.versions, v)
    OBVIOUS
  <2>2. vs \in Seq(Versions)
    BY <1>0, <1>2, <2>1, AppendProperties DEF Configs
  <2>. QED BY <1>0, <1>3, <2>1, <2>2 DEF Configs
<1>5. /\ Writes(next, {[what |-> "sop", no |-> Latest + 1]}) /\ asked' = asked /\ screen' = screen
      /\ asked \in Drafts
  BY <1>1, <1>3 DEF RollbackSop, Publishes, editors, PublishInv, ConfigTypes
<1>6. OneStep(next, asked')
  BY <1>2, <1>4 DEF OneStep, Passed
<1>. QED BY <1>5, <1>6, WritesKeep

LEMMA SaveItemKeeps ==
    ASSUME PublishInv, SaveItem
    PROVE  PublishInv' /\ (Published => Kept(Online', asked'))
<1>0. cfg \in Configs /\ cfg.item \in Nat
  BY ConfigFields DEF PublishInv, ConfigTypes
<1>1. PICK next : next = [cfg EXCEPT !.item = cfg.item + 1]
  OBVIOUS
<1>2. /\ next \in Configs /\ next.versions = cfg.versions /\ next.draft = cfg.draft
      /\ next.revs = cfg.revs
  BY <1>0, <1>1 DEF Configs
<1>3. /\ Writes(next, {[what |-> "item", no |-> cfg.item + 1]}) /\ asked' = asked /\ screen' = screen
      /\ asked \in Drafts
  BY <1>1 DEF SaveItem, editors, PublishInv, ConfigTypes
<1>4. OneStep(next, asked')
  BY <1>2 DEF OneStep
<1>. QED BY <1>3, <1>4, WritesKeep

LEMMA LimboLandsKeeps ==
    ASSUME PublishInv, LimboLands
    PROVE  PublishInv' /\ (Published => Kept(Online', asked'))
<1>1. PICK next \in limbo : cfg' = next
  BY DEF LimboLands
<1>2. PICK c : c = asked
  OBVIOUS
<1>3. OneStep(next, c) /\ limbo' = {} /\ UNCHANGED <<image, passed, active, asked, screen>> /\ asked \in Drafts
  BY <1>1, <1>2 DEF PublishInv, LimboLands, gateRuns, editors, ConfigTypes
<1>. QED BY <1>1, <1>2, <1>3, Landed

\* A new image renders what is online again.
LEMMA ConfigRestartKeeps ==
    ASSUME PublishInv, NEW img \in Images, NEW fixed \in BOOLEAN, ConfigRestart(img, fixed)
    PROVE  PublishInv' /\ ~Published
<1>0. /\ ConfigTypes /\ DraftsTrue /\ RunsTrue /\ cfg \in Configs /\ cfg.item \in Nat /\ img \in Images /\ image' = img
      /\ passed' = passed /\ active' = NoRun /\ Online.image = image /\ limbo' = limbo /\ screen' = screen /\ asked' = asked /\ Latest \in Nat /\ Latest >= 1
      /\ limbo = {} \/ (img = Online.image /\ ~fixed)
      /\ Online \in Versions /\ Online.text \in Texting /\ cfg.versions \in Seq(Versions)
  BY ConfigFields DEF PublishInv, ConfigTypes, ConfigRestart, editors
<1>1. PICK v : v = Version(Online.text, img, "rerender")
  OBVIOUS
<1>2. v \in Versions /\ v.by = "rerender" /\ v.image = img
  BY <1>0, <1>1 DEF Version, Versions
<1>3. PICK vs, it : /\ vs = IF img = Online.image THEN cfg.versions ELSE Append(cfg.versions, v)
                    /\ it = IF fixed THEN cfg.item + 1 ELSE cfg.item
  OBVIOUS
<1>4. cfg' = [cfg EXCEPT !.versions = vs, !.item = it]
  BY <1>1, <1>3 DEF ConfigRestart
<1>5. vs \in Seq(Versions) /\ it \in Nat
  BY <1>0, <1>2, <1>3, AppendProperties
<1>6. cfg' \in Configs /\ cfg'.versions = vs /\ cfg'.draft = cfg.draft /\ cfg'.revs = cfg.revs /\ cfg'.item = it
  BY <1>0, <1>4, <1>5 DEF Configs
<1>7. PICK l \in Nat : l = Latest /\ l >= 1
  BY <1>0
<1>8. \/ Latest' = l /\ vs = cfg.versions
      \/ /\ Latest' = l + 1 /\ vs[l + 1] = v /\ \A n \in 1..l : vs[n] = cfg.versions[n]
         /\ vs = Append(cfg.versions, v)
  BY <1>0, <1>2, <1>3, <1>6, <1>7, AppendProperties DEF Latest
<1>9. ASSUME NEW n \in 1..Latest' PROVE Passed(cfg.versions[n], n)'
  <2>1. PICK w : w = vs[n]
    OBVIOUS
  <2>2. Passed(w, n) /\ n \in 1..(l + 1)
    <3>1. \A i \in 1..l : Passed(cfg.versions[i], i)
      BY <1>7 DEF PublishInv
    <3>2. CASE n \in 1..l
      BY <1>8, <2>1, <3>1, <3>2
    <3>3. CASE n = l + 1 /\ vs[l + 1] = v
      BY <1>2, <1>7, <2>1, <3>3 DEF Passed
    <3>. QED BY <1>7, <1>8, <3>2, <3>3
  <2>3. Passed(w, n)'
    BY <1>0, <1>6, <1>7, <1>8, <2>2, PassedStays
  <2>. QED BY <1>6, <2>1, <2>3 DEF Passed
<1>10. ~Published
  <2>1. CASE Latest' = l
    BY <1>7, <2>1 DEF Published
  <2>2. CASE Latest' = l + 1 /\ vs[l + 1] = v
    BY <1>2, <1>6, <2>2 DEF Published, Online
  <2>. QED BY <1>8, <2>1, <2>2
<1>11. ConfigTypes' /\ DraftsTrue'
  <2>1. Online'.image = img
    <3>1. CASE img = Online.image
      <4>1. Online' = Online
        BY <1>3, <1>6, <3>1 DEF Online, Latest
      <4>. QED BY <3>1, <4>1
    <3>2. CASE img # Online.image
      <4>1. vs = Append(cfg.versions, v) /\ Latest' = l + 1 /\ vs[l + 1] = v
        BY <1>0, <1>3, <1>6, <1>7, <3>2, AppendProperties DEF Latest
      <4>. QED BY <1>2, <1>6, <4>1 DEF Online
    <3>. QED BY <3>1, <3>2
  <2>. QED BY <1>0, <1>6, <1>7, <1>8, <2>1 DEF ConfigTypes, DraftsTrue
<1>13. RunsTrue'
  <2>1. Runs' = passed
    BY <1>0 DEF Runs
  <2>2. passed \subseteq Runs
    BY DEF Runs
  <2>3. CASE img = image
    BY <1>0, <1>6, <1>7, <1>8, <2>1, <2>2, <2>3, RunsStay
  <2>4. CASE img # image
    <3>1. vs = Append(cfg.versions, v) /\ Latest' = l + 1 /\ vs[l + 1] = v
      BY <1>0, <1>3, <1>6, <1>7, <2>4, AppendProperties DEF Latest
    <3>2. ASSUME NEW r \in passed PROVE RunTrue(r)'
      <4>1. r.at \in Nat /\ r.at <= l
        BY <1>0, <1>7, <2>2 DEF RunsTrue, RunTrue
      <4>2. l + 1 \in (r.at + 1)..((l + 2) - 1)
        BY <4>1
      <4>3. Rerendered(r.at, l + 2)'
        BY <1>2, <1>6, <3>1, <4>2 DEF Rerendered
      <4>. QED BY <1>7, <3>1, <4>1, <4>3 DEF RunTrue
    <3>. QED BY <2>1, <3>2 DEF RunsTrue
  <2>. QED BY <2>3, <2>4
<1>12. ASSUME NEW next \in limbo' PROVE OneStep(next, asked)'
  <2>1. vs = cfg.versions /\ it = cfg.item /\ cfg' = cfg
    <3>1. img = Online.image /\ ~fixed
      BY <1>0, <1>12
    <3>2. vs = cfg.versions /\ it = cfg.item
      BY <1>3, <3>1
    <3>. QED BY <1>0, <1>4, <3>2 DEF Configs
  <2>2. OneStep(next, asked)
    BY <1>0, <1>12 DEF PublishInv
  <2>3. PICK c : c = asked
    OBVIOUS
  <2>4. Online' = Online
    BY <2>1 DEF Online, Latest
  <2>5. Latest' = Latest /\ image' = image
    BY <1>0, <1>12, <2>1 DEF Latest
  <2>6. \A w : Passed(w, Latest + 1)' <=> Passed(w, Latest + 1)
    BY <1>0, <2>1, <2>5 DEF Passed, Rerendered
  <2>7. OneStep(next, c)'
    BY <1>0, <2>1, <2>2, <2>3, <2>4, <2>5, <2>6 DEF OneStep, Kept
  <2>. QED BY <1>0, <2>3, <2>7
<1>. QED BY <1>9, <1>10, <1>11, <1>12, <1>13 DEF PublishInv

LEMMA OpenKeeps ==
    ASSUME PublishInv, Open
    PROVE  PublishInv' /\ ~Published
<1>1. /\ screen' = cfg.draft /\ UNCHANGED <<cfg, limbo, image, passed, active, asked>>
      /\ cfg.draft # NoDraft /\ ConfigTypes /\ DraftsTrue /\ RunsTrue /\ cfg.draft \in Drafts /\ cfg.draft.rev \in Nat
  BY ConfigFields, RebasedType DEF PublishInv, Open, gateRuns
<1>2. Latest' = Latest /\ Latest \in Nat /\ Online' = Online
  BY <1>1, ConfigFields DEF Latest, Online
<1>3. ConfigTypes' /\ DraftsTrue'
  BY <1>1, <1>2 DEF ConfigTypes, DraftsTrue
<1>4. \A next, c : OneStep(next, c)' <=> OneStep(next, c)
  BY <1>1, <1>2 DEF OneStep, Kept, Passed, Rerendered
<1>5. RunsTrue' /\ \A n \in 1..Latest' : Passed(cfg.versions[n], n)'
  BY <1>1, <1>2 DEF PublishInv, Passed, Rerendered, RunsTrue, RunTrue, Runs, NoRun
<1>6. \A next \in limbo' : OneStep(next, asked)'
  <2>1. PICK c : c = asked
    OBVIOUS
  <2>2. \A next \in limbo' : OneStep(next, c)'
    BY <1>1, <1>4, <2>1 DEF PublishInv
  <2>. QED BY <1>1, <2>1, <2>2
<1>. QED BY <1>2, <1>3, <1>5, <1>6 DEF PublishInv, Published

LEMMA PublishStep ==
    ASSUME PublishInv, [ConfigNext]_configVars
    PROVE  PublishInv' /\ (Published => Kept(Online', asked'))
<1>1. CASE ConfigNext
  <2>0. Runs' = Runs => \A q \in Runs' : \E r \in Runs : q.at = r.at /\ q.tools = r.tools
    OBVIOUS
  <2>1. ASSUME NEW a, Answered(a) \/ AnswerLost(a) PROVE PublishInv' /\ ~Published
    <3>1. Runs' = Runs
      BY <2>1 DEF Answered, AnswerLost, gateRuns, Runs, NoRun
    <3>. QED BY <2>0, <2>1, <3>1, PublishStays DEF Answered, AnswerLost, gateRuns, editors
  <2>2. ASSUME LimboFails \/ ReadDb \/ ReloadLands PROVE PublishInv' /\ ~Published
    <3>1. Runs' = Runs
      BY <2>2 DEF LimboFails, ReadDb, ReloadLands, gateRuns, Runs, NoRun
    <3>. QED BY <2>0, <2>2, <3>1, PublishStays DEF LimboFails, ReadDb, ReloadLands, gateRuns, editors
  <2>3. ASSUME NEW pass, GateEnds(pass) PROVE PublishInv' /\ ~Published
    <3>1. Runs' \subseteq Runs
      BY <2>3 DEF GateEnds, Runs, NoRun
    <3>. QED BY <2>3, <3>1, PublishStays DEF GateEnds, editors
  <2>4. ASSUME StartGate PROVE PublishInv' /\ ~Published
    <3>1. passed' = passed /\ active'.at = Latest /\ active'.tools = image.tools
      BY <2>4 DEF StartGate
    <3>2. \A q \in Runs' : (q.at = Latest /\ q.tools = image.tools) \/ q \in Runs
      BY <3>1 DEF Runs
    <3>. QED BY <2>4, <3>2, PublishStays DEF StartGate, editors
  <2>5. ASSUME GateUnwritten PROVE PublishInv' /\ ~Published
    <3>1. passed' = passed /\ active # NoRun /\ active' = [active EXCEPT !.ours = FALSE]
      BY <2>5 DEF GateUnwritten
    <3>2. active'.at = active.at /\ active'.tools = active.tools
      BY <3>1
    <3>3. \A q \in Runs' : \E r \in Runs : q.at = r.at /\ q.tools = r.tools
      BY <3>1, <3>2 DEF Runs
    <3>. QED BY <2>5, <3>3, PublishStays DEF GateUnwritten, editors
  <2>. QED BY <1>1, <2>1, <2>2, <2>3, <2>4, <2>5, DraftSteps, DiscardKeeps, PublishKeeps, RollbackKeeps, SaveItemKeeps,
           LimboLandsKeeps, ConfigRestartKeeps, OpenKeeps DEF ConfigNext
<1>2. CASE UNCHANGED configVars
  <2>1. Runs' = Runs
    BY <1>2 DEF configVars, gateRuns, Runs, NoRun
  <2>. QED BY <1>2, <2>1, PublishStays DEF configVars, gateRuns, editors
<1>. QED BY <1>1, <1>2

\* The prompt that goes online was judged as it is, and under the same tools unless a new image was
\* put online since the run began, unless an owner overrode the gate; and it takes nobody's
\* change back unseen, for any sections, texts, drafts, merges, rollbacks, images and commits in
\* doubt (config/sop.ts, config/gate.ts).
THEOREM PublishIsSoundHolds == ConfigSpec => PublishIsSound
<1>1. PublishInv => OnlineWasJudged
  BY DEF PublishInv, OnlineWasJudged, Passed
<1>2. ASSUME PublishInv, [ConfigNext]_configVars
      PROVE  [Published =>
                \A s \in Sections :
                    LET base == cfg.versions[asked'.base].text[s]
                        mine == asked'.text[s]
                    IN  /\ Online'.text[s] = IF mine = base THEN Online.text[s] ELSE mine
                        /\ mine = base \/ Online.text[s] = base]_configVars
  BY <1>2, PublishStep DEF Kept
<1>3. PublishInv /\ [ConfigNext]_configVars => PublishInv'
  BY PublishStep
<1>. QED BY <1>1, <1>2, <1>3, PublishInvInit, PTL DEF ConfigSpec, PublishIsSound, NothingOverwritten

-----------------------------------------------------------------------------
(***************************************************************************)
(* What the process serves: whatever the database holds beyond it is in an *)
(* answer on its way, in what was read, or about to be read; except for    *)
(* what landed unseen.                                                     *)
(***************************************************************************)

Reloads == [sop : Nat, item : Nat, at : {"none", "due", "read"}]
Answers == [what : {"sop", "item"}, no : Nat]
SopAwaited(n) == \E a \in answers : a.what = "sop" /\ a.no = n
ItemAwaited == \E a \in answers : a.what = "item"

ServedTypes ==
    /\ served \in [sop : Nat, item : Nat] /\ reload \in Reloads /\ answers \subseteq Answers
    /\ served.sop <= Latest /\ reload.sop <= Latest
    /\ reload.at = "none" <=> reload = NoReload
    /\ reload.at = "due" <=> reload = Due
    /\ again => reload # NoReload
    /\ reload = NoReload => stale = Clean

\* An item is not written again before the answer of its last write.
AnswersTrue ==
    /\ \A a \in answers : a.what = "sop" => a.no <= Latest
    /\ \A a \in answers : a.what = "item" => a.no = cfg.item
    /\ \A next \in limbo : Len(next.versions) >= Latest /\ (ItemAwaited => next.item = cfg.item)

SopKnown ==
    \/ unseen \/ again \/ reload = Due \/ served.sop = Latest \/ SopAwaited(Latest)
    \/ reload.at = "read" /\ (moved \/ reload.sop = Latest)

ItemKnown ==
    \/ unseen \/ again \/ reload = Due \/ ItemAwaited
    \/ reload.at = "read" /\ (moved \/ reload.item = cfg.item)
    \/ reload.at = "none" /\ served.item = cfg.item

ServedInv == ServedTypes /\ AnswersTrue /\ SopKnown /\ ItemKnown

LEMMA ReloadWords ==
    /\ NoReload \in Reloads /\ Due \in Reloads /\ NoReload # Due
    /\ NoReload.at = "none" /\ Due.at = "due" /\ NoReload.sop = 0 /\ Due.sop = 0
<1>1. NoReload = [sop |-> 0, item |-> 0, at |-> "none"] /\ Due = [sop |-> 0, item |-> 0, at |-> "due"]
  BY DEF NoReload, Due
<1>. QED BY <1>1 DEF Reloads

LEMMA ServedInvInit == ASSUME ConfigInit PROVE ServedInv
<1>1. PICK v : cfg = [versions |-> <<v>>, draft |-> NoDraft, revs |-> 0, item |-> 1]
  BY DEF ConfigInit
<1>2. Latest = 1 /\ cfg.item = 1
  BY <1>1 DEF Latest
<1>3. /\ served = [sop |-> 1, item |-> 1] /\ answers = {} /\ limbo = {} /\ stale = Clean
      /\ reload = NoReload /\ ~again
  BY DEF ConfigInit
<1>. QED BY <1>2, <1>3, ReloadWords DEF ServedInv, ServedTypes, AnswersTrue, SopKnown, ItemKnown

\* A reload is asked for: whatever is not known will be read.
LEMMA CallsReload ==
    ASSUME ServedTypes, CallReload
    PROVE  /\ reload' \in Reloads /\ (reload'.sop = reload.sop \/ reload'.sop = 0)
           /\ reload'.at = "none" <=> reload' = NoReload
           /\ reload'.at = "due" <=> reload' = Due
           /\ reload' # NoReload /\ (again' \/ reload' = Due)
<1>1. CASE reload = NoReload
  BY <1>1, ReloadWords DEF CallReload, ServedTypes
<1>2. CASE reload # NoReload
  BY <1>2, ReloadWords DEF CallReload, ServedTypes
<1>. QED BY <1>1, <1>2

LEMMA ReloadSoon ==
    ASSUME ConfigTypes, ServedTypes, AnswersTrue', CallReload, Latest' = Latest, served' = served, answers' \subseteq answers
    PROVE  ServedInv'
<1>1. Latest \in Nat
  BY ConfigFields
<1>2. ServedTypes'
  BY <1>1, CallsReload DEF ServedTypes
<1>. QED BY <1>2, CallsReload DEF ServedInv, SopKnown, ItemKnown

\* A write's answer says what it made of the configuration.
Fits(next, answer) ==
    /\ answer \subseteq Answers /\ Len(next.versions) \in Nat /\ Len(next.versions) >= Latest
    /\ \A a \in answer : a.no = IF a.what = "sop" THEN Len(next.versions) ELSE next.item
    /\ Len(next.versions) = Latest \/ \E a \in answer : a.what = "sop"
    /\ next.item = cfg.item \/ \E a \in answer : a.what = "item"
    /\ ItemAwaited => next.item = cfg.item

LEMMA WritesCurrent ==
    ASSUME ConfigTypes, ServedInv, NEW next, NEW answer, Writes(next, answer), Fits(next, answer)
    PROVE  ServedInv' /\ served'.sop >= served.sop
<1>0. Latest \in Nat /\ limbo = {} /\ ServedTypes /\ AnswersTrue /\ SopKnown /\ ItemKnown /\ unseen' = unseen
  BY ConfigFields DEF Writes, ServedInv
<1>1. CASE cfg' = next /\ answers' = answers \cup answer /\ UNCHANGED <<limbo, servedVars, mistakes>>
  <2>1. PICK l \in Nat : l = Len(next.versions) /\ l >= Latest /\ Latest' = l /\ cfg'.item = next.item
    BY <1>1 DEF Fits, Latest
  <2>2. UNCHANGED <<limbo, served, stale, reload, again, moved>>
    BY <1>1 DEF servedVars
  <2>3. ServedTypes'
    <3>1. served.sop <= l /\ reload.sop <= l /\ served.sop \in Nat
      BY <1>0, <2>1 DEF ServedTypes, Reloads
    <3>2. answers' \subseteq Answers
      BY <1>0, <1>1 DEF ServedTypes, Fits
    <3>. QED BY <1>0, <2>1, <2>2, <3>1, <3>2 DEF ServedTypes
  <2>4. AnswersTrue'
    <3>1. ASSUME NEW a \in answers', a.what = "sop" PROVE a.no <= l
      <4>1. CASE a \in answers
        <5>1. a.no \in Nat /\ a.no <= Latest
          BY <1>0, <3>1, <4>1 DEF AnswersTrue, ServedTypes, Answers
        <5>. QED BY <1>0, <2>1, <5>1
      <4>2. CASE a \in answer
        BY <2>1, <3>1, <4>2 DEF Fits
      <4>. QED BY <1>1, <4>1, <4>2
    <3>2. ASSUME NEW a \in answers', a.what = "item" PROVE a.no = next.item
      <4>1. CASE a \in answers
        BY <1>0, <3>2, <4>1 DEF AnswersTrue, ItemAwaited, Fits
      <4>2. CASE a \in answer
        BY <3>2, <4>2 DEF Fits
      <4>. QED BY <1>1, <4>1, <4>2
    <3>. QED BY <1>0, <2>1, <2>2, <3>1, <3>2 DEF AnswersTrue
  <2>5. SopKnown'
    <3>1. CASE l = Latest
      BY <1>0, <1>1, <2>1, <2>2, <3>1 DEF SopKnown, SopAwaited
    <3>2. CASE \E a \in answer : a.what = "sop"
      BY <1>1, <2>1, <3>2 DEF Fits, SopKnown, SopAwaited
    <3>. QED BY <2>1, <3>1, <3>2 DEF Fits
  <2>6. ItemKnown'
    <3>1. CASE next.item = cfg.item
      BY <1>0, <1>1, <2>1, <2>2, <3>1 DEF ItemKnown, ItemAwaited
    <3>2. CASE \E a \in answer : a.what = "item"
      BY <1>1, <3>2 DEF ItemKnown, ItemAwaited
    <3>. QED BY <3>1, <3>2 DEF Fits
  <2>. QED BY <1>0, <2>2, <2>3, <2>4, <2>5, <2>6 DEF ServedInv, ServedTypes
<1>2. CASE limbo' = {next} /\ CallReload /\ UNCHANGED <<cfg, answers, served>>
  <2>1. Latest' = Latest
    BY <1>2 DEF Latest
  <2>2. AnswersTrue'
    BY <1>0, <1>2, <2>1 DEF AnswersTrue, Fits, ItemAwaited
  <2>. QED BY <1>0, <1>2, <2>1, <2>2, ReloadSoon DEF ServedTypes
<1>. QED BY <1>1, <1>2 DEF Writes

\* A write that publishes nothing and leaves the item alone has no answer to wait for.
LEMMA QuietFits ==
    ASSUME ConfigTypes, NEW next, next.versions = cfg.versions, next.item = cfg.item
    PROVE  Fits(next, {})
  BY ConfigFields DEF Fits, Latest

LEMMA DraftSaved ==
    ASSUME ConfigTypes, ServedInv, NEW d, SavesDraft(d)
    PROVE  ServedInv' /\ served'.sop >= served.sop
<1>1. PICK next : next = [cfg EXCEPT !.draft = d, !.revs = IF d.rev > cfg.revs THEN d.rev ELSE cfg.revs]
  OBVIOUS
<1>2. cfg \in Configs
  BY DEF ConfigTypes
<1>3. next.versions = cfg.versions /\ next.item = cfg.item
  BY <1>1, <1>2 DEF Configs
<1>4. Writes(next, {})
  BY <1>1 DEF SavesDraft
<1>. QED BY <1>3, <1>4, QuietFits, WritesCurrent

LEMMA DraftsCurrent ==
    ASSUME ConfigTypes, ServedInv, NEW keys, NEW t, NEW c,
           FirstSave(keys, t) \/ SaveSopDraft(c, keys, t) \/ MergeSopDraft(c, keys, t)
    PROVE  ServedInv' /\ served'.sop >= served.sop
  BY DraftSaved DEF FirstSave, SaveSopDraft, MergeSopDraft

LEMMA DiscardCurrent ==
    ASSUME ConfigTypes, ServedInv, NEW c, DiscardSopDraft(c)
    PROVE  ServedInv' /\ served'.sop >= served.sop
<1>1. PICK next : next = [cfg EXCEPT !.draft = NoDraft, !.revs = cfg.draft.rev + 1]
  OBVIOUS
<1>2. cfg \in Configs
  BY DEF ConfigTypes
<1>3. next.versions = cfg.versions /\ next.item = cfg.item
  BY <1>1, <1>2 DEF Configs
<1>4. Writes(next, {})
  BY <1>1 DEF DiscardSopDraft
<1>. QED BY <1>3, <1>4, QuietFits, WritesCurrent

LEMMA PublishesCurrent ==
    ASSUME ConfigTypes, ServedInv, NEW v, NEW draft, NEW revs, Publishes(v, draft, revs)
    PROVE  ServedInv' /\ served'.sop >= served.sop
<1>1. PICK next : next = [cfg EXCEPT !.versions = Append(cfg.versions, v), !.draft = draft, !.revs = revs]
  OBVIOUS
<1>2. cfg \in Configs /\ cfg.versions \in Seq(Versions) /\ Latest \in Nat /\ cfg.item \in Nat
  BY ConfigFields DEF ConfigTypes
<1>3. next.versions = Append(cfg.versions, v) /\ next.item = cfg.item
  BY <1>1, <1>2 DEF Configs
<1>4. Len(next.versions) = Latest + 1
  BY <1>2, <1>3 DEF Latest
<1>5. PICK a : a = [what |-> "sop", no |-> Latest + 1]
  OBVIOUS
<1>6. a \in Answers /\ a.what = "sop" /\ a.no = Latest + 1
  BY <1>2, <1>5 DEF Answers
<1>7. Writes(next, {a})
  BY <1>1, <1>5 DEF Publishes
<1>8. Fits(next, {a})
  BY <1>2, <1>3, <1>4, <1>6 DEF Fits
<1>. QED BY <1>7, <1>8, WritesCurrent

LEMMA SaveItemCurrent ==
    ASSUME ConfigTypes, ServedInv, SaveItem
    PROVE  ServedInv' /\ served'.sop >= served.sop
<1>1. PICK next : next = [cfg EXCEPT !.item = cfg.item + 1]
  OBVIOUS
<1>2. cfg \in Configs /\ cfg.item \in Nat /\ Latest \in Nat
  BY ConfigFields DEF ConfigTypes
<1>3. next.versions = cfg.versions /\ next.item = cfg.item + 1 /\ Len(next.versions) = Latest
  BY <1>1, <1>2 DEF Configs, Latest
<1>4. PICK a : a = [what |-> "item", no |-> cfg.item + 1]
  OBVIOUS
<1>5. a \in Answers /\ a.what = "item" /\ a.no = cfg.item + 1
  BY <1>2, <1>4 DEF Answers
<1>6. Writes(next, {a}) /\ ~ItemAwaited
  BY <1>1, <1>4 DEF SaveItem, ItemAwaited
<1>7. Fits(next, {a})
  BY <1>2, <1>3, <1>5, <1>6 DEF Fits
<1>. QED BY <1>6, <1>7, WritesCurrent

\* Nothing that is read, served or answered moves.
LEMMA ServedStays ==
    ASSUME ConfigTypes, ServedInv, limbo' \subseteq limbo, UNCHANGED <<cfg, answers, servedVars, unseen>>
    PROVE  ServedInv' /\ served'.sop >= served.sop
<1>1. /\ Latest' = Latest /\ cfg' = cfg /\ answers' = answers /\ served' = served /\ stale' = stale
      /\ reload' = reload /\ again' = again /\ moved' = moved /\ unseen' = unseen /\ served.sop \in Nat
  BY DEF Latest, servedVars, ServedInv, ServedTypes
<1>. QED BY <1>1 DEF ServedInv, ServedTypes, AnswersTrue, SopKnown, ItemKnown, SopAwaited, ItemAwaited

LEMMA LimboLandsCurrent ==
    ASSUME ConfigTypes, ServedInv, LimboLands
    PROVE  ServedInv' /\ served'.sop >= served.sop
<1>1. PICK next \in limbo : cfg' = next
  BY DEF LimboLands
<1>2. /\ Latest \in Nat /\ Len(next.versions) \in Nat /\ Len(next.versions) >= Latest
      /\ ItemAwaited => next.item = cfg.item
  BY ConfigFields DEF ServedInv, AnswersTrue, ConfigTypes, Configs
<1>3. /\ answers' = answers /\ served' = served /\ stale' = stale /\ limbo' = {}
      /\ reload' = reload /\ again' = again /\ moved' = moved
      /\ unseen' \/ reload = Due \/ again
  BY DEF LimboLands, servedVars
<1>4. PICK l \in Nat : Latest' = l /\ l >= Latest
  BY <1>1, <1>2 DEF Latest
<1>5. ServedTypes'
  <2>1. served.sop <= l /\ reload.sop <= l
    BY <1>2, <1>4 DEF ServedInv, ServedTypes, Reloads
  <2>. QED BY <1>3, <1>4, <2>1 DEF ServedInv, ServedTypes
<1>6. AnswersTrue'
  <2>1. ASSUME NEW a \in answers, a.what = "sop" PROVE a.no <= l
    <3>1. a.no \in Nat /\ a.no <= Latest
      BY <2>1 DEF ServedInv, AnswersTrue, ServedTypes, Answers
    <3>. QED BY <1>2, <1>4, <3>1
  <2>2. ASSUME NEW a \in answers, a.what = "item" PROVE a.no = next.item
    BY <1>2, <2>2 DEF ServedInv, AnswersTrue, ItemAwaited
  <2>. QED BY <1>1, <1>3, <1>4, <2>1, <2>2 DEF AnswersTrue
<1>7. SopKnown' /\ ItemKnown'
  BY <1>3 DEF SopKnown, ItemKnown
<1>. QED BY <1>3, <1>5, <1>6, <1>7 DEF ServedInv, ServedTypes

\* An answer is put into the cache: a newer SOP, or the item as it is now.
LEMMA AnsweredCurrent ==
    ASSUME ConfigTypes, ServedInv, NEW a \in answers, Answered(a)
    PROVE  ServedInv' /\ served'.sop >= served.sop
<1>0. /\ cfg' = cfg /\ Latest' = Latest /\ Latest \in Nat /\ cfg.item \in Nat /\ limbo' = limbo /\ reload' = reload
      /\ again' = again /\ unseen' = unseen /\ answers' = answers \ {a} /\ a \in Answers
      /\ served \in [sop : Nat, item : Nat] /\ served.sop <= Latest
  BY ConfigFields DEF Answered, Latest, ServedInv, ServedTypes
<1>1. AnswersTrue'
  <2>1. ItemAwaited' => ItemAwaited
    BY <1>0 DEF ItemAwaited
  <2>. QED BY <1>0, <2>1 DEF ServedInv, AnswersTrue
<1>2. CASE a.what = "sop" /\ a.no > served.sop
  <2>1. /\ served' = [served EXCEPT !.sop = a.no] /\ stale' = [stale EXCEPT !.sop = FALSE] /\ moved' = moved
    BY <1>2 DEF Answered
  <2>2. /\ served' \in [sop : Nat, item : Nat] /\ served'.sop = a.no /\ served'.item = served.item
        /\ a.no <= Latest /\ a.no \in Nat /\ served'.sop >= served.sop
    BY <1>0, <1>2, <2>1 DEF Answers, ServedInv, AnswersTrue
  <2>3. stale = Clean => stale' = Clean
    <3>1. \A f : LET r == [sop |-> f, item |-> f] IN [r EXCEPT !.sop = f] = r
      OBVIOUS
    <3>2. [Clean EXCEPT !.sop = FALSE] = Clean
      BY <3>1 DEF Clean
    <3>. QED BY <2>1, <3>2
  <2>4. SopKnown'
    BY <1>0, <1>2, <2>1, <2>2 DEF ServedInv, ServedTypes, SopKnown, SopAwaited
  <2>5. ItemKnown'
    <3>1. ItemAwaited => ItemAwaited'
      BY <1>0, <1>2 DEF ItemAwaited
    <3>. QED BY <1>0, <2>1, <2>2, <3>1 DEF ServedInv, ItemKnown
  <2>. QED BY <1>0, <1>1, <2>2, <2>3, <2>4, <2>5 DEF ServedInv, ServedTypes
<1>3. CASE a.what = "sop" /\ ~(a.no > served.sop)
  <2>1. served' = served /\ stale' = stale /\ moved' = moved
    BY <1>3 DEF Answered
  <2>2. a.no = Latest => served.sop = Latest
    BY <1>0, <1>3 DEF Answers
  <2>3. SopKnown'
    BY <1>0, <2>1, <2>2 DEF ServedInv, SopKnown, SopAwaited
  <2>4. ItemKnown'
    <3>1. ItemAwaited => ItemAwaited'
      BY <1>0, <1>3 DEF ItemAwaited
    <3>. QED BY <1>0, <2>1, <3>1 DEF ServedInv, ItemKnown
  <2>. QED BY <1>0, <1>1, <2>1, <2>3, <2>4 DEF ServedInv, ServedTypes
<1>4. CASE a.what = "item"
  <2>1. served' = [served EXCEPT !.item = a.no] /\ stale' = stale /\ moved'
    BY <1>4 DEF Answered
  <2>2. /\ served' \in [sop : Nat, item : Nat] /\ served'.sop = served.sop /\ served'.item = cfg.item
    <3>1. a.no = cfg.item
      BY <1>4 DEF ServedInv, AnswersTrue
    <3>. QED BY <1>0, <2>1, <3>1
  <2>3. SopKnown'
    <3>1. SopAwaited(Latest) => SopAwaited(Latest)'
      BY <1>0, <1>4 DEF SopAwaited
    <3>. QED BY <1>0, <2>1, <2>2, <3>1 DEF ServedInv, SopKnown
  <2>4. ItemKnown'
    BY <1>0, <2>1, <2>2 DEF ServedInv, ServedTypes, ItemKnown, Reloads
  <2>. QED BY <1>0, <1>1, <2>1, <2>2, <2>3, <2>4 DEF ServedInv, ServedTypes
<1>. QED BY <1>0, <1>2, <1>3, <1>4 DEF Answers

LEMMA AnswerLostCurrent ==
    ASSUME ConfigTypes, ServedInv, NEW a, AnswerLost(a)
    PROVE  ServedInv' /\ served'.sop >= served.sop
<1>1. /\ CallReload /\ answers' = answers \ {a} /\ cfg' = cfg /\ limbo' = limbo /\ served' = served
      /\ Latest' = Latest /\ ServedTypes /\ AnswersTrue /\ served.sop \in Nat
  BY DEF AnswerLost, Latest, ServedInv, ServedTypes
<1>2. AnswersTrue'
  BY <1>1 DEF AnswersTrue, ItemAwaited
<1>. QED BY <1>1, <1>2, ReloadSoon

LEMMA ReadDbCurrent ==
    ASSUME ConfigTypes, ServedInv, ReadDb
    PROVE  ServedInv' /\ served'.sop >= served.sop
<1>1. /\ cfg' = cfg /\ limbo' = limbo /\ answers' = answers /\ served' = served /\ stale' = stale /\ again' = again
      /\ Latest' = Latest /\ Latest \in Nat /\ cfg.item \in Nat /\ served.sop \in Nat
  BY ConfigFields DEF ReadDb, Latest, ServedInv, ServedTypes
<1>2. PICK r : r = [sop |-> Latest, item |-> cfg.item, at |-> "read"]
  OBVIOUS
<1>3. r \in Reloads /\ r.at = "read" /\ r.sop = Latest /\ r.item = cfg.item /\ r # NoReload /\ r # Due
  BY <1>1, <1>2, ReloadWords DEF Reloads
<1>4. reload' = r
  BY <1>2 DEF ReadDb
<1>5. ServedTypes'
  BY <1>1, <1>3, <1>4 DEF ServedInv, ServedTypes
<1>6. AnswersTrue'
  BY <1>1 DEF ServedInv, AnswersTrue, ItemAwaited
<1>7. SopKnown' /\ ItemKnown'
  BY <1>1, <1>3, <1>4 DEF SopKnown, ItemKnown
<1>. QED BY <1>1, <1>5, <1>6, <1>7 DEF ServedInv

\* What was read is served unless a write came meanwhile: then it is read again.
LEMMA ReloadLandsCurrent ==
    ASSUME ConfigTypes, ServedInv, ReloadLands
    PROVE  ServedInv' /\ served'.sop >= served.sop
<1>1. /\ cfg' = cfg /\ limbo' = limbo /\ answers' = answers /\ reload.at = "read" /\ ~again' /\ unseen' = unseen
      /\ Latest' = Latest /\ Latest \in Nat /\ cfg.item \in Nat /\ ServedTypes
      /\ served \in [sop : Nat, item : Nat] /\ reload \in Reloads /\ served.sop <= Latest /\ reload.sop <= Latest
  BY ConfigFields DEF ReloadLands, Latest, ServedInv, ServedTypes
<1>2. AnswersTrue'
  BY <1>1 DEF ServedInv, AnswersTrue, ItemAwaited
<1>3. CASE moved
  <2>1. served' = served /\ stale' = stale /\ reload' = Due
    BY <1>3 DEF ReloadLands
  <2>2. ServedTypes'
    BY <1>1, <2>1, ReloadWords DEF ServedTypes
  <2>. QED BY <1>1, <1>2, <2>1, <2>2 DEF ServedInv, SopKnown, ItemKnown
<1>4. CASE ~moved
  <2>1. /\ served' = [sop |-> Newer(reload.sop, served.sop), item |-> reload.item] /\ stale' = Clean
        /\ reload' = IF again THEN Due ELSE NoReload
    BY <1>4 DEF ReloadLands
  <2>2. PICK n : n = Newer(reload.sop, served.sop)
    OBVIOUS
  <2>3. n \in Nat /\ n >= served.sop /\ n >= reload.sop /\ n <= Latest
    BY <1>1, <2>2 DEF Newer, Reloads
  <2>4. served' \in [sop : Nat, item : Nat] /\ served'.sop = n /\ served'.item = reload.item
    BY <1>1, <2>1, <2>2, <2>3 DEF Reloads
  <2>5. ServedTypes'
    BY <1>1, <2>1, <2>3, <2>4, ReloadWords DEF ServedTypes
  <2>6. served.sop = Latest \/ reload.sop = Latest => n = Latest
    BY <1>1, <2>3 DEF Reloads
  <2>7. SopKnown'
    <3>1. SopAwaited(Latest) => SopAwaited(Latest)'
      BY <1>1 DEF SopAwaited
    <3>2. reload.at # "due" /\ reload # Due
      BY <1>1 DEF ServedTypes
    <3>. QED BY <1>1, <1>4, <2>1, <2>4, <2>6, <3>1, <3>2 DEF ServedInv, SopKnown
  <2>8. ItemKnown'
    <3>1. ItemAwaited => ItemAwaited'
      BY <1>1 DEF ItemAwaited
    <3>2. reload.at # "due" /\ reload # Due /\ reload.at # "none"
      BY <1>1 DEF ServedTypes
    <3>. QED BY <1>1, <1>4, <2>1, <2>4, <3>1, <3>2, ReloadWords DEF ServedInv, ItemKnown
  <2>. QED BY <1>2, <2>3, <2>4, <2>5, <2>7, <2>8 DEF ServedInv
<1>. QED BY <1>3, <1>4

\* A process that starts serves what it reads.
LEMMA RestartCurrent ==
    ASSUME PublishInv, ServedInv, NEW img \in Images, NEW fixed \in BOOLEAN, ConfigRestart(img, fixed)
    PROVE  ServedInv' /\ served'.sop >= served.sop
<1>0. /\ cfg \in Configs /\ cfg.versions \in Seq(Versions) /\ cfg.item \in Nat /\ Latest \in Nat
      /\ served.sop \in Nat /\ served.sop <= Latest /\ ConfigTypes
      /\ limbo = {} \/ (img = Online.image /\ ~fixed)
  BY ConfigFields DEF PublishInv, ConfigTypes, ServedInv, ServedTypes, ConfigRestart
<1>1. PICK vs, it : /\ vs = IF img = Online.image THEN cfg.versions
                            ELSE Append(cfg.versions, Version(Online.text, img, "rerender"))
                    /\ it = IF fixed THEN cfg.item + 1 ELSE cfg.item
  OBVIOUS
<1>2. cfg' = [cfg EXCEPT !.versions = vs, !.item = it]
  BY <1>1 DEF ConfigRestart
<1>3. /\ cfg'.versions = vs /\ cfg'.item = it
  BY <1>0, <1>2 DEF Configs
<1>4. PICK l \in Nat : l = Len(vs) /\ l >= Latest /\ Latest' = l
  BY <1>0, <1>1, <1>3, AppendProperties DEF Latest
<1>5. it \in Nat
  BY <1>0, <1>1
<1>6. /\ served' = [sop |-> l, item |-> it] /\ stale' = Clean /\ reload' = NoReload /\ ~again' /\ answers' = {}
      /\ limbo' = limbo
  BY <1>3, <1>4 DEF ConfigRestart
<1>7. /\ served' \in [sop : Nat, item : Nat] /\ served'.sop = l /\ served'.item = it
  BY <1>4, <1>5, <1>6
<1>8. ServedTypes'
  BY <1>4, <1>6, <1>7, ReloadWords DEF ServedTypes
<1>9. AnswersTrue'
  <2>1. ASSUME NEW next \in limbo PROVE Len(next.versions) >= l
    <3>1. vs = cfg.versions
      BY <1>0, <1>1, <2>1
    <3>. QED BY <1>0, <1>4, <2>1, <3>1 DEF ServedInv, AnswersTrue, Latest
  <2>. QED BY <1>4, <1>6, <2>1 DEF AnswersTrue, ItemAwaited
<1>10. SopKnown' /\ ItemKnown'
  BY <1>3, <1>4, <1>6, <1>7, ReloadWords DEF SopKnown, ItemKnown
<1>11. served'.sop >= served.sop
  BY <1>0, <1>4, <1>7
<1>. QED BY <1>8, <1>9, <1>10, <1>11 DEF ServedInv

LEMMA ServedStep ==
    ASSUME PublishInv, ServedInv, [ConfigNext]_configVars
    PROVE  ServedInv' /\ served'.sop >= served.sop
<1>0. ConfigTypes
  BY DEF PublishInv
<1>1. CASE ConfigNext
  <2>1. ASSUME NEW c, NEW by, PublishSopDraft(c, by) PROVE ServedInv' /\ served'.sop >= served.sop
    BY <1>0, <2>1, PublishesCurrent DEF PublishSopDraft
  <2>2. ASSUME NEW n, RollbackSop(n) PROVE ServedInv' /\ served'.sop >= served.sop
    BY <1>0, <2>2, PublishesCurrent DEF RollbackSop
  <2>3. ASSUME Open \/ LimboFails \/ StartGate \/ GateUnwritten \/ \E pass \in BOOLEAN : GateEnds(pass)
        PROVE  ServedInv' /\ served'.sop >= served.sop
    <3>1. limbo' \subseteq limbo /\ UNCHANGED <<cfg, answers, servedVars, unseen>>
      <4>1. CASE StartGate
        BY <4>1 DEF StartGate
      <4>2. CASE Open \/ LimboFails \/ GateUnwritten \/ \E pass \in BOOLEAN : GateEnds(pass)
        BY <4>2 DEF Open, LimboFails, GateUnwritten, GateEnds
      <4>. QED BY <2>3, <4>1, <4>2
    <3>. QED BY <1>0, <3>1, ServedStays
  <2>. QED BY <1>0, <1>1, <2>1, <2>2, <2>3, DraftsCurrent, DiscardCurrent, SaveItemCurrent, LimboLandsCurrent,
           AnsweredCurrent, AnswerLostCurrent, ReadDbCurrent, ReloadLandsCurrent, RestartCurrent DEF ConfigNext
<1>2. CASE UNCHANGED configVars
  BY <1>0, <1>2, ServedStays DEF configVars
<1>. QED BY <1>1, <1>2

\* A process that has nothing to hear of and nothing to read serves what the database holds and says
\* so, and what it serves of the SOP never goes back, for any crossing of writes, answers, reads,
\* commits in doubt and restarts (config/source.ts); but for what landed unseen.
THEOREM ServedIsCurrentHolds == ConfigSpec => ServedIsCurrent
<1>. DEFINE Current == answers = {} /\ limbo = {} /\ reload = NoReload /\ ~unseen =>
                         served = [sop |-> Latest, item |-> cfg.item] /\ stale = Clean
<1>1. PublishInv /\ ServedInv => Current
  <2>. SUFFICES ASSUME ServedInv, answers = {}, reload = NoReload, ~unseen
                PROVE  served = [sop |-> Latest, item |-> cfg.item] /\ stale = Clean
    OBVIOUS
  <2>1. served \in [sop : Nat, item : Nat] /\ ~again /\ reload # Due /\ reload.at = "none" /\ stale = Clean
    BY ReloadWords DEF ServedInv, ServedTypes
  <2>2. ~ItemAwaited /\ ~SopAwaited(Latest)
    BY DEF ItemAwaited, SopAwaited
  <2>3. served.sop = Latest /\ served.item = cfg.item
    BY <2>1, <2>2 DEF ServedInv, SopKnown, ItemKnown
  <2>. QED BY <2>1, <2>3
<1>2. PublishInv /\ ServedInv /\ [ConfigNext]_configVars => [image' = image => served'.sop >= served.sop]_configVars
  BY ServedStep
<1>3. PublishInv /\ ServedInv /\ [ConfigNext]_configVars => (PublishInv /\ ServedInv)'
  BY PublishStep, ServedStep
<1>. QED BY <1>1, <1>2, <1>3, PublishInvInit, ServedInvInit, PTL DEF ConfigSpec, ServedIsCurrent

-----------------------------------------------------------------------------
(***************************************************************************)
(* HandoffNotice.  The group is told once of each handoff, whichever of    *)
(* its two notices comes first, but for the sendings that nothing told of  *)
(* one before: for any number of handoffs, retries and failures.           *)
(***************************************************************************)

InMemory == {"queued", "flight", "written", "stuck"}
OpStates == InMemory \cup {"none", "landed", "row", "lost"}
JobStates == {"none", "pending", "running", "delivering", "told", "done", "failed"}
UnsavedStates == {"none", "waiting", "sending", "sent"}

NoticeTypes ==
    /\ op \in [Handoffs -> OpStates] /\ DOMAIN rec = Handoffs
    /\ job \in [Handoffs -> JobStates] /\ unsaved \in [Handoffs -> UnsavedStates]
    /\ told \in [Handoffs -> Nat] /\ blind \in [Handoffs -> Nat]
    /\ mark \in [Handoffs -> BOOLEAN] /\ wrote \in [Handoffs -> BOOLEAN]

\* A job is of an operation that committed; an unsaved notice that still waits is
\* of one that is not known to have; the queue's payload says what was sent.
OpOfNotice(h) ==
    /\ op[h] \in {"landed", "row"} <=> job[h] # "none"
    /\ unsaved[h] = "waiting" => op[h] \in InMemory \cup {"landed"}
    /\ op[h] \in {"none", "lost"} => unsaved[h] = "none"
    /\ op[h] = "none" => told[h] = 0 /\ ~mark[h]
    /\ op[h] \in InMemory => (mark[h] <=> unsaved[h] = "sent")
    /\ h \notin Recorded => op[h] = "none"

\* An unsaved notice on its way counts as received.
OnItsWay(h) == IF unsaved[h] = "sending" THEN 1 ELSE 0

\* Who comes second sees that one has been sent or is being sent.
Seen(h) ==
    \/ unsaved[h] \in {"sending", "sent"} \/ op[h] = "lost"
    \/ op[h] \in {"landed", "row"} /\ wrote[h]

\* While the job has yet to look, one more than the blind ones was sent only if it will
\* see it; while it sends, none was.
OneTooFew(h) ==
    /\ told[h] + OnItsWay(h) <= 1 + blind[h]
    /\ job[h] \in {"none", "pending", "running"} => told[h] + OnItsWay(h) <= blind[h] \/ Seen(h)
    /\ job[h] = "delivering" => told[h] + OnItsWay(h) <= blind[h]

NoticeFits(h) == OpOfNotice(h) /\ OneTooFew(h)
NoticeInv == NoticeTypes /\ \A h \in Handoffs : NoticeFits(h)

USE DEF InMemory, OpStates, JobStates, UnsavedStates

\* What the invariant reads of handoff h.
LEMMA NoticeValues ==
    ASSUME NoticeInv, NEW h \in Handoffs
    PROVE  /\ NoticeFits(h) /\ op[h] \in OpStates /\ job[h] \in JobStates /\ unsaved[h] \in UnsavedStates
           /\ told[h] \in Nat /\ blind[h] \in Nat /\ mark[h] \in BOOLEAN /\ wrote[h] \in BOOLEAN
  BY DEF NoticeInv, NoticeTypes

\* What an unsaved notice may become when its handoff fails to commit.
LEMMA NotedIs ==
    ASSUME NoticeTypes, NEW S, NoteUnsaved(S)
    PROVE  /\ unsaved' \in [Handoffs -> UnsavedStates]
           /\ \A h \in Handoffs :
                unsaved'[h] = unsaved[h]
                    \/ (h \in S /\ unsaved[h] = "none" /\ unsaved'[h] \in {"waiting", "sending"})
<1>. DEFINE T == {g \in S : rec'[g].kind # "consent"}
<1>1. T \subseteq S
  OBVIOUS
<1>2. unsaved' = [h \in Handoffs |-> Noted(T, h)]
  BY DEF NoteUnsaved
<1>. HIDE DEF T
<1>3. ASSUME NEW h \in Handoffs
      PROVE  /\ Noted(T, h) \in UnsavedStates
             /\ Noted(T, h) = unsaved[h]
                  \/ (h \in S /\ unsaved[h] = "none" /\ Noted(T, h) \in {"waiting", "sending"})
  BY <1>1 DEF Noted, NoticeTypes
<1>. QED BY <1>2, <1>3

LEMMA BlindIs ==
    ASSUME NoticeTypes, NEW S, Blind(S)
    PROVE  /\ blind' \in [Handoffs -> Nat]
           /\ \A h \in Handoffs : blind'[h] = IF h \in S THEN blind[h] + 1 ELSE blind[h]
  BY DEF Blind, NoticeTypes

\* An operation that moves within the write queue moves nothing else; an unsaved
\* notice may begin, blindly if the operation had committed.
MovesInMemory ==
    /\ op' \in [Handoffs -> OpStates]
    /\ \A h \in Handoffs : op'[h] = op[h] \/ (op[h] \in InMemory /\ op'[h] \in InMemory)
    /\ unsaved' \in [Handoffs -> UnsavedStates]
    /\ \A h \in Handoffs :
        unsaved'[h] = unsaved[h]
            \/ (op[h] \in InMemory \cup {"landed"} /\ unsaved[h] = "none" /\ unsaved'[h] \in {"waiting", "sending"})
    /\ blind' \in [Handoffs -> Nat]
    /\ \A h \in Handoffs : blind'[h] = IF Begins(h) THEN blind[h] + 1 ELSE blind[h]
    /\ wrote' \in [Handoffs -> BOOLEAN]
    /\ \A h \in Handoffs : op[h] \in {"landed", "row"} => wrote'[h] = wrote[h]
    /\ UNCHANGED <<rec, mark, job, told>>

LEMMA MovesKeep == ASSUME NoticeInv, MovesInMemory PROVE NoticeInv'
<1>1. NoticeTypes'
  BY DEF NoticeInv, MovesInMemory, NoticeTypes
<1>2. ASSUME NEW h \in Handoffs PROVE NoticeFits(h)'
  <2>1. /\ rec' = rec /\ mark'[h] = mark[h] /\ job'[h] = job[h] /\ told'[h] = told[h]
        /\ op'[h] = op[h] \/ (op[h] \in InMemory /\ op'[h] \in InMemory)
        /\ op[h] \in {"landed", "row"} => wrote'[h] = wrote[h]
        /\ unsaved'[h] = unsaved[h]
             \/ (op[h] \in InMemory \cup {"landed"} /\ unsaved[h] = "none" /\ unsaved'[h] \in {"waiting", "sending"})
        /\ blind'[h] = IF Begins(h) THEN blind[h] + 1 ELSE blind[h]
    BY DEF MovesInMemory
  <2>2. (h \in Recorded)' <=> h \in Recorded
    BY <2>1 DEF Recorded
  <2>3. OpOfNotice(h)'
    BY <2>1, <2>2, NoticeValues DEF NoticeFits, OpOfNotice
  <2>4. OneTooFew(h)'
    BY <2>1, NoticeValues DEF NoticeFits, OpOfNotice, OneTooFew, Seen, OnItsWay, Begins
  <2>. QED BY <2>3, <2>4 DEF NoticeFits
<1>. QED BY <1>1, <1>2 DEF NoticeInv

LEMMA MoveOpsIs ==
    ASSUME NoticeTypes, NEW from, from \subseteq InMemory, NEW to \in InMemory, op' = MoveOps(from, to)
    PROVE  /\ op' \in [Handoffs -> OpStates]
           /\ \A h \in Handoffs : op'[h] = op[h] \/ (op[h] \in InMemory /\ op'[h] \in InMemory)
  BY DEF MoveOps, NoticeTypes

LEMMA FlushesKeep ==
    ASSUME NoticeInv, StartFlush \/ WriteRows \/ FlushFails \/ Poison
    PROVE  NoticeInv'
<1>1. NoticeTypes /\ \A h \in Aboard \cup Waiting : op[h] \in InMemory \cup {"landed"}
  BY DEF NoticeInv, Aboard, Waiting
<1>2. CASE StartFlush \/ WriteRows
  <2>1. UNCHANGED <<unsaved, rec, mark, job, told, blind>>
    BY <1>2 DEF StartFlush, WriteRows, sessionPart, unsavedPart, jobPart
  <2>2. \E from, to : from \subseteq InMemory /\ to \in InMemory /\ op' = MoveOps(from, to)
    <3>1. CASE StartFlush
      <4>1. op' = MoveOps({"queued"}, "flight")
        BY <3>1 DEF StartFlush
      <4>. QED BY <4>1
    <3>2. CASE WriteRows
      <4>1. op' = MoveOps({"flight"}, "written")
        BY <3>2 DEF WriteRows
      <4>. QED BY <4>1
    <3>. QED BY <1>2, <3>1, <3>2
  <2>3. wrote' \in [Handoffs -> BOOLEAN] /\ \A h \in Handoffs : op[h] \in {"landed", "row"} => wrote'[h] = wrote[h]
    <3>1. CASE StartFlush
      BY <1>1, <3>1 DEF StartFlush, jobPart, NoticeTypes
    <3>2. CASE WriteRows
      BY <1>1, <3>2 DEF WriteRows, NoticeTypes
    <3>. QED BY <1>2, <3>1, <3>2
  <2>4. MovesInMemory
    <3>1. \A h \in Handoffs : ~Begins(h)
      BY <2>1 DEF Begins
    <3>2. unsaved' \in [Handoffs -> UnsavedStates] /\ blind' \in [Handoffs -> Nat]
      BY <1>1, <2>1 DEF NoticeTypes
    <3>3. op' \in [Handoffs -> OpStates]
          /\ \A h \in Handoffs : op'[h] = op[h] \/ (op[h] \in InMemory /\ op'[h] \in InMemory)
      BY <1>1, <2>2, MoveOpsIs
    <3>. QED BY <2>1, <2>3, <3>1, <3>2, <3>3 DEF MovesInMemory
  <2>. QED BY <2>4, MovesKeep
<1>3. CASE FlushFails \/ Poison
  <2>1. UNCHANGED <<rec, mark, job, wrote, told>> /\ NoteUnsaved(Aboard \cup Waiting)
    BY <1>3 DEF FlushFails, Poison, sessionPart, jobPart
  <2>2. \E from, to : from \subseteq InMemory /\ to \in InMemory /\ op' = MoveOps(from, to)
    <3>1. CASE FlushFails
      <4>1. op' = MoveOps({"written"}, "flight")
        BY <3>1 DEF FlushFails
      <4>. QED BY <4>1
    <3>2. CASE Poison
      <4>1. op' = MoveOps({"flight", "written"}, "stuck")
        BY <3>2 DEF Poison
      <4>. QED BY <4>1
    <3>. QED BY <1>3, <3>1, <3>2
  <2>3. /\ blind' \in [Handoffs -> Nat]
        /\ \A h \in Handoffs : blind'[h] = IF Begins(h) THEN blind[h] + 1 ELSE blind[h]
    <3>1. CASE FlushFails
      <4>1. Blind({h \in Handoffs : Begins(h)})
        BY <3>1 DEF FlushFails
      <4>. QED BY <1>1, <4>1, BlindIs
    <3>2. CASE Poison
      <4>1. blind' = blind /\ \A h \in Handoffs : ~Begins(h)
        BY <3>2 DEF Poison, Begins
      <4>. QED BY <1>1, <4>1 DEF NoticeTypes
    <3>. QED BY <1>3, <3>1, <3>2
  <2>4. MovesInMemory
    <3>1. unsaved' \in [Handoffs -> UnsavedStates]
          /\ \A h \in Handoffs :
                unsaved'[h] = unsaved[h]
                  \/ (op[h] \in InMemory \cup {"landed"} /\ unsaved[h] = "none" /\ unsaved'[h] \in {"waiting", "sending"})
      BY <1>1, <2>1, NotedIs
    <3>2. wrote' \in [Handoffs -> BOOLEAN] /\ \A h \in Handoffs : wrote'[h] = wrote[h]
      BY <1>1, <2>1 DEF NoticeTypes
    <3>3. op' \in [Handoffs -> OpStates]
          /\ \A h \in Handoffs : op'[h] = op[h] \/ (op[h] \in InMemory /\ op'[h] \in InMemory)
      BY <1>1, <2>2, MoveOpsIs
    <3>. QED BY <2>1, <2>3, <3>1, <3>2, <3>3 DEF MovesInMemory
  <2>. QED BY <2>4, MovesKeep
<1>. QED BY <1>2, <1>3

LEMMA QueueKeeps ==
    ASSUME NoticeInv, NEW h \in Handoffs, Fresh(h), NEW r, r.kind # "none", Queue(h, r)
    PROVE  NoticeInv'
<1>1. /\ rec' = [rec EXCEPT ![h] = r] /\ op' = [op EXCEPT ![h] = "queued"]
      /\ UNCHANGED <<mark, job, wrote, told, blind>>
  BY DEF Queue, jobPart
<1>2. NoteUnsaved({h}) \/ NoteUnsaved({})
  BY DEF Queue
<1>3. /\ unsaved' \in [Handoffs -> UnsavedStates]
      /\ \A g \in Handoffs : unsaved'[g] = unsaved[g]
            \/ (g = h /\ unsaved[g] = "none" /\ unsaved'[g] \in {"waiting", "sending"})
  <2>1. CASE NoteUnsaved({h})
    BY <2>1, NotedIs DEF NoticeInv
  <2>2. CASE NoteUnsaved({})
    BY <2>2, NotedIs DEF NoticeInv
  <2>. QED BY <1>2, <2>1, <2>2
<1>4. NoticeTypes'
  BY <1>1, <1>3 DEF NoticeInv, NoticeTypes
<1>5. ASSUME NEW g \in Handoffs PROVE NoticeFits(g)'
  <2>1. mark'[g] = mark[g] /\ job'[g] = job[g] /\ told'[g] = told[g] /\ wrote'[g] = wrote[g] /\ blind'[g] = blind[g]
    BY <1>1
  <2>2. CASE g = h
    <3>1. op'[h] = "queued" /\ rec'[h] = r
      BY <1>1 DEF NoticeInv, NoticeTypes
    <3>2. (h \in Recorded)'
      BY <3>1 DEF Recorded
    <3>3. op[h] = "none"
      BY NoticeValues DEF Fresh, NoticeFits, OpOfNotice
    <3>. QED BY <1>3, <2>1, <2>2, <3>1, <3>2, <3>3, NoticeValues DEF NoticeFits, OpOfNotice, OneTooFew, Seen, OnItsWay
  <2>3. CASE g # h
    <3>1. op'[g] = op[g] /\ rec'[g] = rec[g] /\ unsaved'[g] = unsaved[g]
      BY <1>1, <1>3, <2>3 DEF NoticeInv, NoticeTypes
    <3>2. (g \in Recorded)' <=> g \in Recorded
      BY <3>1 DEF Recorded
    <3>. QED BY <2>1, <3>1, <3>2, NoticeValues DEF NoticeFits, OpOfNotice, OneTooFew, Seen, OnItsWay
  <2>. QED BY <2>2, <2>3
<1>. QED BY <1>4, <1>5 DEF NoticeInv

\* The database commits: the job appears, and still sees what was sent before.
LEMMA CommitKeeps == ASSUME NoticeInv, Commit PROVE NoticeInv'
<1>1. /\ op' = MoveOps({"written"}, "landed") /\ UNCHANGED <<rec, mark, wrote, unsaved, told, blind>>
      /\ job' = [h \in Handoffs |-> IF op[h] = "written" THEN Inserted(h) ELSE job[h]]
  BY DEF Commit, sessionPart, unsavedPart
<1>2. \A h \in Handoffs : Inserted(h) \in {"done", "pending"}
  BY DEF Inserted
<1>3. ASSUME NEW h \in Handoffs
      PROVE  /\ op'[h] = IF op[h] = "written" THEN "landed" ELSE op[h]
             /\ op[h] = "written" => job'[h] \in {"done", "pending"}
             /\ op[h] # "written" => job'[h] = job[h]
  BY <1>1, <1>2 DEF MoveOps
<1>4. NoticeTypes'
  <2>1. op' \in [Handoffs -> OpStates] /\ job' \in [Handoffs -> JobStates]
    BY <1>1, <1>2 DEF NoticeInv, NoticeTypes, MoveOps
  <2>. QED BY <1>1, <2>1 DEF NoticeInv, NoticeTypes
<1>5. ASSUME NEW h \in Handoffs PROVE NoticeFits(h)'
  <2>1. (h \in Recorded)' <=> h \in Recorded
    BY <1>1 DEF Recorded
  <2>. QED BY <1>1, <1>3, <2>1, NoticeValues DEF NoticeFits, OpOfNotice, OneTooFew, Seen, OnItsWay
<1>. QED BY <1>4, <1>5 DEF NoticeInv

\* The write queue hears of it: what still waited is dropped.
LEMMA AfterCommitKeeps == ASSUME NoticeInv, AfterCommit PROVE NoticeInv'
<1>1. /\ op' = MoveOps({"landed"}, "row") /\ UNCHANGED <<rec, wrote, job, told, blind>>
      /\ mark' = [h \in Handoffs |-> mark[h] /\ op[h] # "landed"]
      /\ unsaved' = [h \in Handoffs |-> IF op[h] = "landed" /\ unsaved[h] = "waiting" THEN "none" ELSE unsaved[h]]
  BY DEF AfterCommit, sessionPart, jobPart
<1>2. ASSUME NEW h \in Handoffs
      PROVE  /\ op'[h] = IF op[h] = "landed" THEN "row" ELSE op[h]
             /\ unsaved'[h] = IF op[h] = "landed" /\ unsaved[h] = "waiting" THEN "none" ELSE unsaved[h]
             /\ mark'[h] <=> mark[h] /\ op[h] # "landed"
  BY <1>1 DEF MoveOps
<1>3. NoticeTypes'
  <2>1. op' \in [Handoffs -> OpStates] /\ unsaved' \in [Handoffs -> UnsavedStates]
    BY <1>1 DEF NoticeInv, NoticeTypes, MoveOps
  <2>2. mark' \in [Handoffs -> BOOLEAN]
    BY <1>1
  <2>. QED BY <1>1, <2>1, <2>2 DEF NoticeInv, NoticeTypes
<1>4. ASSUME NEW h \in Handoffs PROVE NoticeFits(h)'
  <2>1. (h \in Recorded)' <=> h \in Recorded
    BY <1>1 DEF Recorded
  <2>. QED BY <1>1, <1>2, <2>1, NoticeValues DEF NoticeFits, OpOfNotice, OneTooFew, Seen, OnItsWay
<1>. QED BY <1>3, <1>4 DEF NoticeInv

\* A step of one notice leaves those of the other handoffs alone.
OneNotice(h) ==
    /\ rec' = rec /\ op' = op /\ wrote' = wrote
    /\ job' \in [Handoffs -> JobStates] /\ unsaved' \in [Handoffs -> UnsavedStates]
    /\ told' \in [Handoffs -> Nat] /\ blind' \in [Handoffs -> Nat] /\ mark' \in [Handoffs -> BOOLEAN]
    /\ \A g \in Handoffs \ {h} :
        /\ job'[g] = job[g] /\ unsaved'[g] = unsaved[g] /\ told'[g] = told[g]
        /\ blind'[g] = blind[g] /\ mark'[g] = mark[g]

LEMMA OneNoticeKeeps ==
    ASSUME NoticeInv, NEW h \in Handoffs, OneNotice(h), NoticeFits(h)'
    PROVE  NoticeInv'
<1>1. NoticeTypes'
  BY DEF NoticeInv, NoticeTypes, OneNotice
<1>2. ASSUME NEW g \in Handoffs, g # h PROVE NoticeFits(g)'
  <2>1. /\ job'[g] = job[g] /\ unsaved'[g] = unsaved[g] /\ told'[g] = told[g] /\ blind'[g] = blind[g]
        /\ mark'[g] = mark[g] /\ op'[g] = op[g] /\ wrote'[g] = wrote[g] /\ rec' = rec
    BY <1>2 DEF OneNotice
  <2>2. (g \in Recorded)' <=> g \in Recorded
    BY <2>1 DEF Recorded
  <2>. QED BY <2>1, <2>2, NoticeValues DEF NoticeFits, OpOfNotice, OneTooFew, Seen, OnItsWay
<1>. QED BY <1>1, <1>2 DEF NoticeInv

LEMMA UnsavedKeeps == ASSUME NoticeInv, NEW h \in Handoffs, UnsavedProceeds(h) PROVE NoticeInv'
<1>1. NoticeTypes /\ NoticeFits(h) /\ job[h] \in JobStates /\ unsaved[h] \in UnsavedStates /\ op[h] \in OpStates
      /\ told[h] \in Nat /\ blind[h] \in Nat /\ mark[h] \in BOOLEAN /\ wrote[h] \in BOOLEAN
  BY NoticeValues DEF NoticeInv
<1>3. rec' = rec /\ op' = op /\ job' = job /\ wrote' = wrote /\ ((h \in Recorded)' <=> h \in Recorded)
  BY DEF UnsavedProceeds, TimerFires, UnsavedSent, UnsavedFails, sessionPart, storePart, jobPart, Recorded
<1>4. CASE TimerFires(h)
  <2>1. unsaved[h] = "waiting" /\ unsaved' = [unsaved EXCEPT ![h] = "sending"] /\ told' = told /\ mark' = mark
        /\ Blind({g \in {h} : Begins(g)})
    BY <1>4 DEF TimerFires, storePart
  <2>2. PICK x \in Nat : x = IF Begins(h) THEN blind[h] + 1 ELSE blind[h]
    BY <1>1
  <2>3. blind' = [blind EXCEPT ![h] = x]
    BY <1>1, <2>1, <2>2 DEF Blind, NoticeTypes
  <2>4. OneNotice(h)
    BY <1>1, <1>3, <2>1, <2>3 DEF OneNotice, NoticeTypes
  <2>5. unsaved'[h] = "sending" /\ blind'[h] = x
    BY <1>1, <2>1, <2>3 DEF NoticeTypes
  <2>6. NoticeFits(h)'
    BY <1>1, <1>3, <2>1, <2>2, <2>5 DEF NoticeFits, OpOfNotice, OneTooFew, Seen, OnItsWay, Begins
  <2>. QED BY <2>4, <2>6, OneNoticeKeeps
<1>5. CASE UnsavedSent(h)
  <2>1. /\ unsaved[h] = "sending" /\ unsaved' = [unsaved EXCEPT ![h] = "sent"] /\ told' = [told EXCEPT ![h] = told[h] + 1]
        /\ mark' = [mark EXCEPT ![h] = mark[h] \/ op[h] # "row"] /\ blind' = blind
    BY <1>5 DEF UnsavedSent
  <2>2. PICK m \in BOOLEAN : m = (mark[h] \/ op[h] # "row")
    BY <1>1
  <2>3. PICK t \in Nat : t = told[h] + 1
    BY <1>1
  <2>4. OneNotice(h)
    BY <1>1, <1>3, <2>1, <2>2, <2>3 DEF OneNotice, NoticeTypes
  <2>5. unsaved'[h] = "sent" /\ told'[h] = told[h] + 1 /\ (mark'[h] <=> mark[h] \/ op[h] # "row") /\ blind'[h] = blind[h]
    BY <1>1, <2>1 DEF NoticeTypes
  <2>6. NoticeFits(h)'
    <3>1. OpOfNotice(h)'
      BY <1>1, <1>3, <2>1, <2>5 DEF NoticeFits, OpOfNotice
    <3>2. OneTooFew(h)'
      BY <1>1, <1>3, <2>1, <2>5 DEF NoticeFits, OneTooFew, Seen, OnItsWay
    <3>. QED BY <3>1, <3>2 DEF NoticeFits
  <2>. QED BY <2>4, <2>6, OneNoticeKeeps
<1>6. CASE UnsavedFails(h)
  <2>1. PICK u \in {"sending", "none"} : unsaved' = [unsaved EXCEPT ![h] = u]
    BY <1>6 DEF UnsavedFails
  <2>2. unsaved[h] = "sending" /\ told' = told /\ mark' = mark /\ blind' = blind
    BY <1>6 DEF UnsavedFails, storePart
  <2>3. OneNotice(h)
    BY <1>1, <1>3, <2>1, <2>2 DEF OneNotice, NoticeTypes
  <2>4. unsaved'[h] = u
    BY <1>1, <2>1 DEF NoticeTypes
  <2>5. NoticeFits(h)'
    BY <1>1, <1>3, <2>1, <2>2, <2>4 DEF NoticeFits, OpOfNotice, OneTooFew, Seen, OnItsWay
  <2>. QED BY <2>3, <2>5, OneNoticeKeeps
<1>. QED BY <1>4, <1>5, <1>6 DEF UnsavedProceeds

LEMMA JobKeeps == ASSUME NoticeInv, NEW h \in Handoffs, JobProceeds(h) PROVE NoticeInv'
<1>1. NoticeTypes /\ NoticeFits(h) /\ job[h] \in JobStates /\ unsaved[h] \in UnsavedStates /\ op[h] \in OpStates
      /\ told[h] \in Nat /\ blind[h] \in Nat /\ mark[h] \in BOOLEAN /\ wrote[h] \in BOOLEAN
  BY NoticeValues DEF NoticeInv
<1>3. rec' = rec /\ op' = op /\ mark' = mark /\ wrote' = wrote /\ blind' = blind /\ ((h \in Recorded)' <=> h \in Recorded)
  BY DEF JobProceeds, Claim, RunJob, Delivered, DeliveryFails, Reported, sessionPart, storePart, jobPart, Recorded
<1>4. CASE Claim(h) \/ Reported(h) \/ DeliveryFails(h)
  <2>1. /\ unsaved' = unsaved /\ told' = told
        /\ \E j \in {"pending", "running", "failed", "done"} :
            /\ job' = [job EXCEPT ![h] = j]
            /\ \/ job[h] = "pending" /\ j = "running"
               \/ job[h] = "told" /\ j = "done"
               \/ job[h] = "delivering" /\ j \in {"failed", "pending"}
    BY <1>4 DEF Claim, Reported, DeliveryFails, unsavedPart
  <2>2. PICK j \in {"pending", "running", "failed", "done"} :
            /\ job' = [job EXCEPT ![h] = j]
            /\ \/ job[h] = "pending" /\ j = "running"
               \/ job[h] = "told" /\ j = "done"
               \/ job[h] = "delivering" /\ j \in {"failed", "pending"}
    BY <2>1
  <2>3. OneNotice(h)
    BY <1>1, <1>3, <2>1, <2>2 DEF OneNotice, NoticeTypes
  <2>4. job'[h] = j
    BY <1>1, <2>2 DEF NoticeTypes
  <2>5. NoticeFits(h)'
    BY <1>1, <1>3, <2>1, <2>2, <2>4 DEF NoticeFits, OpOfNotice, OneTooFew, Seen, OnItsWay
  <2>. QED BY <2>3, <2>5, OneNoticeKeeps
<1>5. CASE RunJob(h)
  <2>1. PICK j \in {"done", "pending", "delivering"}, u \in {"none", unsaved[h]} :
            /\ job' = [job EXCEPT ![h] = j] /\ unsaved' = [unsaved EXCEPT ![h] = u]
            /\ wrote[h] \/ unsaved[h] = "sent" => j = "done" /\ u = "none"
            /\ ~(wrote[h] \/ unsaved[h] = "sent") => u = unsaved[h]
            /\ unsaved[h] = "sending" => j # "delivering"
    BY <1>5 DEF RunJob
  <2>2. job[h] = "running" /\ told' = told
    BY <1>5 DEF RunJob
  <2>3. OneNotice(h)
    BY <1>1, <1>3, <2>1, <2>2 DEF OneNotice, NoticeTypes
  <2>4. job'[h] = j /\ unsaved'[h] = u
    BY <1>1, <2>1 DEF NoticeTypes
  <2>5. NoticeFits(h)'
    <3>1. op[h] \in {"landed", "row"}
      BY <1>1, <2>2 DEF NoticeFits, OpOfNotice
    <3>2. OpOfNotice(h)'
      BY <1>1, <1>3, <2>1, <2>2, <2>4, <3>1 DEF NoticeFits, OpOfNotice
    <3>3. OneTooFew(h)'
      BY <1>1, <1>3, <2>1, <2>2, <2>4, <3>1 DEF NoticeFits, OneTooFew, Seen, OnItsWay
    <3>. QED BY <3>2, <3>3 DEF NoticeFits
  <2>. QED BY <2>3, <2>5, OneNoticeKeeps
<1>6. CASE Delivered(h)
  <2>1. job[h] = "delivering" /\ job' = [job EXCEPT ![h] = "told"] /\ told' = [told EXCEPT ![h] = told[h] + 1] /\ unsaved' = unsaved
    BY <1>6 DEF Delivered, unsavedPart
  <2>2. PICK t \in Nat : t = told[h] + 1
    BY <1>1
  <2>3. OneNotice(h)
    BY <1>1, <1>3, <2>1, <2>2 DEF OneNotice, NoticeTypes
  <2>4. job'[h] = "told" /\ told'[h] = told[h] + 1
    BY <1>1, <2>1 DEF NoticeTypes
  <2>5. NoticeFits(h)'
    BY <1>1, <1>3, <2>1, <2>4 DEF NoticeFits, OpOfNotice, OneTooFew, Seen, OnItsWay
  <2>. QED BY <2>3, <2>5, OneNoticeKeeps
<1>. QED BY <1>4, <1>5, <1>6 DEF JobProceeds

\* A start forgets nothing it says nothing about (Forgets).
LEMMA RestartKeeps == ASSUME NoticeInv, NEW spilled \in BOOLEAN, Restart(spilled) PROVE NoticeInv'
<1>. DEFINE kept(h) == op[h] \in InMemory /\ spilled
            lost(h) == op[h] \in InMemory /\ ~spilled
            cut(h) == job[h] \in {"running", "delivering", "told"}
<1>1. /\ op' = [h \in Handoffs |->
            IF lost(h) THEN "lost" ELSE IF kept(h) \/ op[h] = "landed" THEN "row" ELSE op[h]]
      /\ job' = [h \in Handoffs |->
            IF kept(h) THEN Inserted(h)
            ELSE IF cut(h) THEN IF tried[h] + 1 >= MaxAttempts THEN "failed" ELSE "pending"
            ELSE job[h]]
      /\ wrote' = [h \in Handoffs |-> IF kept(h) THEN mark[h] ELSE wrote[h]]
      /\ unsaved' = [h \in Handoffs |-> "none"]
      /\ Blind({h \in Handoffs : Forgets(h)}) /\ mark' = [h \in Handoffs |-> FALSE]
      /\ UNCHANGED <<rec, told>>
  BY DEF Restart
<1>2. \A h \in Handoffs : Inserted(h) \in {"done", "pending"}
  BY DEF Inserted
<1>3. blind' \in [Handoffs -> Nat] /\ \A h \in Handoffs : blind'[h] = IF Forgets(h) THEN blind[h] + 1 ELSE blind[h]
  BY <1>1, BlindIs DEF NoticeInv
<1>4. ASSUME NEW h \in Handoffs
      PROVE  /\ op'[h] = IF lost(h) THEN "lost" ELSE IF kept(h) \/ op[h] = "landed" THEN "row" ELSE op[h]
             /\ kept(h) => job'[h] \in {"done", "pending"} /\ wrote'[h] = mark[h]
             /\ ~kept(h) => wrote'[h] = wrote[h]
             /\ ~kept(h) /\ cut(h) => job'[h] \in {"failed", "pending"}
             /\ ~kept(h) /\ ~cut(h) => job'[h] = job[h]
             /\ unsaved'[h] = "none"
             /\ told'[h] = told[h] /\ ~mark'[h] /\ ((h \in Recorded)' <=> h \in Recorded)
  BY <1>1, <1>2 DEF Recorded
<1>5. NoticeTypes'
  <2>1. op' \in [Handoffs -> OpStates]
    BY <1>1, <1>4 DEF NoticeInv, NoticeTypes
  <2>2. ASSUME NEW h \in Handoffs PROVE job'[h] \in JobStates
    BY <1>4, NoticeValues
  <2>3. job' \in [Handoffs -> JobStates] /\ unsaved' \in [Handoffs -> UnsavedStates]
    BY <1>1, <2>2
  <2>4. wrote' \in [Handoffs -> BOOLEAN] /\ mark' \in [Handoffs -> BOOLEAN]
    BY <1>1, NoticeValues
  <2>. QED BY <1>1, <1>3, <2>1, <2>3, <2>4 DEF NoticeInv, NoticeTypes
<1>6. ASSUME NEW h \in Handoffs PROVE NoticeFits(h)'
  <2>1. /\ NoticeFits(h) /\ op[h] \in OpStates /\ job[h] \in JobStates /\ unsaved[h] \in UnsavedStates
        /\ told[h] \in Nat /\ blind[h] \in Nat /\ mark[h] \in BOOLEAN /\ wrote[h] \in BOOLEAN
    BY NoticeValues
  <2>2. OpOfNotice(h)'
    BY <1>4, <2>1 DEF NoticeFits, OpOfNotice
  <2>3. OneTooFew(h)'
    BY <1>3, <1>4, <2>1 DEF NoticeFits, OpOfNotice, OneTooFew, Seen, OnItsWay, Forgets
  <2>. QED BY <2>2, <2>3 DEF NoticeFits
<1>. QED BY <1>5, <1>6 DEF NoticeInv

LEMMA NoticeInvInit == ASSUME NoticeInit PROVE NoticeInv
<1>1. NoticeTypes
  BY DEF NoticeInit, NoticeTypes
<1>2. ASSUME NEW h \in Handoffs PROVE NoticeFits(h)
  <2>1. h \notin Recorded
    BY DEF NoticeInit, Recorded, NoRec
  <2>. QED BY <2>1 DEF NoticeInit, NoticeFits, OpOfNotice, OneTooFew, Seen, OnItsWay
<1>. QED BY <1>1, <1>2 DEF NoticeInv

LEMMA NoticeInvNext == ASSUME NoticeInv, [NoticeNext]_noticeVars PROVE NoticeInv'
<1>1. ASSUME UNCHANGED <<rec, storePart, jobPart, unsavedPart, told, blind>> PROVE NoticeInv'
  <2>1. UNCHANGED <<rec, op, mark, job, wrote, unsaved, told, blind>>
    BY <1>1 DEF storePart, jobPart, unsavedPart
  <2>. QED BY <2>1 DEF NoticeInv, NoticeTypes, NoticeFits, OpOfNotice, OneTooFew, Seen, OnItsWay, Recorded
<1>2. ASSUME NEW h \in Handoffs, NEW k \in {"request", "emergency"}, EnterHandoff(h, k) PROVE NoticeInv'
  BY <1>2, QueueKeeps DEF EnterHandoff
<1>3. ASSUME NEW h \in Handoffs, Escalate(h) \/ AskConsent(h) PROVE NoticeInv'
  BY <1>3, QueueKeeps DEF Escalate, AskConsent
<1>4. ASSUME NEW h \in Handoffs, AdvisorTakes(h) PROVE NoticeInv'
  <2>1. CASE UNCHANGED <<rec, storePart, jobPart, unsavedPart, told, blind>>
    BY <1>1, <2>1
  <2>2. CASE Fresh(h) /\ Queue(h, [kind |-> "agent", count |-> count + 1, escalated |-> FALSE, cancelled |-> TRUE])
    BY <2>2, QueueKeeps
  <2>. QED BY <1>4, <2>1, <2>2 DEF AdvisorTakes
<1>5. CASE ReleaseToAI \/ UNCHANGED noticeVars
  BY <1>1, <1>5 DEF ReleaseToAI, noticeVars, sessionPart
<1>. QED BY <1>2, <1>3, <1>4, <1>5, UnsavedKeeps, JobKeeps, FlushesKeep, CommitKeeps, AfterCommitKeeps, RestartKeeps
     DEF NoticeNext, Flushes

\* The two notices of a handoff, the job's and the unsaved one, come to one (notify/handoff.ts,
\* jobs/notify.ts): the group is told at most once of each, and once more for every sending of the
\* unsaved notice that began with its job already in the table, and for every exit that came
\* between a send and the record of it.
THEOREM NoticedOnceHolds == NoticeSpec => []NoticedOnce
<1>1. NoticeInit => NoticeInv
  BY NoticeInvInit
<1>2. NoticeInv /\ [NoticeNext]_noticeVars => NoticeInv'
  BY NoticeInvNext
<1>3. ASSUME NoticeInv PROVE NoticedOnce
  <2>1. ASSUME NEW h \in Handoffs PROVE told[h] <= 1 + blind[h]
    BY <1>3, NoticeValues DEF NoticeFits, OneTooFew, OnItsWay
  <2>. QED BY <2>1 DEF NoticedOnce
<1>. QED BY <1>1, <1>2, <1>3, PTL DEF NoticeSpec
=============================================================================
