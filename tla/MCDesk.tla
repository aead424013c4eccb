------------------------------- MODULE MCDesk -------------------------------
(***************************************************************************)
(* TLC's instances of what serves the advisors: HumanReply, HandoffNotice, *)
(* EventStream and ConfigSource.  They share no state; the initial state   *)
(* chooses one of them (part) and the others stay as they begin, so that a *)
(* behaviour is one of that component and every property is about all four.*)
(***************************************************************************)
EXTENDS HumanReply, HandoffNotice, EventStream, ConfigSource, TLC

CONSTANTS r1, r2, r3, f1, a1, a2, c1, c2, s1, s2

\* A first image, one of other locked sections and one of other tools.
First == [locked |-> 1, tools |-> 1]
MCImages == {First, [locked |-> 2, tools |-> 1], [locked |-> 1, tools |-> 2]}

VARIABLE part       \* the component of this behaviour

Author == (r1 :> a1) @@ (r2 :> a1) @@ (r3 :> a2)
Client == (r1 :> c1) @@ (r2 :> c1) @@ (r3 :> c2)

MCInit ==
    /\ part \in {"reply", "notice", "events", "config"}
    /\ ReplyInit /\ NoticeInit /\ EventInit /\ ConfigInit

Bit(b) == IF b THEN 1 ELSE 0

\* Bound: three replies and follow-ups at a time, and four of the rare events.
FewReplies ==
    /\ Cardinality({i \in Items : step[i] # "idle"}) <= 3
    /\ window + gen + Bit(shut) + Bit(store # "ok") + Bit(~serving)
        + expired[c1] + Bit(\E c \in Clients : expired[c] > 0)
        + Cardinality({i \in Items : row[i] = "refused"}) <= 4

\* Bound: up to four drafts and versions with nothing going wrong, or one draft
\* of one section and three versions with everything that may.
Smooth ==
    /\ mistakes' = 0 /\ runs' = 0 /\ cfg'.item = 1
    /\ answers = {} \/ answers' = {}
Rough ==
    /\ cfg.revs <= IF cfg.draft = NoDraft THEN 2 ELSE 1
    /\ Latest <= 3 /\ Cardinality(answers) <= 1 /\ screen = NoDraft
    /\ cfg.draft # NoDraft => cfg.draft.text[s2] = Plain

MCNext ==
    /\ \/ part = "reply" /\ ReplyNext /\ FewReplies' /\ UNCHANGED <<noticeVars, eventVars, configVars>>
       \/ part = "notice" /\ NoticeNext /\ UNCHANGED <<replyVars, eventVars, configVars>>
       \/ part = "events" /\ EventNext /\ UNCHANGED <<replyVars, noticeVars, configVars>>
       \/ part = "config" /\ ConfigNext /\ (Smooth \/ Rough') /\ UNCHANGED <<replyVars, noticeVars, eventVars>>
    /\ UNCHANGED part

\* Each wait of a reply has its timeout, and so has a push to the channel.
ReplyFairness == \A i \in Items : WF_replyVars(part = "reply" /\ Proceeds(i))

\* The write queue flushes, the timer fires, the runner claims and reports.
NoticeFairness ==
    /\ WF_noticeVars(part = "notice" /\ Flushes)
    /\ \A h \in Handoffs :
        /\ WF_noticeVars(part = "notice" /\ UnsavedProceeds(h))
        /\ WF_noticeVars(part = "notice" /\ JobProceeds(h))

\* A browser receives what was sent, polls by its timer, and its requests end.
EventFairness ==
    /\ WF_eventVars(part = "events" /\ Deliver)
    /\ WF_eventVars(part = "events" /\ Receive)
    /\ WF_eventVars(part = "events" /\ (GraceExpires \/ Poll))
    /\ WF_eventVars(part = "events" /\ (ServerReads \/ FetchLands))

MCSpec ==
    /\ MCInit /\ [][MCNext]_<<replyVars, noticeVars, eventVars, configVars, part>>
    /\ ReplyFairness /\ NoticeFairness /\ EventFairness
=============================================================================
