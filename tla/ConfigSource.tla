----------------------------- MODULE ConfigSource -----------------------------
(***************************************************************************)
(* The configuration a process serves (config/source.ts) and the ways to   *)
(* change it: drafts, publication and rollback of the SOP (config/sop.ts), *)
(* the gate before a publication (config/gate.ts) and items of the         *)
(* catalogue (config/catalog.ts).  Writers take turns by the tenant's      *)
(* configuration lock in the database; what was committed is put into the  *)
(* cache when its answer comes; if the answer is lost, everything is read  *)
(* again.                                                                  *)
(*                                                                         *)
(* A version is the text of its editable sections and the image it was     *)
(* rendered with: the locked sections, which its promptHash covers as it   *)
(* does the text, and the tools, which have a hash of their own.           *)
(* Revisions stand for drafts, as no two drafts share one (nextDraftRev).   *)
(* One item stands for the catalogue.  Policy, contract checks and         *)
(* sandboxes are left out; SOP_GATE is "required".                         *)
(***************************************************************************)
EXTENDS Naturals, Sequences

CONSTANTS
    Sections,       \* the editable sections
    Texts,          \* what a section may say
    Plain,          \* the text every section was imported with
    Images,         \* images of the process: their locked sections and tools
    FirstImage,     \* the one the first version was imported with
    MaxDrafts,        \* bound: revisions of drafts
    MaxVersions,    \* bound: published versions
    MaxItems,       \* bound: versions of the item
    MaxGates,       \* bound: runs of the gate
    MaxMistakes     \* bound: answers lost, commits in doubt, restarts

ASSUME ConfigAssumption ==
    /\ Plain \in Texts
    /\ Images \subseteq [locked : Nat, tools : Nat] /\ FirstImage \in Images

VARIABLES
    cfg,        \* the database: versions, the draft, its highest rev, the item's version
    limbo,      \* a commit that lost its client: what it would make of cfg
    active,     \* the gate's run that is queued or running
    passed,     \* the runs that passed
    runs,       \* how many there were
    image,      \* of the process
    answers,    \* commits whose answer is on its way
    served,      \* what the process serves: the SOP's version and the item's
    stale,      \* sopStale, catalogStale
    reload,     \* state.reloading: none, due (about to read), or what was read
    again,      \* reloadAgain
    moved,      \* catalogWrites is no longer what it was before the read
    screen,     \* a draft somebody has left on the screen
    asked,      \* ghost: the draft the last request to publish was about
    unseen,     \* ghost: a commit in doubt landed behind the read that was to see it
    mistakes

servedVars == <<served, stale, reload, again, moved>>
gateRuns == <<active, passed, runs>>
editors == <<screen, asked>>
configVars == <<cfg, limbo, gateRuns, image, answers, servedVars, editors, unseen, mistakes>>

NoDraft == [rev |-> 0, base |-> 0, text |-> <<>>]
NoRun == [rev |-> 0, prompt |-> <<>>, tools |-> 0, at |-> 0, ours |-> TRUE]
NoReload == [sop |-> 0, item |-> 0, at |-> "none"]
Due == [NoReload EXCEPT !.at = "due"]
Clean == [sop |-> FALSE, item |-> FALSE]
Stale == [sop |-> TRUE, item |-> TRUE]

Version(text, img, by) == [text |-> text, image |-> img, by |-> by]
Imported == [s \in Sections |-> Plain]

ConfigInit ==
    /\ cfg = [versions |-> <<Version(Imported, FirstImage, "import")>>, draft |-> NoDraft, revs |-> 0, item |-> 1]
    /\ limbo = {} /\ active = NoRun /\ passed = {} /\ runs = 0 /\ image = FirstImage /\ answers = {}
    /\ served = [sop |-> 1, item |-> 1] /\ stale = Clean
    /\ reload = NoReload /\ again = FALSE /\ moved = FALSE
    /\ screen = NoDraft /\ asked = NoDraft /\ unseen = FALSE /\ mistakes = 0

Mistake == mistakes < MaxMistakes /\ mistakes' = mistakes + 1

Latest == Len(cfg.versions)
Online == cfg.versions[Latest]

\* What promptHash is of; the tools are not in it.
Prompt(text) == [text |-> text, locked |-> image.locked]

-----------------------------------------------------------------------------
(* A write and its commit *)

\* reloadFromDb: one at a time, once more if asked meanwhile.
CallReload ==
    /\ stale' = Stale
    /\ IF reload = NoReload THEN reload' = Due /\ moved' = FALSE /\ UNCHANGED again
       ELSE again' = TRUE /\ UNCHANGED <<reload, moved>>

\* write(): under the configuration lock; when the connection breaks at the
\* COMMIT its outcome is open, and the lock stays taken until it is known.
Writes(next, answer) ==
    /\ limbo = {}
    /\ \/ /\ cfg' = next /\ answers' = answers \cup answer
          /\ UNCHANGED <<limbo, servedVars, mistakes>>
       \/ /\ Mistake /\ limbo' = {next} /\ CallReload
          /\ UNCHANGED <<cfg, answers, served>>
    /\ UNCHANGED <<gateRuns, image, unseen>>

LimboLands ==
    /\ limbo # {}
    /\ cfg' = (CHOOSE next \in limbo : TRUE) /\ limbo' = {}
    /\ unseen' = (unseen \/ ~(reload = Due \/ again))
    /\ UNCHANGED <<gateRuns, image, answers, servedVars, editors, mistakes>>

LimboFails ==
    /\ limbo # {} /\ limbo' = {}
    /\ UNCHANGED <<cfg, gateRuns, image, answers, servedVars, editors, unseen, mistakes>>

\* Mutant: an answer that came late takes the process back.
Answered_Late(a) ==
    /\ answers' = answers \ {a}
    /\ IF a.what = "sop"
       THEN served' = [served EXCEPT !.sop = a.no] /\ stale' = [stale EXCEPT !.sop = FALSE] /\ UNCHANGED moved
       ELSE served' = [served EXCEPT !.item = a.no] /\ moved' = TRUE /\ UNCHANGED stale
    /\ UNCHANGED <<cfg, limbo, gateRuns, image, reload, again, editors, unseen, mistakes>>

\* replacePublishedSop (only to a newer version) and applyCatalogRow.
Answered(a) ==
    /\ answers' = answers \ {a}
    /\ IF a.what = "sop"
       THEN /\ IF a.no > served.sop
               THEN served' = [served EXCEPT !.sop = a.no] /\ stale' = [stale EXCEPT !.sop = FALSE]
               ELSE UNCHANGED <<served, stale>>
            /\ UNCHANGED moved
       ELSE served' = [served EXCEPT !.item = a.no] /\ moved' = TRUE /\ UNCHANGED stale
    /\ UNCHANGED <<cfg, limbo, gateRuns, image, reload, again, editors, unseen, mistakes>>

AnswerLost(a) ==
    /\ Mistake /\ answers' = answers \ {a} /\ CallReload
    /\ UNCHANGED <<cfg, limbo, gateRuns, image, served, editors, unseen>>

-----------------------------------------------------------------------------
(* Drafts *)

Edited(text, keys, t) == [s \in Sections |-> IF s \in keys THEN t ELSE text[s]]

\* Mutant: every draft starts at revision one.
NewDraft_One(base, text) == [rev |-> 1, base |-> base, text |-> text]

\* insertDraft: nextDraftRev, behind every draft there was.
NewDraft(base, text) == [rev |-> cfg.revs + 1, base |-> base, text |-> text]

\* The update's trigger counts the revision up.
NextDraft(base, text) == [rev |-> cfg.draft.rev + 1, base |-> base, text |-> text]

SavesDraft(d) ==
    /\ cfg.revs < MaxDrafts
    /\ Writes([cfg EXCEPT !.draft = d, !.revs = IF d.rev > cfg.revs THEN d.rev ELSE cfg.revs], {})
    /\ UNCHANGED editors

\* Bound: one draft is left open; everybody else looks just before they act.
Open == /\ cfg.draft # NoDraft /\ screen = NoDraft /\ screen' = cfg.draft
        /\ UNCHANGED <<cfg, limbo, gateRuns, image, answers, servedVars, asked, unseen, mistakes>>

OnScreen == {screen, cfg.draft} \ {NoDraft}

\* The draft that c shows is still the draft.
StillDraft(c) == cfg.draft # NoDraft /\ cfg.draft.rev = c.rev

FirstSave(keys, t) ==
    /\ cfg.draft = NoDraft
    /\ SavesDraft(NewDraft(Latest, Edited(Online.text, keys, t)))

SaveSopDraft(c, keys, t) ==
    /\ StillDraft(c)
    /\ SavesDraft(NextDraft(cfg.draft.base, Edited(cfg.draft.text, keys, t)))

\* rebase: the sections changed online since the draft was begun, and those
\* of them that the draft changes as well.
Base == cfg.versions[cfg.draft.base].text
Upstream == {s \in Sections : Base[s] # Online.text[s]}

\* Mutant: a section both have changed is not a conflict.
Conflicts_None == {}

Conflicts == {s \in Upstream : Base[s] # cfg.draft.text[s]}
Rebased == [s \in Sections |-> IF s \in Upstream THEN Online.text[s] ELSE cfg.draft.text[s]]

\* With rebaseOnto: what both have changed must be among the edits.
MergeSopDraft(c, keys, t) ==
    /\ StillDraft(c) /\ Conflicts \subseteq keys
    /\ SavesDraft(NextDraft(Latest, Edited(Rebased, keys, t)))

DiscardSopDraft(c) ==
    /\ StillDraft(c)
    /\ Writes([cfg EXCEPT !.draft = NoDraft, !.revs = cfg.draft.rev + 1], {})
    /\ UNCHANGED editors

-----------------------------------------------------------------------------
(* Publication and rollback *)

Publishes(v, draft, revs) ==
    /\ Latest < MaxVersions
    /\ Writes([cfg EXCEPT !.versions = Append(cfg.versions, v), !.draft = draft, !.revs = revs],
              {[what |-> "sop", no |-> Latest + 1]})

\* Mutant: a run of the same draft will do, whatever it judged.
Judged_AnyPrompt == \E r \in passed : r.rev = cfg.draft.rev

\* A run of this very draft that passed with the prompt as it would be rendered
\* now (draftRev and promptHash), under whatever tools.
Judged == \E r \in passed : r.rev = cfg.draft.rev /\ r.prompt = Prompt(Rebased)

PublishSopDraft(c, by) ==
    /\ StillDraft(c) /\ Conflicts = {} /\ (by = "console" => Judged)
    /\ Publishes(Version(Rebased, image, by), NoDraft, cfg.draft.rev + 1)
    /\ asked' = c /\ UNCHANGED screen

RollbackSop(n) ==
    /\ Publishes(Version(cfg.versions[n].text, image, "rollback"), cfg.draft, cfg.revs)
    /\ UNCHANGED editors

\* Bound: an item is written again when the answer of the last write is there.
SaveItem ==
    /\ cfg.item < MaxItems /\ ~\E a \in answers : a.what = "item"
    /\ Writes([cfg EXCEPT !.item = cfg.item + 1], {[what |-> "item", no |-> cfg.item + 1]})
    /\ UNCHANGED editors

-----------------------------------------------------------------------------
(* The gate *)

\* The draft is captured under the configuration lock, the long run is not.
StartGate ==
    /\ limbo = {} /\ active = NoRun /\ runs < MaxGates
    /\ cfg.draft # NoDraft /\ Conflicts = {}
    /\ \E ours \in BOOLEAN :
        /\ active' = [rev |-> cfg.draft.rev, prompt |-> Prompt(Rebased), tools |-> image.tools,
                       at |-> Latest, ours |-> ours]
        /\ IF ours THEN UNCHANGED mistakes ELSE Mistake
    /\ runs' = runs + 1
    /\ UNCHANGED <<cfg, limbo, passed, image, answers, servedVars, editors, unseen>>

\* A run whose insertion was not answered is nobody's, and so is one whose
\* result could not be written: it waits for a restart.
GateEnds(pass) ==
    /\ active # NoRun /\ active.ours
    /\ active' = NoRun /\ passed' = IF pass THEN passed \cup {active} ELSE passed
    /\ UNCHANGED <<cfg, limbo, runs, image, answers, servedVars, editors, unseen, mistakes>>

GateUnwritten ==
    /\ active.ours /\ active # NoRun /\ Mistake
    /\ active' = [active EXCEPT !.ours = FALSE]
    /\ UNCHANGED <<cfg, limbo, passed, runs, image, answers, servedVars, editors, unseen>>

-----------------------------------------------------------------------------
(* Reading again *)

\* reloadOnce, its repeatable-read snapshot.
ReadDb ==
    /\ reload = Due
    /\ reload' = [sop |-> Latest, item |-> cfg.item, at |-> "read"]
    /\ unseen' = FALSE
    /\ UNCHANGED <<cfg, limbo, gateRuns, image, answers, served, stale, again, moved, editors, mistakes>>

Newer(n, m) == IF n > m THEN n ELSE m

\* Mutant: a write of the catalogue that came meanwhile is not looked at.
ReloadLands_Blind ==
    /\ reload.at = "read"
    /\ served' = [sop |-> Newer(reload.sop, served.sop), item |-> reload.item] /\ stale' = Clean
    /\ reload' = IF again THEN Due ELSE NoReload
    /\ again' = FALSE /\ moved' = FALSE
    /\ UNCHANGED <<cfg, limbo, gateRuns, image, answers, editors, unseen, mistakes>>

\* Read once more if the catalogue's cache was written meanwhile.
ReloadLands ==
    /\ reload.at = "read"
    /\ IF moved THEN UNCHANGED <<served, stale>>
       ELSE served' = [sop |-> Newer(reload.sop, served.sop), item |-> reload.item] /\ stale' = Clean
    /\ reload' = IF moved \/ again THEN Due ELSE NoReload
    /\ again' = FALSE /\ moved' = FALSE
    /\ UNCHANGED <<cfg, limbo, gateRuns, image, answers, editors, unseen, mistakes>>

\* initConfig: a new image, be it of tools alone, renders the SOP again
\* (writeRerender), runs of the gate are given up, and catalog-fix may have run
\* in between.
ConfigRestart(img, fixed) ==
    /\ Mistake /\ (limbo = {} \/ (img = Online.image /\ ~fixed))
    /\ image' = img
    /\ LET rerendered == Version(Online.text, img, "rerender")
           versions == IF img = Online.image THEN cfg.versions ELSE Append(cfg.versions, rerendered)
       IN  /\ Len(versions) <= MaxVersions
           /\ cfg' = [cfg EXCEPT !.versions = versions, !.item = IF fixed THEN cfg.item + 1 ELSE cfg.item]
    /\ cfg'.item <= MaxItems
    /\ served' = [sop |-> Len(cfg'.versions), item |-> cfg'.item]
    /\ stale' = Clean /\ reload' = NoReload /\ again' = FALSE /\ moved' = FALSE
    /\ answers' = {} /\ active' = NoRun /\ unseen' = FALSE
    /\ UNCHANGED <<limbo, passed, runs, editors>>

\* Bound: a save edits one section; a merge those in conflict, or one.
Edits == {{s} : s \in Sections} \cup IF cfg.draft = NoDraft THEN {} ELSE {Conflicts}

ConfigNext ==
    \/ \E keys \in Edits, t \in Texts :
        FirstSave(keys, t) \/ \E c \in OnScreen : SaveSopDraft(c, keys, t) \/ MergeSopDraft(c, keys, t)
    \/ \E c \in OnScreen : DiscardSopDraft(c) \/ \E by \in {"console", "override"} : PublishSopDraft(c, by)
    \/ \E n \in 1..Latest : RollbackSop(n)
    \/ Open \/ SaveItem
    \/ \E a \in answers : Answered(a) \/ AnswerLost(a)
    \/ LimboLands \/ LimboFails
    \/ StartGate \/ \E pass \in BOOLEAN : GateEnds(pass)
    \/ GateUnwritten \/ ReadDb \/ ReloadLands
    \/ \E img \in Images, fixed \in BOOLEAN : ConfigRestart(img, fixed)

ConfigSpec == ConfigInit /\ [][ConfigNext]_configVars

-----------------------------------------------------------------------------
(* Properties *)

\* What a process serves is what was committed last, by whichever way it
\* learned of it: answers and reads that cross do not undo each other, and the
\* version served never goes back (invariant 13).  When no answer is awaited
\* and nothing is read again the process serves what the database holds, and
\* says so (`write' of sop.ts: so that the cache does not differ from the
\* database); except for what a commit in doubt did after the read that was to
\* find out.
ServedIsCurrent ==
    /\ [](answers = {} /\ limbo = {} /\ reload = NoReload /\ ~unseen =>
            served = [sop |-> Latest, item |-> cfg.item] /\ stale = Clean)
    /\ [][image' = image => served'.sop >= served.sop]_configVars

Published == Latest' > Latest /\ Online'.by \in {"console", "override"}

\* What a publisher's screen shows as changed goes online, and nobody else
\* changed it meanwhile; every other section stays as it is: no change is lost
\* or taken back unseen.
NothingOverwritten ==
    [][Published =>
        \A s \in Sections :
            LET base == cfg.versions[asked'.base].text[s]
                mine == asked'.text[s]
            IN  /\ Online'.text[s] = IF mine = base THEN Online.text[s] ELSE mine
                /\ mine = base \/ Online.text[s] = base]_configVars

\* Between version i and version n the SOP was rendered again for a new image.
Rerendered(i, n) == \E m \in (i + 1)..(n - 1) : cfg.versions[m].by = "rerender"

\* What is published without an owner's override passed the gate: the very text,
\* with these locked sections; and under the same tools, unless a new image has
\* been put online since the run was started, which is judged by nobody.
OnlineWasJudged ==
    \A n \in 1..Latest : LET v == cfg.versions[n] IN
        v.by = "console" =>
            \E r \in passed :
                /\ r.prompt = [text |-> v.text, locked |-> v.image.locked]
                /\ r.tools = v.image.tools \/ Rerendered(r.at, n)

\* The prompt that goes online was judged as it is, unless an owner overrides the
\* gate, and takes nobody's change back unseen, however drafts, merges, rollbacks
\* and new images came in between.
PublishIsSound == []OnlineWasJudged /\ NothingOverwritten
=============================================================================
