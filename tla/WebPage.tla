------------------------------ MODULE WebPage ------------------------------
(***************************************************************************)
(* The page (src/web/src/App.tsx): the selected snapshot and object, the   *)
(* list of objects that a search finds in the snapshot, loaded page by     *)
(* page, the lineage of the selected object, and the refresh that captures *)
(* the snapshot again and repeats the lineage. Calls overlap and are       *)
(* answered in any order or fail; a number tells the latest call of a kind *)
(* from late ones.                                                         *)
(*                                                                         *)
(* An action is a handler, a timer or what follows an await, with the      *)
(* rendering and the effects after it. selectionRef then equals the        *)
(* selection, and "latest" stands for: the number of the call is still the *)
(* one in the ref. The seven analyses are guarded alike; the lineage       *)
(* stands for them, and opening the captured object from a search for the  *)
(* refresh. Not covered: settings, repository, scope and glossary, the     *)
(* objects' details; captures that are not guarded.                        *)
(***************************************************************************)
EXTENDS Integers, FiniteSets, Sequences, SequencesExt

CONSTANTS Snapshots, Objects,
          Searches,      \* search texts and type filters
          Found,         \* [snapshot -> [search -> the objects it finds, in their order]]
          PageSize,      \* how many objects a call asks for
          First,         \* the snapshot that is selected at the start
          Captured,      \* snapshots that a refresh captures
          NoObject, NoLineage,
          MaxCalls       \* how many calls of a kind are under way at once

ASSUME PageAssumption ==
    /\ NoObject \notin Objects
    /\ First \in Snapshots /\ Captured \subseteq Snapshots \ {First}
    /\ Found \in [Snapshots -> [Searches -> Seq(Objects)]]
    /\ PageSize \in Nat \ {0} /\ MaxCalls \in Nat \ {0}

VARIABLES
    snapshot, object,   \* selectedSnapshotId, selectedObjectId
    hidden,             \* allowHiddenSelection
    search,             \* catalogQuery and objectType
    timer,              \* the list is going to be asked for
    objects, listedOf,  \* the list and objectsSnapshotId
    cursor,             \* how many objects the next page comes after, or 0: there is none
    stale,              \* the latest call for the list has failed
    lineage,            \* of which snapshot and object a lineage is shown
    busy,
    known,              \* snapshots that exist
    lists, analyses     \* calls under way

selection == <<snapshot, object, hidden>>
list == <<objects, listedOf, cursor, stale>>
pageVars == <<selection, search, timer, list, lineage, busy, known, lists, analyses>>

Current == IF listedOf = snapshot THEN objects ELSE <<>>

Late(calls) == {[c EXCEPT !.latest = FALSE] : c \in calls}

Idle(kinds) == busy' = IF busy \in kinds THEN "" ELSE busy

AnalysisKinds == {"lineage", "refresh"}

(* The effect of a list that does not hold the selected object.             *)
Hides(items, obj, hid) == items # <<>> /\ obj \notin ToSet(items) /\ ~(hid /\ obj # NoObject)

Select(items, obj, hid) ==
    /\ object' = IF Hides(items, obj, hid) THEN Head(items) ELSE obj
    /\ hidden' = IF items # <<>> /\ obj = NoObject THEN FALSE ELSE hid

ShowIfKept(items, obj, hid, shown) ==
    lineage' = IF Hides(items, obj, hid) /\ obj # NoObject THEN NoLineage ELSE shown

Empty(s) ==
    /\ objects' = <<>> /\ listedOf' = s /\ cursor' = 0 /\ stale' = FALSE
    /\ lists' = Late(lists)

PageInit ==
    /\ snapshot = First /\ object = NoObject /\ hidden = FALSE
    /\ search \in Searches
    /\ timer = TRUE
    /\ objects = <<>> /\ listedOf = First /\ cursor = 0 /\ stale = FALSE
    /\ lineage = NoLineage
    /\ busy = ""
    /\ known = Snapshots \ Captured
    /\ lists = {} /\ analyses = {}

-----------------------------------------------------------------------------
(* The list of objects.                                                     *)

Search(q) ==
    /\ q # search
    /\ search' = q
    /\ timer' = TRUE
    /\ Select(Current, object, FALSE)
    /\ ShowIfKept(Current, object, FALSE, lineage)
    /\ UNCHANGED <<snapshot, list, busy, known, lists, analyses>>

AskList(from) ==
    /\ Cardinality(lists) < MaxCalls
    /\ lists' = Late(lists) \cup
                {[snapshot |-> snapshot, search |-> search, from |-> from, latest |-> TRUE]}
    /\ busy' = "catalog"

TimerFires ==
    /\ timer
    /\ AskList(0)
    /\ timer' = FALSE
    /\ UNCHANGED <<selection, search, list, lineage, known, analyses>>

LoadMore ==
    /\ listedOf = snapshot /\ cursor # 0 /\ busy # "catalog"
    /\ AskList(cursor)
    /\ UNCHANGED <<selection, search, timer, list, lineage, known, analyses>>

LatestOfAnySearch(c) == c.snapshot = snapshot    \* mutant: the number is not looked at

LatestList(c) == c.latest /\ c.snapshot = snapshot

(* list_objects: the objects behind the first c.from, one page of them.     *)
FoundBy(c) == Found[c.snapshot][c.search]

PageOf(c) ==
    LET last == IF c.from + PageSize < Len(FoundBy(c)) THEN c.from + PageSize ELSE Len(FoundBy(c))
    IN  SubSeq(FoundBy(c), c.from + 1, last)

NextPage(c) == IF c.from + PageSize < Len(FoundBy(c)) THEN c.from + PageSize ELSE 0

ListAnswered(c) ==
    LET items == IF c.from = 0 THEN PageOf(c) ELSE objects \o PageOf(c) IN
    /\ c \in lists /\ LatestList(c)
    /\ objects' = items /\ listedOf' = c.snapshot
    /\ cursor' = NextPage(c)
    /\ stale' = (stale /\ c.from # 0)
    /\ lists' = lists \ {c}
    /\ Idle({"catalog"})
    /\ Select(items, object, hidden)
    /\ ShowIfKept(items, object, hidden, lineage)
    /\ UNCHANGED <<snapshot, search, timer, known, analyses>>

ListFailed(c) ==
    /\ c \in lists /\ LatestList(c)
    /\ stale' = TRUE
    /\ lists' = lists \ {c}
    /\ Idle({"catalog"})
    /\ UNCHANGED <<selection, search, timer, objects, listedOf, cursor, lineage, known, analyses>>

ListTooLate(c) ==
    /\ c \in lists /\ ~LatestList(c)
    /\ lists' = lists \ {c}
    /\ UNCHANGED <<selection, search, timer, list, lineage, busy, known, analyses>>

-----------------------------------------------------------------------------
(* Choosing.                                                                *)

ChooseSnapshot(s) ==
    /\ s \in known \ {snapshot}
    /\ snapshot' = s /\ object' = NoObject /\ hidden' = FALSE
    /\ Empty(s)
    /\ timer' = TRUE
    /\ analyses' = Late(analyses)
    /\ lineage' = NoLineage
    /\ Idle({"catalog"} \cup AnalysisKinds)
    /\ UNCHANGED <<search, known>>

ChooseObject(o) ==
    /\ o \in ToSet(Current)
    /\ object' = o /\ hidden' = FALSE
    /\ analyses' = Late(analyses)
    /\ lineage' = NoLineage
    /\ Idle(AnalysisKinds)
    /\ UNCHANGED <<snapshot, search, timer, list, known, lists>>

(* A node of the lineage that is shown; the lineage stays.                  *)
ChooseNode(o) ==
    /\ lineage # NoLineage
    /\ object' = o /\ hidden' = TRUE
    /\ analyses' = Late(analyses)
    /\ Idle(AnalysisKinds)
    /\ UNCHANGED <<snapshot, search, timer, list, lineage, known, lists>>

-----------------------------------------------------------------------------
(* The lineage.                                                             *)

AskAnalysis(stage) ==
    /\ Cardinality(analyses) < MaxCalls
    /\ analyses' = Late(analyses) \cup
                   {[stage |-> stage, snapshot |-> snapshot, object |-> object, latest |-> TRUE]}

RunLineage ==
    /\ object # NoObject /\ busy # "lineage"
    /\ AskAnalysis("lineage")
    /\ busy' = "lineage"
    /\ UNCHANGED <<selection, search, timer, list, lineage, known, lists>>

LatestAnalysis(c) == c.latest /\ c.snapshot = snapshot /\ c.object = object

Show(c) == lineage' = [snapshot |-> c.snapshot, object |-> c.object]

LineageAnswered(c) ==
    /\ c \in analyses /\ c.stage = "lineage"
    /\ LatestAnalysis(c)
    /\ Show(c) \/ UNCHANGED lineage    \* the call may fail
    /\ busy' = ""
    /\ analyses' = analyses \ {c}
    /\ UNCHANGED <<selection, search, timer, list, known, lists>>

LineageTooLate(c) ==
    /\ c \in analyses /\ c.stage = "lineage"
    /\ ~LatestAnalysis(c)
    /\ analyses' = analyses \ {c}
    /\ UNCHANGED <<selection, search, timer, list, lineage, busy, known, lists>>

-----------------------------------------------------------------------------
(* The refresh: capture, reload the snapshots, select the new one, repeat.  *)

Refresh ==
    /\ busy # "refresh"
    /\ AskAnalysis("capture")
    /\ busy' = "refresh"
    /\ UNCHANGED <<selection, search, timer, list, lineage, known, lists>>

(* s is in the store, whether its refresh is still of interest or not.      *)
RefreshCaptured(c, s) ==
    /\ c \in analyses /\ c.stage = "capture"
    /\ s \in Captured \ known
    /\ known' = known \cup {s}
    /\ IF c.latest
       THEN /\ analyses' = (analyses \ {c}) \cup {[c EXCEPT !.stage = "reload", !.snapshot = s]}
            /\ UNCHANGED busy
       ELSE analyses' = analyses \ {c} /\ Idle({"refresh"})
    /\ UNCHANGED <<selection, search, timer, list, lineage, lists>>

KeepLineage(c) == UNCHANGED lineage    \* mutant

ForgetLineage(c) == lineage' = NoLineage    \* clearRenderedAnalysisStateForRefresh

RefreshReloaded(c) ==
    /\ c \in analyses /\ c.stage = "reload" /\ c.latest
    /\ snapshot' = c.snapshot
    /\ Empty(c.snapshot)
    /\ timer' = TRUE
    /\ ForgetLineage(c)
    /\ IF c.object = NoObject
       THEN /\ analyses' = Late(analyses \ {c})
            /\ busy' = IF busy \in {"catalog", "refresh"} THEN "" ELSE busy
            /\ UNCHANGED <<object, hidden>>
       ELSE /\ analyses' = Late(analyses \ {c}) \cup {[c EXCEPT !.stage = "repeat"]}
            /\ object' = c.object /\ hidden' = TRUE
            /\ Idle({"catalog"})
    /\ UNCHANGED <<search, known>>

RefreshRepeated(c) ==
    /\ c \in analyses /\ c.stage = "repeat"
    /\ IF LatestAnalysis(c) THEN Show(c) ELSE UNCHANGED lineage
    /\ Idle({"refresh"})
    /\ analyses' = analyses \ {c}
    /\ UNCHANGED <<selection, search, timer, list, known, lists>>

(* A call of it failed, or it is of no interest any more.                   *)
RefreshEnds(c) ==
    /\ c \in analyses /\ c.stage \in {"capture", "reload", "repeat"}
    /\ Idle({"refresh"})
    /\ analyses' = analyses \ {c}
    /\ UNCHANGED <<selection, search, timer, list, lineage, known, lists>>

-----------------------------------------------------------------------------
Others ==
    \/ \E q \in Searches : Search(q)
    \/ TimerFires
    \/ \E c \in lists : ListAnswered(c) \/ ListFailed(c) \/ ListTooLate(c)
    \/ \E s \in Snapshots : ChooseSnapshot(s)
    \/ \E o \in Objects : ChooseObject(o) \/ ChooseNode(o)
    \/ RunLineage \/ Refresh
    \/ \E c \in analyses :
         \/ LineageAnswered(c) \/ LineageTooLate(c)
         \/ \E s \in Snapshots : RefreshCaptured(c, s)
         \/ RefreshReloaded(c) \/ RefreshRepeated(c) \/ RefreshEnds(c)

PageNext == Others \/ LoadMore

PageSpec == PageInit /\ [][PageNext]_pageVars

Quiet == ~timer /\ lists = {}

(* The user asks for more of a list only when no other list is asked for.   *)
PatientSpec == PageInit /\ [][Others \/ (Quiet /\ LoadMore)]_pageVars

-----------------------------------------------------------------------------
(* What the search finds before the cursor, or all of it.                   *)
Loaded ==
    LET found == Found[snapshot][search] IN
    IF cursor = 0 THEN found ELSE SubSeq(found, 1, cursor)

(* When no call for the list is under way and the last one did not fail,    *)
(* the list shows what the search finds in the selected snapshot, from its  *)
(* beginning, each page once and in order: whatever late answers of other   *)
(* searches, pages and snapshots came in between.                           *)
ListIsOfTheSearch == Quiet /\ ~stale => listedOf = snapshot /\ objects = Loaded

(* A lineage is shown only of the selected snapshot, also when a refresh    *)
(* selects another one while analyses and captures are under way.           *)
LineageIsOfTheSnapshot == lineage # NoLineage => lineage.snapshot = snapshot
=============================================================================
