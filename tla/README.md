# Verification of bw-lineage-impact

TLA+ models of the backend in `src/src/bwli` and of the page in `src/web/src`, checked with TLC on small instances,
with proofs for the TLA+ proof system (TLAPS). Source lines are given as
`file:line` relative to `src/src/bwli` unless a path is written out.

## The system

bw-lineage-impact is a local web application: a FastAPI backend (one process, its
synchronous handlers run in a thread pool), a SQLite catalog, a client that only
reads from a live SAP BW system, an optional local LLM, and a React page. A user
configures the BW connection, tests it, captures a *snapshot* (objects and edges
collected by read-only calls, or taken from a fixture or manifest), and then asks
for lineage, impact and reviews of that snapshot.

| part | state it keeps | operations | hard behaviour | what makes it correct |
|---|---|---|---|---|
| runtime configuration (`server.py` 137-218, 655-790, 1349-1850) | one `RuntimeConfigState` shared by all threads, the file `.env` | PUT, DELETE (two API versions), connection test, gate of live calls | no lock anywhere; a test takes seconds; `.env` is read, edited, replaced; crash between file and memory | live calls only to a tested system; a save survives a restart; the redaction marker never reaches disk |
| capture (`server.py` 1936-2146) | rows of one snapshot | three transactions, compensating delete | failure or crash between two transactions, failing compensation | all or nothing; an error leaves nothing |
| catalog store (`store/catalog.py`) | SQLite tables | create, replace, delete, load_graph, lists | readers between two commits; two statements per read | readers see whole catalogs; a published snapshot never changes |
| live collection and scope (`live.py`, `server.py` 1986-2440) | output directory, manifest, capture scope | one call after another, refresh | single calls fail; scope entries are matched by text; refresh rebuilds a request from them | every call accounted for; a refresh repeats its capture |
| bounded lineage (`traversal.py`) | local to a request | one breadth-first search | three limits that interact, loops, cycles, parallel edges | capped, connected, nearest first, honest about what is left out |
| impact analysis (`impact.py`, `graph.py`) | local to a request | two searches per change, lookup without default | the two searches must agree | findings are exactly the reach; evidence is a shortest path |
| BW client (`client.py`) | CSRF token with its age, cookies of three origins | discovery, session, read, one retry, fallback endpoint | the session ends at the server at any moment; time passes between requests; every answer may set cookies | reads only in a session, at most one retry, an expired session is never visible, every fetch ends |
| business glossary (`store/glossary_store.py`, `server.py` 872-920, 3334-3348) | glossary database: one row per term with the snapshot copied last and the user's decision | copy, list, count, decide; three transactions per request | requests interleave between transactions, snapshots are deleted meanwhile, a limit of 100 terms | decisions survive, the answer for a snapshot is of that snapshot, aggregates miss nothing |
| agentic review (`llm/agentic_*.py`) | local to a request | planner, policy gate, enricher, rounds of reviewer and critic, synthesis, validator | each of up to eight model calls may fail or be refused; several budgets; the time runs out | budgets kept, every completion audited, only an approved review is reported |
| ingest (`store/catalog.py` 560-2120, `dataflow.py`, `query_analysis.py`) | a catalog per payload, merged into that of the snapshot | one parser for each kind of payload, merge of objects, edges, metadata, requests | payloads tell of the same object in any order; edges are named by places in a payload; one edge without an end refuses the whole snapshot | the catalog is what was told, every edge joins objects, the latest request is the latest |
| impact review (`server.py` 2600-2850, `impact_evidence.py`) | local to a request | lineage, scenario, review, analysis of files | the graph is searched again after it was capped; queries are read one by one while the snapshot may go | what is affected is the lineage; a review is whole or refused; every request is answered |
| repository cache (`repository.py`, `server.py` 1826-1885, `store/catalog.py` 239-310) | one table of folders and children | list, replace by a live answer | replacement in many statements, list in a later connection, repeated entries, crash | a folder is one whole answer; a live answer is no older than its request |
| web page (`web/src/App.tsx`) | selection, search, list, lineage, busy flag, one request number per kind | search with a timer, load more, select, run, refresh and repeat | answers in any order or never; effects that start calls; a refresh of three awaits | the list is of the search; the lineage is of the snapshot shown |
| assistants, connection settings, command line | see the component list of `PROJECT.json` | | | not modelled |

How they interact: a capture or search passes the gate of the runtime
configuration, builds a BW client from the configuration it read there, runs the
live collection with it and stores the result in the catalog; refresh reads the
scope of a stored snapshot and captures again; lineage and impact load a graph
from the catalog and work on that copy. A glossary request copies terms from the
catalog to the glossary database; an agentic review takes the evidence of an impact
analysis and its requests of the model from one handler thread, so that it is
sequential but for the time. Ingest is a step of the catalog transaction of a
capture. The page calls all of this, several requests at once.

## Modules

### RuntimeConfig

The variables `status`, `bw` and `llm` are the fields of the shared state, `env`
the file, and each worker (a thread with a request) has its program counter, the
request, the private copy it works on and the file contents it has read. A handler
is split where another thread can intervene: a PUT copies the status, copies the
rest and decides (`PutCopyRest`, which holds `_apply_runtime_request` whole), reads
`.env`, replaces it, and publishes field by field; the connection test reads the
configuration, waits, and writes its verdict; a live call reads the configuration
twice, then the status, then calls. `Restart` is a crash at any moment. `tested`,
`called` and `saved` are history variables the properties talk about.

A BW configuration is a *setting* (all that `_bw_materially_changed` compares but
the credentials), a password and the state of the cookie file. The legacy
endpoints under `/api/live` and `/api/collect` (server.py 1259, 1277, 1308) ask only
that a configuration exists and touch none of the state: they have no action.

### CatalogCapture and SnapshotCatalog

`rows`, `counts`, `objs`, `edges` and `scope` are the tables by snapshot id; each
commit is one step. A capture goes from `created` to `catalogued` to `scoped` to
`ok`, or by `StoreFails` to `cleanup`, where the delete succeeds (`failed`) or fails
too (`stuck`); a crash leaves it `dead`. A reader looks the row up, then reads
objects and edges in two statements. `SnapshotCatalog` is the abstract
specification: a snapshot is published whole, in one step, and never changes. The
refinement mapping publishes what the tables hold for captures that were answered.

### LiveCapture

The calls a request asks for (`Plan`), their outcomes in order, the payloads
written, the manifest, and the scope entries derived by searching the names in the
labels of the calls. `Refresh` turns the entries back into a request. A name is a
model value with an upper-case form; which name begins with which is a constant
relation (`Begins`), because that decides what the text search finds, and `NameOrder` is the order in
which SQLite lists the entries. The assumption ties the two together: a text sorts before the
longer ones that it begins. The loops of the code that
pick entries out of a list or append one list to another are the recursive functions
`Taken` and `Joined`; a place in `operations` is taken when the condition of the loop holds there.

### BoundedLineage

One step is one turn of the outer loop or of the loop over neighbours, so the
interaction of the limits is modelled test by test. The query is chosen in `Init`:
one run goes through all graphs and limits of the instance. It is run as a part of
ImpactReview.

### ImpactAnalysis

`BwGraph.traverse` and `_downstream_path_evidence` step by step, for each change of
a list, then the report, which fails (a `KeyError`) when a path is missing. It is run
as a part of ImpactReview.

### ImpactReview

The requests that are answered from a stored graph. It extends BoundedLineage and
instantiates ImpactAnalysis: `stage` says whether the lineage, the analysis or the
reading of the queries is under way, and each step of a request is a step of the
module of that part. When the lineage is done, `CappedEdges` is the graph that
`_run_v1_impact_scenario` builds from it and hands to the analysis. A review then reads one
query after the other (`_query_analysis_result`: by name or id within the first
`LookupLimit` matches, without default), and `DeleteSnapshot` may remove the snapshot in
between, since nothing but the clean-up of a failed capture deletes one. The evidence
pack links each piece to a finding or names the gap.

### QueryAnalysis, IngestParsers, Ingest

`ParsePayload` is one operator for each kind of payload, and `QueryAnalysis` what is
kept of the XML of a query. A parser's result is the rows its loop goes through, so that
`Ingest` can add them one by one: to the catalog of the parser, which `MergePayload`
then merges into that of the snapshot. The merge of two records (`ResolvedType`, names,
evidence, `MergeFreshness`, the reason of an unknown object) is applied both times, as
in the code. A graph that is not closed raises.

### Repository and FolderCache

`rows` is what is committed, `draft` the transaction of `writer`. A request asks
(`Ask`, with the gate), fetches, waits for the write lock, deletes, inserts entry by
entry, commits and lists in a new connection; it may fail at the answer, at a repeated path
(`InsertFails`, which rolls back) or crash with the process. The nodes parsed out of an
answer keep their places in it, so that two entries with one path are two nodes. `current` is a history variable: the
answers that are of the time of a request. `FolderCache` is the abstract specification: a
folder changes in one step, to the children of one answer; the mapping reads `rows` as its
`kept`.

### WebPage

An action is a handler, the timer of the search field, or what follows an `await`,
with the effects React runs after it. `latest` says whether a call still has the
number in the ref; `lists` and `analyses` are the calls under way, answered
in any order. `Found` is what a search finds in a snapshot, in the order of the objects;
a call for the list is answered as `list_objects` does it, `PageSize` objects behind
the first `from`, and `cursor` is the offset that the answer named for the next one. `stale` is a history variable: the latest call for the list has failed.

### BwClient

One client with its fetches, one after the other, as the handlers use it. `pc` says
which request is under way (`discovery`, `session`, `read`); `StartFetch` looks at
the age of the token once, as `_fetch_with_fallback` does, and every answer is an
action. `age` and `Tick` are the clock, capped one above `TTL`, and `Expire` is the
BW system giving up the session; both are external. `tries`, `verdict` and
`sessions` say what the fetch has done, by endpoint. A cookie is a name and where
its value came from.

### Glossary

`stage` is a snapshot's way through capture, `catalog` its terms in the catalog;
`owner` and `lifecycle` are the rows of the glossary database, `chosen` the decision
a user took last. A worker is a thread with a request: it reads the terms of a snapshot
(`BackfillRead`), writes them (`BackfillWrite`), for an aggregate goes on with the
next snapshot of the list it took at the start, then lists or counts. Each is one
transaction. A snapshot that is missing ends a request for it and is skipped by an aggregate
(`BackfillGone`); any other error ends the request, an aggregate too (`RequestFails`).
Terms are numbers in the order in which the catalog lists them, metadata before
SQL terms, and `Cap` stands for the 100 terms that are copied. The answer is listed in the
order of the alphabet (`Rank`) up to the limit of the request (`Limits`, 50 by default), so that it need not
show all that was copied.

### AgenticReview

`pc` is the stage. A call of the model is one step that ends with its answer: none, a
completion that is refused, or a valid one of which only what later stages look at is
chosen (evidence requests, findings covered, defects, cards). `TimeIsUp` may happen at any
moment; the code looks at the clock between stages only, and so do the guards. The
review loop counts in `local` and hands its counts over when it returns, as the
function does. `sent`, `completions`, `lateCalls` and `approved` are history
variables. An evidence request is a key (what repetition compares) and whether the
other rules of the gate accept it.

## Runs

| run | shows | bounds |
|---|---|---|
| runtime_serial | with changes of the configuration that overlap no other request: live calls use tested systems, saves survive restarts | 2 workers, 2 settings, 1 secret, the PUT bodies that save, re-save with the marker, switch the LLM on and off; `.env` empty, full, or edited to hold a marker; no cookie file |
| runtime_untested | a finding | free interleaving of 2 workers, fewer PUT bodies, `.env` saved before |
| catalog_capture | no half catalogs, errors leave nothing, whole reads, implements `SnapshotCatalog` | 2 captures, 1 reader, 2 objects, 2 contents, failures and crashes anywhere |
| impact_review | the lineage is connected, by distance, and honest about what it left out; the two searches of the analysis agree, findings are the reach, evidence is shortest; what is affected is the lineage; reviews are whole; requests are answered | all graphs with 3 nodes and 3 edges under all limits up to 3, all three directions, and a graph of 6 nodes with two ways to one node; up to two changes, an unknown object among them; reviews with two queries, one of them captured, or asked for by a text that both contain, SQL views given or not; a look-up limit of 1 |
| review_queries | a finding | as impact_review |
| ingest | every edge joins objects and none is lost, the catalog is what was told, freshness is kept | every order of up to 3 different payloads out of 21, at least one of each kind, with parts that are absent, named twice, out of range or unreadable |
| repository | implements `FolderCache`, live answers are of their time, requests end | 2 requests, 2 folders; answers with one entry, another one, one path in two spellings, an entry without a name, broken XML, an error |
| web_page | the list is of the search, the lineage of the snapshot | 2 snapshots of which one is captured by a refresh, 2 objects, 2 searches, pages of one object, lists of two pages and of one, 2 calls of a kind under way |
| live_capture | accounting, scope, refresh | request shapes with objects, queries and tables under combinations of flags, names that begin others, asked for in order and out of it, a name in lower case, every call may fail, refreshed any number of times |
| bw_client | reads in session, bounded requests, invisible expiry, fetches end | every sign-in mode, 2 cookie names one of which the file holds, one or two endpoints, `TTL` of one tick, any number of fetches |
| glossary | decisions, aggregates, the answer for a snapshot | 2 snapshots, 1 metadata term and 1 SQL term of which one is copied at a time, lists limited to 1 and to 2, 2 requests that interleave and fail beside captures and deletions |
| agentic_review | budgets, audits, approval, the gate, lateness | 2 findings one of which is unknown, all plans of up to 3 requests (repeated, refused), all syntheses of up to 2 cards (right, wrong severity, no source, unknown source), fifteen budgets with each limit at zero and at its edge |

The type invariants of the modules with proofs are proved (theorems `TypeCorrect`, `LiveTypeCorrect`), so
no run checks them. The page's run is of
`PatientSpec`, in which the user asks for more of a list only while no other list is
asked for; what happens otherwise is told below.

Why these bounds are enough. Two workers are enough for every race of two requests,
and the properties relate the steps of at most two of them at a time; two settings
tell a changed configuration from an unchanged one. For the traversals, three
nodes and three edges already hold loops, two-cycles, three-cycles, diamonds cut
by a cap and parallel edges; the two-ways graph adds nodes at distance two and
three reached along ways of different length. Three payloads are enough for one
that names an object, one that knows its type and one that knows better, in every order.
Two folders tell the rows of one from those of another; two calls of a kind are one that is
late and one that is not. One tick of `TTL` tells a fresh token
from a stale one; three evidence requests are enough for a repetition of a refused
request and for one over the budget. What holds for every size is proved.

Fairness. `LiveReviewSpec` is weak fairness of `Answering`, the steps of the handler
(not of the deletion): a sequential function that is running goes on running. In
Repository it is weak fairness of the work of each request: its call of the BW system is
answered or fails, since the HTTP client has a limit of 30 seconds, and a waiting
transaction gets the lock when it is free. In BwClient it is
weak fairness of the answers, a lost one included, for the same reason. Nobody is obliged to start a
fetch, and time need not pass. No other module assumes fairness. Deadlock is
not checked where the system stops by design: ingest, a request and a review end, and
the captures of an instance may all be finished.

## Findings

* **runtime_untested** (server.py:726). The connection test writes its verdict when
  the answer arrives, without asking whether the configuration it tested is still
  the current one. After a save meanwhile the status is `ok` for a system that was
  never tested, and the gate opens.
* **review_queries** (server.py:2835). Ingest stores the analysis of a captured query
  with five counts that `QueryAnalysisResult`, which forbids extra fields
  (query_analysis.py:44), refuses when a review reads it back: every review, and
  every agentic review, of an object with such a query downstream fails. The tests review
  queries only of graphs that hold no stored analysis.

Met while modelling, without a run of their own (what depends on them is kept out of
the instances or excepted in the property, as said):

* A glossary request lists in a later connection than it copies (server.py:904): a
  request for another snapshot in between becomes the owner of the shared terms, which
  are then missing from the first one's list and count. Nor need a list show what was copied
  when there is more than its limit. `GlossaryIsOfTheSnapshot` says what remains: with `Alone` or
  `LeftOut` struck out TLC finds it violated.
* The status of a scope entry is found by searching `objectName=<name>` in the labels
  of the calls (server.py:2242-2258): a capture that asks for a longer name before one that it begins
  with records the outcome of the longer one's call for both. A refresh asks in the order of names and
  has it right (`ScopeTellsInOrder`). As the label of an xref call is upper-cased (live.py:779), a
  name typed in lower case is recorded as skipped, or takes the outcome of a longer name's call.
* An object that is first met without a type keeps the reason `METADATA_MISSING` when
  a later payload tells a type without a layer (catalog.py:1965: the first metadata
  wins); the plan of 2026-06-18 means `TYPE_UNMAPPED` then. That there is a reason
  exactly when there is no layer is proved.
* A query is looked up by text among the first ten matches only (server.py:3375): the
  one that is called so may be missed. The same query, asked for in two spellings, gives
  two pieces of evidence with one gap id.
* A repository answer that is no XML is taken for an empty folder: the cached children
  are deleted and the request is answered as live with a count of 0. Of two overlapping
  requests the older answer may be stored last, and one may list what the other stored
  (`LiveAnswersAreOfTheirTime` allows both). The cache does not know of which BW system
  its folders are, and outlives a change of the configuration.
* "Load more" is disabled only while `busy` is `catalog` (App.tsx:2256). A handler that
  sets another value meanwhile, such as running a lineage, enables it again: the old
  cursor is then used with the new search, and the list mixes two searches. TLC finds it with
  `PageSpec` in place of `PatientSpec`.
* When a new list changes the selection while a lineage is under way, `busy` stays
  `lineage`, because the answer is dropped together with its `finally` (App.tsx:1378).
* `loadRepository` has no request number (App.tsx:940): the folder answered last is shown.

* Saving user and password leaves a `BW_COOKIE_FILE` line in `.env` (server.py:1504);
  the next process signs in with the cookie, or has no configuration if that file
  cannot be read. `RestartLoadsSaved` is checked and proved without cookie files.
* Two overlapping saves read the same `.env`, and the later one writes the earlier
  one's section back (server.py:1543). `RestartLoadsSaved` needs changes to run alone.
* In cookie mode every HTTP error of a read is reported as a refused cookie (client.py:258).
* A review that falls back shows deterministic cards sorted by severity and cut at
  `max_cards`; they are not validated, so unknown findings, which come last and which
  the validator would insist on, may be missing. It also carries hypotheses no critic
  approved. `OnlyApprovedIsReported` speaks of completed runs only.
* Terms of captures that failed stay in the glossary database (`OwnersHaveTheirTerms`
  allows an owner that was deleted).

## Proofs

All theorems hold for every value of the constants that satisfies the module's
named assumption (`ConstantsAssumption`, `CatalogAssumption`, `LineageAssumption`,
`LiveCaptureAssumption`, `ClientAssumption`, `GlossaryAssumption`, `ReviewAssumption`, `RepositoryAssumption`,
`PageAssumption`, and those of Ingest), which TLC evaluates in the runs. They ask for
finite sets and types, that special values are none of the others, and of ImpactReview
that the server asks for scenarios and reviews downstream, as it does (server.py:2645, 2759).
Further hypotheses stand in the statement of a theorem and are explained here. The
larger invariants below were checked by TLC on the instance of the run before they were proved.

* `RuntimeConfigProofs`. `TypeCorrect`; `SessionGate` (`LiveCallsNeedATest`) from the
  invariant that a status `ok` exists anywhere, shared or in a private copy, and a
  worker is past the gate, only after a test in this process; `TestedCalls`
  (`LiveCallsUseTestedBw` of `SerialSpec`), whose invariant says that `ok` stands for
  a tested configuration and that a worker past the gate holds the current one;
  `SavesSurvive` (`RestartLoadsSaved` of `SerialSpec`), under the assumption that no
  cookie file is named and the process environment overrides nothing, because it is
  false otherwise (see above). The discipline `ChangesRunAlone` is a conjunct
  of every step of `SerialSpec`, so it needs no invariant of its own. `NoMarkerOnDisk`
  (`MarkerNeverReachesDisk`) holds for overlapping saves too: what a save holds to write
  has no marker when the first `.env` has none. Without that assumption a late save may
  put an old line back.
* `CaptureProofs`, of the store's side of a capture and of its calls. *Store.* The
  invariant gives, for each step of a capture, what the
  tables hold for it; `AllOrNothing`, `CleanFailures`, `WholeReads` and `Refinement`
  follow from it. Whole reads need that the rows of an answered capture never
  change again. *Calls.* `LiveInv` says that the calls made, but for the detail reads, followed by those
  still open are the plan (`AsPlanned`), that a detail read is of the list right before it, in
  `operations` and at the head of `pending` (`DetailFollows`), that the payloads are the calls
  that succeeded (`Written`), and what a refresh asks for (`Requested`). The property speaks of
  finished collections only and is far from inductive: it is `AsPlanned` with nothing open.
  `Kept` says directly what of a request its scope entries keep, whatever the
  outcomes were; `KeptIsRefresh` shows that `RefreshRequest` computes it, `KeptCalls` that it makes
  the same calls and `KeptTwice` that keeping again changes nothing, whence
  `RefreshRepeatsHolds`. `PlanRange` tells the calls of a plan as a set. `EveryCallAccountedHolds` and
  `RefreshRepeatsHolds` have no hypothesis.
  `ScopeTellsInOrderHolds` has none either, the property itself says when an entry can be trusted. `Paired` says
  that any two entries of a list are in a relation; taking from a list and joining lists keep it
  (`TakenPaired`, `JoinedPaired`), and what was taken tells the order of the places it was taken from
  (`PairedTaken`, by `TakenPlaces`). So calls with one name are made in the order of names
  (`PlanOrdered`, `MadeOrdered`), and a call found before an object's own would be
  of a name that precedes it and that it begins, which the assumption on `NameOrder` excludes.
* `BwClientProofs`. `Order` says that the endpoints are asked in order and `Stage` how
  many sessions a fetch can have obtained when each kind of request is under way; with
  them the safety properties of the run are one inductive invariant, which `Sessions`, `OneRetry`,
  `InvisibleExpiry` and `Fallback` (the second endpoint is asked only after the first
  was absent; proved only) read off.
* `GlossaryProofs`. What is about to be written is in the catalog still
  (`SyncedIsInCatalog`), and a term an aggregate owes is still to be read, about to be
  written or in the database (`Accounted`). The latter needs that metadata terms come with
  their catalog in one step and that a SQL term pushes none of them over the limit
  (`FirstTermsStay`). `GlossaryOfTheSnapshot` rests on a second invariant (`AnswerInv`): a term that was copied
  stays with its snapshot, or passes to another one that has or had it (`Held`), because whoever copies
  it copies what is in the catalog of that snapshot; `ListIsFull` says what a limited list leaves out.
  All hold for workers that interleave freely.
* `AgenticReviewProofs`. Of the invariant, `Counting` says what the run and the review
  loop have counted and that their sum is what was received, `Rounds` and `Cards` bound
  the rest, `Held` which review the run holds at each stage and that the accepted one is
  that of the current evidence, `Late` how many late calls each stage can have behind
  it, and `Gate` relates the keys seen and the number allowed to the requests looked at.
  The lemmas `Ended`, `EndedQuietly`, `EndedByCall` and `EndedInReview` treat the many
  steps that fall back at once. All five properties of the run are theorems.
* `IngestProofs`. `ParsersAreClosed` goes through the parsers: whatever a payload holds,
  the ends of each edge are told no later than the edge, so that a catalog to which a
  part of the rows has been added is closed too. With it the invariant is inductive for every
  manifest: `EdgesAlwaysJoinObjects`, `UnknownsAlwaysSayWhy`, `CatalogOnlyGrows`.

  `CatalogIsTold` (`CatalogIsWhatWasTold`, for every manifest) needs to know what the two
  catalogs are in the middle of a payload. `ToldInv` says that what was told falls into
  two parts, in the order it was told: the first part is described by the catalog of the
  snapshot, the rest by the catalog of the parser. The lemmas about `ResolvedType` and the
  names show that merging two descriptions describes both parts. The same holds for
  requests (`FreshnessIsAlwaysKept`, of `FreshnessIsKept`) when a payload lists each
  request once (`EachRequestOnce`), since a list is stored as it came and only merging
  drops repetitions. `NoEdgeIsEverLost` (`NoEdgeIsLost`) goes by `EdgesInv`: between two payloads the
  edges are those of the payloads read so far, as their parsers tell them. An edge is
  replaced by another one with the same id, so this needs `IdsAreKept`: a manifest has
  each payload once, graphs that bring ids along use one id for one edge, and an id that
  a parser makes up of the payload's id is no name. Per kind of payload a lemma shows
  that no two rows make up the same id for different edges.
* `ImpactReviewProofs`, in four parts. *Lineage.* The invariant says that queue and current node
  are visited, that every edge of a visited node is included, counted as omitted, still to be
  looked at, or its node still queued, and that a flag is up exactly when something
  is omitted. `Caps`, `NoDanglingEdges`, `Complete` and `Flags` follow. *Distances*:
  `LevelInv` adds that the queue is ordered by level and spans two of them at most, that
  each node but the start has an included predecessor one level nearer, that an edge
  leads at most one level further, and that a node left out stays out. From it `Distances`
  (`LevelsAreDistances`: the level is the distance along the edges of the answer, also
  when caps cut the graph) and `TruncatedIsTruncated` (no flag without something left
  out). *Analysis.* `AnalysisInv` says of either search that what it has reached has the
  length of a shortest way (`Searched`), and of the report that it covers the
  changes so far. The two searches of a change go through the graph differently;
  both reach what is downstream, whence `NoEvidenceIsMissing`
  (the lookup without default never raises), `FindingsAreExact` and `EvidenceIsShortest`.
  *Requests.* `ReviewsRunTheLineage` shows that a request takes steps of
  `BoundedLineage` only, or none of it, so that the theorems about the lineage
  hold of the answers (`AnswersRespectCaps`). `StagesInv` says that the graph that is
  analysed is what the lineage included; searching that graph again, the levels
  are the lengths, which is `AffectedIsTheLineage`. `ReviewsAreAlwaysWhole` rests on the
  invariant that the queries still to be read and the evidence there is make up what
  was asked for.
* `BrowsingProofs`, of the repository tree and the page. *Tree.* `OneWriter`: whoever is between
  delete and commit is the writer. `DraftIsOfTheAnswer` says what the open
  transaction holds, so that a commit puts one whole answer in place; nothing else changes what others
  see (`CacheIsAtomic`: the repository implements `FolderCache`). `HeldIsCurrent` says that an answer in hand is one every
  request for the folder that is under way may be given, `StoredIsCurrent` that a refresh
  which has committed finds its own answer or a later one. `FoldersAreWhole` and
  `LiveAnswersAreCurrent` follow for any number of requests, with failures and crashes.
  *Page.* `ListInv`: of the calls for the list at most one is the latest, it is of the
  selected snapshot and, but for the timer, of the search; and when no first page is
  waited for and the last call did not fail, the list is that of the search up to the
  cursor and the latest call asks for what comes right behind it. The second half is what makes
  `ListIsAlwaysOfTheSearch` inductive (of `PatientSpec`, for the reason given under
  Findings). `LineageIsAlwaysOfTheSnapshot` holds of `PageSpec`, of impatient users too.

Distances and reach are defined by recursion over the number of steps,
and the library's induction theorems cannot be used here (they take an operator). Where a
proof needs induction over them it takes the least counterexample: a set of naturals that
is not empty has a least element (`LeastOfNat`, from `WFMin`). In the same way
`IterationExists` shows that the recursive functions of the model are what their
equations say.

The recursive functions `Taken` and `Joined` of LiveCapture are treated the same way:
`UpTo` (what holds at 0 and is handed on holds up to n, stated of a set of numbers),
`RecursionExists` (a function given by its first value and its steps exists) and `TakenIs` and
`JoinedIs` (the operator is that function's last value). What they return is then proved once
(`TakenRange`, `TakenAppend`, `JoinedRange`).

Model-checked only: all liveness (`EveryRequestIsAnswered`,
`RequestsEnd`, `FetchesEnd`), which is out of the prover's reach. Every safety property that
a passing run checks is a theorem, and so are both refinements. The two runs with findings refute what
they check.

Proved only, in no run: `LiveCallsNeedATest`, `MarkerNeverReachesDisk`, `CapsRespected`,
`FrozenSession`, `FallbackOnlyIfAbsent`, `FolderIsOneAnswer`, `OwnersHaveTheirTerms`, `UnknownsSayWhy` and
`FlagsExplainTruncation`.

## Not modelled

The component list of `PROJECT.json` names every part. Left out for good: texts and
their checking (endpoint addresses, redaction, the secret guard, prompts and their
sanitising, citations), field_lineage.py (mappings read out of one document), tables
(layers, severities), the command line, the look of the page. Left out so far: the last item of
the plan below.

## Plan

1. *(done)* RuntimeConfig, CatalogCapture with SnapshotCatalog, BoundedLineage,
   ImpactAnalysis, LiveCapture, BwClient, Glossary, AgenticReview, and their proofs.
2. *(done)* Ingest with its parsers, ImpactReview as the composition of lineage,
   analysis and evidence, Repository, WebPage.
3. *(done)* Proofs of all safety properties of these modules. To be able to prove about
   LiveCapture its list operators were restated as recursive functions.
4. Left: compositions: capture with gate, ingest and catalog, with the abstract specification
   "a snapshot of a tested system is published whole"; the difference and grading of two snapshots as pure
   operators; the single requests of the assistants, with their fall-backs; the captures of the page that are not
   guarded, and its settings; the directed-cycle check of lineage.
