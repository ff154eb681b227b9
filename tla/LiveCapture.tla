---------------------------- MODULE LiveCapture ----------------------------
(***************************************************************************)
(* A live capture and its refresh: the checks and the scope entries of     *)
(* _capture_v1_snapshot and _build_refresh_capture_request (src/src/bwli/  *)
(* server.py) around collect_live_snapshot (src/src/bwli/live.py), which   *)
(* makes one read-only call after the other and survives failing ones.     *)
(*                                                                         *)
(* A name is a model value; what matters of its text are its upper-case    *)
(* form (the label of an xref call is upper-cased) and which names begin   *)
(* with which (scope entries find their call by a text search in labels).  *)
(* The direction, levels, object type, source system and freshness limit   *)
(* are one value, the options.                                             *)
(*                                                                         *)
(* Not covered: the gate (RuntimeConfig), the transactions of the store    *)
(* (CatalogCapture), the size limits and wildcard checks of a request, the *)
(* collections only the command line asks for (chains, variants, DTPs,     *)
(* data sources, source systems, composite providers: more calls of the    *)
(* same form), an object type given as UNKNOWN.                            *)
(***************************************************************************)
EXTENDS Naturals, Sequences, SequencesExt

CONSTANTS
    Names,           \* search terms, object names and query names
    NameOrder,       \* all names, in the order SQLite sorts them
    Upper,           \* Upper[n]: the upper-case form of n
    Begins,          \* the pairs <<n, m>> where the text of n begins the text of m
    Options,
    DefaultOptions,
    NoOptions,       \* the scope entry of a query stores no options
    Requests,        \* the capture requests clients send
    NoRequest

Request == [terms : Seq(Names), objects : Seq(Names), queries : Seq(Names),
            dataflow : BOOLEAN, xref : BOOLEAN, freshness : BOOLEAN, options : Options]

OperationNames == {"bw_search", "bw_get_dataflow", "bw_xref", "bw_list_requests",
                   "bw_get_request", "bw_get_query"}
Operation == [name : OperationNames, of : Names, label : Names, options : Options \cup {NoOptions}]
Outcome   == [call : Operation, ok : BOOLEAN]
Entry     == [object : Names, operation : OperationNames, status : {"ok", "error", "skipped"},
              options : Options \cup {NoOptions}]

Precedes(n, m) ==
    \A i, j \in DOMAIN NameOrder : NameOrder[i] = n /\ NameOrder[j] = m => i < j

BeginsWith(label, n) == n = label \/ <<n, label>> \in Begins

\* A text comes before the longer ones that it begins, and upper before lower
\* case: names are of ASCII characters, as the technical names of BW are.
ASSUME LiveCaptureAssumption ==
    /\ NameOrder \in Seq(Names) /\ ToSet(NameOrder) = Names
    /\ \A i, j \in DOMAIN NameOrder : NameOrder[i] = NameOrder[j] => i = j
    /\ Upper \in [Names -> Names] /\ Begins \subseteq Names \X Names
    /\ \A n, m \in Names :
         /\ n # m /\ BeginsWith(m, n) => Precedes(n, m)
         /\ n # m /\ Upper[n] = n /\ BeginsWith(Upper[m], n) => Precedes(n, m)
    /\ DefaultOptions \in Options /\ NoOptions \notin Options
    /\ Requests \subseteq Request /\ NoRequest \notin Request

VARIABLES
    request,     \* the request that is worked on
    origin,      \* the request whose snapshot it refreshes, or NoRequest
    phase,
    pending,     \* the calls collect_live_snapshot still has to make
    operations,  \* the outcomes of the calls made, in order
    payloads,    \* what was written to the output directory, as the call it came from
    manifest,    \* manifest.json of the output directory
    selected     \* the selected entries of the stored capture scope

liveVars == <<request, origin, phase, pending, operations, payloads, manifest, selected>>

-----------------------------------------------------------------------------
(* The calls a request asks for. *)

(* What s has at these places, in order.                                    *)
Taken(s, places) ==
    LET upTo[i \in 0..Len(s)] ==
            IF i = 0 THEN <<>>
            ELSE IF i \in places THEN Append(upTo[i - 1], s[i]) ELSE upTo[i - 1]
    IN  upTo[Len(s)]

(* One list after the other. *)
Joined(lists) ==
    LET upTo[i \in 0..Len(lists)] == IF i = 0 THEN <<>> ELSE upTo[i - 1] \o lists[i]
    IN  upTo[Len(lists)]

Unique(s) == Taken(s, {i \in DOMAIN s : \A j \in 1..i - 1 : s[j] # s[i]})

Call(name, n, label, options) == [name |-> name, of |-> n, label |-> label, options |-> options]

PlainCalls(name, names) == [i \in DOMAIN names |-> Call(name, names[i], names[i], NoOptions)]

ObjectCalls(r, n) ==
    LET calls == <<Call("bw_get_dataflow", n, n, r.options),
                   Call("bw_xref", n, Upper[n], r.options),
                   Call("bw_list_requests", n, n, r.options)>>
        flags == <<r.dataflow, r.xref, r.freshness>>
    IN  Taken(calls, {k \in 1..3 : flags[k]})

Plan(r) ==
    LET objects == Unique(r.objects)
    IN  PlainCalls("bw_search", Unique(r.terms))
            \o Joined([i \in DOMAIN objects |-> ObjectCalls(r, objects[i])])
            \o PlainCalls("bw_get_query", Unique(r.queries))

LatestRequest(call) == [call EXCEPT !.name = "bw_get_request"]

(* The scope entries of a finished collection. *)

MatchingShorter(n, name, outcomes) ==    \* mutant: the label is looked for in the name
    Taken(outcomes, {i \in DOMAIN outcomes :
        outcomes[i].call.name = name /\ BeginsWith(n, outcomes[i].call.label)})

Matching(n, name, outcomes) ==
    Taken(outcomes, {i \in DOMAIN outcomes :
        outcomes[i].call.name = name /\ BeginsWith(outcomes[i].call.label, n)})

StatusOf(found) ==
    CASE found = <<>>   -> "skipped"
      [] found # <<>> /\ Head(found).ok  -> "ok"
      [] found # <<>> /\ ~Head(found).ok -> "error"

ScopeEntry(n, name, options, outcomes) ==
    [object |-> n, operation |-> name, status |-> StatusOf(Matching(n, name, outcomes)),
     options |-> options]

SelectedWithoutXref(r) ==    \* mutant: xref calls get no scope entry
    {name \in OperationNames : \/ name = "bw_get_dataflow" /\ r.dataflow
                               \/ name \in {"bw_list_requests", "bw_get_request"} /\ r.freshness}

SelectedOperations(r) ==
    {name \in OperationNames : \/ name = "bw_get_dataflow" /\ r.dataflow
                               \/ name = "bw_xref" /\ r.xref
                               \/ name \in {"bw_list_requests", "bw_get_request"} /\ r.freshness}

ScopeEntries(r, outcomes) ==
    {ScopeEntry(n, name, r.options, outcomes) :
        n \in ToSet(r.objects), name \in SelectedOperations(r)}
    \cup {ScopeEntry(n, "bw_get_query", NoOptions, outcomes) : n \in ToSet(r.queries)}

(* _build_refresh_capture_request. *)

IsQueryEntry(e) == e.operation = "bw_get_query"

Sorted(S) == Taken(NameOrder, {i \in DOMAIN NameOrder : NameOrder[i] \in S})

RefreshRequest(entries) ==
    LET ofObjects == {e \in entries : ~IsQueryEntry(e)}
        ran(names) == \E e \in entries : e.operation \in names
    IN  [terms |-> <<>>,
         objects |-> Sorted({e.object : e \in ofObjects}),
         queries |-> Sorted({e.object : e \in entries \ ofObjects}),
         dataflow |-> ran({"bw_get_dataflow"}), xref |-> ran({"bw_xref"}),
         freshness |-> ran({"bw_list_requests", "bw_get_request"}),
         options |-> IF ofObjects = {} THEN DefaultOptions
                     ELSE CHOOSE o \in Options : \E e \in ofObjects : e.options = o]

-----------------------------------------------------------------------------
LiveInit ==
    /\ request \in Requests
    /\ origin = NoRequest
    /\ phase = "asked"
    /\ pending = <<>> /\ operations = <<>> /\ payloads = <<>> /\ manifest = <<>>
    /\ selected = {}

Refuse ==            \* nothing asked for, or no client could be built
    /\ phase = "asked"
    /\ phase' = "failed"
    /\ UNCHANGED <<request, origin, pending, operations, payloads, manifest, selected>>

Start ==
    /\ phase = "asked"
    /\ request.terms # <<>> \/ request.objects # <<>> \/ request.queries # <<>>
    /\ phase' = "collecting"
    /\ pending' = Plan(request)
    /\ UNCHANGED <<request, origin, operations, payloads, manifest, selected>>

CallSucceeds ==      \* a list of requests may name a latest one, which is read next
    /\ phase = "collecting" /\ pending # <<>>
    /\ LET call == Head(pending) IN
         /\ payloads' = Append(payloads, call)
         /\ operations' = Append(operations, [call |-> call, ok |-> TRUE])
         /\ \/ pending' = Tail(pending)
            \/ /\ call.name = "bw_list_requests"
               /\ pending' = <<LatestRequest(call)>> \o Tail(pending)
    /\ UNCHANGED <<request, origin, phase, manifest, selected>>

CallFailsUnrecorded ==    \* mutant: the failure is swallowed
    /\ phase = "collecting" /\ pending # <<>>
    /\ pending' = Tail(pending)
    /\ UNCHANGED <<request, origin, phase, operations, payloads, manifest, selected>>

CallFails ==         \* ... and the collection goes on with the next call
    /\ phase = "collecting" /\ pending # <<>>
    /\ operations' = Append(operations, [call |-> Head(pending), ok |-> FALSE])
    /\ pending' = Tail(pending)
    /\ UNCHANGED <<request, origin, phase, payloads, manifest, selected>>

WriteFails ==        \* writing a payload or the manifest raises; the client is closed
    /\ phase = "collecting"
    /\ phase' = "failed"
    /\ UNCHANGED <<request, origin, pending, operations, payloads, manifest, selected>>

SomethingSucceeded == \E i \in DOMAIN operations : operations[i].ok

NothingCollected ==
    /\ phase = "collecting" /\ pending = <<>>
    /\ ~SomethingSucceeded
    /\ phase' = "failed"
    /\ UNCHANGED <<request, origin, pending, operations, payloads, manifest, selected>>

WriteManifest ==
    /\ phase = "collecting" /\ pending = <<>>
    /\ SomethingSucceeded
    /\ manifest' = payloads
    /\ phase' = "collected"
    /\ UNCHANGED <<request, origin, pending, operations, payloads, selected>>

IngestFails ==       \* a payload cannot be ingested, or the store refuses
    /\ phase = "collected"
    /\ phase' = "failed"
    /\ UNCHANGED <<request, origin, pending, operations, payloads, manifest, selected>>

Store ==
    /\ phase = "collected"
    /\ selected' = ScopeEntries(request, operations)
    /\ phase' = "stored"
    /\ UNCHANGED <<request, origin, pending, operations, payloads, manifest>>

Refresh ==           \* refused without selected entries; a new output directory
    /\ phase = "stored"
    /\ selected # {}
    /\ request' = RefreshRequest(selected)
    /\ origin' = request
    /\ phase' = "asked"
    /\ operations' = <<>> /\ payloads' = <<>> /\ manifest' = <<>> /\ selected' = {}
    /\ UNCHANGED pending

Capture ==
    \/ Refuse \/ Start \/ CallSucceeds \/ CallFails \/ WriteFails
    \/ NothingCollected \/ WriteManifest \/ IngestFails \/ Store

LiveNext == Capture \/ Refresh

LiveSpec == LiveInit /\ [][LiveNext]_liveVars

-----------------------------------------------------------------------------
(* Every variable has the type its code gives it. *)
LiveTypeOK ==
    /\ request \in Request /\ origin \in Request \cup {NoRequest}
    /\ phase \in {"asked", "collecting", "collected", "stored", "failed"}
    /\ pending \in Seq(Operation) /\ operations \in Seq(Outcome)
    /\ payloads \in Seq(Operation) /\ manifest \in Seq(Operation)
    /\ selected \subseteq Entry

Calls(outcomes) == [i \in DOMAIN outcomes |-> outcomes[i].call]

ListedPlaces == {i \in DOMAIN operations : operations[i].call.name # "bw_get_request"}

(* The docstring of collect_live_snapshot: whatever calls fail, at the end  *)
(* every call that was asked for is accounted for once and in order, the    *)
(* detail of a request was read only after its list, and the collection     *)
(* rests on a manifest, not empty, of exactly the calls that succeeded.     *)
EveryCallAccounted ==
    phase \in {"collected", "stored"} =>
        /\ Taken(Calls(operations), ListedPlaces) = Plan(request)
        /\ \A i \in DOMAIN operations : operations[i].call.name = "bw_get_request" =>
             /\ i > 1 /\ operations[i - 1].ok
             /\ operations[i].call = LatestRequest(operations[i - 1].call)
        /\ manifest # <<>>
        /\ manifest = Taken(Calls(operations), {i \in DOMAIN operations : operations[i].ok})

InOrder(r) ==
    \A s \in {r.objects, r.queries} : \A i, j \in DOMAIN s :
        i < j => s[i] = s[j] \/ Precedes(s[i], s[j])

(* tests/test_server.py:795: the status of a scope entry is the outcome of  *)
(* the call for this object. An entry takes the first call with its name in *)
(* the label, which may be that of a longer name; it is still its own when  *)
(* the names stand in order, and in a refresh they do, whatever the first   *)
(* capture asked for. (An xref label is in upper case: the entry of a name  *)
(* that is not may tell of another call, or of none.)                       *)
ScopeTellsInOrder ==
    /\ origin # NoRequest => InOrder(request)
    /\ InOrder(request) =>
         \A e \in selected, i \in DOMAIN operations :
             LET call == operations[i].call
                 labelled == e.operation = "bw_xref" => Upper[e.object] = e.object
             IN  call.of = e.object /\ call.name = e.operation /\ labelled
                     => e.status = IF operations[i].ok THEN "ok" ELSE "error"

(* A refresh makes the same calls with the same options as the capture it   *)
(* refreshes (but for the searches), although only the scope entries are    *)
(* left of the request, and a refresh of a refresh asks for the very same.  *)
RefreshRepeats ==
    /\ phase = "asked" /\ origin # NoRequest =>
         {c \in ToSet(Plan(origin)) : c.name # "bw_search"} = ToSet(Plan(request))
    /\ phase = "stored" /\ origin # NoRequest => RefreshRequest(selected) = request
=============================================================================
