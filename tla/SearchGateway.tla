--------------------------- MODULE SearchGateway ---------------------------
(***************************************************************************)
(* One session of `ckos serve` (web/src/routes.rs): requests of /api/run    *)
(* that add to the session's store and graph, requests of /api/search that  *)
(* answer from a cache or from the store, and the generation counter that   *)
(* keeps a search from caching what a run made stale.  Each request runs on *)
(* a thread of its own.  A step is one lock acquisition or one access to    *)
(* the session directory.                                                   *)
(*                                                                         *)
(* A run persists up to three parts, in order; the result of a search is    *)
(* the set of parts it read in full.  Other sessions have other keys in the tables  *)
(* and other directories.                                                   *)
(***************************************************************************)
EXTENDS SearchCache

CONSTANTS
    Run,             \* requests of /api/run on the session
    Search           \* threads that serve /api/search, one request after another

VARIABLES
    runPc,           \* where each run is
    searchPc,        \* where each search thread is
    documents,       \* parts persisted in the document store
    graph,           \* parts persisted in the graph file
    cache,           \* the session's slot of AppState.caches
    generation,      \* the session's slot of AppState.generations
    local            \* the locals of the request each search thread serves

storeVars == <<documents, graph>>
searchVars == <<searchPc, local>>
vars == <<runPc, storeVars, cache, generation, searchVars>>

RunLocations == {"engine", "evict", "bump", "open", "record", "reflect", "update", "ok", "err"}
SearchLocations == {"idle", "lookup", "open", "load", "compare", "put"}

DocumentPart == Run \X {"results", "reflections"}
GraphPart == Run \X {"concepts"}
Part == DocumentPart \cup GraphPart

\* How far a run has come: the cache not yet evicted, evicted but the generation
\* not yet bumped, the session being changed, or nothing left to do.
Phase == {"unevicted", "evicted", "mutating", "ended"}

PhaseOf(r) ==
    CASE runPc[r] \in {"engine", "evict"} -> "unevicted"
      [] runPc[r] = "bump" -> "evicted"
      [] runPc[r] \in {"open", "record", "reflect", "update"} -> "mutating"
      [] runPc[r] \in {"ok", "err"} -> "ended"

Phases == [r \in Run |-> PhaseOf(r)]

\* The locals of a search: query, captured generation, parts read; and, for the
\* record, the phases of the runs when it captured and when it compared.
Local == [query : Query, genBefore : Nat, hits : SUBSET Part,
          before : [Run -> Phase], checked : [Run -> Phase]]

NoLocal == [query |-> CHOOSE q \in Query : TRUE, genBefore |-> 0, hits |-> {},
            before |-> [r \in Run |-> "unevicted"], checked |-> [r \in Run |-> "unevicted"]]

\* A cached answer, and the phases its search saw, the last when it was cached.
Entry == [hits : SUBSET Part, before : [Run -> Phase], checked : [Run -> Phase],
          stored : [Run -> Phase]]

\* A key without an entry is told apart from an answer.
ASSUME EntryAssumption == NoEntry \notin Entry

TypeOK ==
    /\ runPc \in [Run -> RunLocations]
    /\ searchPc \in [Search -> SearchLocations]
    /\ documents \subseteq DocumentPart
    /\ graph \subseteq GraphPart
    /\ cache.order \in Seq(Query)
    /\ cache.entries \in [Query -> Entry \cup {NoEntry}]
    /\ generation \in Nat
    /\ local \in [Search -> Local]

Init ==
    /\ runPc = [r \in Run |-> "engine"]
    /\ searchPc = [t \in Search |-> "idle"]
    /\ documents = {}
    /\ graph = {}
    /\ cache = EmptyCache
    /\ generation = 0
    /\ local = [t \in Search |-> NoLocal]

RunGoto(r, loc) == runPc' = [runPc EXCEPT ![r] = loc]
SearchGoto(t, loc) == searchPc' = [searchPc EXCEPT ![t] = loc]

\* The response is sent; the request's locals are gone.
Respond(t) == SearchGoto(t, "idle") /\ local' = [local EXCEPT ![t] = NoLocal]

------------------------------------------------------------------------------
\* POST /api/run

\* run_workflow returned Ok; the session is about to change.
EngineOk(r) ==
    /\ runPc[r] = "engine"
    /\ RunGoto(r, "evict")
    /\ UNCHANGED <<storeVars, cache, generation, searchVars>>

\* run_workflow returned Err: a 500, the session is left alone.
EngineErr(r) ==
    /\ runPc[r] = "engine"
    /\ RunGoto(r, "err")
    /\ UNCHANGED <<storeVars, cache, generation, searchVars>>

\* invalidate_cache: the cache table first,
Evict(r) ==
    /\ runPc[r] = "evict"
    /\ cache' = EmptyCache
    /\ RunGoto(r, "bump")
    /\ UNCHANGED <<storeVars, generation, searchVars>>

\* then, under another lock, the generation table.
Bump(r) ==
    /\ runPc[r] = "bump"
    /\ generation' = generation + 1
    /\ RunGoto(r, "open")
    /\ UNCHANGED <<storeVars, cache, searchVars>>

\* FileStore::open; if it fails nothing is persisted and the answer is a warning.
OpenStore(r) ==
    /\ runPc[r] = "open"
    /\ RunGoto(r, "record") \/ RunGoto(r, "ok")
    /\ UNCHANGED <<storeVars, cache, generation, searchVars>>

\* record_run; if it fails, after some documents or none, there are no reflections.
RecordRun(r) ==
    /\ runPc[r] = "record"
    /\ \/ documents' = documents \cup {<<r, "results">>} /\ RunGoto(r, "reflect")
       \/ documents' \in {documents, documents \cup {<<r, "results">>}} /\ RunGoto(r, "update")
    /\ UNCHANGED <<graph, cache, generation, searchVars>>

RecordReflections(r) ==
    /\ runPc[r] = "reflect"
    /\ documents' \in {documents, documents \cup {<<r, "reflections">>}}
    /\ RunGoto(r, "update")
    /\ UNCHANGED <<graph, cache, generation, searchVars>>

\* GraphStore::update; a failure is a warning too.
UpdateGraph(r) ==
    /\ runPc[r] = "update"
    /\ graph' \in {graph, graph \cup {<<r, "concepts">>}}
    /\ RunGoto(r, "ok")
    /\ UNCHANGED <<documents, cache, generation, searchVars>>

------------------------------------------------------------------------------
\* GET /api/search

\* A request arrives; the generation is captured.
Capture(t) ==
    /\ searchPc[t] = "idle"
    /\ \E q \in Query :
          local' = [local EXCEPT ![t] = [NoLocal EXCEPT !.query = q,
                                                        !.genBefore = generation,
                                                        !.before = Phases]]
    /\ SearchGoto(t, "lookup")
    /\ UNCHANGED <<runPc, storeVars, cache, generation>>

Hit(t) ==
    /\ searchPc[t] = "lookup"
    /\ local[t].query \in Keys(cache)
    /\ cache' = Get(cache, local[t].query)
    /\ Respond(t)
    /\ UNCHANGED <<runPc, storeVars, generation>>

Miss(t) ==
    /\ searchPc[t] = "lookup"
    /\ local[t].query \notin Keys(cache)
    /\ SearchGoto(t, "open")
    /\ UNCHANGED <<runPc, storeVars, cache, generation, local>>

ReadStore(t) ==
    /\ searchPc[t] = "open"
    /\ local' = [local EXCEPT ![t].hits = documents]
    /\ SearchGoto(t, "load")
    /\ UNCHANGED <<runPc, storeVars, cache, generation>>

ReadGraph(t) ==
    /\ searchPc[t] = "load"
    /\ local' = [local EXCEPT ![t].hits = @ \cup graph]
    /\ SearchGoto(t, "compare")
    /\ UNCHANGED <<runPc, storeVars, cache, generation>>

\* The store or the graph cannot be read: an error response.
ReadFails(t) ==
    /\ searchPc[t] \in {"open", "load"}
    /\ Respond(t)
    /\ UNCHANGED <<runPc, storeVars, cache, generation>>

\* Mutant of SameGeneration: a result is cached whatever happened meanwhile.
AnyGeneration(t) == TRUE

SameGeneration(t) == generation = local[t].genBefore

\* The generation is compared under its own lock ...
CompareSame(t) ==
    /\ searchPc[t] = "compare"
    /\ SameGeneration(t)
    /\ local' = [local EXCEPT ![t].checked = Phases]
    /\ SearchGoto(t, "put")
    /\ UNCHANGED <<runPc, storeVars, cache, generation>>

CompareChanged(t) ==
    /\ searchPc[t] = "compare"
    /\ ~ SameGeneration(t)
    /\ Respond(t)
    /\ UNCHANGED <<runPc, storeVars, cache, generation>>

\* ... and the result is cached under the other one.
Store(t) ==
    /\ searchPc[t] = "put"
    /\ cache' = Put(cache, local[t].query,
                    [hits |-> local[t].hits, before |-> local[t].before,
                     checked |-> local[t].checked, stored |-> Phases])
    /\ Respond(t)
    /\ UNCHANGED <<runPc, storeVars, generation>>

------------------------------------------------------------------------------
RunStep(r) ==
    \/ EngineOk(r) \/ EngineErr(r) \/ Evict(r) \/ Bump(r) \/ OpenStore(r)
    \/ RecordRun(r) \/ RecordReflections(r) \/ UpdateGraph(r)

SearchStep(t) ==
    \/ Capture(t) \/ Hit(t) \/ Miss(t) \/ ReadStore(t) \/ ReadGraph(t) \/ ReadFails(t)
    \/ CompareSame(t) \/ CompareChanged(t) \/ Store(t)

Next == (\E r \in Run : RunStep(r)) \/ (\E t \in Search : SearchStep(t))

Spec == Init /\ [][Next]_vars

------------------------------------------------------------------------------
\* Properties

\* What run r has persisted.
Persisted(r) == {p \in documents \cup graph : p[1] = r}

\* What `invalidate_cache` and the generation check guarantee.  A cached answer
\* that lacks something a run persisted was computed by a search that either
\* captured its generation while that run was between its bump and its return,
\* or compared generations before that run's bump and stored its answer after
\* that run's eviction.  No other answer that a run made stale is in the cache.
MissedRunsOverlap ==
    \A q \in Keys(cache), r \in Run :
        LET e == cache.entries[q]
        IN  ~(Persisted(r) \subseteq e.hits) =>
                \/ e.before[r] = "mutating"
                \/ e.checked[r] \in {"unevicted", "evicted"} /\ e.stored[r] # "unevicted"

\* The queue and the map of the cache have the same keys, each once, and no more
\* than its capacity, through evictions, invalidations and racing puts.
LruConsistent ==
    /\ ToSet(cache.order) = Keys(cache)
    /\ Len(cache.order) = Cardinality(Keys(cache))
    /\ Len(cache.order) <= Capacity

\* README.md:172-174: cached answers are invalidated the moment /api/run adds
\* anything.  Once a run has returned, no cached answer lacks what it persisted.
NoStaleAnswer ==
    \A q \in Keys(cache), r \in Run :
        runPc[r] = "ok" => Persisted(r) \subseteq cache.entries[q].hits
==============================================================================
