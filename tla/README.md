# CKOS in TLA+

Models of CKOS, from the scheduler to the command line: what keeps state and can
go wrong in orders no test enumerates (workflow engine, graph file and lock,
session documents, search cache, web server, message guard, knowledge bus), the
algorithms those parts call, and the commands and requests that put them to use.
TLC checks them on small instances, TLAPS proves the main properties for every
value of the constants.  `PROJECT.json` maps each definition to the lines it
models and lists components, runs, mutants, findings, hazards and theorems.

## Inventory

| Component | State | Operations | Interacts with | What is hard | Correct means |
|---|---|---|---|---|---|
| Task (`kernel/task.rs`) | state, attempts | `transition_to` | engine | illegal edges, counting attempts | only legal edges |
| Scheduler (`scheduler`) | pending vector, completed set, clock | `submit*`, `mark_completed`, `dispatch_next` | called by the engine | NaN and out-of-range factors, starvation, `swap_remove` | ready work is found and waits a bounded time |
| Engine (`sdk/engine.rs`) | registries, telemetry, audit, event bus; per call a scheduler and the tasks | `run_workflow`, `execute`, `requeue` | policy, runtimes, verifier, event bus, audit | retries, early returns, threads sharing one engine | dependency order, truthful history, termination |
| Graph file (`graph/store.rs`) | graph file, scratch files, `.graph.lock` | `acquire`, Drop, `load`, `save`, `update` | every CLI command and server thread with a session | crashes under the lock, stale locks, slow holders | no lost update, whole files, nobody wedged |
| Document store (`memory/file_store.rs`) | one file per document, a copy in memory | `open`, `write`, `delete`, `search` | session, index, gc | several processes, each with an old copy; escapes | what was written is found, and read back as it was |
| Session (`sdk/session.rs`) | store, write counter | `record_run`, `record_reflections`, `recall` | document store | numbering across processes | recency follows the runs |
| Maintenance (`memory/maintenance.rs`) | none of its own | `collect`, `consolidate` | document store | decisions from an old copy | duplicates go, contents stay |
| Gateway (`web/routes.rs`, `SearchCache`) | per-session cache, generations | one handler per route | engine, session, graph file | a search overlapping a run; names of sessions | cached answers are current; nothing outside the root |
| Server (`web/lib.rs`, `http.rs`) | number of connections | accept, parse, respond | gateway | panics, slots at the limit, slow peers | a slot is returned once, nobody is dropped silently |
| Knowledge graph (`graph/lib.rs`, `extract.rs`) | nodes, adjacency | mutations, traversal, page rank, extraction | every consumer of a session | loops, doubled edges, missing ends, repeated texts | exact search, conserved rank, idempotent reading |
| Versions (`graph/versioning.rs`) | versions, branches, head | `commit`, `branch`, `checkout`, `merge` | graph | two nodes of one identity, raised or dated apart | a merge is a union |
| Knowledge bus, reindexer (`sdk/knowledge_bus.rs`) | graph, queue, store | mutations that announce, `process` | index, store | repeated and deleted nodes, failing writes | the index follows the graph |
| Agents (`sdk/agent.rs`), runtimes (`runtime`) | registries | manifests, `register`, `discover`, `transition`; `select` | engine | lifecycle, replaced entries, locality | what is handed out is registered and in service |
| Messages (`sdk/messaging.rs`) | inboxes, providers, cursors | `send`, `receive`, `route` | agents | order within priorities, turns | nothing lost, even turns |
| Replay guard (`sdk/security.rs`) | nonces seen | `seal`, `verify` | messages | windows, forgetting nonces | each message is accepted at most once |
| Policy, identity, tools (`policy`, `plugins`) | grants, rules, tokens, tools | `grant`, `add_rule`, `evaluate`, `invoke` | engine, CLI | wildcards, deny over allow | decisions independent of order |
| Planner, DAG, verifier, reflection, telemetry aggregates | none | pure decisions | engine | cycles, doubled dependencies, texts that look like equations | agreement with a definition |
| Chunking, embedding, retrieval, synonyms, metrics, KQL, codecs | none | text algorithms | store, graph | boundaries, ties, escapes, parsers | agreement with a definition |
| Commands (`cli/main.rs`) and requests | session directories, files | one per command and route | all of the above | one step of several failing | what is asked is done, and nothing else |

Components interact by calls within a process, and between processes only
through the files of a session directory: documents, the graph file and its
lock.  `ckos serve` adds threads that share one engine and one cache.

## Modules

| Module | Models | Notes |
|---|---|---|
| `TaskLifecycle` | `TaskState`, `can_transition_to`, `Task::transition_to` | used by `Engine` |
| `SchedulerQueue` | scoring, normalisation, readiness, `swap_remove` as operators | shared by `Scheduler` and `Engine` |
| `Scheduler` | the scheduler as a state machine | |
| `WorkflowSpec` | what running a workflow promises | abstract |
| `Engine` | `run_workflow` and `execute`, one step between any two calls other threads can see | refines `WorkflowSpec` |
| `SharedGraph` | a graph that is updated atomically | abstract |
| `GraphStore` | lock file, load, mutate, save; a step per file-system call | refines `SharedGraph` |
| `SessionStore` | documents under recorders, indexers and collectors | a step per file |
| `SearchCache` | the LRU cache as operators | |
| `SearchGateway` | `/api/run` against `/api/search` on one session | uses `SearchCache` |
| `WebServer` | accept loop, connection slots, reading a request, early answers | in front of `SearchGateway` |
| `Commands` | every CLI command and every route as one step over session directories, with faults | uses `Policy` |
| `Policy`, `Access` | decisions; the registries they rest on | |
| `Agents`, `Messaging`, `Security` | manifests, lifecycle and discovery; inboxes and turns; replay guard | |
| `Services` | registries, mesh, guard, access, bus and repository side by side | composes them |
| `KnowledgeGraph`, `GraphAlgorithms` | the graph as a value; traversal and page rank | use `Lists` |
| `Extract` | entities and relations of a text | |
| `KnowledgeBus`, `GraphRepo` | bus with reindexer; versions and merge | use the graph |
| `TextUnits`, `Retrieval`, `Ranking` | terms, chunks, summaries; hybrid search; synonyms, metrics, recall | |
| `Kql`, `Checks`, `Decisions`, `Codec` | query language; verifier; planner, DAG, reflection, aggregates; formats | |
| `*Proofs` | theorems and their lemmas | |
| `MC*` and `*.cfg` | instances for TLC | several components may share a run, told apart by `part` |

**Scheduler.**  `pending` is the Vec, in its order, so that ties and
`swap_remove` are the code's.  Scores are integers: a factor of 1.0 is `One` = 4
and priorities and aging are in the same unit; `NaN` is a value of its own that
`Norm` treats as the code's `norm` does.  `dispatched` remembers the last answer
of `dispatch_next`.

**Engine.**  A workflow is a call of `run_workflow` on a thread of its own;
`pc[w]` is where that call is.  Its scheduler and tasks are local, while audit
log, telemetry and event bus are shared.  What a runtime or the verifier answers
is a choice.  `Order`/`Reject` are the two outcomes of `topological_order`, over
every dependency function, cyclic ones included.  `history` collects what an
observer of the bus and the log sees of each task.

**GraphStore.**  A writer is a process or thread making one mutation; the graph
is the set of writers whose mutation it holds.  Ages are in ticks and saturate.
Files may fail (`FilesFail`), processes may be killed (`Mortal`), a live holder
may be slower than `STALE_LOCK` (`SlowHolders`), and `ckos graph` starts afresh
when it cannot load (`StartsFresh`).  Whether a lock file can be removed
(`removable`) may change at any time (`RemovalsFail`): neither the break of a stale
lock nor the drop of one's own looks at the result, so both go on as if it were gone.

**SessionStore.**  A process lists the directory, reads file by file while
others write and delete, and then works from that copy.  A document's text stands
for type, title and body; `Summary` says what `--consolidate` makes of it (one
length for all collectors).  A write is one step because it becomes visible by a
rename and its scratch file is read by nobody; `GraphStore`, which has the same
scheme with a shared destination, models those steps singly.  `collect` computes
its list at once, since it only reads its own copy, and deletes one file per
step.  The graph lock appears as what it does to indexers; what happens to the
graph under it is `GraphStore`.  `origin` and `past` are history variables.
Minted ids are taken as distinct (see *Not modelled*).

**SearchGateway.**  A run invalidates (cache, then generation, under two locks),
then persists records, reflections and graph, each of which may fail; a search
captures the generation, looks up, reads store and graph, compares generations,
and puts its answer into the cache.  What a run adds is the run's name; what an
answer holds is a set of names per source.

**WebServer.**  A connection is a record with its stage; a read returns bytes,
the end of the stream or an error, and the budget counts reads.  Above the cap
the accept thread itself answers 503 and drains the peer before it accepts
again: `accepting` names that peer.  A handler may panic.

**Commands.**  A command line is a sequence of words, and the argument parser is
the code's: value flags anywhere, the last one winning.  A `Fault` is the n-th
use of an operation of the file system; each command says by its order of
operations what is done before it and what is not after.  Between commands a user
may change a file (`EditFile`).  The interleaving of two commands is
`GraphStore`'s and `SessionStore`'s.  Deletions and rewrites that follow a hash
table's order are taken in one arbitrary order.

**Services.**  Registries, mesh, guard, bus and repository are state machines
whose actions are their public operations in any order.  Ghosts (`sent`,
`received`, `turns`, what was accepted) remember what happened for the
properties.  Labels are sequences of words, permissions sequences with a wildcard
at the end, and a MAC is a term only the key and the data make.  Which of several
nodes with one label stands for it when a text is read is left to a `HashMap`, so
`Ingest` takes any of `Indexes`.  The store the reindexer writes to is any `Storage`:
each search and each write may fail for itself, a node's documents are found in any
order, and a failed search gives the node a second document (the repository's own
stores fail to write, never to search).  The identity of a node in a merge is the
token of its kind, a colon and its label, unescaped, so that two nodes may share it.
A manifest is a list of lines, each told apart as
the parser does; `Declares` says from the text alone what a line lists.

**Algorithms.**  Texts are sequences of characters where delimiters matter and of
words where they do not.  Scores are integers in a scale that the definitions
name; logarithms, hashes and byte order are tables given to the instance.  What a
`HashMap` leaves open is a set of results, and a property speaks of each.

## Runs

| Run | Instance | States | Shows |
|---|---|---|---|
| `scheduler` | 3 submissions: Low with a NaN factor, Critical with factors out of range, one with a dependency; 11 cycles, queue of 3 | 419 thousand | aging bounds waiting and overtaking; `None` only when nothing is ready |
| `engine` | 2 calls of 3 tasks: one over all 512 dependency functions while the other is rejected; or both, with a missing runtime and a denial; 2 retries, audit log of 2, telemetry of 1 | 140 thousand | refinement of `WorkflowSpec`, order, truthful history, an audit log with the latest records, every call returns |
| `graph_store` | 3 writers, 2 mortal, slow holders, failing files and removals | 413 thousand | whole files always; exclusion and one step of `SharedGraph` until a break; if removals succeed at last, every `acquire` returns and nobody is wedged |
| `graph_lock_stuck` | 2 writers, 1 killed, a lock that cannot be removed | violation | the waiter tries for ever and never times out |
| `graph_break_race` | 3 writers, 1 killed | violation | two waiters break one stale lock and lose an update |
| `search` | 1 run, 2 searches, 2 queries, a cache of 1; 3 clients, 1 slot, budget of 4; bounded inputs of the algorithms | 571 thousand | which overlaps leave a stale answer; slots and answers; no peer stalls the server; algorithms agree with their definitions |
| `search_stale` | 1 run, 1 search | violation | a stale answer stays after the run has returned |
| `fused_sources` | the fusion cases | violation | a leg's source is lost when a later leg scores higher |
| `session_gc` | 2 runs, 2 collectors (one consolidating, one with a minimum), 3 documents | 1.3 million | concurrent collectors lose no record; `seq` orders runs |
| `session_index` | 2 indexers, a shrinking file, a damaged file, 6 ids; and 4 commands or requests in a row with faults | 64 thousand | a re-index after failure or crash is exact; commands keep their word |
| `index_twice` | 2 indexers that overlap | violation | passages are stored twice |
| `services` | 2-3 of everything, each service over every sequence of calls | 1.2 million | merges, reindexing, extraction, lookups, mesh, guard and policy are right |

A run with several parts (`part`) joins components that share no state, each part
starting in a state of its own; none hides steps of another.  Every property of a
passing run has a mutant: a plausible bug in one mapped definition (most are kept
beside it, marked *Mutant*) under which TLC finds the property violated.

**Bounds.**  Three tasks give chains, forks, joins and cycles; two retries tell
"retried" from "retried too often"; an audit log of 2 and telemetry of 1 overflow
in every run.  Three writers are what the break race needs: one to die and two to
find its lock.  `LOCK_TIMEOUT` = 1 and `STALE_LOCK` = 2 keep their order.  Two
collectors and two copies are what mutual deletion needs, and a third document
with the same summary lets compression merge contents.  A cache of 1 with two
queries evicts on every second `put`.  One slot and three clients put the server
at its cap with one client refused and one queued; a budget of 4 reads is
exhausted within a line, between lines and by a body.  Four commands are a
command that fails, one that repairs, one that reads and one that collects.  A
window of 1 and a clock of 3 let a nonce age out while its message is still on the
wire; three versions on two branches give a merge base, two sides and a merge.
Three agents and three runtimes replace, suspend and tie.  The texts of `Probe` are
read in every state of the bus without being kept, twice in a row: kept, a longer
text would outgrow the other bounds.  That `ids > 0` only spares TLC the empty
start; the lemma about reading twice (`ReadOnceIs`) has no such condition.  `MaxPending`,
`MaxClock`, `DocId`, `MaxMessages`, `MaxProviders`, `MaxNodes`, `MaxEdges`,
`MaxVersions`, `MaxQueue`, `MaxPrunes`, `MaxDocs`, `MaxRules`, `MaxAgents`, `MaxSealed`, `MaxVerified` and
`MaxCommands` only bound counters.  A summary that lists one neighbour at most
(`MAX_SUMMARIZED_NEIGHBOURS` = 1, in the code 8) is cut in a graph of two edges.

**Inputs of the algorithms.**  `MCAlgorithms` enumerates texts, graphs, queries,
rankings and files in which the cases differ (a separator at each end, a unit as
long as the target and one longer, a loop, a doubled edge, equal scores), a case
per initial state or per step, and compares each result with a definition that is
not the algorithm.

**Fairness.**  `Engine` assumes weak fairness of each call's next step: threads
are scheduled, and runtimes and verifiers return.  `GraphStore` assumes weak
fairness of the clock and of each live writer's next step; a killed writer takes
none.  `ServerFairness` is weak fairness of the accept loop and, per connection,
of its next read and of its drain: each read returns within its idle timeout
(`READ_TIMEOUT`, `DRAIN_TIMEOUT`), with bytes or with an error.  Nothing is
assumed of handlers, or of peers taking their answers, for which the code sets no
timeout; `PeersCannotStall` therefore ends where the handler begins.  No fairness
is asked of a choice of outcome.  The other specifications are checked for safety.

**Deadlock** is checked except in `services` and `fused_sources`, whose bounded
services and cases really come to an end; elsewhere a system whose calls have all
returned stutters explicitly (`Terminated`, `AllEnded` and their like).

## Findings

* `search_stale`: `/api/run` invalidates before it persists, so a search in
  between caches the old content under the new generation.
* `graph_break_race`: a waiter removes by name the lock another waiter has just
  created; `MutualExclusion` and `NoLostUpdate` hold until the first such break.
* `graph_lock_stuck`: `acquire` ignores whether it removed a stale lock and goes on
  without a look at the time, so a lock that cannot be removed is a loop without end,
  and the wait that `LOCK_TIMEOUT` promises never ends.
* `index_twice`: `ckos index` opens the store before it takes the lock.
* `fused_sources`: when a later leg finds the same document with a higher score,
  its hit replaces the entry and with it the sources gathered so far.

Each is quoted with the doc or comment it contradicts in `PROJECT.json`.

Met while modelling, without a run of their own; the models do what the code does:

* `ckos graph --session` takes a graph it cannot load as empty and saves over it,
  with a warning; `main.rs` 922-923 says of all session commands that they never
  "start empty and clobber it".  `Commands` allows it to this command alone;
  `GraphStore` has it as `StartsFresh`, empty in the runs because with failing
  files it breaks every property of the graph.
* A comment in `cmd_run` calls authorization opt-in; it is always on, as guest.
* KQL's ties keep `HashMap` order where `kql.rs` 55-56 speaks of a deterministic
  order; so do ties of fused hits with one title.
* `percent_decode` takes `%+f` for a byte.  A request line cut by the peer's close
  is answered 413.  `summarize` returns up to `max_chars` + 1 characters.
* `ArithmeticCheck` reads `x_2 + 1 = 5` as an equation.  A scalar after a list key
  of a manifest is dropped.  `canonical` joins fields with "|" without escaping.
* `personalized_pagerank` shares by the length of its list of seeds: a seed listed
  twice loses mass (`lib.rs` 440-443 says it is conserved), which `GraphSearchIsExact`
  tells apart.  The one caller passes each node once.
* `resolved_confidence` in a merge's report may exceed 100, which `add_node` makes of
  the merged node's (`versioning.rs` 183, `lib.rs` 209), when a node with a higher one
  was inserted directly.  Two nodes whose kind and label join to the same text
  (`Other("a")`, "b:c" and `Other("a:b")`, "c") are merged into one.
* The reindexer drops the error of a failed search and writes a second document,
  which stays; its comment promises one.
* A graph file gives back a confidence above 100 as 100, and an empty date or
  provenance as none.
* `GraphRepo::branch` moves a branch that exists.  `ingest_text_from` reinforces
  nodes without announcing them.  The reindexer passes over a node it cannot write.
* The replay guard relies on a clock that does not run backwards.  503 answers are
  drained in the accept thread.  `InMemoryStore::search` cuts at its limit in hash
  order.
* `gc` sweeps orphan nodes and leaves their `graph_node` documents; `index` writes
  those before it saves the graph.  A web run skips the graph when the store does
  not open, a CLI run does not.  GET handlers create the session directory.  A
  `--min-confidence` above 100 removes everything.

## Proofs

TLAPS proves, for every value of the constants under the modules' `ASSUME`s:

* `SchedulerProofs`: `TypeOK`, `BoundedOvertaking`, `NoneOnlyWhenNothingReady`,
  `WaitIsBounded`.  The lemmas of `SchedulerQueueProofs` bound `Score` whatever the
  factors and say that a non-empty ready set has a best entry.  An entry waits
  because of its `Rivals`, the entries from which aging does not yet separate it by
  the whole range of scores.  Past that range each cycle removes one of them and none
  arrives, so cycles waited and rivals left have a bounded sum (`WaitInv`).
  Of workflows (`Decisions`): Kahn's algorithm gives an order with every step once and
  each after its dependencies exactly when there is one, and nothing otherwise
  (`WorkflowOrderIsRight`), for doubled, foreign and cyclic dependencies too.  The loop
  keeps order and stack disjoint and without repetition, says of each step how many of
  its dependencies are still to come, and has a step in one of the two exactly when
  that number is 0 (`LoopInv`); if it ends short of the whole, the steps left each wait
  for another one left, so that none of them could be first in any order.  Hence plans
  (`PlansCanRun`) and definitions that are accepted (`DefinitionsCanRun`), whose steps
  depend on earlier ones only, always have an order.
* `EngineProofs`: `TypeOK`, `DependenciesRespected`, `AnnouncedMeansFinished`,
  `ResultsInDependencyOrder`, `HistoryMatchesState` and the refinement
  `ImplementsWorkflowSpec`.  The inductive invariant
  relates queue, completed set, task states and results at each program counter:
  that the loop's end means completion needs that every unfinished task is
  pending, and that a topological order exists to find a ready one among them.
  Results are in order because they are those of the completed tasks
  (`ResultsInv`), and what a task depends on is completed when it is dispatched.
  The history is right because attempts stay within their budget (`BudgetInv`), a
  task at rest shows its failed attempts and at most one success (`RestInv`), and
  one being executed shows them and the steps made so far (`StageInv`).
* `GraphStoreProofs`: whole files always (a scratch file has one owner);
  exclusion and no lost update until the first break (the lock file is the
  holder's, and what a holder has in memory is the file and its mutation); up to that
  break every step is one of `SharedGraph` or a stutter
  (`StoreImplementsSharedGraph`, of writers killed or slow and files and removals that
  fail, without fresh starts).  No break comes without a crash, a slow holder or a
  failing removal (`LiveLocksAreNotBroken`: a lock is never older than its holder's
  hold), and then the refinement holds for good (`LiveStoreImplementsSharedGraph`).
* `WebProofs`, of server and gateway.  `SlotsReturned`, `NoSilentDrop`: the
  invariant types each
  connection and says that nothing was heard of a peer whose first line has not
  begun, and that every stage after an answer has one.  A step within a connection
  (`OnlyOf`) leaves slots and accept thread alone; the four steps that do not have a
  lemma each, with the cardinality of the set of threads.
  `MissedRunsOverlap`: the invariant follows a search from
  capture to store and says for each run and each point what the generation
  comparison can still miss.  `LruConsistent`: the queue repeats no key and holds
  exactly those of the map, within capacity; eviction needs all three (`LruInv`).
* `SessionStoreProofs`: `TypeOK`, `GcKeepsRecords`, `RecencyFollowsRuns`,
  `SerialReindexIsExact`.  `GcKeepsRecords` is not inductive: a
  collector may hold plans made on an old copy.  The invariant says that files
  and copies agree with what was first written up to compression, and that the
  *best* record of each content, the first in `collect`'s order among all ever
  written, is on file and in nobody's plan.  A collector deletes a copy only for
  one that comes before it, and the order is the same for all; so the best is
  spared by everyone.  That a best exists is the well-foundedness of the naturals.
  For recency, a run that opens after others have ended finds all their records
  (`RecencyInv`), to which nobody adds any more (`AgeInv`); so it numbers its own
  above.  Reindexing alone (`Solo`) is exact because the indexer has seen every
  passage on file when it begins to delete, and afterwards those on file are its own,
  text by text as many as it has stored (`ReplacingInv`).
* `CommandsProofs`: `CommandsKeepTheirWord`, of every command line and request with
  any one operation failing.  Sessions stay well formed (`CommandsInv`), and from
  such sessions each command and each route has an effect that keeps its word
  (`KeepsWord`), a lemma for each; `main` and `route` only choose among them.  The
  loops of the code, over a command's words, its flags and its files, are functions
  on prefixes: that there is such a function is a lemma (`LoopExists`), that the
  loop's value follows it another, and what a loop keeps is shown from turn to turn
  (`UpTo`).  After n files `ckos index` has replaced the passages of exactly those
  (`Indexed`); `ckos gc` leaves of every record it was not told to drop a copy,
  perhaps shortened (`Collected`).  That a tool or a step with a sensitive capability
  ran for an admin alone comes from the demo policy, whose grants are gone through.
* `ServiceProofs`, one part for each service:
  * Replay guard: `AcceptedOnce`, `GuardIsExact`.  An accepted envelope is remembered
    unless it is already too old (`Remembered`), and none is further ahead of the
    clock than the window; so what `retain` drops can never be timely again.  What is
    accepted was sealed because what is on the wire is a sealed envelope with one
    part altered, and `canonical`, although it does not escape, can be taken apart
    again once the id is known.  Needs that the clock does not run backwards.
  * Message bus: `NothingLostOrReordered`, `TurnsAreEven`.  Every inbox is the
    messages accepted for it and not yet received, sorted by priority and within a
    priority by arrival (`MeshInv`).  Between two changes of the registry the calls
    served by any two providers differ by one at most, the cursor saying by whom.
  * Access: `DecisionsAreMonotone`.  A decision depends on the sets of rules and
    grants only, so a grant takes nothing away, a deny rule adds nothing, and the
    order of rules does neither.
  * Registries: `LookupsAreExact`, of the composed `Services`.  The index lists under
    each capability, in order of registration, the agents whose manifest has it
    (`AgentsInv`).  A manifest has what its text declares, for texts of any length
    (`ManifestSays`): from line to line the parser's list under way is the one a
    reader sees (`LineSays`), and only a key ends it.  A filter keeps the order
    (`KeptSorted`).  Of runtimes, the order lists each once (`RuntimeInv`), and
    `select` returns one as local as any (`SelectIsBest`).
  * Versions: `MergeIsUnion`, with confidences up to 255, that a merge cuts to 100, and
    whatever identities collide.  A graph made from lists of nodes and edges says
    exactly what they say (`MadeSays`); every version's parents exist before it
    (`Ancestors`), which is what gives `log`, a recursion over parents, a value.
    That value exists by the least counterexample, without an induction rule.
  * Knowledge bus: `IndexFollowsBus`, `ExtractionIsIdempotent`.  What is told of a node
    depends on the node, the edges that leave it and the labels they point at
    (`SummaryStays`), and each operation says which of these it changed, so a node
    whose document is out of date is queued or in `quiet` (`BusInv`).  Draining the
    queue gives each node that could be written its document and a second one only
    to nodes whose search failed, and takes from no other its document
    (`StoreAllIs`).  A text read
    again has no new label, finds each label at the node it had (`SameNodes`), raises
    no confidence (`NodesAgain`) and finds every pair linked (`LinkAllAgain`), because
    the first reading left an edge for every link of the text, added at the end and
    nowhere twice (`Drawn`).  The loops over words, entities and links are functions on
    prefixes, as in `CommandsProofs`.
  * Traversal: `TraversalIsExact`, for any graph, start and bound (`TraversalFindsAll`),
    and so for every graph a bus comes to hold (`BusTraversalsAreExact`).  Between two
    turns the queue holds ids at two neighbouring distances, nearest first, and what
    has left it has been followed (`Waiting`); so all that is nearer than the head has
    been seen (`AllSeen`), and what is reached for the first time is exactly one edge
    further (`NewIsNext`).  No id is queued twice, which bounds the turns by the ids
    that edges point at (`QueueEmpties`).

The assumptions are what the code's types and clients provide: widths of counters,
`None` outside the sets it stands beside, finite sets of names, a positive window
and capacity, and graphs as `KnowledgeGraph`'s own API builds them (`IsGraph`: both
ends of an edge exist, confidence is a byte).  `CommandsAssumption` says that
argument lists, plans and passages are lists, that a number parsed is a natural
and that the directories a request or a word names are directories.
`BusAssumption` says that texts are lists of sentences and those lists of words that
`Lower` knows, and that a confidence is a byte.  `AgentsAssumption` says that manifests
are lists of lines and that an item is one token.

Only model-checked:

* liveness (`EveryCallReturns`, `CrashDoesNotWedge`, `EveryAcquireReturns`,
  `PeersCannotStall`), which is out of the prover's reach;
* `AuditKeepsTheLatest`, and that a waiter whose lock can never be removed does not
  return (`WaitingEnds`, the finding `graph_lock_stuck`);
* the properties of `MCAlgorithms` as a whole.  The clauses about workflows and
  traversal are the theorems above; the others speak of sums, page ranks, texts and
  parsers, of what recursions over data compute.  `Codec`, `Kql` and `MCAlgorithms`
  declare `RECURSIVE` operators and are never reached from a module with theorems.

## Not modelled

* Bits of cryptography: SHA-256 and HMAC are an ideal MAC in `Security`.
* Ids: `mint` joins milliseconds and a per-process counter, so two processes can
  mint the same id in the same millisecond; `SessionStore` takes ids as distinct.
* Other processes and the server's cache: `ckos index`, `ckos run` and `ckos gc`
  change a session without the server noticing, by design; there is no protocol to
  model.
* `write` without a timeout in the server, and a failing `thread::spawn`, which
  ends the accept loop with a panic.
* Rendering: `to_dot`, printed tables, the dashboard page; builder methods that
  only set a field; `EventBus::unsubscribe`, which the program never calls.
* Floating point: `f32` rounding in scores and ranks.

## Plan

The components above are modelled.  What is left is to prove more.  The order of a
workflow's tasks and the graph traversal are already functions on prefixes, and proved;
the codec, the query parser and the text indexes of `MCAlgorithms` are still written
with `RECURSIVE` or with folds, and become provable once they are written the same way,
one at a time.
