----------------------------- MODULE GraphStore -----------------------------
(***************************************************************************)
(* The persisted knowledge graph of a session and the advisory lock over it *)
(* (graph/src/store.rs): `GraphLock::acquire`, its Drop, and the load,       *)
(* mutate and save that `GraphStore::update`, `ckos index` and               *)
(* `ckos graph --session` run under it.  A step is one file-system call.     *)
(*                                                                         *)
(* A writer is a process (or a thread of `ckos serve`) that makes one       *)
(* mutation; the graph's content is the set of writers whose mutation it    *)
(* holds.  Time is counted in ticks; ages saturate just past the threshold  *)
(* they are compared with.  The code ignores whether a removal of the lock   *)
(* file succeeded, both when it breaks a stale lock and when it drops its    *)
(* own: while `removable` is FALSE removals leave the file where it is.      *)
(***************************************************************************)
EXTENDS Naturals, FiniteSets

CONSTANTS
    Writer,
    LOCK_TIMEOUT,    \* ticks a writer waits for another one
    STALE_LOCK,      \* a lock file older than this is presumed abandoned
    Mortal,          \* writers whose process may be killed
    SlowHolders,     \* whether a live writer may hold the lock beyond STALE_LOCK
    FilesFail,       \* whether reading or writing a file may fail
    RemovalsFail,    \* whether the removal of a lock file may fail
    StartsFresh,     \* writers (`ckos graph`) that take an unreadable graph as empty
    None

ASSUME GraphStoreAssumption ==
    /\ LOCK_TIMEOUT \in Nat
    /\ STALE_LOCK \in Nat
    /\ Mortal \subseteq Writer
    /\ StartsFresh \subseteq Writer
    /\ SlowHolders \in BOOLEAN /\ FilesFail \in BOOLEAN /\ RemovalsFail \in BOOLEAN
    /\ None \notin Writer

VARIABLES
    pc,              \* where each writer is
    waited,          \* ticks since it called acquire
    lock,            \* the writer that created .graph.lock, or None if no file
    lockAge,         \* ticks since the lock file was created
    graph,           \* content of the graph file
    mem,             \* the graph each writer has in memory
    scratch,         \* scratch[p]: the scratch file at path p
    returned,        \* the writers whose save succeeded and that dropped the lock
    broken,          \* whether a writer ever removed a lock presumed abandoned
    removable        \* whether the file system lets lock files be removed now

lockVars == <<lock, lockAge, broken, removable>>
vars == <<pc, waited, lockVars, graph, mem, scratch, returned>>

\* Between acquire's Ok and the guard's Drop.
Holding == {"load", "create", "write", "rename", "saved", "failed"}
Acquiring == {"open", "check", "break", "wait"}
Ended == {"ok", "err", "timedout", "dead"}
Locations == {"idle"} \cup Acquiring \cup Holding \cup Ended

\* A scratch file is absent, partial (and whose), a whole graph, or a mixture of
\* two writers' bytes.
Absent == [kind |-> "absent"]
Partial(w) == [kind |-> "partial", by |-> w]
Whole(content) == [kind |-> "whole", content |-> content]
Mixture == [kind |-> "mixture"]
File == {Absent, Mixture} \cup {Partial(w) : w \in Writer} \cup {Whole(c) : c \in SUBSET Writer}

TypeOK ==
    /\ pc \in [Writer -> Locations]
    /\ waited \in [Writer -> 0 .. LOCK_TIMEOUT]
    /\ lock \in Writer \cup {None}
    /\ lockAge \in 0 .. (STALE_LOCK + 1)
    /\ graph \in File
    /\ mem \in [Writer -> SUBSET Writer]
    /\ scratch \in [Writer -> File]
    /\ returned \subseteq Writer
    /\ broken \in BOOLEAN
    /\ removable \in BOOLEAN /\ (~RemovalsFail => removable)

\* A missing graph file loads as an empty graph.
Init ==
    /\ pc = [w \in Writer |-> "idle"]
    /\ waited = [w \in Writer |-> 0]
    /\ lock = None
    /\ lockAge = 0
    /\ graph = Whole({})
    /\ mem = [w \in Writer |-> {}]
    /\ scratch = [w \in Writer |-> Absent]
    /\ returned = {}
    /\ broken = FALSE
    /\ removable = TRUE

Goto(w, loc) == pc' = [pc EXCEPT ![w] = loc]

------------------------------------------------------------------------------
\* GraphLock::acquire

\* A first call, or another one after a timeout.
Begin(w) ==
    /\ pc[w] \in {"idle", "timedout"}
    /\ waited' = [waited EXCEPT ![w] = 0]
    /\ Goto(w, "open")
    /\ UNCHANGED <<lockVars, graph, mem, scratch, returned>>

\* Mutant of CreateNew: `create` for `create_new`.
CreateAny(w) ==
    /\ pc[w] = "open"
    /\ lock' = w /\ lockAge' = 0
    /\ Goto(w, "load")
    /\ waited' = [waited EXCEPT ![w] = 0]
    /\ UNCHANGED <<broken, removable, graph, mem, scratch, returned>>

\* create_new creates the file: the lock is taken.
CreateNew(w) ==
    /\ pc[w] = "open"
    /\ lock = None
    /\ lock' = w /\ lockAge' = 0
    /\ Goto(w, "load")
    /\ waited' = [waited EXCEPT ![w] = 0]
    /\ UNCHANGED <<broken, removable, graph, mem, scratch, returned>>

AlreadyExists(w) ==
    /\ pc[w] = "open"
    /\ lock # None
    /\ Goto(w, "check")
    /\ UNCHANGED <<waited, lockVars, graph, mem, scratch, returned>>

\* The lock file can be neither created nor found.
CreateFails(w) ==
    /\ pc[w] = "open"
    /\ FilesFail
    /\ Goto(w, "err")
    /\ waited' = [waited EXCEPT ![w] = 0]
    /\ UNCHANGED <<lockVars, graph, mem, scratch, returned>>

\* Mutants of IsStale: the age is not looked at, or never suffices.
StaleAtOnce == lock # None
NeverStale == FALSE

\* is_stale: false when the file is gone by now.
IsStale == lock # None /\ lockAge > STALE_LOCK

CheckStale(w) ==
    /\ pc[w] = "check"
    /\ Goto(w, IF IsStale THEN "break" ELSE "wait")
    /\ UNCHANGED <<waited, lockVars, graph, mem, scratch, returned>>

\* `let _ = remove_file(...)`: the lock file may have stayed.
RemoveLock ==
    /\ lock' = IF removable THEN None ELSE lock
    /\ lockAge' = IF removable THEN 0 ELSE lockAge
    /\ UNCHANGED removable

\* Mutant of Break that goes on without having removed the file.
BreakWithoutRemoval(w) ==
    /\ pc[w] = "break"
    /\ Goto(w, "open")
    /\ UNCHANGED <<waited, lockVars, graph, mem, scratch, returned>>

\* Remove whatever lock file is there now, or fail to, then try again without
\* a look at the time.
Break(w) ==
    /\ pc[w] = "break"
    /\ RemoveLock
    /\ broken' = (broken \/ (removable /\ lock # None))
    /\ Goto(w, "open")
    /\ UNCHANGED <<waited, graph, mem, scratch, returned>>

Sleep(w) ==
    /\ pc[w] = "wait"
    /\ waited[w] < LOCK_TIMEOUT
    /\ Goto(w, "open")
    /\ UNCHANGED <<waited, lockVars, graph, mem, scratch, returned>>

TimedOut(w) ==
    /\ pc[w] = "wait"
    /\ waited[w] >= LOCK_TIMEOUT
    /\ Goto(w, "timedout")
    /\ waited' = [waited EXCEPT ![w] = 0]
    /\ UNCHANGED <<lockVars, graph, mem, scratch, returned>>

------------------------------------------------------------------------------
\* Under the lock: load, mutate, save

\* Mutant of ScratchPath, below.
SharedScratchPath(w) == CHOOSE v \in Writer : TRUE

\* The scratch path is unique to the call.
ScratchPath(w) == w

\* Mutant of Loaded that forgets what it loaded.
LoadedAfresh(w, content) == {w}

\* The graph in memory after the writer's mutation of what it loaded.
Loaded(w, content) == content \cup {w}

Load(w) ==
    /\ pc[w] = "load"
    /\ graph.kind = "whole"
    /\ mem' = [mem EXCEPT ![w] = Loaded(w, graph.content)]
    /\ Goto(w, "create")
    /\ UNCHANGED <<waited, lockVars, graph, scratch, returned>>

\* The file cannot be read: an error, or an empty graph for `ckos graph`.
LoadFails(w) ==
    /\ pc[w] = "load"
    /\ FilesFail \/ graph.kind # "whole"
    /\ IF w \in StartsFresh
       THEN mem' = [mem EXCEPT ![w] = Loaded(w, {})] /\ Goto(w, "create")
       ELSE mem' = mem /\ Goto(w, "failed")
    /\ UNCHANGED <<waited, lockVars, graph, scratch, returned>>

\* File::create truncates what another writer may have there.
CreateScratch(w) ==
    /\ pc[w] = "create"
    /\ scratch' = [scratch EXCEPT ![ScratchPath(w)] = Partial(w)]
    /\ Goto(w, "write")
    /\ UNCHANGED <<waited, lockVars, graph, mem, returned>>

\* write_all and sync_all: a whole file, unless another writer is in it.
WriteScratch(w) ==
    /\ pc[w] = "write"
    /\ scratch' = [scratch EXCEPT ![ScratchPath(w)] =
                      IF @ = Partial(w) THEN Whole(mem[w]) ELSE Mixture]
    /\ Goto(w, "rename")
    /\ UNCHANGED <<waited, lockVars, graph, mem, returned>>

\* The rename needs the scratch file to be there still.
Rename(w) ==
    /\ pc[w] = "rename"
    /\ scratch[ScratchPath(w)] # Absent
    /\ graph' = scratch[ScratchPath(w)]
    /\ scratch' = [scratch EXCEPT ![ScratchPath(w)] = Absent]
    /\ Goto(w, "saved")
    /\ UNCHANGED <<waited, lockVars, mem, returned>>

\* Any call of save may fail; the scratch file stays behind.
SaveFails(w) ==
    /\ pc[w] \in {"create", "write", "rename"}
    /\ FilesFail \/ (pc[w] = "rename" /\ scratch[ScratchPath(w)] = Absent)
    /\ Goto(w, "failed")
    /\ UNCHANGED <<waited, lockVars, graph, mem, scratch, returned>>

\* The guard's Drop, on every return path, removes whatever lock file is there,
\* if it can.
DropLock(w) ==
    /\ pc[w] \in {"saved", "failed"}
    /\ RemoveLock
    /\ IF pc[w] = "saved"
       THEN returned' = returned \cup {w} /\ Goto(w, "ok")
       ELSE returned' = returned /\ Goto(w, "err")
    /\ mem' = [mem EXCEPT ![w] = {}]
    /\ UNCHANGED <<waited, broken, graph, scratch>>

------------------------------------------------------------------------------
\* The environment

\* The process is killed: no destructor runs, its files stay.
Kill(w) ==
    /\ w \in Mortal
    /\ pc[w] \in Acquiring \cup Holding
    /\ Goto(w, "dead")
    /\ waited' = [waited EXCEPT ![w] = 0]
    /\ mem' = [mem EXCEPT ![w] = {}]
    /\ UNCHANGED <<lockVars, graph, scratch, returned>>

\* The directory becomes read-only, or writable again.
Permissions ==
    /\ RemovalsFail
    /\ removable' = ~removable
    /\ UNCHANGED <<pc, waited, lock, lockAge, broken, graph, mem, scratch, returned>>

Least(a, b) == IF a < b THEN a ELSE b

\* Time passes.  Unless SlowHolders, a live holder is done before STALE_LOCK.
Tick ==
    /\ SlowHolders \/ (\A w \in Writer : pc[w] \in Holding => lockAge < STALE_LOCK)
    /\ lockAge' = IF lock = None THEN 0 ELSE Least(lockAge + 1, STALE_LOCK + 1)
    /\ waited' = [w \in Writer |-> IF pc[w] \in Acquiring
                                   THEN Least(waited[w] + 1, LOCK_TIMEOUT) ELSE waited[w]]
    /\ UNCHANGED <<pc, lock, broken, removable, graph, mem, scratch, returned>>

\* What a writer does by itself once it has called acquire.
Step(w) ==
    \/ CreateNew(w) \/ AlreadyExists(w) \/ CreateFails(w) \/ CheckStale(w) \/ Break(w)
    \/ Sleep(w) \/ TimedOut(w)
    \/ Load(w) \/ LoadFails(w) \/ CreateScratch(w) \/ WriteScratch(w) \/ Rename(w)
    \/ SaveFails(w) \/ DropLock(w)

Next == Tick \/ Permissions \/ \E w \in Writer : Begin(w) \/ Step(w) \/ Kill(w)

\* Live writers keep running and time passes; nobody need call acquire.
Fairness == WF_vars(Tick) /\ \A w \in Writer : WF_vars(Step(w))

SafetySpec == Init /\ [][Next]_vars
Spec == SafetySpec /\ Fairness

------------------------------------------------------------------------------
\* Properties

\* At most one writer is between acquire's Ok and the guard's Drop.
MutualExclusion ==
    \A v, w \in Writer : pc[v] \in Holding /\ pc[w] \in Holding => v = w

\* The doc of `update` (store.rs:195-196): writers do not lose each other's work.
\* A writer that returned Ok has its mutation in the graph for good.
NoLostUpdate ==
    graph.kind = "whole" => returned \subseteq graph.content

\* The comment in `save`: readers, who take no lock, see a complete graph, never
\* a truncation or a mixture, whoever is killed and even when two writers both
\* believe they hold the lock.
ReadersSeeWholeGraphs == graph.kind = "whole"

\* Until the first time a lock file is broken, writers exclude each other and
\* lose nothing, with any number of slow or killed writers.
SafeUntilFirstBreak == ~broken => MutualExclusion /\ NoLostUpdate

\* Nothing is presumed abandoned while every writer is alive and done in time,
\* and drops its lock.
NoBreakWithoutCrash == (Mortal = {} /\ ~SlowHolders /\ ~RemovalsFail) => ~broken

\* The comment on LOCK_TIMEOUT (store.rs:49): a writer waits for another one that
\* long and then gives up.  So a call of acquire comes to an end: the lock, a
\* timeout or an error, or the process killed.
WaitingEnds ==
    \A w \in Writer : pc[w] \in Acquiring ~> pc[w] \in Holding \cup Ended

\* A call of acquire comes to an end if lock files can at last be removed, whoever
\* was killed or slow, and however often a removal failed before.
EveryAcquireReturns == <>[]removable => WaitingEnds

\* The doc of GraphLock: a killed holder cannot wedge the session for good.  A
\* writer that keeps calling acquire again after each timeout gets the lock, if
\* lock files can at last be removed.
CrashDoesNotWedge ==
    <>[]removable => \A w \in Writer : <>[](pc[w] # "open")

Abstract == INSTANCE SharedGraph WITH graph <- graph.content

\* Until the first lock file is broken, the lock makes load, mutate and save one
\* atomic step: whatever the graph file and the returns show is a step of
\* SharedGraph, with slow and killed writers, failing files and locks left behind.
ImplementsSharedGraph ==
    Abstract!Init /\ [][~broken' => [Abstract!Next]_(Abstract!vars)]_vars
==============================================================================
