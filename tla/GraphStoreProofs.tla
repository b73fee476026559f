-------------------------- MODULE GraphStoreProofs --------------------------
(***************************************************************************)
(* For every number of writers and every timeout: readers see whole graphs, *)
(* writers exclude each other and lose nothing until the first lock file is *)
(* broken, and till then the store implements SharedGraph; none is broken    *)
(* while writers are alive, done in time and able to remove their locks.     *)
(***************************************************************************)
EXTENDS GraphStore, TLAPS

\* What the four kinds of file are told apart by.
LEMMA FileFacts ==
    /\ \A c : Whole(c).kind = "whole" /\ Whole(c).content = c /\ Whole(c) # Absent
    /\ \A w : Partial(w) # Absent
  <1>1. \A c : Whole(c).kind = "whole" /\ Whole(c).content = c
    BY DEF Whole
  <1>2. \A c : Whole(c) # Absent
    <2>1. Absent.kind = "absent"
      BY DEF Absent
    <2> QED BY <1>1, <2>1
  <1>3. \A w : Partial(w).kind = "partial" /\ Absent.kind = "absent"
    BY DEF Partial, Absent
  <1> QED BY <1>1, <1>2, <1>3

\* The kinds of file a scratch path may hold.
LEMMA FileTypes ==
    /\ Absent \in File /\ Mixture \in File
    /\ \A w \in Writer : Partial(w) \in File
    /\ \A c \in SUBSET Writer : Whole(c) \in File
  BY DEF File

\* A writer's own scratch file is partial, then whole; the graph file is whole.
ScratchInv ==
    /\ \A w \in Writer : pc[w] = "write" => scratch[w] = Partial(w)
    /\ \A w \in Writer : pc[w] = "rename" => scratch[w] = Whole(mem[w])
    /\ \E c \in SUBSET Writer : graph = Whole(c)

\* Until a lock file is broken it is the holder's.
LockInv == ~broken => \A w \in Writer : pc[w] \in Holding => lock = w

\* What a holder is about to save is the graph on file and its own mutation.
MemInv ==
    (~broken /\ StartsFresh = {}) =>
        /\ \A w \in Writer : pc[w] \in {"create", "write", "rename"} =>
              mem[w] = graph.content \cup {w}
        /\ \A w \in Writer : pc[w] = "saved" => w \in graph.content
        /\ returned \subseteq graph.content

\* A writer's mutation is in the graph only once it has renamed its file.
OnceInv == \A w \in Writer :
    pc[w] \in {"idle", "timedout"} \cup Acquiring \cup (Holding \ {"saved"}) =>
        /\ w \notin graph.content
        /\ \A v \in Writer : pc[v] \in {"create", "write", "rename"} /\ v # w => w \notin mem[v]

\* With every writer alive and done in time, no lock file ever looks abandoned.
TimelyInv ==
    (Mortal = {} /\ ~SlowHolders /\ ~RemovalsFail) =>
        /\ ~broken
        /\ \A w \in Writer : pc[w] # "break"
        /\ lock # None => pc[lock] \in Holding /\ lockAge <= STALE_LOCK

IInv == TypeOK /\ ScratchInv /\ LockInv /\ MemInv /\ OnceInv /\ TimelyInv

\* Every location a writer moves to is a location.
LEMMA LocationFacts ==
    /\ {"idle", "open", "check", "break", "wait", "load", "create", "write", "rename", "saved",
        "failed", "ok", "err", "timedout", "dead"} = Locations
    /\ "idle" \notin Holding /\ "open" \notin Holding
  BY DEF Locations, Acquiring, Holding, Ended

\* Ages saturate: they stay within their bounds.
LEMMA LeastType == \A a, b \in Nat : Least(a, b) \in 0 .. b
  BY DEF Least

\* Steps keep the store's state well typed.
LEMMA TypeStep == TypeOK /\ [Next]_vars => TypeOK'
  <1> SUFFICES ASSUME TypeOK, [Next]_vars PROVE TypeOK'
    OBVIOUS
  <1> USE GraphStoreAssumption
  <1>1. ASSUME NEW w \in Writer, NEW loc \in Locations, Goto(w, loc)
        PROVE  pc' \in [Writer -> Locations]
    BY <1>1 DEF Goto, TypeOK
  <1>2. CASE Tick
    <2>1. lockAge' \in 0 .. (STALE_LOCK + 1)
      <3>1. PICK a \in Nat, b \in Nat : a = lockAge + 1 /\ b = STALE_LOCK + 1
        BY DEF TypeOK
      <3>2. Least(a, b) \in 0 .. b /\ 0 \in 0 .. b
        BY LeastType
      <3> QED BY <1>2, <3>1, <3>2 DEF Tick
    <2>2. waited' \in [Writer -> 0 .. LOCK_TIMEOUT]
      <3>1. \A w \in Writer : Least(waited[w] + 1, LOCK_TIMEOUT) \in 0 .. LOCK_TIMEOUT
        BY DEF Least, TypeOK
      <3> QED BY <1>2, <3>1 DEF Tick, TypeOK
    <2> QED BY <1>2, <2>1, <2>2 DEF Tick, TypeOK
  <1>3. ASSUME NEW w \in Writer, Begin(w) \/ Kill(w) PROVE TypeOK'
    <2>1. pc' \in [Writer -> Locations]
      BY <1>1, <1>3, LocationFacts DEF Begin, Kill
    <2>2. waited' \in [Writer -> 0 .. LOCK_TIMEOUT] /\ mem' \in [Writer -> SUBSET Writer]
      BY <1>3 DEF Begin, Kill, TypeOK
    <2>3. UNCHANGED <<lockVars, graph, scratch, returned>>
      BY <1>3 DEF Begin, Kill
    <2> QED BY <2>1, <2>2, <2>3 DEF TypeOK, lockVars
  <1>4. ASSUME NEW w \in Writer, CreateNew(w) \/ Break(w) \/ DropLock(w) PROVE TypeOK'
    <2>1. pc' \in [Writer -> Locations]
      BY <1>1, <1>4, LocationFacts DEF CreateNew, Break, DropLock
    <2>2. lockAge' \in 0 .. (STALE_LOCK + 1)
      <3>1. lockAge' = 0 \/ lockAge' = lockAge
        BY <1>4 DEF CreateNew, Break, DropLock, RemoveLock
      <3> QED BY <3>1 DEF TypeOK
    <2>3. lock' \in Writer \cup {None} /\ returned' \subseteq Writer
      <3>1. lock' = w \/ lock' = None \/ lock' = lock
        BY <1>4 DEF CreateNew, Break, DropLock, RemoveLock
      <3>2. returned' = returned \/ returned' = returned \cup {w}
        BY <1>4 DEF CreateNew, Break, DropLock
      <3> QED BY <3>1, <3>2 DEF TypeOK
    <2>4. waited' \in [Writer -> 0 .. LOCK_TIMEOUT] /\ mem' \in [Writer -> SUBSET Writer]
      BY <1>4 DEF CreateNew, Break, DropLock, TypeOK
    <2>5. UNCHANGED <<graph, scratch, removable>>
      BY <1>4 DEF CreateNew, Break, DropLock, RemoveLock
    <2>6. broken' \in BOOLEAN
      BY <1>4, Zenon DEF CreateNew, Break, DropLock, TypeOK
    <2> QED BY <2>1, <2>2, <2>3, <2>4, <2>5, <2>6 DEF TypeOK
  <1>5. ASSUME NEW w \in Writer,
               AlreadyExists(w) \/ CreateFails(w) \/ CheckStale(w) \/ Sleep(w) \/ TimedOut(w) \/ SaveFails(w)
        PROVE  TypeOK'
    <2>1. pc' \in [Writer -> Locations]
      <3>1. \A l1, l2 \in Locations : (IF IsStale THEN l1 ELSE l2) \in Locations
        OBVIOUS
      <3> QED BY <1>1, <1>5, <3>1, LocationFacts
              DEF AlreadyExists, CreateFails, CheckStale, Sleep, TimedOut, SaveFails
    <2>2. UNCHANGED <<lockVars, graph, mem, scratch, returned>>
      BY <1>5 DEF AlreadyExists, CreateFails, CheckStale, Sleep, TimedOut, SaveFails
    <2>3. waited' \in [Writer -> 0 .. LOCK_TIMEOUT]
      BY <1>5 DEF AlreadyExists, CreateFails, CheckStale, Sleep, TimedOut, SaveFails, TypeOK
    <2> QED BY <2>1, <2>2, <2>3 DEF TypeOK, lockVars
  <1>6. ASSUME NEW w \in Writer, Load(w) \/ LoadFails(w) PROVE TypeOK'
    <2>1. pc' \in [Writer -> Locations]
      BY <1>1, <1>6, LocationFacts DEF Load, LoadFails
    <2>2. graph.kind = "whole" => graph.content \subseteq Writer
      <3>1. \A f \in File : f.kind = "whole" => f.content \subseteq Writer
        BY DEF File, Absent, Mixture, Partial, Whole
      <3> QED BY <3>1 DEF TypeOK
    <2>3. mem' \in [Writer -> SUBSET Writer]
      <3>1. Loaded(w, {}) \in SUBSET Writer
            /\ (graph.kind = "whole" => Loaded(w, graph.content) \in SUBSET Writer)
        BY <2>2 DEF Loaded
      <3> QED BY <1>6, <3>1 DEF Load, LoadFails, TypeOK
    <2> QED BY <1>6, <2>1, <2>3 DEF Load, LoadFails, TypeOK, lockVars
  <1>7. ASSUME NEW w \in Writer, CreateScratch(w) \/ WriteScratch(w) \/ Rename(w) PROVE TypeOK'
    <2>1. pc' \in [Writer -> Locations]
      BY <1>1, <1>7, LocationFacts DEF CreateScratch, WriteScratch, Rename
    <2>2. Whole(mem[w]) \in File /\ Partial(w) \in File /\ Mixture \in File /\ Absent \in File
      BY FileTypes DEF TypeOK
    <2>3. scratch' \in [Writer -> File] /\ graph' \in File
      BY <1>7, <2>2 DEF CreateScratch, WriteScratch, Rename, ScratchPath, TypeOK
    <2> QED BY <1>7, <2>1, <2>3 DEF CreateScratch, WriteScratch, Rename, TypeOK, lockVars
  <1>8. CASE Permissions
    <2>1. removable' \in BOOLEAN /\ (~RemovalsFail => removable')
      BY <1>8 DEF Permissions
    <2>2. UNCHANGED <<pc, waited, lock, lockAge, broken, graph, mem, scratch, returned>>
      BY <1>8 DEF Permissions
    <2> QED BY <2>1, <2>2 DEF TypeOK
  <1>9. CASE UNCHANGED vars
    BY <1>9 DEF vars, lockVars, TypeOK
  <1> QED BY <1>2, <1>3, <1>4, <1>5, <1>6, <1>7, <1>8, <1>9 DEF Next, Step

\* Scratch files are private, so every file that is renamed is whole.
LEMMA ScratchStep == TypeOK /\ ScratchInv /\ [Next]_vars => ScratchInv'
  <1> SUFFICES ASSUME TypeOK, ScratchInv, [Next]_vars PROVE ScratchInv'
    OBVIOUS
  <1>1. ASSUME NEW w \in Writer, CreateScratch(w) PROVE ScratchInv'
    BY <1>1 DEF CreateScratch, Goto, ScratchPath, TypeOK, ScratchInv
  <1>2. ASSUME NEW w \in Writer, WriteScratch(w) PROVE ScratchInv'
    BY <1>2 DEF WriteScratch, Goto, ScratchPath, TypeOK, ScratchInv
  <1>3. ASSUME NEW w \in Writer, Rename(w) PROVE ScratchInv'
    <2>1. graph' = Whole(mem[w]) /\ mem[w] \in SUBSET Writer /\ mem' = mem
      BY <1>3 DEF Rename, ScratchPath, ScratchInv, TypeOK
    <2>2. \A v \in Writer : pc'[v] \in {"write", "rename"} => v # w /\ pc'[v] = pc[v]
      BY <1>3 DEF Rename, Goto, TypeOK
    <2>3. \A v \in Writer : v # w => scratch'[v] = scratch[v]
      BY <1>3 DEF Rename, ScratchPath, TypeOK
    <2> QED BY <2>1, <2>2, <2>3 DEF ScratchInv
  <1>4. ASSUME NEW w \in Writer, Load(w) \/ LoadFails(w) PROVE ScratchInv'
    BY <1>4 DEF Load, LoadFails, Goto, TypeOK, ScratchInv
  <1>5. ASSUME UNCHANGED <<graph, scratch>>,
               \A v \in Writer : pc'[v] \in {"write", "rename"} => pc'[v] = pc[v] /\ mem'[v] = mem[v]
        PROVE  ScratchInv'
    BY <1>5 DEF ScratchInv
  <1>6. ASSUME NEW w \in Writer,
               \/ Begin(w) \/ Kill(w) \/ CreateNew(w) \/ AlreadyExists(w) \/ CreateFails(w) \/ CheckStale(w)
               \/ Break(w) \/ Sleep(w) \/ TimedOut(w) \/ SaveFails(w) \/ DropLock(w)
        PROVE  ScratchInv'
    <2>1. UNCHANGED <<graph, scratch>>
      BY <1>6 DEF Begin, Kill, CreateNew, AlreadyExists, CreateFails, CheckStale, Break, Sleep, TimedOut,
                  SaveFails, DropLock
    <2>2. \A v \in Writer : pc'[v] \in {"write", "rename"} => pc'[v] = pc[v] /\ v # w
      BY <1>6 DEF Begin, Kill, CreateNew, AlreadyExists, CreateFails, CheckStale, Break, Sleep, TimedOut,
                  SaveFails, DropLock, Goto, TypeOK
    <2>3. \A v \in Writer : v # w => mem'[v] = mem[v]
      BY <1>6 DEF Begin, Kill, CreateNew, AlreadyExists, CreateFails, CheckStale, Break, Sleep, TimedOut,
                  SaveFails, DropLock, TypeOK
    <2> QED BY <1>5, <2>1, <2>2, <2>3
  <1>7. CASE Tick \/ Permissions \/ UNCHANGED vars
    BY <1>5, <1>7 DEF Tick, Permissions, vars
  <1> QED BY <1>1, <1>2, <1>3, <1>4, <1>6, <1>7 DEF Next, Step

\* create_new succeeds only when nobody holds, and only the holder drops.
LEMMA LockStep == TypeOK /\ LockInv /\ [Next]_vars => LockInv'
  <1> SUFFICES ASSUME TypeOK, LockInv, [Next]_vars, ~broken',
                      NEW v \in Writer, pc'[v] \in Holding
               PROVE  lock' = v
    BY DEF LockInv
  <1>1. ~broken
    BY DEF Next, Step, Tick, Permissions, Begin, Kill, CreateNew, AlreadyExists, CreateFails, CheckStale, Break, Sleep,
           TimedOut, Load, LoadFails, CreateScratch, WriteScratch, Rename, SaveFails, DropLock,
           lockVars, vars, TypeOK
  <1>2. ASSUME lock' = lock, pc[v] \in Holding PROVE lock' = v
    BY <1>1, <1>2 DEF LockInv
  <1>3. CASE Tick \/ Permissions \/ UNCHANGED vars
    BY <1>2, <1>3 DEF Tick, Permissions, vars, lockVars
  <1>4. ASSUME NEW w \in Writer, CreateNew(w) PROVE lock' = v
    BY <1>1, <1>4, GraphStoreAssumption DEF CreateNew, Goto, LockInv, TypeOK
  <1>5. ASSUME NEW w \in Writer, Break(w) PROVE lock' = v
    <2>1. pc[v] \in Holding
      BY <1>5 DEF Break, Goto, TypeOK, Holding
    <2>2. CASE removable
      <3>1. lock = None
        BY <1>5, <2>2 DEF Break
      <3> QED BY <1>1, <2>1, <3>1, GraphStoreAssumption DEF LockInv
    <2>3. CASE ~removable
      <3>1. lock' = lock
        BY <1>5, <2>3 DEF Break, RemoveLock
      <3> QED BY <1>2, <2>1, <3>1
    <2> QED BY <2>2, <2>3
  <1>6. ASSUME NEW w \in Writer, DropLock(w) PROVE lock' = v
    <2>1. pc[w] \in Holding /\ pc'[w] \notin Holding
      BY <1>6 DEF DropLock, Goto, TypeOK, Holding
    <2>2. v # w /\ pc[v] \in Holding
      BY <1>6, <2>1 DEF DropLock, Goto, TypeOK
    <2> QED BY <1>1, <2>1, <2>2 DEF LockInv
  <1>7. ASSUME NEW w \in Writer,
               \/ Begin(w) \/ Kill(w) \/ AlreadyExists(w) \/ CreateFails(w) \/ CheckStale(w) \/ Sleep(w)
               \/ TimedOut(w) \/ Load(w) \/ LoadFails(w) \/ CreateScratch(w) \/ WriteScratch(w)
               \/ Rename(w) \/ SaveFails(w)
        PROVE  lock' = v
    <2>1. lock' = lock
      BY <1>7 DEF Begin, Kill, AlreadyExists, CreateFails, CheckStale, Sleep, TimedOut, Load, LoadFails,
                  CreateScratch, WriteScratch, Rename, SaveFails, lockVars
    <2>2. pc[v] \in Holding
      BY <1>7 DEF Begin, Kill, AlreadyExists, CreateFails, CheckStale, Sleep, TimedOut, Load, LoadFails,
                  CreateScratch, WriteScratch, Rename, SaveFails, Goto, TypeOK, Holding
    <2> QED BY <1>2, <2>1, <2>2
  <1> QED BY <1>3, <1>4, <1>5, <1>6, <1>7 DEF Next, Step

\* The holder is the only one to change the graph, so what it read stays current.
LEMMA MemStep == TypeOK /\ ScratchInv /\ LockInv /\ MemInv /\ [Next]_vars => MemInv'
  <1> SUFFICES ASSUME TypeOK, ScratchInv, LockInv, MemInv, [Next]_vars,
                      ~broken', StartsFresh = {}
               PROVE  /\ \A w \in Writer : pc'[w] \in {"create", "write", "rename"} =>
                            mem'[w] = graph'.content \cup {w}
                      /\ \A w \in Writer : pc'[w] = "saved" => w \in graph'.content
                      /\ returned' \subseteq graph'.content
    BY DEF MemInv
  <1>1. ~broken
    BY DEF Next, Step, Tick, Permissions, Begin, Kill, CreateNew, AlreadyExists, CreateFails, CheckStale, Break, Sleep,
           TimedOut, Load, LoadFails, CreateScratch, WriteScratch, Rename, SaveFails, DropLock,
           lockVars, vars, TypeOK
  <1>2. /\ \A w \in Writer : pc[w] \in {"create", "write", "rename"} =>
              mem[w] = graph.content \cup {w}
        /\ \A w \in Writer : pc[w] = "saved" => w \in graph.content
        /\ returned \subseteq graph.content
    BY <1>1 DEF MemInv
  <1>3. ASSUME NEW w \in Writer, Load(w)
        PROVE  /\ \A v \in Writer : pc'[v] \in {"create", "write", "rename"} =>
                     mem'[v] = graph'.content \cup {v}
               /\ \A v \in Writer : pc'[v] = "saved" => v \in graph'.content
               /\ returned' \subseteq graph'.content
    BY <1>2, <1>3 DEF Load, Loaded, Goto, TypeOK
  <1>4. ASSUME NEW w \in Writer, Rename(w)
        PROVE  /\ \A v \in Writer : pc'[v] \in {"create", "write", "rename"} =>
                     mem'[v] = graph'.content \cup {v}
               /\ \A v \in Writer : pc'[v] = "saved" => v \in graph'.content
               /\ returned' \subseteq graph'.content
    <2>1. pc[w] \in Holding /\ mem[w] = graph.content \cup {w}
      BY <1>2, <1>4 DEF Rename, Holding
    <2>2. graph'.content = graph.content \cup {w}
      <3>1. graph' = Whole(mem[w])
        BY <1>4 DEF Rename, ScratchPath, ScratchInv
      <3> QED BY <2>1, <3>1, FileFacts
    <2>3. \A v \in Writer : v # w => pc[v] \notin Holding
      BY <1>1, <2>1 DEF LockInv
    <2>4. \A v \in Writer : v # w => pc'[v] \notin {"create", "write", "rename", "saved"}
      BY <1>4, <2>3 DEF Rename, Goto, TypeOK, Holding
    <2>5. pc'[w] = "saved" /\ returned' = returned
      BY <1>4 DEF Rename, Goto, TypeOK
    <2> QED BY <1>2, <2>2, <2>4, <2>5
  <1>5. ASSUME NEW w \in Writer, DropLock(w)
        PROVE  /\ \A v \in Writer : pc'[v] \in {"create", "write", "rename"} =>
                     mem'[v] = graph'.content \cup {v}
               /\ \A v \in Writer : pc'[v] = "saved" => v \in graph'.content
               /\ returned' \subseteq graph'.content
    <2>1. \A v \in Writer : v # w => pc'[v] = pc[v] /\ mem'[v] = mem[v]
      BY <1>5 DEF DropLock, Goto, TypeOK
    <2>2. pc'[w] \notin {"create", "write", "rename", "saved"}
      BY <1>5 DEF DropLock, Goto, TypeOK
    <2>3. graph' = graph /\ returned' \subseteq graph.content
      BY <1>2, <1>5 DEF DropLock
    <2> QED BY <1>2, <2>1, <2>2, <2>3
  <1>6. ASSUME UNCHANGED <<graph, returned>>,
               \A v \in Writer : pc'[v] \in {"create", "write", "rename"} =>
                                  pc[v] \in {"create", "write", "rename"} /\ mem'[v] = mem[v],
               \A v \in Writer : pc'[v] = "saved" => pc[v] = "saved"
        PROVE  /\ \A v \in Writer : pc'[v] \in {"create", "write", "rename"} =>
                     mem'[v] = graph'.content \cup {v}
               /\ \A v \in Writer : pc'[v] = "saved" => v \in graph'.content
               /\ returned' \subseteq graph'.content
    BY <1>2, <1>6
  <1>7. ASSUME NEW w \in Writer,
               \/ Begin(w) \/ Kill(w) \/ CreateNew(w) \/ AlreadyExists(w) \/ CreateFails(w) \/ CheckStale(w)
               \/ Break(w) \/ Sleep(w) \/ TimedOut(w) \/ LoadFails(w) \/ CreateScratch(w)
               \/ WriteScratch(w) \/ SaveFails(w)
        PROVE  /\ UNCHANGED <<graph, returned>>
               /\ \A v \in Writer : pc'[v] \in {"create", "write", "rename"} =>
                                    pc[v] \in {"create", "write", "rename"} /\ mem'[v] = mem[v]
               /\ \A v \in Writer : pc'[v] = "saved" => pc[v] = "saved"
    <2>1. UNCHANGED <<graph, returned>>
      BY <1>7 DEF Begin, Kill, CreateNew, AlreadyExists, CreateFails, CheckStale, Break, Sleep, TimedOut,
                  LoadFails, CreateScratch, WriteScratch, SaveFails
    <2>2. ASSUME NEW v \in Writer, v # w PROVE pc'[v] = pc[v] /\ mem'[v] = mem[v]
      BY <1>7, <2>2
         DEF Begin, Kill, CreateNew, AlreadyExists, CreateFails, CheckStale, Break, Sleep, TimedOut,
             LoadFails, CreateScratch, WriteScratch, SaveFails, Goto, TypeOK
    <2>3. /\ pc'[w] \in {"create", "write", "rename"} =>
                pc[w] \in {"create", "write", "rename"} /\ mem'[w] = mem[w]
          /\ pc'[w] # "saved"
      BY <1>7 DEF Begin, Kill, CreateNew, AlreadyExists, CreateFails, CheckStale, Break, Sleep, TimedOut,
                  LoadFails, CreateScratch, WriteScratch, SaveFails, Goto, TypeOK
    <2> QED BY <2>1, <2>2, <2>3
  <1>8. CASE Tick \/ Permissions \/ UNCHANGED vars
    BY <1>6, <1>8 DEF Tick, Permissions, vars
  <1> QED BY <1>3, <1>4, <1>5, <1>6, <1>7, <1>8 DEF Next, Step

Saving == {"create", "write", "rename"}
Unsaved == {"idle", "timedout"} \cup Acquiring \cup (Holding \ {"saved"})

\* A writer saves its mutation once.
LEMMA OnceStep == TypeOK /\ ScratchInv /\ OnceInv /\ [Next]_vars => OnceInv'
  <1> SUFFICES ASSUME TypeOK, ScratchInv, OnceInv, [Next]_vars, NEW w \in Writer, pc'[w] \in Unsaved
               PROVE  /\ w \notin graph'.content
                      /\ \A v \in Writer : pc'[v] \in Saving /\ v # w => w \notin mem'[v]
    BY DEF OnceInv, Saving, Unsaved
  <1> DEFINE Goal == /\ w \notin graph'.content
                     /\ \A v \in Writer : pc'[v] \in Saving /\ v # w => w \notin mem'[v]
  <1>1. pc[w] \in Unsaved
    <2>1. ASSUME NEW u \in Writer, Begin(u) \/ Kill(u) \/ Step(u), u = w PROVE pc[w] \in Unsaved
      BY <2>1 DEF Begin, Kill, Step, CreateNew, AlreadyExists, CreateFails, CheckStale, Break, Sleep, TimedOut,
                  Load, LoadFails, CreateScratch, WriteScratch, Rename, SaveFails, DropLock, Goto,
                  TypeOK, Unsaved, Acquiring, Holding
    <2>2. ASSUME NEW u \in Writer, Begin(u) \/ Kill(u) \/ Step(u), u # w PROVE pc'[w] = pc[w]
      BY <2>2 DEF Begin, Kill, Step, CreateNew, AlreadyExists, CreateFails, CheckStale, Break, Sleep, TimedOut,
                  Load, LoadFails, CreateScratch, WriteScratch, Rename, SaveFails, DropLock, Goto,
                  TypeOK
    <2> QED BY <2>1, <2>2 DEF Next, Tick, Permissions, vars
  <1>2. /\ w \notin graph.content
        /\ \A v \in Writer : pc[v] \in Saving /\ v # w => w \notin mem[v]
    BY <1>1 DEF OnceInv, Saving, Unsaved
  <1>3. ASSUME NEW u \in Writer, Load(u) \/ LoadFails(u) PROVE Goal
    <2>1. graph' = graph /\ \A v \in Writer : v # u => mem'[v] = mem[v] /\ pc'[v] = pc[v]
      BY <1>3 DEF Load, LoadFails, Goto, TypeOK
    <2>2. pc'[u] \in Saving => mem'[u] = graph.content \cup {u} \/ mem'[u] = {u}
      BY <1>3 DEF Load, LoadFails, Loaded, Goto, TypeOK, Saving
    <2> QED BY <1>2, <2>1, <2>2
  <1>4. ASSUME NEW u \in Writer, Rename(u) PROVE Goal
    <2>1. u # w
      BY <1>4 DEF Rename, Goto, TypeOK, Unsaved, Acquiring, Holding
    <2>2. graph' = Whole(mem[u]) /\ mem' = mem /\ pc[u] \in Saving
      BY <1>4 DEF Rename, ScratchPath, ScratchInv, Saving
    <2>3. graph'.content = mem[u]
      BY <2>2, FileFacts
    <2>4. \A v \in Writer : pc'[v] \in Saving => pc[v] \in Saving
      BY <1>4 DEF Rename, Goto, TypeOK, Saving
    <2> QED BY <1>2, <2>1, <2>2, <2>3, <2>4
  <1>5. ASSUME NEW u \in Writer,
               \/ Begin(u) \/ Kill(u) \/ CreateNew(u) \/ AlreadyExists(u) \/ CreateFails(u) \/ CheckStale(u)
               \/ Break(u) \/ Sleep(u) \/ TimedOut(u) \/ CreateScratch(u)
               \/ WriteScratch(u) \/ SaveFails(u) \/ DropLock(u)
        PROVE  Goal
    <2>1. graph' = graph
      BY <1>5 DEF Begin, Kill, CreateNew, AlreadyExists, CreateFails, CheckStale, Break, Sleep, TimedOut,
                  CreateScratch, WriteScratch, SaveFails, DropLock
    <2>2. \A v \in Writer : v # u => pc'[v] = pc[v] /\ mem'[v] = mem[v]
      BY <1>5 DEF Begin, Kill, CreateNew, AlreadyExists, CreateFails, CheckStale, Break, Sleep, TimedOut,
                  CreateScratch, WriteScratch, SaveFails, DropLock, Goto, TypeOK
    <2>3. pc'[u] \in Saving => pc[u] \in Saving /\ mem'[u] = mem[u]
      BY <1>5 DEF Begin, Kill, CreateNew, AlreadyExists, CreateFails, CheckStale, Break, Sleep, TimedOut,
                  CreateScratch, WriteScratch, SaveFails, DropLock, Goto, TypeOK, Saving
    <2> QED BY <1>2, <2>1, <2>2, <2>3
  <1>6. CASE Tick \/ Permissions \/ UNCHANGED vars
    BY <1>2, <1>6 DEF Tick, Permissions, vars
  <1> QED BY <1>3, <1>4, <1>5, <1>6 DEF Next, Step

\* With every writer alive and done in time no lock file looks abandoned.
LEMMA TimelyStep == TypeOK /\ LockInv /\ TimelyInv /\ [Next]_vars => TimelyInv'
  <1> SUFFICES ASSUME TypeOK, LockInv, TimelyInv, [Next]_vars,
                      Mortal = {}, ~SlowHolders, ~RemovalsFail
               PROVE  /\ ~broken'
                      /\ \A w \in Writer : pc'[w] # "break"
                      /\ lock' # None => pc'[lock'] \in Holding /\ lockAge' <= STALE_LOCK
    BY DEF TimelyInv
  <1> DEFINE Goal == /\ ~broken'
                     /\ \A w \in Writer : pc'[w] # "break"
                     /\ lock' # None => pc'[lock'] \in Holding /\ lockAge' <= STALE_LOCK
  <1> USE GraphStoreAssumption
  <1>1. /\ ~broken
        /\ \A w \in Writer : pc[w] # "break"
        /\ lock # None => pc[lock] \in Holding /\ lockAge <= STALE_LOCK
    BY DEF TimelyInv
  <1>2. lock # None => lock \in Writer
    BY DEF TypeOK
  <1>3. CASE Tick
    <2>1. lock # None => lockAge' <= STALE_LOCK
      <3>1. lock # None => lockAge < STALE_LOCK
        BY <1>1, <1>2, <1>3 DEF Tick
      <3>2. lock # None => lockAge' = Least(lockAge + 1, STALE_LOCK + 1)
        BY <1>3 DEF Tick
      <3>3. \A a, s \in Nat : a < s => Least(a + 1, s + 1) <= s
        BY DEF Least
      <3>4. lockAge \in Nat
        BY DEF TypeOK
      <3> QED BY <3>1, <3>2, <3>3, <3>4
    <2> QED BY <1>1, <1>3, <2>1 DEF Tick
  <1>4. ASSUME NEW w \in Writer, CreateNew(w) PROVE Goal
    BY <1>1, <1>4 DEF CreateNew, Goto, TypeOK, Holding
  <1>5. ASSUME NEW w \in Writer, DropLock(w) PROVE Goal
    <2>1. lock' = None
      BY <1>5 DEF DropLock, RemoveLock, TypeOK
    <2> QED BY <1>1, <1>5, <2>1 DEF DropLock, Goto, TypeOK
  <1>6. ASSUME NEW w \in Writer, CheckStale(w) PROVE Goal
    <2>1. ~ IsStale
      BY <1>1 DEF IsStale, TypeOK
    <2>2. pc' = [pc EXCEPT ![w] = "wait"] /\ pc[w] = "check"
      BY <1>6, <2>1 DEF CheckStale, Goto
    <2>3. lock # w
      BY <1>1, <2>2 DEF Holding
    <2> QED BY <1>1, <1>2, <1>6, <2>2, <2>3 DEF CheckStale, lockVars, TypeOK
  <1>7. ASSUME NEW w \in Writer,
               \/ Begin(w) \/ AlreadyExists(w) \/ CreateFails(w) \/ Sleep(w) \/ TimedOut(w)
               \/ Load(w) \/ LoadFails(w) \/ CreateScratch(w) \/ WriteScratch(w)
               \/ Rename(w) \/ SaveFails(w)
        PROVE  Goal
    <2>1. UNCHANGED lockVars
      BY <1>7 DEF Begin, AlreadyExists, CreateFails, Sleep, TimedOut, Load, LoadFails,
                  CreateScratch, WriteScratch, Rename, SaveFails, lockVars
    <2>2. \A v \in Writer : pc'[v] # "break" /\ (pc[v] \in Holding => pc'[v] \in Holding)
      BY <1>1, <1>7 DEF Begin, AlreadyExists, CreateFails, Sleep, TimedOut, Load, LoadFails,
                  CreateScratch, WriteScratch, Rename, SaveFails, Goto, TypeOK, Holding
    <2> QED BY <1>1, <1>2, <2>1, <2>2 DEF lockVars
  <1>8. ASSUME Permissions \/ \E w \in Writer : Break(w) \/ Kill(w) PROVE Goal
    BY <1>1, <1>8 DEF Permissions, Break, Kill
  <1>9. CASE UNCHANGED vars
    BY <1>1, <1>9 DEF vars, lockVars
  <1> QED BY <1>3, <1>4, <1>5, <1>6, <1>7, <1>8, <1>9 DEF Next, Step

\* The invariant holds of every behaviour, with any writers, kills and failures.
THEOREM InvariantHolds == SafetySpec => []IInv
  <1>1. Init => IInv
    <2> SUFFICES ASSUME Init PROVE IInv
      OBVIOUS
    <2>1. TypeOK
      <3>1. Whole({}) \in File /\ Absent \in File /\ "idle" \in Locations
        BY FileTypes, LocationFacts
      <3>2. 0 \in 0 .. LOCK_TIMEOUT /\ 0 \in 0 .. (STALE_LOCK + 1)
        BY GraphStoreAssumption
      <3> QED BY <3>1, <3>2 DEF Init, TypeOK
    <2>2. ScratchInv /\ LockInv
      BY LocationFacts DEF Init, ScratchInv, LockInv
    <2>3. MemInv /\ OnceInv
      <3>1. graph.content = {}
        BY FileFacts DEF Init
      <3>2. MemInv
        BY <3>1 DEF Init, MemInv
      <3>3. OnceInv
        BY <3>1 DEF Init, OnceInv
      <3> QED BY <3>2, <3>3
    <2>4. TimelyInv
      BY DEF Init, TimelyInv
    <2> QED BY <2>1, <2>2, <2>3, <2>4 DEF IInv
  <1>2. IInv /\ [Next]_vars => IInv'
    BY TypeStep, ScratchStep, LockStep, MemStep, OnceStep, TimelyStep DEF IInv
  <1> QED BY <1>1, <1>2, PTL DEF SafetySpec

\* Readers, who take no lock, never see a truncated or mixed graph file.
THEOREM ReadersAlwaysSeeWholeGraphs == SafetySpec => []ReadersSeeWholeGraphs
  <1>1. IInv => ReadersSeeWholeGraphs
    BY FileFacts DEF IInv, ScratchInv, ReadersSeeWholeGraphs
  <1> QED BY <1>1, InvariantHolds, PTL

\* Until the first broken lock file, writers exclude each other and none loses
\* another's work, however many are slow or killed.
THEOREM SafeBeforeBreak ==
    ASSUME StartsFresh = {}
    PROVE  SafetySpec => []SafeUntilFirstBreak
  <1>1. IInv => SafeUntilFirstBreak
    BY DEF IInv, LockInv, MemInv, SafeUntilFirstBreak, MutualExclusion, NoLostUpdate
  <1> QED BY <1>1, InvariantHolds, PTL

\* No lock file is broken while every writer is alive, done within STALE_LOCK, and
\* able to remove the lock it drops.
THEOREM LiveLocksAreNotBroken == SafetySpec => []NoBreakWithoutCrash
  <1>1. IInv => NoBreakWithoutCrash
    BY DEF IInv, TimelyInv, NoBreakWithoutCrash
  <1> QED BY <1>1, InvariantHolds, PTL

\* A step that breaks no lock file is one of SharedGraph, or changes nothing of it.
LEMMA SharedStep ==
    ASSUME StartsFresh = {}, IInv, [Next]_vars, ~broken
    PROVE  [Abstract!Next]_(Abstract!vars)
  <1>2. ASSUME NEW w \in Writer, Rename(w) PROVE Abstract!Next
    <2>1. graph' = Whole(mem[w]) /\ returned' = returned
      BY <1>2 DEF Rename, ScratchPath, IInv, ScratchInv
    <2>2. mem[w] = graph.content \cup {w}
      BY <1>2 DEF Rename, IInv, MemInv
    <2>3. w \notin graph.content
      BY <1>2 DEF Rename, IInv, OnceInv, Holding
    <2>4. Abstract!Apply(w)
      BY <2>1, <2>2, <2>3, FileFacts DEF Abstract!Apply
    <2> QED BY <2>4 DEF Abstract!Next
  <1>3. ASSUME NEW w \in Writer, DropLock(w) PROVE [Abstract!Next]_(Abstract!vars)
    <2>1. CASE pc[w] = "saved"
      <3>1. w \in graph.content
        BY <2>1 DEF IInv, MemInv
      <3>2. Abstract!Return(w)
        BY <1>3, <2>1, <3>1 DEF DropLock, Abstract!Return
      <3> QED BY <3>2 DEF Abstract!Next
    <2>2. CASE pc[w] # "saved"
      BY <1>3, <2>2 DEF DropLock, Abstract!vars
    <2> QED BY <2>1, <2>2
  <1>4. ASSUME NEW w \in Writer,
               \/ Begin(w) \/ Kill(w) \/ CreateNew(w) \/ AlreadyExists(w) \/ CreateFails(w) \/ CheckStale(w)
               \/ Break(w) \/ Sleep(w) \/ TimedOut(w) \/ Load(w) \/ LoadFails(w)
               \/ CreateScratch(w) \/ WriteScratch(w) \/ SaveFails(w)
        PROVE  UNCHANGED Abstract!vars
    BY <1>4 DEF Begin, Kill, CreateNew, AlreadyExists, CreateFails, CheckStale, Break, Sleep, TimedOut,
                Load, LoadFails, CreateScratch, WriteScratch, SaveFails, Abstract!vars
  <1>5. CASE Tick \/ Permissions \/ UNCHANGED vars
    BY <1>5 DEF Tick, Permissions, vars, Abstract!vars
  <1> QED BY <1>2, <1>3, <1>4, <1>5 DEF Next, Step

\* A broken lock file stays broken.
LEMMA BrokenForGood == TypeOK /\ [Next]_vars /\ ~broken' => ~broken
  BY DEF Next, Step, Tick, Permissions, Begin, Kill, CreateNew, AlreadyExists, CreateFails, CheckStale, Break,
         Sleep, TimedOut, Load, LoadFails, CreateScratch, WriteScratch, Rename, SaveFails, DropLock,
         lockVars, vars, TypeOK

\* Until the first broken lock file the store implements SharedGraph, with any
\* writers slow or killed, files failing and lock files left behind.
THEOREM StoreImplementsSharedGraph ==
    ASSUME StartsFresh = {}
    PROVE  SafetySpec => ImplementsSharedGraph
  <1>1. Init => Abstract!Init
    BY FileFacts DEF Init, Abstract!Init
  <1>2. IInv /\ [Next]_vars => [~broken' => [Abstract!Next]_(Abstract!vars)]_vars
    <2>1. ASSUME IInv, [Next]_vars, ~broken' PROVE [Abstract!Next]_(Abstract!vars)
      BY <2>1, SharedStep, BrokenForGood DEF IInv
    <2> QED BY <2>1
  <1> QED BY <1>1, <1>2, InvariantHolds, PTL DEF SafetySpec, ImplementsSharedGraph

\* With live writers done in time, whose locks can be removed, it does so for good.
THEOREM LiveStoreImplementsSharedGraph ==
    ASSUME Mortal = {}, ~SlowHolders, ~RemovalsFail, StartsFresh = {}
    PROVE  SafetySpec => Abstract!Spec
  <1>1. Init => Abstract!Init
    BY FileFacts DEF Init, Abstract!Init
  <1>2. IInv /\ [Next]_vars => [Abstract!Next]_(Abstract!vars)
    <2> SUFFICES ASSUME IInv, [Next]_vars PROVE [Abstract!Next]_(Abstract!vars)
      OBVIOUS
    <2>1. ~broken
      BY DEF IInv, TimelyInv
    <2> QED BY <2>1, SharedStep
  <1> QED BY <1>1, <1>2, InvariantHolds, PTL DEF SafetySpec, Abstract!Spec
==============================================================================
