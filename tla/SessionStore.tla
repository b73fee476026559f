---------------------------- MODULE SessionStore ----------------------------
(***************************************************************************)
(* The documents of one session directory (memory/src/file_store.rs) and    *)
(* the processes that change them: `ckos run --session` and `/api/run`,      *)
(* which append records (sdk/src/session.rs), `ckos index`, which replaces   *)
(* the passages of a file, and `ckos gc`, which compresses and deletes       *)
(* (memory/src/maintenance.rs).  A process reads the directory once, file by *)
(* file, when it opens the store, and decides everything from that copy.     *)
(*                                                                         *)
(* A document's text stands for its type, title and body.  Writing goes to a *)
(* scratch file nobody reads and becomes visible by one rename, so a write   *)
(* is one step here, and a process killed before the rename wrote nothing.   *)
(***************************************************************************)
EXTENDS Naturals, FiniteSets, Sequences

CONSTANTS
    Run, Index, Gc,  \* the processes: recorders, indexers, collectors
    DocId,           \* document ids, compared by `id.cmp`
    Text,
    Summary,         \* Summary[t]: t cut to the collectors' --consolidate length
    Existing,        \* the directory before the processes start
    Records,         \* Records[r]: what recorder r persists, in order
    Passages,        \* Passages[x]: the chunks of the file indexer x reads
    NodeText,        \* the body of the graph_node document of a new concept
    MinConfidence,   \* --min-confidence of each collector
    Consolidating,   \* the collectors given --consolidate
    Dated,           \* the collectors given --now
    Damaged,         \* ids of files that cannot be read (not UTF-8, no access)
    NoDoc, NoProc

Proc == Run \cup Index \cup Gc

Kind == {"record", "chunk", "graph_node", "other"}

\* A document.  `expires` says that it carries an expiry date not after
\* --now; `by` is the process that wrote it first.
Doc == [kind: Kind, text: Text, confidence: 0 .. 255, seq: Nat,
        embedding: {"none", "good", "broken"}, expires: BOOLEAN,
        compressed: BOOLEAN, by: Proc \cup {NoProc}]

\* What a recorder is asked to persist: an execution result, or a reflection
\* (which gets no embedding).
Record == [text: Text, confidence: 0 .. 255, embedding: {"none", "good", "broken"}]

\* Whether `compress_document` would shorten the text.
Long(t) == Summary[t] # t

ASSUME SessionStoreAssumption ==
    /\ Run \cap Index = {} /\ Run \cap Gc = {} /\ Index \cap Gc = {}
    /\ NoProc \notin Proc /\ NoDoc \notin Doc
    /\ DocId \subseteq Nat /\ Damaged \subseteq DocId
    /\ Summary \in [Text -> Text]
    /\ \A t \in Text : ~Long(Summary[t])
    /\ Existing \in [DocId -> Doc \cup {NoDoc}]
    /\ IsFiniteSet({i \in DocId : Existing[i] # NoDoc})
    /\ \A i \in DocId : Existing[i] # NoDoc =>
         /\ Existing[i].by = NoProc
         /\ Existing[i].kind = "record" => ~Existing[i].expires  \* no run dates its records
    /\ Records \in [Run -> Seq(Record)]
    /\ Passages \in [Index -> Seq(Text)]
    /\ NodeText \in Text
    /\ MinConfidence \in [Gc -> 0 .. 255]
    /\ Consolidating \subseteq Gc /\ Dated \subseteq Gc

VARIABLES
    files,           \* files[i]: the document in <i>.doc
    pc,
    index,           \* index[p]: p's copy of the directory
    unread,          \* entries of the directory listing p has yet to read
    skipped,         \* whether p skipped an entry it could not read
    written,         \* how many of its records or passages p has written
    seq,             \* a recorder's write counter
    plan,            \* what a collector has decided to delete
    lock,            \* holder of the session's graph lock
    \* What observers may ask about:
    origin,          \* origin[i]: the document minted with id i, as first written
    past             \* past[p]: the processes that had ended when p opened

vars == <<files, pc, index, unread, skipped, written, seq, plan, lock,
          origin, past>>

Ended == {"done", "failed", "killed"}

Init ==
    /\ files = Existing
    /\ origin = Existing
    /\ pc = [p \in Proc |-> "start"]
    /\ index = [p \in Proc |-> [i \in DocId |-> NoDoc]]
    /\ unread = [p \in Proc |-> {}]
    /\ skipped = [p \in Proc |-> FALSE]
    /\ written = [p \in Proc |-> 0]
    /\ seq = [r \in Run |-> 0]
    /\ plan = [g \in Gc |-> {}]
    /\ lock = NoProc
    /\ past = [p \in Proc |-> {}]

In(dir) == {i \in DocId : dir[i] # NoDoc}

Goto(p, l) == pc' = [pc EXCEPT ![p] = l]

\* The process ends and its memory is gone.
End(p, l) ==
    /\ Goto(p, l)
    /\ index' = [index EXCEPT ![p] = [i \in DocId |-> NoDoc]]
    /\ unread' = [unread EXCEPT ![p] = {}]
    /\ written' = [written EXCEPT ![p] = 0]
    /\ seq' = [r \in Run |-> IF r = p THEN 0 ELSE seq[r]]
    /\ plan' = [g \in Gc |-> IF g = p THEN {} ELSE plan[g]]
    /\ UNCHANGED <<files, skipped, origin, past>>

-----------------------------------------------------------------------------
(* FileStore.                                                              *)

\* `FileStore::open` lists the directory ...
Open(p) ==
    /\ pc[p] = "start"
    /\ Goto(p, "opening")
    /\ unread' = [unread EXCEPT ![p] = In(files)]
    /\ past' = [past EXCEPT ![p] = {q \in Proc : pc[q] \in Ended}]
    /\ UNCHANGED <<files, index, skipped, written, seq, plan, lock, origin>>

\* ... and reads each file.  A file that appears meanwhile may be listed too.
ReadDoc(p, i) ==
    /\ pc[p] = "opening"
    /\ files[i] # NoDoc /\ i \notin Damaged
    /\ index[p][i] = NoDoc
    /\ index' = [index EXCEPT ![p][i] = files[i]]
    /\ unread' = [unread EXCEPT ![p] = @ \ {i}]
    /\ UNCHANGED <<files, pc, skipped, written, seq, plan, lock, origin, past>>

\* A file that cannot be read, be it because it is gone by now, is skipped.
SkipDoc(p, i) ==
    /\ pc[p] = "opening"
    /\ i \in unread[p]
    /\ i \in Damaged \/ files[i] = NoDoc
    /\ unread' = [unread EXCEPT ![p] = @ \ {i}]
    /\ skipped' = [skipped EXCEPT ![p] = TRUE]
    /\ UNCHANGED <<files, pc, index, written, seq, plan, lock, origin, past>>

Opened(p) ==
    /\ pc[p] = "opening"
    /\ unread[p] = {}
    /\ Goto(p, IF p \in Run THEN "recording"
               ELSE IF p \in Index THEN "locking" ELSE "consolidating")
    /\ UNCHANGED <<files, index, unread, skipped, written, seq, plan, lock, origin, past>>

\* `FileStore::write`.
Write(p, i, d) ==
    /\ files' = [files EXCEPT ![i] = d]
    /\ index' = [index EXCEPT ![p][i] = d]

\* A document under the id that `Document::new` mints.
WriteNew(p, i, d) ==
    /\ origin[i] = NoDoc
    /\ Write(p, i, d)
    /\ origin' = [origin EXCEPT ![i] = d]

\* Mutant: the document is forgotten and its file is left.
DeleteFromIndexOnly(p, i) ==
    /\ UNCHANGED files
    /\ index' = [index EXCEPT ![p][i] = NoDoc]

\* `FileStore::delete`: a file that is already gone is no error.
Delete(p, i) ==
    /\ files' = [files EXCEPT ![i] = NoDoc]
    /\ index' = [index EXCEPT ![p][i] = NoDoc]

\* A write, a delete, a read of the file to index, the lock or the graph
\* fails, and the command ends there, dropping the lock.
Fail(p) ==
    /\ pc[p] \notin Ended \cup {"start"}
    /\ End(p, "failed")
    /\ lock' = IF lock = p THEN NoProc ELSE lock

\* An indexer is killed while it holds the lock, whose file stays.  Elsewhere a
\* process that is killed leaves what one that fails does.
Kill(p) ==
    /\ lock = p
    /\ pc[p] \notin Ended
    /\ End(p, "killed")
    /\ UNCHANGED lock

-----------------------------------------------------------------------------
(* Session: a recorder.                                                    *)

\* The highest `seq` in a directory, 0 in one without any.
MaxSeq(dir) ==
    LET seqs    == {dir[i].seq : i \in In(dir)}
        highest == {m \in seqs : \A n \in seqs : n <= m}
    IN  IF highest = {} THEN 0 ELSE CHOOSE m \in highest : TRUE

\* Mutant: the counter starts at zero in every process.
NextSeqUnseeded(p) == seq[p] + 1

\* `Session::next_seq`: seeded once from p's copy of the directory.
NextSeq(p) == (IF written[p] = 0 THEN MaxSeq(index[p]) ELSE seq[p]) + 1

NewRecord(p, r) ==
    [kind |-> "record", text |-> r.text, confidence |-> r.confidence,
     seq |-> NextSeq(p), embedding |-> r.embedding, expires |-> FALSE,
     compressed |-> FALSE, by |-> p]

\* One document of `record_run` and `record_reflections`.
RecordOne(p, i) ==
    /\ pc[p] = "recording"
    /\ written[p] < Len(Records[p])
    /\ WriteNew(p, i, NewRecord(p, Records[p][written[p] + 1]))
    /\ seq' = [seq EXCEPT ![p] = NextSeq(p)]
    /\ written' = [written EXCEPT ![p] = @ + 1]
    /\ UNCHANGED <<pc, unread, skipped, plan, lock, past>>

Recorded(p) ==
    /\ pc[p] = "recording"
    /\ written[p] = Len(Records[p])
    /\ End(p, "done")
    /\ UNCHANGED lock

-----------------------------------------------------------------------------
(* `ckos index` of one file.                                               *)

\* `GraphLock::acquire`, after the store was opened; the lock of a killed
\* process is broken in the end.
Acquire(p) ==
    /\ pc[p] = "locking"
    /\ lock = NoProc \/ (lock # NoProc /\ pc[lock] = "killed")
    /\ lock' = p
    /\ Goto(p, "replacing")
    /\ UNCHANGED <<files, index, unread, skipped, written, seq, plan, origin, past>>

Stale(p) == {i \in In(index[p]) : index[p][i].kind = "chunk"}

DeleteStale(p) ==
    /\ pc[p] = "replacing"
    /\ \E i \in Stale(p) : Delete(p, i)
    /\ UNCHANGED <<pc, unread, skipped, written, seq, plan, lock, origin, past>>

Replaced(p) ==
    /\ pc[p] = "replacing"
    /\ Stale(p) = {}
    /\ Goto(p, "storing")
    /\ UNCHANGED <<files, index, unread, skipped, written, seq, plan, lock, origin, past>>

NewDocument(p, k, t) ==
    [kind |-> k, text |-> t, confidence |-> 100, seq |-> 0,
     embedding |-> "good", expires |-> FALSE, compressed |-> FALSE, by |-> p]

StorePassage(p, i) ==
    /\ pc[p] = "storing"
    /\ written[p] < Len(Passages[p])
    /\ WriteNew(p, i, NewDocument(p, "chunk", Passages[p][written[p] + 1]))
    /\ written' = [written EXCEPT ![p] = @ + 1]
    /\ UNCHANGED <<pc, unread, skipped, seq, plan, lock, past>>

\* The graph may hold concepts it did not have before; each becomes a
\* document, unless writing it fails, which `Reindexer::process` ignores.
Reindex(p, i) ==
    /\ pc[p] = "storing"
    /\ written[p] = Len(Passages[p])
    /\ \A j \in In(index[p]) : index[p][j].kind = "graph_node" => index[p][j].by # p
    /\ WriteNew(p, i, NewDocument(p, "graph_node", NodeText))
    /\ UNCHANGED <<pc, unread, skipped, written, seq, plan, lock, past>>

Indexed(p) ==
    /\ pc[p] = "storing"
    /\ written[p] = Len(Passages[p])
    /\ End(p, "done")
    /\ lock' = IF lock = p THEN NoProc ELSE lock

-----------------------------------------------------------------------------
(* `ckos gc`.                                                              *)

\* `compress_document`.
Compress(d) == [d EXCEPT !.text = Summary[@], !.compressed = TRUE]

ToCompress(p) ==
    IF p \in Consolidating
    THEN {i \in In(index[p]) : ~index[p][i].compressed /\ Long(index[p][i].text)}
    ELSE {}

\* One document of `consolidate`, written back under its own id.
Consolidate(p) ==
    /\ pc[p] = "consolidating"
    /\ \E i \in ToCompress(p) : Write(p, i, Compress(index[p][i]))
    /\ UNCHANGED <<pc, unread, skipped, written, seq, plan, lock, origin, past>>

\* `removal_reason` but for duplicates: what the document has on its own.
Unwanted(p, d) ==
    \/ p \in Dated /\ d.expires
    \/ MinConfidence[p] > 0 /\ d.confidence < MinConfidence[p]
    \/ d.embedding = "broken"

\* The order in which `collect` looks at documents.
Before(dir, i, j) ==
    \/ dir[i].confidence > dir[j].confidence
    \/ dir[i].confidence = dir[j].confidence /\ i < j

SameContent(d, e) == d.kind = e.kind /\ d.text = e.text

\* A copy that comes earlier and that is kept: `seen` holds the key of a
\* document only if none of the earlier reasons removed it.
Duplicate(p, dir, i) ==
    \E j \in In(dir) : /\ SameContent(dir[i], dir[j])
                       /\ Before(dir, j, i)
                       /\ ~Unwanted(p, dir[j])

RemovalReasons(p, dir) ==
    {i \in In(dir) : Unwanted(p, dir[i]) \/ Duplicate(p, dir, i)}

\* Mutant: without the sort, the copy kept is the first in hash order.
DecideUnsorted(p) ==
    /\ pc[p] = "consolidating"
    /\ ToCompress(p) = {}
    /\ \E kept \in SUBSET {i \in In(index[p]) : ~Unwanted(p, index[p][i])} :
         /\ \A i, j \in kept : SameContent(index[p][i], index[p][j]) => i = j
         /\ \A i \in In(index[p]) :
              Unwanted(p, index[p][i]) \/ \E j \in kept : SameContent(index[p][i], index[p][j])
         /\ plan' = [plan EXCEPT ![p] = In(index[p]) \ kept]
    /\ Goto(p, "collecting")
    /\ UNCHANGED <<files, index, unread, skipped, written, seq, lock, origin, past>>

\* `collect` decides from its copy alone ...
Decide(p) ==
    /\ pc[p] = "consolidating"
    /\ ToCompress(p) = {}
    /\ plan' = [plan EXCEPT ![p] = RemovalReasons(p, index[p])]
    /\ Goto(p, "collecting")
    /\ UNCHANGED <<files, index, unread, skipped, written, seq, lock, origin, past>>

\* ... and deletes one document after the other, in its order.
Collect(p) ==
    /\ pc[p] = "collecting"
    /\ \E i \in plan[p] :
         /\ \A j \in plan[p] \ {i} : Before(index[p], i, j)
         /\ Delete(p, i)
         /\ plan' = [plan EXCEPT ![p] = @ \ {i}]
    /\ UNCHANGED <<pc, unread, skipped, written, seq, lock, origin, past>>

Collected(p) ==
    /\ pc[p] = "collecting"
    /\ plan[p] = {}
    /\ End(p, "done")
    /\ UNCHANGED lock

-----------------------------------------------------------------------------
AllEnded == (\A p \in Proc : pc[p] \in Ended) /\ UNCHANGED vars

RunNext(p) == (\E i \in DocId : RecordOne(p, i)) \/ Recorded(p)

IndexNext(p) ==
    \/ Acquire(p) \/ DeleteStale(p) \/ Replaced(p) \/ Indexed(p) \/ Kill(p)
    \/ \E i \in DocId : StorePassage(p, i) \/ Reindex(p, i)

GcNext(p) == Consolidate(p) \/ Decide(p) \/ Collect(p) \/ Collected(p)

StoreNext(p) ==
    \/ Open(p) \/ Opened(p) \/ Fail(p)
    \/ \E i \in DocId : ReadDoc(p, i) \/ SkipDoc(p, i)

Next ==
    \/ \E p \in Proc : StoreNext(p)
    \/ \E p \in Run : RunNext(p)
    \/ \E p \in Index : IndexNext(p)
    \/ \E p \in Gc : GcNext(p)
    \/ AllEnded

Spec == Init /\ [][Next]_vars

-----------------------------------------------------------------------------
(* Properties.                                                             *)

\* Types, and who may be recorded as the holder of the graph lock: an indexer
\* at work or one that was killed, never one that returned.
TypeOK ==
    /\ files \in [DocId -> Doc \cup {NoDoc}]
    /\ origin \in [DocId -> Doc \cup {NoDoc}]
    /\ pc \in [Proc -> {"start", "opening", "recording", "locking", "replacing",
                       "storing", "consolidating", "collecting"} \cup Ended]
    /\ index \in [Proc -> [DocId -> Doc \cup {NoDoc}]]
    /\ unread \in [Proc -> SUBSET DocId]
    /\ skipped \in [Proc -> BOOLEAN]
    /\ written \in [Proc -> Nat]
    /\ seq \in [Run -> Nat]
    /\ plan \in [Gc -> SUBSET DocId]
    /\ past \in [Proc -> SUBSET Proc]
    /\ lock \in Index \cup {NoProc}
    /\ lock # NoProc => pc[lock] \in {"replacing", "storing", "killed"}

\* Texts that a collector may come to take for one another.
Class(t) == IF Consolidating = {} THEN t ELSE Summary[t]

\* No collector would remove the document for a reason of its own.
Keepable(d) == \A g \in Gc : ~Unwanted(g, d)

\* Whatever a run recorded stays in the session, in its own document or in a
\* copy of it, however many `ckos gc` processes judge duplicates at the same
\* time from copies of the directory taken at different moments, and whoever
\* is killed.  Without --consolidate the copy has the very same text;
\* with it, the same text up to compression.
GcKeepsRecords ==
    \A i \in DocId :
        (origin[i] # NoDoc /\ origin[i].kind = "record" /\ Keepable(origin[i])) =>
            \E j \in In(files) : /\ files[j].kind = "record"
                                /\ Keepable(files[j])
                                /\ Class(files[j].text) = Class(origin[i].text)

\* `seq` orders records by recency across runs (`Session::next_seq`): what a
\* run wrote that opened the store after another had ended counts as later,
\* unless its scan skipped a file or a collector has written one of the two
\* documents back from its copy.
RecencyFollowsRuns ==
    \A i, j \in In(files) :
        LET d == files[i]  e == files[j]
        IN  ( /\ d.by \in Run /\ e.by \in Run
              /\ d.by \in past[e.by]
              /\ ~skipped[e.by]
              /\ ~d.compressed /\ ~e.compressed ) => d.seq < e.seq

\* The documents of indexer x with passage t, and where its file has t.
Copies(x, t) == {i \in In(files) : /\ files[i].kind = "chunk"
                                  /\ files[i].by = x /\ files[i].text = t}
Occurrences(x, n, t) == {k \in 1 .. n : Passages[x][k] = t}

\* Indexing a file replaces its passages, the ones an earlier indexer that
\* failed or was killed half way left behind included: when indexer x returns
\* that opened the store after all other indexers had ended, the readable
\* passages are x's, and each of its passages is there as often as in the file.
SerialReindexIsExact ==
    \A x \in Index :
        (/\ pc[x] = "done"
         /\ \A y \in Index \ {x} : y \in past[x] \/ pc[y] = "start"
         /\ \A g \in Gc : pc[g] = "start") =>
            /\ \A i \in In(files) \ Damaged : files[i].kind = "chunk" => files[i].by = x
            /\ \A t \in Text : Cardinality(Copies(x, t))
                               = Cardinality(Occurrences(x, Len(Passages[x]), t))

\* `ckos index` replaces the passages of a file: however often the file is
\* indexed, no passage is stored twice once the indexers have ended well
\* (cli/src/main.rs:959-963).
NoSecondCopy ==
    (\A p \in Index : pc[p] = "done") =>
        \A i, j \in In(files) :
            files[i].kind = "chunk" /\ SameContent(files[i], files[j]) => i = j
=============================================================================
