------------------------ MODULE SessionStoreProofs ------------------------
(***************************************************************************)
(* For any number of recorders, indexers and collectors, any directory and  *)
(* any policies: what a run recorded stays in the session.  The argument:   *)
(* of all copies of a record ever written the one that comes first in       *)
(* `collect`'s order is never deleted, since a collector deletes a copy only *)
(* for one that comes before it, and the order is the same for everyone.    *)
(*                                                                         *)
(* Also: a run's records count as later than those of the runs that had      *)
(* ended before it, by the greatest `seq` its copy of the directory has; and *)
(* an indexer that is alone leaves the passages of its file and no others.   *)
(***************************************************************************)
EXTENDS SessionStore, FiniteSetTheorems, WellFoundedInduction, TLAPS

\* Every set of numbers has a least one.
LEMMA LeastNat ==
    ASSUME NEW T \in SUBSET Nat, T # {}
    PROVE  \E x \in T : \A y \in T : x <= y
  <1>1. PICK x \in T : \A y \in T : ~(<<y, x>> \in OpToRel(<, Nat))
    BY WFMin, NatLessThanWellFounded
  <1>2. \A y \in T : ~(y < x)
    BY <1>1 DEF OpToRel
  <1> QED BY <1>2

\* What lacks less to 255 is more.
LEMMA LessLack ==
    ASSUME NEW a \in 0 .. 255, NEW b \in 0 .. 255, 255 - b <= 255 - a
    PROVE  a <= b
  OBVIOUS

-----------------------------------------------------------------------------
(* The inductive invariant.                                                *)

OptDoc == Doc \cup {NoDoc}

Types ==
    /\ files \in [DocId -> OptDoc]
    /\ origin \in [DocId -> OptDoc]
    /\ index \in [Proc -> [DocId -> OptDoc]]
    /\ plan \in [Gc -> SUBSET DocId]
    /\ written \in [Proc -> Nat]
    /\ seq \in [Run -> Nat]

\* What no operation on a document changes.
Same(d, e) ==
    /\ d.kind = e.kind /\ d.confidence = e.confidence
    /\ d.embedding = e.embedding /\ d.expires = e.expires
    /\ d.seq = e.seq /\ d.by = e.by
    /\ Class(d.text) = Class(e.text)

\* The files and everybody's copies of them are what was first written, but
\* for compression.
CopyInv ==
    /\ \A i \in DocId : files[i] # NoDoc => origin[i] # NoDoc /\ Same(files[i], origin[i])
    /\ \A p \in Proc, i \in DocId :
         index[p][i] # NoDoc => origin[i] # NoDoc /\ Same(index[p][i], origin[i])

\* A document that was written and that no policy removes.
Good(i) == origin[i] # NoDoc /\ Keepable(origin[i])

\* Of the good documents of its kind and class, the first.
Best(i) ==
    /\ Good(i)
    /\ \A j \in DocId :
         (/\ Good(j) /\ origin[j].kind = origin[i].kind
          /\ Class(origin[j].text) = Class(origin[i].text)) => ~Before(origin, j, i)

BestRecord(i) == Best(i) /\ origin[i].kind = "record"

\* The best copy of a record is on file and nobody is about to delete it.
KeptInv ==
    /\ \A i \in DocId : BestRecord(i) => files[i] # NoDoc
    /\ \A g \in Gc : \A i \in plan[g] : origin[i] # NoDoc /\ ~BestRecord(i)

\* No recorder gives its records an expiry date.
NoExpiry == \A i \in DocId :
    origin[i] # NoDoc /\ origin[i].kind = "record" => ~origin[i].expires

Inv == Types /\ CopyInv /\ KeptInv /\ NoExpiry

-----------------------------------------------------------------------------
(* Documents.                                                              *)

\* What a policy thinks of a document does not depend on its text.
LEMMA SameKeepable ==
    ASSUME NEW d, NEW e, Same(d, e)
    PROVE  /\ \A g \in Gc : Unwanted(g, d) <=> Unwanted(g, e)
           /\ Keepable(d) <=> Keepable(e)
  BY DEF Same, Unwanted, Keepable

\* Compression changes nothing that decides whether a document is kept.
LEMMA CompressSame ==
    ASSUME NEW d \in Doc, Consolidating # {}
    PROVE  Compress(d) \in Doc /\ Same(Compress(d), d)
  <1>1. Compress(d) \in Doc
    BY SessionStoreAssumption DEF Compress, Doc
  <1>2. Compress(d).text = Summary[d.text] /\ d.text \in Text
    BY DEF Compress, Doc
  <1>3. Class(Compress(d).text) = Class(d.text)
    BY <1>2, SessionStoreAssumption DEF Class, Long
  <1>4. /\ Compress(d).kind = d.kind /\ Compress(d).confidence = d.confidence
        /\ Compress(d).embedding = d.embedding /\ Compress(d).expires = d.expires
        /\ Compress(d).seq = d.seq /\ Compress(d).by = d.by
    BY DEF Compress, Doc
  <1> QED BY <1>1, <1>3, <1>4 DEF Same

\* The seed of the write counter is a number.
LEMMA MaxSeqIsNat ==
    ASSUME NEW dir \in [DocId -> OptDoc]
    PROVE  MaxSeq(dir) \in Nat
  <1>1. \A i \in In(dir) : dir[i].seq \in Nat
    BY DEF In, OptDoc, Doc
  <1> DEFINE seqs == {dir[i].seq : i \in In(dir)}
             highest == {m \in seqs : \A n \in seqs : n <= m}
  <1>2. highest \subseteq Nat
    BY <1>1
  <1>3. highest # {} => (CHOOSE m \in highest : TRUE) \in highest
    OBVIOUS
  <1>4. MaxSeq(dir) = IF highest = {} THEN 0 ELSE CHOOSE m \in highest : TRUE
    BY DEF MaxSeq
  <1>5. CASE highest = {}
    BY <1>4, <1>5
  <1>6. CASE highest # {}
    <2>1. MaxSeq(dir) \in highest
      BY <1>3, <1>4, <1>6
    <2> HIDE DEF highest
    <2> QED BY <1>2, <2>1
  <1> QED BY <1>5, <1>6

\* What a recorder writes is a document.
LEMMA NewRecordType ==
    ASSUME Types, NEW p \in Run, NEW r \in Record
    PROVE  NewRecord(p, r) \in Doc /\ NextSeq(p) \in Nat
  <1>1. p \in Proc /\ index[p] \in [DocId -> OptDoc] /\ seq[p] \in Nat
    BY DEF Types, Proc
  <1>2. MaxSeq(index[p]) \in Nat
    BY <1>1, MaxSeqIsNat
  <1>3. NextSeq(p) \in Nat
    BY <1>1, <1>2 DEF NextSeq
  <1> QED BY <1>1, <1>3 DEF NewRecord, Doc, Record, Kind

\* What an indexer writes is a document.
LEMMA NewDocumentType ==
    ASSUME NEW p \in Index, NEW k \in {"chunk", "graph_node"}, NEW t \in Text
    PROVE  NewDocument(p, k, t) \in Doc
  <1>1. p \in Proc
    BY DEF Proc
  <1> QED BY <1>1 DEF NewDocument, Doc, Kind

-----------------------------------------------------------------------------
(* The steps on the directory that actions are made of.                     *)

\* The order does not depend on texts either.
LEMMA BeforeSame ==
    ASSUME NEW dir, NEW ref, NEW i, NEW j,
           Same(dir[i], ref[i]), Same(dir[j], ref[j])
    PROVE  Before(dir, i, j) <=> Before(ref, i, j)
  BY DEF Same, Before

\* Writing a document under a new id: it may be better than the best so far,
\* or not; the others' best are among those that were.
LEMMA WriteNewStep ==
    ASSUME Inv, NEW p \in Proc, NEW i \in DocId, NEW d \in Doc,
           d.kind = "record" => ~d.expires,
           WriteNew(p, i, d), UNCHANGED plan,
           written' \in [Proc -> Nat], seq' \in [Run -> Nat]
    PROVE  Inv'
  <1> USE DEF Inv, Types
  <1>1. /\ origin[i] = NoDoc /\ origin' = [origin EXCEPT ![i] = d]
        /\ files' = [files EXCEPT ![i] = d] /\ index' = [index EXCEPT ![p][i] = d]
    BY DEF WriteNew, Write
  <1>2. Types'
    BY <1>1 DEF OptDoc
  <1>3. Same(d, d) /\ d # NoDoc
    BY SessionStoreAssumption DEF Same
  <1>4. CopyInv'
    <2>1. \A j \in DocId : files'[j] # NoDoc => origin'[j] # NoDoc /\ Same(files'[j], origin'[j])
      BY <1>1, <1>3 DEF CopyInv
    <2>2. \A q \in Proc, j \in DocId :
            index'[q][j] # NoDoc => origin'[j] # NoDoc /\ Same(index'[q][j], origin'[j])
      <3> SUFFICES ASSUME NEW q \in Proc, NEW j \in DocId, index'[q][j] # NoDoc
                   PROVE  origin'[j] # NoDoc /\ Same(index'[q][j], origin'[j])
        OBVIOUS
      <3>1. CASE q = p /\ j = i
        BY <3>1, <1>1, <1>3
      <3>2. CASE ~(q = p /\ j = i)
        <4>1. index'[q][j] = index[q][j]
          BY <3>2, <1>1
        <4>2. j # i
          BY <4>1, <1>1 DEF CopyInv
        <4> QED BY <4>1, <4>2, <1>1 DEF CopyInv
      <3> QED BY <3>1, <3>2
    <2> QED BY <2>1, <2>2 DEF CopyInv
  <1>5. \A j \in DocId : j # i => origin'[j] = origin[j] /\ files'[j] = files[j]
    BY <1>1
  <1>6. \A j \in DocId : j # i /\ BestRecord(j)' => BestRecord(j)
    <2> SUFFICES ASSUME NEW j \in DocId, j # i, BestRecord(j)'
                 PROVE  BestRecord(j)
      OBVIOUS
    <2>1. Good(j) /\ origin[j].kind = "record"
      BY <1>5 DEF BestRecord, Best, Good, Keepable, Unwanted
    <2>2. ASSUME NEW k \in DocId, Good(k), origin[k].kind = origin[j].kind,
                 Class(origin[k].text) = Class(origin[j].text)
          PROVE  ~Before(origin, k, j)
      <3>1. k # i
        BY <2>2, <1>1 DEF Good
      <3>2. origin'[k] = origin[k] /\ origin'[j] = origin[j]
        BY <3>1, <1>5
      <3>3. Good(k)'
        BY <2>2, <3>2 DEF Good, Keepable, Unwanted
      <3>4. ~Before(origin', k, j)
        BY <2>2, <3>2, <3>3 DEF BestRecord, Best, Class
      <3> QED BY <3>2, <3>4 DEF Before
    <2> QED BY <2>1, <2>2 DEF BestRecord, Best
  <1>7. KeptInv'
    <2>1. \A j \in DocId : BestRecord(j)' => files'[j] # NoDoc
      BY <1>1, <1>3, <1>5, <1>6 DEF KeptInv
    <2>2. \A g \in Gc : \A j \in plan'[g] : origin'[j] # NoDoc /\ ~BestRecord(j)'
      <3> SUFFICES ASSUME NEW g \in Gc, NEW j \in plan[g]
                   PROVE  origin'[j] # NoDoc /\ ~BestRecord(j)'
        OBVIOUS
      <3>1. j \in DocId /\ origin[j] # NoDoc /\ ~BestRecord(j)
        BY DEF KeptInv
      <3> QED BY <3>1, <1>1, <1>5, <1>6
    <2> QED BY <2>1, <2>2 DEF KeptInv
  <1>8. NoExpiry'
    BY <1>1 DEF NoExpiry
  <1> QED BY <1>2, <1>4, <1>7, <1>8

\* Steps that mint nothing: BestRecord does not change.
LEMMA BestUnchanged ==
    ASSUME UNCHANGED origin, NEW j
    PROVE  BestRecord(j)' <=> BestRecord(j)
  BY DEF BestRecord, Best, Good, Keepable, Unwanted, Before, Class

\* Writing a document back, deleting one that is not the best record, reading
\* one, forgetting some: the directory and the copies stay copies, and the best
\* records stay on file.
LEMMA OldDocsStep ==
    ASSUME Inv, Types', UNCHANGED origin,
           \A j \in DocId : files'[j] # NoDoc => \/ files'[j] = files[j]
                                                 \/ origin[j] # NoDoc /\ Same(files'[j], origin[j]),
           \A q \in Proc, j \in DocId :
               index'[q][j] # NoDoc => \/ index'[q][j] = index[q][j]
                                       \/ origin[j] # NoDoc /\ Same(index'[q][j], origin[j]),
           \A j \in DocId : BestRecord(j) => files'[j] # NoDoc,
           \A g \in Gc : \A j \in plan'[g] : origin[j] # NoDoc /\ ~BestRecord(j)
    PROVE  Inv'
  <1>1. CopyInv'
    BY DEF Inv, CopyInv, Same, Class
  <1>2. KeptInv'
    BY BestUnchanged DEF KeptInv
  <1>3. NoExpiry'
    BY DEF Inv, NoExpiry
  <1> QED BY <1>1, <1>2, <1>3 DEF Inv

\* Steps that leave the directory alone.
LEMMA QuietStep ==
    ASSUME Inv, Types', UNCHANGED <<files, origin>>,
           \A q \in Proc, j \in DocId :
               index'[q][j] # NoDoc => index'[q][j] \in {index[q][j], files[j]},
           \A g \in Gc : plan'[g] \subseteq plan[g]
    PROVE  Inv'
  <1>1. \A q \in Proc, j \in DocId :
            index'[q][j] # NoDoc => \/ index'[q][j] = index[q][j]
                                    \/ origin[j] # NoDoc /\ Same(index'[q][j], origin[j])
    BY DEF Inv, CopyInv
  <1>2. \A j \in DocId : BestRecord(j) => files'[j] # NoDoc
    BY DEF Inv, KeptInv
  <1>3. \A g \in Gc : \A j \in plan'[g] : origin[j] # NoDoc /\ ~BestRecord(j)
    BY DEF Inv, KeptInv
  <1> QED BY <1>1, <1>2, <1>3, OldDocsStep

\* A process that ends takes only its own memory with it.
LEMMA EndStep ==
    ASSUME Inv, NEW p \in Proc, NEW l, End(p, l)
    PROVE  Inv'
  <1>1. Types'
    BY DEF Inv, Types, End, OptDoc
  <1>2. \A q \in Proc, j \in DocId : index'[q][j] # NoDoc => index'[q][j] = index[q][j]
    BY DEF Inv, Types, End
  <1>3. \A g \in Gc : plan'[g] \subseteq plan[g]
    BY DEF Inv, Types, End
  <1> QED BY <1>1, <1>2, <1>3, QuietStep DEF End

-----------------------------------------------------------------------------
(* The actions.                                                            *)

\* Opening the store and failing keep the invariant.
LEMMA OpenSteps ==
    ASSUME Inv, NEW p \in Proc, StoreNext(p)
    PROVE  Inv'
  <1>1. CASE Open(p) \/ Opened(p) \/ \E i \in DocId : SkipDoc(p, i)
    <2>1. UNCHANGED <<files, origin, index, plan, written, seq>>
      BY <1>1 DEF Open, Opened, SkipDoc
    <2>2. Types'
      BY <2>1 DEF Inv, Types
    <2> QED BY <2>1, <2>2, QuietStep
  <1>2. ASSUME NEW i \in DocId, ReadDoc(p, i)
        PROVE  Inv'
    <2>1. /\ UNCHANGED <<files, origin, plan, written, seq>>
          /\ index' = [index EXCEPT ![p][i] = files[i]]
      BY <1>2 DEF ReadDoc
    <2>2. Types'
      BY <2>1 DEF Inv, Types
    <2>3. \A q \in Proc, j \in DocId : index'[q][j] \in {index[q][j], files[j]}
      BY <2>1 DEF Inv, Types
    <2> QED BY <2>1, <2>2, <2>3, QuietStep
  <1>3. CASE Fail(p)
    BY <1>3, EndStep DEF Fail
  <1> QED BY <1>1, <1>2, <1>3 DEF StoreNext

\* Recording keeps the invariant.
LEMMA RunSteps ==
    ASSUME Inv, NEW p \in Run, RunNext(p)
    PROVE  Inv'
  <1> p \in Proc
    BY DEF Proc
  <1>1. ASSUME NEW i \in DocId, RecordOne(p, i)
        PROVE  Inv'
    <2> DEFINE r == Records[p][written[p] + 1]
    <2>1. Records[p] \in Seq(Record) /\ written[p] \in Nat /\ written[p] < Len(Records[p])
      BY <1>1, SessionStoreAssumption DEF Inv, Types, RecordOne
    <2>2. r \in Record
      BY <2>1
    <2> HIDE DEF r
    <2>3. NewRecord(p, r) \in Doc /\ NextSeq(p) \in Nat
      BY <2>2, NewRecordType DEF Inv
    <2>4. ~NewRecord(p, r).expires
      BY DEF NewRecord
    <2>5. WriteNew(p, i, NewRecord(p, r)) /\ UNCHANGED plan
      BY <1>1 DEF RecordOne, r
    <2>6. written' \in [Proc -> Nat] /\ seq' \in [Run -> Nat]
      BY <1>1, <2>1, <2>3 DEF RecordOne, Inv, Types
    <2> QED BY <2>3, <2>4, <2>5, <2>6, WriteNewStep
  <1>2. CASE Recorded(p)
    BY <1>2, EndStep DEF Recorded
  <1> QED BY <1>1, <1>2 DEF RunNext

\* Deleting a document that is not a best record.
LEMMA DeleteStep ==
    ASSUME Inv, NEW p \in Proc, NEW i \in DocId, Delete(p, i), ~BestRecord(i),
           UNCHANGED <<origin, written, seq>>,
           plan' \in [Gc -> SUBSET DocId], \A g \in Gc : plan'[g] \subseteq plan[g]
    PROVE  Inv'
  <1>1. files' = [files EXCEPT ![i] = NoDoc] /\ index' = [index EXCEPT ![p][i] = NoDoc]
    BY DEF Delete
  <1>2. Types'
    BY <1>1 DEF Inv, Types, OptDoc
  <1>3. \A j \in DocId : files'[j] # NoDoc => files'[j] = files[j]
    BY <1>1 DEF Inv, Types
  <1>4. \A q \in Proc, j \in DocId : index'[q][j] # NoDoc => index'[q][j] = index[q][j]
    BY <1>1 DEF Inv, Types
  <1>5. \A j \in DocId : BestRecord(j) => files'[j] # NoDoc
    BY <1>1 DEF Inv, Types, KeptInv
  <1>6. \A g \in Gc : \A j \in plan'[g] : origin[j] # NoDoc /\ ~BestRecord(j)
    BY DEF Inv, KeptInv
  <1> QED BY <1>2, <1>3, <1>4, <1>5, <1>6, OldDocsStep

\* Indexing keeps the invariant: it deletes passages only.
LEMMA IndexSteps ==
    ASSUME Inv, NEW p \in Index, IndexNext(p)
    PROVE  Inv'
  <1> p \in Proc
    BY DEF Proc
  <1>1. CASE Acquire(p) \/ Replaced(p)
    <2>1. UNCHANGED <<files, origin, index, plan, written, seq>>
      BY <1>1 DEF Acquire, Replaced
    <2>2. Types'
      BY <2>1 DEF Inv, Types
    <2> QED BY <2>1, <2>2, QuietStep
  <1>2. CASE DeleteStale(p)
    <2>1. PICK i \in Stale(p) : Delete(p, i)
      BY <1>2 DEF DeleteStale
    <2>2. i \in DocId /\ index[p][i] # NoDoc /\ index[p][i].kind = "chunk"
      BY <2>1 DEF Stale, In
    <2>3. origin[i].kind = "chunk"
      BY <2>2 DEF Inv, CopyInv, Same
    <2>4. ~BestRecord(i)
      BY <2>3 DEF BestRecord
    <2>5. UNCHANGED <<origin, written, seq, plan>>
      BY <1>2 DEF DeleteStale
    <2>6. plan' \in [Gc -> SUBSET DocId] /\ \A g \in Gc : plan'[g] \subseteq plan[g]
      BY <2>5 DEF Inv, Types
    <2> QED BY <2>1, <2>2, <2>4, <2>5, <2>6, DeleteStep
  <1>3. ASSUME NEW i \in DocId, StorePassage(p, i)
        PROVE  Inv'
    <2> DEFINE t == Passages[p][written[p] + 1]
    <2>1. Passages[p] \in Seq(Text) /\ written[p] \in Nat /\ written[p] < Len(Passages[p])
      BY <1>3, SessionStoreAssumption DEF Inv, Types, StorePassage
    <2>2. t \in Text
      BY <2>1
    <2> HIDE DEF t
    <2>3. NewDocument(p, "chunk", t) \in Doc /\ NewDocument(p, "chunk", t).kind # "record"
      BY <2>2, NewDocumentType DEF NewDocument
    <2>4. WriteNew(p, i, NewDocument(p, "chunk", t)) /\ UNCHANGED plan
      BY <1>3 DEF StorePassage, t
    <2>5. written' \in [Proc -> Nat] /\ seq' \in [Run -> Nat]
      BY <1>3, <2>1 DEF StorePassage, Inv, Types
    <2> QED BY <2>3, <2>4, <2>5, WriteNewStep
  <1>4. ASSUME NEW i \in DocId, Reindex(p, i)
        PROVE  Inv'
    <2> DEFINE d == NewDocument(p, "graph_node", NodeText)
    <2>1. d \in Doc /\ d.kind # "record"
      BY NewDocumentType, SessionStoreAssumption DEF NewDocument
    <2>2. WriteNew(p, i, d) /\ UNCHANGED <<plan, written, seq>>
      BY <1>4 DEF Reindex
    <2> HIDE DEF d
    <2>3. written' \in [Proc -> Nat] /\ seq' \in [Run -> Nat]
      BY <2>2 DEF Inv, Types
    <2> QED BY <2>1, <2>2, <2>3, WriteNewStep
  <1>5. CASE Indexed(p) \/ Kill(p)
    <2>1. End(p, "done") \/ End(p, "killed")
      BY <1>5 DEF Indexed, Kill
    <2> QED BY <2>1, EndStep
  <1> QED BY <1>1, <1>2, <1>3, <1>4, <1>5 DEF IndexNext

\* A collector spares the best record in its copy of the directory: a copy it
\* prefers would be good, in its class and before it.
LEMMA BestIsSpared ==
    ASSUME Inv, NEW p \in Gc, NEW i \in RemovalReasons(p, index[p])
    PROVE  i \in DocId /\ origin[i] # NoDoc /\ ~BestRecord(i)
  <1> DEFINE dir == index[p]
  <1> p \in Proc
    BY DEF Proc
  <1>1. i \in DocId /\ dir[i] # NoDoc /\ (Unwanted(p, dir[i]) \/ Duplicate(p, dir, i))
    BY DEF RemovalReasons, In
  <1>2. \A j \in In(dir) : j \in DocId /\ origin[j] # NoDoc /\ Same(dir[j], origin[j])
    BY DEF In, Inv, CopyInv
  <1>3. origin[i] # NoDoc /\ Same(dir[i], origin[i])
    BY <1>1, <1>2 DEF In
  <1>4. CASE Unwanted(p, dir[i])
    <2>1. ~Keepable(origin[i])
      BY <1>3, <1>4, SameKeepable DEF Keepable
    <2> QED BY <1>1, <1>3, <2>1 DEF BestRecord, Best, Good
  <1>5. ASSUME Duplicate(p, dir, i), BestRecord(i)
        PROVE  FALSE
    <2>1. PICK j \in In(dir) : /\ SameContent(dir[i], dir[j])
                               /\ Before(dir, j, i) /\ ~Unwanted(p, dir[j])
      BY <1>5 DEF Duplicate
    <2>2. j \in DocId /\ origin[j] # NoDoc /\ Same(dir[j], origin[j])
      BY <1>2
    <2>3. Before(origin, j, i)
      BY <1>3, <2>1, <2>2, BeforeSame
    <2>4. /\ origin[j].kind = origin[i].kind
          /\ Class(origin[j].text) = Class(origin[i].text)
      BY <1>3, <2>1, <2>2 DEF Same, SameContent
    <2>5. ~Unwanted(p, origin[j])
      BY <2>1, <2>2, SameKeepable
    <2>6. Keepable(origin[j])
      <3> SUFFICES ASSUME NEW g \in Gc PROVE ~Unwanted(g, origin[j])
        BY DEF Keepable
      <3>1. ~Unwanted(g, origin[i])
        BY <1>5 DEF BestRecord, Best, Good, Keepable
      <3>2. origin[j].embedding # "broken"
        BY <2>5 DEF Unwanted
      <3>3. ~origin[j].expires
        BY <1>5, <2>2, <2>4 DEF Inv, NoExpiry, BestRecord
      <3>4. origin[i] \in Doc /\ origin[j] \in Doc
        BY <1>1, <1>3, <2>2 DEF Inv, Types, OptDoc
      <3>5. MinConfidence[g] \in Nat
        <4>1. MinConfidence \in [Gc -> 0 .. 255]
          BY SessionStoreAssumption
        <4> QED BY <4>1
      <3>6. origin[i].confidence \in Nat /\ origin[j].confidence \in Nat
        BY <3>4 DEF Doc
      <3>7. origin[j].confidence >= origin[i].confidence
        BY <2>3, <3>6 DEF Before
      <3>8. ~(MinConfidence[g] > 0 /\ origin[j].confidence < MinConfidence[g])
        BY <3>1, <3>5, <3>6, <3>7 DEF Unwanted
      <3> QED BY <3>2, <3>3, <3>8 DEF Unwanted
    <2> QED BY <1>5, <2>2, <2>3, <2>4, <2>6 DEF BestRecord, Best, Good
  <1> QED BY <1>1, <1>3, <1>4, <1>5

\* Consolidating and collecting keep the invariant.
LEMMA GcSteps ==
    ASSUME Inv, NEW p \in Gc, GcNext(p)
    PROVE  Inv'
  <1> p \in Proc
    BY DEF Proc
  <1>1. CASE Consolidate(p)
    <2>1. PICK i \in ToCompress(p) : Write(p, i, Compress(index[p][i]))
      BY <1>1 DEF Consolidate
    <2>2. i \in DocId /\ index[p][i] # NoDoc /\ Consolidating # {}
      BY <2>1 DEF ToCompress, In
    <2> DEFINE d == index[p][i]
               c == Compress(d)
    <2>3. d \in Doc
      BY <2>2 DEF Inv, Types, OptDoc
    <2>4. c \in Doc /\ Same(c, d)
      BY <2>2, <2>3, CompressSame
    <2>5. origin[i] # NoDoc /\ Same(d, origin[i])
      BY <2>2 DEF Inv, CopyInv
    <2>6. Same(c, origin[i])
      BY <2>4, <2>5 DEF Same
    <2>7. /\ files' = [files EXCEPT ![i] = c] /\ index' = [index EXCEPT ![p][i] = c]
          /\ UNCHANGED <<origin, plan, written, seq>>
      BY <1>1, <2>1 DEF Consolidate, Write
    <2> HIDE DEF c, d
    <2>8. Types'
      BY <2>2, <2>4, <2>7 DEF Inv, Types, OptDoc
    <2>9. c # NoDoc
      BY <2>4, SessionStoreAssumption
    <2>10. \A j \in DocId : \/ files'[j] = files[j]
                            \/ origin[j] # NoDoc /\ Same(files'[j], origin[j])
      BY <2>2, <2>5, <2>6, <2>7 DEF Inv, Types
    <2>11. ASSUME NEW q \in Proc, NEW j \in DocId
           PROVE  \/ index'[q][j] = index[q][j]
                  \/ origin[j] # NoDoc /\ Same(index'[q][j], origin[j])
      <3>1. CASE q = p /\ j = i
        <4>1. index'[q][j] = c
          BY <3>1, <2>2, <2>7 DEF Inv, Types
        <4> QED BY <3>1, <4>1, <2>5, <2>6
      <3>2. CASE ~(q = p /\ j = i)
        BY <3>2, <2>2, <2>7 DEF Inv, Types
      <3> QED BY <3>1, <3>2
    <2>12. \A j \in DocId : BestRecord(j) => files'[j] # NoDoc
      BY <2>2, <2>7, <2>9 DEF Inv, Types, KeptInv
    <2>13. \A g \in Gc : \A j \in plan'[g] : origin[j] # NoDoc /\ ~BestRecord(j)
      BY <2>7 DEF Inv, KeptInv
    <2> QED BY <2>7, <2>8, <2>10, <2>11, <2>12, <2>13, OldDocsStep
  <1>2. CASE Decide(p)
    <2>1. /\ UNCHANGED <<files, origin, index, written, seq>>
          /\ plan' = [plan EXCEPT ![p] = RemovalReasons(p, index[p])]
      BY <1>2 DEF Decide
    <2>2. \A j \in RemovalReasons(p, index[p]) :
            j \in DocId /\ origin[j] # NoDoc /\ ~BestRecord(j)
      BY BestIsSpared
    <2>3. Types'
      BY <2>1, <2>2 DEF Inv, Types
    <2>4. \A g \in Gc : \A j \in plan'[g] : origin[j] # NoDoc /\ ~BestRecord(j)
      BY <2>1, <2>2 DEF Inv, Types, KeptInv
    <2>5. \A j \in DocId : BestRecord(j) => files'[j] # NoDoc
      BY <2>1 DEF Inv, KeptInv
    <2> QED BY <2>1, <2>3, <2>4, <2>5, OldDocsStep
  <1>3. CASE Collect(p)
    <2>1. PICK i \in plan[p] : Delete(p, i) /\ plan' = [plan EXCEPT ![p] = @ \ {i}]
      BY <1>3 DEF Collect
    <2>2. i \in DocId /\ ~BestRecord(i)
      BY DEF Inv, Types, KeptInv
    <2>3. UNCHANGED <<origin, written, seq>>
      BY <1>3 DEF Collect
    <2>4. plan' \in [Gc -> SUBSET DocId] /\ \A g \in Gc : plan'[g] \subseteq plan[g]
      BY <2>1 DEF Inv, Types
    <2> QED BY <2>1, <2>2, <2>3, <2>4, DeleteStep
  <1>4. CASE Collected(p)
    BY <1>4, EndStep DEF Collected
  <1> QED BY <1>1, <1>2, <1>3, <1>4 DEF GcNext

-----------------------------------------------------------------------------
(* The theorem.                                                            *)

\* Initially files and origin are the same directory.
LEMMA InitInv == Init => Inv
  <1> SUFFICES ASSUME Init PROVE Inv
    OBVIOUS
  <1>1. Types
    BY SessionStoreAssumption DEF Init, Types, OptDoc
  <1>2. CopyInv
    BY DEF Init, CopyInv, Same
  <1>3. KeptInv
    BY DEF Init, KeptInv, BestRecord, Best, Good
  <1>4. NoExpiry
    BY SessionStoreAssumption DEF Init, NoExpiry
  <1> QED BY <1>1, <1>2, <1>3, <1>4 DEF Inv

\* Every step keeps the invariant.
LEMMA NextInv == Inv /\ [Next]_vars => Inv'
  <1> SUFFICES ASSUME Inv, [Next]_vars PROVE Inv'
    OBVIOUS
  <1>1. CASE UNCHANGED vars
    <2>1. UNCHANGED <<files, origin, index, plan, written, seq>>
      BY <1>1 DEF vars
    <2>2. Types'
      BY <2>1 DEF Inv, Types
    <2> QED BY <2>1, <2>2, QuietStep
  <1>2. CASE \E p \in Proc : StoreNext(p)
    BY <1>2, OpenSteps
  <1>3. CASE \E p \in Run : RunNext(p)
    BY <1>3, RunSteps
  <1>4. CASE \E p \in Index : IndexNext(p)
    BY <1>4, IndexSteps
  <1>5. CASE \E p \in Gc : GcNext(p)
    BY <1>5, GcSteps
  <1> QED BY <1>1, <1>2, <1>3, <1>4, <1>5 DEF Next, AllEnded

\* Of the good documents of one kind and class there is a best: among those of
\* the highest confidence the one with the least id.
LEMMA BestExists ==
    ASSUME Types, NEW i \in DocId, Good(i)
    PROVE  \E j \in DocId : /\ Best(j) /\ origin[j].kind = origin[i].kind
                            /\ Class(origin[j].text) = Class(origin[i].text)
  <1> DEFINE T == {j \in DocId : /\ Good(j) /\ origin[j].kind = origin[i].kind
                                 /\ Class(origin[j].text) = Class(origin[i].text)}
             Lack(j) == 255 - origin[j].confidence
             L == {Lack(j) : j \in T}
  <1>1. \A j \in T : origin[j].confidence \in 0 .. 255
    BY DEF Types, OptDoc, Good, Doc
  <1>2. L \in SUBSET Nat /\ L # {}
    BY <1>1
  <1>3. PICK l \in L : \A k \in L : l <= k
    BY <1>2, LeastNat
  <1> DEFINE F == {j \in T : Lack(j) = l}
  <1>4. F \in SUBSET Nat /\ F # {}
    BY SessionStoreAssumption
  <1>5. PICK b \in F : \A k \in F : b <= k
    BY <1>4, LeastNat
  <1>6. \A k \in T : ~Before(origin, k, b)
    <2> SUFFICES ASSUME NEW k \in T, Before(origin, k, b) PROVE FALSE
      OBVIOUS
    <2>1. Lack(k) \in L /\ Lack(b) = l /\ b \in T
      BY <1>5
    <2>2. Lack(b) <= Lack(k)
      BY <1>3, <2>1
    <2>3. PICK ck \in 0 .. 255 : ck = origin[k].confidence
      BY <1>1
    <2>4. PICK cb \in 0 .. 255 : cb = origin[b].confidence
      BY <1>1, <2>1
    <2>5. 255 - cb <= 255 - ck
      BY <2>2, <2>3, <2>4, Zenon
    <2>6. ck <= cb
      BY <2>5, LessLack
    <2>7. origin[k].confidence = origin[b].confidence /\ k < b
      BY <2>3, <2>4, <2>6 DEF Before
    <2>8. k \in F
      BY <2>1, <2>7
    <2>9. b <= k /\ b \in Nat /\ k \in Nat
      BY <1>4, <1>5, <2>8
    <2> QED BY <2>7, <2>9
  <1> QED BY <1>5, <1>6 DEF Best

\* The best copy of a record is the one that GcKeepsRecords asks for.
LEMMA InvKeepsRecords == Inv => GcKeepsRecords
  <1> SUFFICES ASSUME Inv, NEW i \in DocId, origin[i] # NoDoc,
                      origin[i].kind = "record", Keepable(origin[i])
               PROVE  \E j \in In(files) : /\ files[j].kind = "record"
                                           /\ Keepable(files[j])
                                           /\ Class(files[j].text) = Class(origin[i].text)
    BY DEF GcKeepsRecords
  <1>1. PICK j \in DocId : /\ Best(j) /\ origin[j].kind = "record"
                           /\ Class(origin[j].text) = Class(origin[i].text)
    BY BestExists DEF Good, Inv
  <1>2. files[j] # NoDoc
    BY <1>1 DEF Inv, KeptInv, BestRecord
  <1>3. Same(files[j], origin[j])
    BY <1>2 DEF Inv, CopyInv
  <1>4. Keepable(files[j])
    BY <1>1, <1>3, SameKeepable DEF Best, Good
  <1> QED BY <1>1, <1>2, <1>3, <1>4 DEF In, Same

\* What a run recorded stays in the session, whatever collectors run at the
\* same time (`collect`, `consolidate`), for all processes, directories,
\* texts and policies.
THEOREM RecordsSurviveGc == Spec => []GcKeepsRecords
  BY InitInv, NextInv, InvKeepsRecords, PTL DEF Spec

-----------------------------------------------------------------------------
(* A step belongs to one process.                                           *)

Step(p) ==
    \/ StoreNext(p)
    \/ p \in Run /\ RunNext(p)
    \/ p \in Index /\ IndexNext(p)
    \/ p \in Gc /\ GcNext(p)

LEMMA NextIsStep ==
    ASSUME Next
    PROVE  UNCHANGED vars \/ \E p \in Proc : Step(p)
  BY DEF Next, AllEnded, Step, Proc

\* A process that ended does nothing, and none returns to the start.
LEMMA StepActive ==
    ASSUME TypeOK, NEW p \in Proc, Step(p)
    PROVE  pc[p] \notin Ended /\ pc'[p] # "start"
  <1> USE DEF TypeOK, Goto, End, Ended
  <1>1. CASE StoreNext(p)
    BY <1>1 DEF StoreNext, Open, Opened, Fail, ReadDoc, SkipDoc
  <1>2. CASE p \in Run /\ RunNext(p)
    BY <1>2 DEF RunNext, RecordOne, Recorded
  <1>3. CASE p \in Index /\ IndexNext(p)
    BY <1>3 DEF IndexNext, Acquire, DeleteStale, Replaced, Indexed, Kill, StorePassage, Reindex
  <1>4. CASE p \in Gc /\ GcNext(p)
    BY <1>4 DEF GcNext, Consolidate, Decide, Collect, Collected
  <1> QED BY <1>1, <1>2, <1>3, <1>4 DEF Step

\* What is q's own.
Undisturbed(q) ==
    /\ pc'[q] = pc[q] /\ index'[q] = index[q] /\ unread'[q] = unread[q]
    /\ skipped'[q] = skipped[q] /\ written'[q] = written[q] /\ past'[q] = past[q]
    /\ q \in Run => seq'[q] = seq[q]

\* The others are not disturbed.
LEMMA StepLocal ==
    ASSUME TypeOK, NEW p \in Proc, Step(p), NEW q \in Proc, q # p
    PROVE  Undisturbed(q)
  <1> USE DEF TypeOK, Goto, End, Undisturbed
  <1>1. CASE StoreNext(p)
    BY <1>1 DEF StoreNext, Open, Opened, Fail, ReadDoc, SkipDoc
  <1>2. CASE p \in Run /\ RunNext(p)
    BY <1>2 DEF RunNext, RecordOne, Recorded, WriteNew, Write
  <1>3. CASE p \in Index /\ IndexNext(p)
    BY <1>3 DEF IndexNext, Acquire, DeleteStale, Replaced, Indexed, Kill, StorePassage, Reindex,
                WriteNew, Write, Delete
  <1>4. CASE p \in Gc /\ GcNext(p)
    BY <1>4 DEF GcNext, Consolidate, Decide, Collect, Collected, Write, Delete
  <1> QED BY <1>1, <1>2, <1>3, <1>4 DEF Step

\* What may happen to file i in a step of p: nothing, it goes, it is written
\* back shorter, or it is minted.
FileChange(p, i) ==
    \/ files'[i] = files[i] /\ origin'[i] = origin[i]
    \/ files'[i] = NoDoc /\ origin'[i] = origin[i] /\ p \notin Run
    \/ p \in Gc /\ origin'[i] = origin[i] /\ files'[i] # NoDoc /\ files'[i].compressed
    \/ /\ origin[i] = NoDoc /\ files'[i] # NoDoc /\ origin'[i] = files'[i]
       /\ files'[i].by = p /\ ~files'[i].compressed
       /\ \/ p \in Run /\ pc[p] = "recording" /\ files'[i].kind = "record"
          \/ p \in Index /\ pc[p] = "storing"

\* Minting d changes one file.
LEMMA MintChange ==
    ASSUME Types, NEW p \in Proc, NEW j \in DocId, NEW d \in Doc, WriteNew(p, j, d),
           d.by = p, ~d.compressed,
           \/ p \in Run /\ pc[p] = "recording" /\ d.kind = "record"
           \/ p \in Index /\ pc[p] = "storing",
           NEW i \in DocId
    PROVE  FileChange(p, i)
  <1>1. /\ origin[j] = NoDoc /\ d # NoDoc
        /\ files' = [files EXCEPT ![j] = d] /\ origin' = [origin EXCEPT ![j] = d]
    BY SessionStoreAssumption DEF WriteNew, Write
  <1>2. i = j => files'[i] = d /\ origin'[i] = d
    BY <1>1 DEF Types
  <1>3. i # j => files'[i] = files[i] /\ origin'[i] = origin[i]
    BY <1>1 DEF Types
  <1> QED BY <1>1, <1>2, <1>3 DEF FileChange

LEMMA StepFiles ==
    ASSUME Types, NEW p \in Proc, Step(p), NEW i \in DocId
    PROVE  FileChange(p, i)
  <1> USE DEF Types
  <1>1. CASE StoreNext(p)
    BY <1>1 DEF StoreNext, Open, Opened, Fail, ReadDoc, SkipDoc, End, FileChange
  <1>2. ASSUME p \in Run, NEW j \in DocId, RecordOne(p, j)
        PROVE  FileChange(p, i)
    <2> DEFINE r == Records[p][written[p] + 1]
    <2>1. r \in Record
      <3>1. Records[p] \in Seq(Record) /\ written[p] \in Nat /\ written[p] < Len(Records[p])
        BY <1>2, SessionStoreAssumption DEF RecordOne
      <3> QED BY <3>1
    <2>2. WriteNew(p, j, NewRecord(p, r)) /\ pc[p] = "recording"
      BY <1>2 DEF RecordOne
    <2> HIDE DEF r
    <2>3. NewRecord(p, r) \in Doc
      BY <1>2, <2>1, NewRecordType
    <2>4. /\ NewRecord(p, r).by = p /\ ~NewRecord(p, r).compressed
          /\ NewRecord(p, r).kind = "record"
      BY DEF NewRecord
    <2> QED BY <1>2, <2>2, <2>3, <2>4, MintChange
  <1>3. ASSUME p \in Index, NEW j \in DocId, StorePassage(p, j)
        PROVE  FileChange(p, i)
    <2> DEFINE t == Passages[p][written[p] + 1]
    <2>1. t \in Text
      <3>1. Passages[p] \in Seq(Text) /\ written[p] \in Nat /\ written[p] < Len(Passages[p])
        BY <1>3, SessionStoreAssumption DEF StorePassage
      <3> QED BY <3>1
    <2>2. WriteNew(p, j, NewDocument(p, "chunk", t)) /\ pc[p] = "storing"
      BY <1>3 DEF StorePassage
    <2> HIDE DEF t
    <2>3. NewDocument(p, "chunk", t) \in Doc
      BY <1>3, <2>1, NewDocumentType
    <2>4. NewDocument(p, "chunk", t).by = p /\ ~NewDocument(p, "chunk", t).compressed
      BY DEF NewDocument
    <2> QED BY <1>3, <2>2, <2>3, <2>4, MintChange
  <1>4. ASSUME p \in Index, NEW j \in DocId, Reindex(p, j)
        PROVE  FileChange(p, i)
    <2> DEFINE d == NewDocument(p, "graph_node", NodeText)
    <2>1. d \in Doc
      BY <1>4, NewDocumentType, SessionStoreAssumption
    <2>2. WriteNew(p, j, d) /\ pc[p] = "storing"
      BY <1>4 DEF Reindex
    <2>3. d.by = p /\ ~d.compressed
      BY DEF NewDocument
    <2> HIDE DEF d
    <2> QED BY <1>4, <2>1, <2>2, <2>3, MintChange
  <1>5. CASE p \in Run /\ Recorded(p)
    BY <1>5 DEF Recorded, End, FileChange
  <1>6. CASE p \in Index /\ (Acquire(p) \/ DeleteStale(p) \/ Replaced(p) \/ Indexed(p) \/ Kill(p))
    <2>1. p \notin Run
      BY <1>6, SessionStoreAssumption
    <2> QED BY <1>6, <2>1 DEF Acquire, DeleteStale, Replaced, Indexed, Kill, Delete, End, FileChange
  <1>7. ASSUME p \in Gc, Consolidate(p)
        PROVE  FileChange(p, i)
    <2>1. PICK j \in ToCompress(p) : Write(p, j, Compress(index[p][j])) /\ UNCHANGED origin
      BY <1>7 DEF Consolidate
    <2>2. j \in DocId /\ index[p][j] # NoDoc /\ Consolidating # {}
      BY <2>1 DEF ToCompress, In
    <2>3. index[p][j] \in Doc
      BY <2>2 DEF OptDoc
    <2>4. Compress(index[p][j]) # NoDoc
      BY <2>2, <2>3, CompressSame, SessionStoreAssumption
    <2>5. Compress(index[p][j]).compressed
      BY <2>3 DEF Compress, Doc
    <2> HIDE DEF Types
    <2>6. files' = [files EXCEPT ![j] = Compress(index[p][j])] /\ DOMAIN files = DocId
      BY <2>1 DEF Write, Types
    <2> QED BY <1>7, <2>1, <2>4, <2>5, <2>6 DEF FileChange
  <1>8. CASE p \in Gc /\ (Decide(p) \/ Collect(p) \/ Collected(p))
    <2>1. p \notin Run
      BY <1>8, SessionStoreAssumption
    <2> QED BY <1>8, <2>1 DEF Decide, Collect, Collected, Delete, End, FileChange
  <1> QED BY <1>1, <1>2, <1>3, <1>4, <1>5, <1>6, <1>7, <1>8 DEF Step, RunNext, IndexNext, GcNext

-----------------------------------------------------------------------------
(* Types.                                                                  *)

LEMMA InitTypes == Init => TypeOK
  BY SessionStoreAssumption DEF Init, TypeOK, Ended, Proc

\* Where p is after its step, and what it leaves of the lock.
Moved(p) ==
    /\ pc' \in [Proc -> {"start", "opening", "recording", "locking", "replacing",
                        "storing", "consolidating", "collecting"} \cup Ended]
    /\ unread' \in [Proc -> SUBSET DocId]
    /\ skipped' \in [Proc -> BOOLEAN]
    /\ past' \in [Proc -> SUBSET Proc]
    /\ lock' \in {lock, NoProc} \/ (p \in Index /\ lock' = p)
    /\ lock' = p => pc'[p] \in {"replacing", "storing", "killed"}

LEMMA StepMoves ==
    ASSUME TypeOK, NEW p \in Proc, Step(p)
    PROVE  Moved(p)
  <1> USE DEF Moved, Ended
  <1>0. /\ p # NoProc /\ lock \in Index \cup {NoProc}
        /\ pc \in [Proc -> {"start", "opening", "recording", "locking", "replacing",
                           "storing", "consolidating", "collecting"} \cup Ended]
        /\ unread \in [Proc -> SUBSET DocId] /\ skipped \in [Proc -> BOOLEAN]
        /\ past \in [Proc -> SUBSET Proc]
        /\ lock = p => p \in Index /\ p \notin Run /\ p \notin Gc
                        /\ pc[p] \in {"replacing", "storing", "killed"}
    BY SessionStoreAssumption DEF TypeOK
  <1>1. CASE StoreNext(p)
    <2>1. CASE Open(p) \/ Opened(p)
      BY <1>0, <2>1 DEF Open, Opened, Goto, In
    <2>2. ASSUME NEW i \in DocId, ReadDoc(p, i) \/ SkipDoc(p, i)
          PROVE  Moved(p)
      <3>1. /\ UNCHANGED <<pc, lock, past>> /\ pc[p] = "opening"
            /\ unread' = [unread EXCEPT ![p] = @ \ {i}]
            /\ skipped' = skipped \/ skipped' = [skipped EXCEPT ![p] = TRUE]
        BY <2>2 DEF ReadDoc, SkipDoc
      <3> QED BY <1>0, <3>1
    <2>3. CASE Fail(p)
      BY <1>0, <2>3 DEF Fail, End, Goto
    <2> QED BY <1>1, <2>1, <2>2, <2>3 DEF StoreNext
  <1>2. CASE p \in Run /\ RunNext(p)
    <2>1. CASE \E i \in DocId : RecordOne(p, i)
      BY <1>0, <1>2, <2>1 DEF RecordOne
    <2>2. CASE Recorded(p)
      BY <1>0, <1>2, <2>2 DEF Recorded, End, Goto
    <2> QED BY <1>2, <2>1, <2>2 DEF RunNext
  <1>3. CASE p \in Index /\ IndexNext(p)
    <2>1. CASE Acquire(p) \/ Replaced(p)
      BY <1>0, <1>3, <2>1 DEF Acquire, Replaced, Goto
    <2>2. CASE DeleteStale(p) \/ \E i \in DocId : StorePassage(p, i) \/ Reindex(p, i)
      BY <1>0, <1>3, <2>2 DEF DeleteStale, StorePassage, Reindex
    <2>3. CASE Indexed(p) \/ Kill(p)
      BY <1>0, <1>3, <2>3 DEF Indexed, Kill, End, Goto
    <2> QED BY <1>3, <2>1, <2>2, <2>3 DEF IndexNext
  <1>4. CASE p \in Gc /\ GcNext(p)
    <2>1. CASE Consolidate(p) \/ Decide(p) \/ Collect(p)
      BY <1>0, <1>4, <2>1 DEF Consolidate, Decide, Collect, Goto
    <2>2. CASE Collected(p)
      BY <1>0, <1>4, <2>2 DEF Collected, End, Goto
    <2> QED BY <1>4, <2>1, <2>2 DEF GcNext
  <1> QED BY <1>1, <1>2, <1>3, <1>4 DEF Step

\* The lock is an indexer's, at work or killed.
LEMMA StepTypes ==
    ASSUME TypeOK, Inv', NEW p \in Proc, Step(p)
    PROVE  TypeOK'
  <1>1. /\ files' \in [DocId -> Doc \cup {NoDoc}] /\ origin' \in [DocId -> Doc \cup {NoDoc}]
        /\ index' \in [Proc -> [DocId -> Doc \cup {NoDoc}]]
        /\ written' \in [Proc -> Nat] /\ seq' \in [Run -> Nat] /\ plan' \in [Gc -> SUBSET DocId]
    BY DEF Inv, Types, OptDoc
  <1>2. Moved(p)
    BY StepMoves
  <1>3. lock' \in Index \cup {NoProc}
    BY <1>2 DEF Moved, TypeOK
  <1>4. ASSUME lock' # NoProc, lock' # p
        PROVE  pc'[lock'] \in {"replacing", "storing", "killed"}
    <2>1. lock' = lock /\ lock \in Proc
      BY <1>2, <1>3, <1>4 DEF Moved, Proc
    <2>2. pc'[lock] = pc[lock]
      BY <1>4, <2>1, StepLocal DEF Undisturbed
    <2> QED BY <1>4, <2>1, <2>2 DEF TypeOK
  <1> QED BY <1>1, <1>2, <1>3, <1>4 DEF Moved, TypeOK

-----------------------------------------------------------------------------
(* Who has written what.                                                   *)

\* Who has not begun to write.
Early == {"start", "opening", "locking", "replacing"}

AgeInv ==
    /\ \A p \in Proc : \A q \in past[p] : pc[q] \in Ended
    /\ \A p \in Proc : pc[p] \in Early => written[p] = 0
    /\ \A i \in DocId : origin[i] # NoDoc =>
         origin[i].by = NoProc \/ (origin[i].by \in Proc /\ pc[origin[i].by] \notin Early)
    /\ IsFiniteSet(In(origin))

\* What a step does to the count of what p has written, and to p's past.
LEMMA StepAges ==
    ASSUME TypeOK, AgeInv, NEW p \in Proc, Step(p)
    PROVE  /\ pc'[p] \in Early => written'[p] = 0
           /\ pc[p] \notin Early => pc'[p] \notin Early
           /\ past'[p] = past[p] \/ past'[p] = {q \in Proc : pc[q] \in Ended}
  <1> USE DEF TypeOK, Goto, End, Ended, Early
  <1>0. /\ pc[p] \in Early => written[p] = 0
        /\ p \in Run => p \notin Index /\ p \notin Gc
        /\ p \in Index => p \notin Gc
    BY SessionStoreAssumption DEF AgeInv
  <1>1. CASE StoreNext(p)
    <2>1. CASE Open(p) \/ Opened(p)
      BY <1>0, <2>1 DEF Open, Opened
    <2>2. CASE \E i \in DocId : ReadDoc(p, i) \/ SkipDoc(p, i)
      BY <1>0, <2>2 DEF ReadDoc, SkipDoc
    <2>3. CASE Fail(p)
      BY <1>0, <2>3 DEF Fail
    <2> QED BY <1>1, <2>1, <2>2, <2>3 DEF StoreNext
  <1>2. CASE p \in Run /\ RunNext(p)
    BY <1>0, <1>2 DEF RunNext, RecordOne, Recorded
  <1>3. CASE p \in Index /\ IndexNext(p)
    BY <1>0, <1>3 DEF IndexNext, Acquire, DeleteStale, Replaced, Indexed, Kill, StorePassage, Reindex
  <1>4. CASE p \in Gc /\ GcNext(p)
    BY <1>0, <1>4 DEF GcNext, Consolidate, Decide, Collect, Collected
  <1> QED BY <1>1, <1>2, <1>3, <1>4 DEF Step

\* A step mints one id at most.
LEMMA StepMints ==
    ASSUME Types, NEW p \in Proc, Step(p)
    PROVE  UNCHANGED origin \/ \E j \in DocId : \A i \in DocId : i # j => origin'[i] = origin[i]
  <1>1. CASE StoreNext(p)
    BY <1>1 DEF StoreNext, Open, Opened, Fail, ReadDoc, SkipDoc, End
  <1>2. CASE p \in Run /\ RunNext(p)
    BY <1>2 DEF RunNext, RecordOne, Recorded, WriteNew, End, Types
  <1>3. CASE p \in Index /\ IndexNext(p)
    BY <1>3 DEF IndexNext, Acquire, DeleteStale, Replaced, Indexed, Kill, StorePassage, Reindex,
                WriteNew, End, Types
  <1>4. CASE p \in Gc /\ GcNext(p)
    BY <1>4 DEF GcNext, Consolidate, Decide, Collect, Collected, End
  <1> QED BY <1>1, <1>2, <1>3, <1>4 DEF Step

LEMMA StepAgeInv ==
    ASSUME Types, TypeOK, AgeInv, NEW p \in Proc, Step(p)
    PROVE  AgeInv'
  <1>1. /\ pc[p] \notin Ended
        /\ \A q \in Proc : q # p => Undisturbed(q)
        /\ \A i \in DocId : FileChange(p, i)
    BY StepActive, StepLocal, StepFiles
  <1>2. \A q \in Proc : pc[q] \in Ended => pc'[q] \in Ended
    BY <1>1 DEF Undisturbed
  <1>3. ASSUME NEW q \in Proc, NEW o \in past'[q]
        PROVE  pc'[o] \in Ended
    <2>1. o \in Proc /\ pc[o] \in Ended
      <3>1. CASE q = p
        BY <3>1, StepAges DEF AgeInv, TypeOK
      <3>2. CASE q # p
        BY <1>1, <3>2 DEF AgeInv, Undisturbed, TypeOK
      <3> QED BY <3>1, <3>2
    <2> QED BY <1>2, <2>1
  <1>4. ASSUME NEW q \in Proc, pc'[q] \in Early
        PROVE  written'[q] = 0
    <2>1. CASE q = p
      BY <1>4, <2>1, StepAges
    <2>2. CASE q # p
      BY <1>1, <1>4, <2>2 DEF AgeInv, Undisturbed
    <2> QED BY <2>1, <2>2
  <1>5. \A q \in Proc : pc[q] \notin Early => pc'[q] \notin Early
    BY <1>1, StepAges DEF Undisturbed
  <1>6. ASSUME NEW i \in DocId, origin'[i] # NoDoc
        PROVE  origin'[i].by = NoProc \/ (origin'[i].by \in Proc /\ pc'[origin'[i].by] \notin Early)
    <2>1. CASE origin'[i] = origin[i]
      BY <1>5, <1>6, <2>1 DEF AgeInv
    <2>2. CASE origin'[i] # origin[i]
      <3>1. origin'[i].by = p /\ pc[p] \in {"recording", "storing"}
        BY <1>1, <2>2 DEF FileChange
      <3> QED BY <1>5, <3>1 DEF Early
    <2> QED BY <2>1, <2>2
  <1>7. IsFiniteSet(In(origin'))
    <2>1. CASE UNCHANGED origin
      BY <2>1 DEF AgeInv
    <2>2. ASSUME NEW j \in DocId, \A i \in DocId : i # j => origin'[i] = origin[i]
          PROVE  IsFiniteSet(In(origin'))
      <3>1. IsFiniteSet(In(origin) \cup {j})
        BY FS_AddElement DEF AgeInv
      <3>2. In(origin') \in SUBSET (In(origin) \cup {j})
        BY <2>2 DEF In
      <3> QED BY <3>1, <3>2, FS_Subset
    <2> QED BY <2>1, <2>2, StepMints
  <1> QED BY <1>3, <1>4, <1>6, <1>7 DEF AgeInv

-----------------------------------------------------------------------------
(* Recency.                                                                *)

\* A finite set of numbers that is not empty has a greatest one.
LEMMA GreatestNat ==
    ASSUME NEW S \in SUBSET Nat, IsFiniteSet(S), S # {}
    PROVE  \E m \in S : \A n \in S : n <= m
  <1>0. PICK c \in Nat : ExistsBijection(1 .. c, S)
    BY FS_NatBijection
  <1>1. PICK f : f \in Bijection(1 .. c, S)
    BY <1>0 DEF ExistsBijection
  <1>2. \A k \in 1 .. c : f[k] \in S /\ f[k] \in Nat
    BY <1>1 DEF Bijection, Surjection
  <1>3. \A n \in S : \E k \in 1 .. c : f[k] = n
    BY <1>1 DEF Bijection, Surjection
  <1> DEFINE Unbounded == {m \in 0 .. c : ~\E b \in Nat : \A k \in 1 .. m : f[k] <= b}
  <1>4. Unbounded = {}
    <2> SUFFICES ASSUME Unbounded # {} PROVE FALSE
      OBVIOUS
    <2>1. Unbounded \in SUBSET Nat /\ Unbounded \subseteq 0 .. c
      OBVIOUS
    <2>2. 0 \notin Unbounded
      OBVIOUS
    <2> HIDE DEF Unbounded
    <2>3. PICK m \in Unbounded : \A n \in Unbounded : m <= n
      BY <2>1, LeastNat
    <2>4. m \in 1 .. c /\ m - 1 \in 0 .. c
      BY <2>1, <2>2, <2>3
    <2>5. m - 1 \notin Unbounded
      <3>1. ~(m <= m - 1)
        BY <2>4
      <3> QED BY <2>3, <3>1
    <2>6. PICK b \in Nat : \A k \in 1 .. m - 1 : f[k] <= b
      BY <2>4, <2>5 DEF Unbounded
    <2>7. f[m] \in Nat
      BY <1>2, <2>4
    <2>8. PICK b1 \in Nat : b <= b1 /\ f[m] <= b1
      <3>1. b <= b + f[m] /\ f[m] <= b + f[m] /\ b + f[m] \in Nat
        BY <2>7
      <3> QED BY <3>1
    <2>9. \A k \in 1 .. m : f[k] <= b1
      <3> SUFFICES ASSUME NEW k \in 1 .. m PROVE f[k] <= b1
        OBVIOUS
      <3>1. CASE k = m
        BY <2>8, <3>1
      <3>2. CASE k # m
        <4>1. k \in 1 .. m - 1 /\ k \in 1 .. c
          BY <2>4, <3>2
        <4>2. f[k] \in Nat /\ f[k] <= b
          BY <1>2, <2>6, <4>1
        <4> QED BY <2>8, <4>2
      <3> QED BY <3>1, <3>2
    <2> QED BY <2>3, <2>9 DEF Unbounded
  <1>5. PICK b \in Nat : \A k \in 1 .. c : f[k] <= b
    <2>1. c \in 0 .. c
      OBVIOUS
    <2> QED BY <1>4, <2>1
  <1>6. \A n \in S : n \in Nat /\ n <= b
    BY <1>3, <1>5
  <1> DEFINE T == {b - n : n \in S}
  <1>7. T \in SUBSET Nat /\ T # {}
    <2>1. \A n \in S : b - n \in Nat
      BY <1>6
    <2> QED BY <2>1
  <1> HIDE DEF T
  <1>8. PICK l \in T : \A t \in T : l <= t
    BY <1>7, LeastNat
  <1>9. PICK m \in S : l = b - m
    BY <1>8 DEF T
  <1>10. ASSUME NEW n \in S PROVE n <= m
    <2>1. b - m <= b - n
      BY <1>8, <1>9 DEF T
    <2> QED BY <1>6, <2>1
  <1> QED BY <1>10

\* The seed is at least every `seq` of the copy.
LEMMA MaxSeqIsMax ==
    ASSUME NEW dir \in [DocId -> OptDoc], IsFiniteSet(In(dir)), NEW i \in In(dir)
    PROVE  dir[i].seq <= MaxSeq(dir)
  <1> DEFINE seqs == {dir[j].seq : j \in In(dir)}
             highest == {m \in seqs : \A n \in seqs : n <= m}
             f == [j \in In(dir) |-> dir[j].seq]
  <1>1. \A j \in In(dir) : dir[j].seq \in Nat
    BY DEF In, OptDoc, Doc
  <1>2. seqs \in SUBSET Nat /\ seqs # {}
    BY <1>1
  <1>3. IsFiniteSet(seqs)
    <2>1. f \in Surjection(In(dir), seqs)
      BY DEF Surjection
    <2> QED BY <2>1, FS_Surjection
  <1>4. highest # {}
    <2> HIDE DEF seqs
    <2>1. \E m \in seqs : \A n \in seqs : n <= m
      BY <1>2, <1>3, GreatestNat
    <2> QED BY <2>1
  <1>5. MaxSeq(dir) \in highest
    BY <1>4 DEF MaxSeq
  <1> QED BY <1>5

\* The records, as written, of runs that had ended when r opened the store.
Earlier(r) == {i \in In(files) : /\ files[i].by \in Run /\ files[i].by \in past[r]
                                  /\ ~files[i].compressed}

RecencyOf(r) ==
    ~skipped[r] =>
      /\ pc[r] = "opening" => \A i \in Earlier(r) : i \in unread[r] \/ index[r][i] # NoDoc
      /\ pc[r] = "recording" =>
           \A i \in Earlier(r) : IF written[r] = 0 THEN index[r][i] # NoDoc
                                                    ELSE files[i].seq <= seq[r]
      /\ \A i \in Earlier(r) : \A j \in In(files) :
           files[j].by = r /\ ~files[j].compressed => files[i].seq < files[j].seq

RecencyInv == \A r \in Run : RecencyOf(r)

\* No record joins the earlier ones; nor does one of r but what r writes.
LEMMA NoneJoin ==
    ASSUME NEW p \in Proc, pc[p] \notin Ended, AgeInv, Types,
           \A i \in DocId : FileChange(p, i), NEW r \in Run, past'[r] = past[r]
    PROVE  /\ \A i \in Earlier(r)' : i \in Earlier(r) /\ files'[i] = files[i]
           /\ \A j \in In(files') : files'[j].by = r /\ ~files'[j].compressed =>
                (j \in In(files) /\ files'[j] = files[j]) \/ (p = r /\ origin[j] = NoDoc)
  <1>1. p \notin past[r]
    BY DEF AgeInv, Proc
  <1>2. ASSUME NEW i \in In(files'), ~files'[i].compressed
        PROVE  (i \in In(files) /\ files'[i] = files[i]) \/ (files'[i].by = p /\ origin[i] = NoDoc)
    BY <1>2 DEF In, FileChange
  <1>3. ASSUME NEW i \in Earlier(r)'
        PROVE  i \in Earlier(r) /\ files'[i] = files[i]
    BY <1>1, <1>2, <1>3 DEF Earlier
  <1> QED BY <1>2, <1>3

\* What another process does leaves r's records behind the earlier ones.
LEMMA RecencyOfOthers ==
    ASSUME Types, AgeInv, NEW p \in Proc, pc[p] \notin Ended,
           \A i \in DocId : FileChange(p, i), NEW r \in Run, p # r, Undisturbed(r), RecencyOf(r)
    PROVE  RecencyOf(r)'
  <1>1. /\ \A i \in Earlier(r)' : i \in Earlier(r) /\ files'[i] = files[i]
        /\ \A j \in In(files') : files'[j].by = r /\ ~files'[j].compressed =>
             j \in In(files) /\ files'[j] = files[j]
    BY NoneJoin DEF Undisturbed
  <1> QED BY <1>1 DEF RecencyOf, Undisturbed

\* Opening the store, r sees every earlier record or skips a file.
LEMMA RecencyOfOpening ==
    ASSUME Inv, TypeOK, AgeInv, NEW r \in Run, StoreNext(r), RecencyOf(r)
    PROVE  RecencyOf(r)'
  <1>0. r \in Proc
    BY DEF Proc
  <1>1. CASE Open(r)
    <2>1. /\ pc[r] = "start" /\ pc'[r] = "opening" /\ files' = files
          /\ unread'[r] = In(files)
      BY <1>0, <1>1 DEF Open, Goto, TypeOK
    <2>2. \A j \in In(files) : files[j].by # r
      <3> SUFFICES ASSUME NEW j \in In(files), files[j].by = r PROVE FALSE
        OBVIOUS
      <3>1. origin[j] # NoDoc /\ origin[j].by = r
        BY DEF In, Inv, CopyInv, Same
      <3>2. r # NoProc /\ j \in DocId
        BY <1>0, SessionStoreAssumption DEF In
      <3> QED BY <2>1, <3>1, <3>2 DEF AgeInv, Early
    <2> QED BY <2>1, <2>2 DEF RecencyOf, Earlier, In
  <1>2. ASSUME NEW i \in DocId, ReadDoc(r, i)
        PROVE  RecencyOf(r)'
    <2>1. /\ pc[r] = "opening" /\ UNCHANGED <<files, pc, skipped, past>> /\ files[i] # NoDoc
          /\ \A k \in DocId : index'[r][k] = IF k = i THEN files[i] ELSE index[r][k]
          /\ unread'[r] = unread[r] \ {i}
      BY <1>0, <1>2 DEF ReadDoc, TypeOK
    <2>2. Earlier(r)' = Earlier(r) /\ Earlier(r) \subseteq DocId
      BY <2>1 DEF Earlier, In
    <2> QED BY <2>1, <2>2 DEF RecencyOf
  <1>3. ASSUME NEW i \in DocId, SkipDoc(r, i)
        PROVE  RecencyOf(r)'
    <2>1. skipped'[r]
      BY <1>0, <1>3 DEF SkipDoc, TypeOK
    <2> QED BY <2>1 DEF RecencyOf
  <1>4. CASE Opened(r)
    <2>1. /\ pc[r] = "opening" /\ pc'[r] = "recording" /\ unread[r] = {} /\ written[r] = 0
          /\ UNCHANGED <<files, index, written, skipped, past>>
      BY <1>0, <1>4 DEF Opened, Goto, TypeOK, AgeInv, Early
    <2>2. Earlier(r)' = Earlier(r)
      BY <2>1 DEF Earlier, In
    <2> QED BY <2>1, <2>2 DEF RecencyOf
  <1>5. CASE Fail(r)
    <2>1. pc'[r] = "failed" /\ UNCHANGED <<files, skipped, past>>
      BY <1>0, <1>5 DEF Fail, End, Goto, TypeOK
    <2>2. Earlier(r)' = Earlier(r)
      BY <2>1 DEF Earlier, In
    <2> QED BY <2>1, <2>2 DEF RecencyOf
  <1> QED BY <1>1, <1>2, <1>3, <1>4, <1>5 DEF StoreNext

\* What r records counts as later than what it saw.
LEMMA RecencyOfRecording ==
    ASSUME Inv, Inv', TypeOK, AgeInv, NEW r \in Run, RunNext(r), RecencyOf(r),
           \A i \in DocId : FileChange(r, i)
    PROVE  RecencyOf(r)'
  <1>0. r \in Proc
    BY DEF Proc
  <1>1. CASE Recorded(r)
    <2>1. pc'[r] = "done" /\ UNCHANGED <<files, skipped, past>>
      BY <1>0, <1>1 DEF Recorded, End, Goto, TypeOK
    <2>2. Earlier(r)' = Earlier(r)
      BY <2>1 DEF Earlier, In
    <2> QED BY <2>1, <2>2 DEF RecencyOf
  <1>2. ASSUME NEW j \in DocId, RecordOne(r, j), ~skipped[r]
        PROVE  RecencyOf(r)'
    <2> DEFINE n == NextSeq(r)
    <2>1. /\ pc[r] = "recording" /\ UNCHANGED <<pc, skipped, past>>
          /\ seq'[r] = n /\ written'[r] = written[r] + 1 /\ written[r] \in Nat
          /\ origin[j] = NoDoc /\ files'[j].seq = n
          /\ \A i \in DocId : i # j => origin'[i] = origin[i] /\ files'[i] = files[i]
      <3>1. /\ pc[r] = "recording" /\ UNCHANGED <<pc, skipped, past>>
            /\ seq' = [seq EXCEPT ![r] = n] /\ written' = [written EXCEPT ![r] = @ + 1]
            /\ origin[j] = NoDoc
            /\ files' = [files EXCEPT ![j] = NewRecord(r, Records[r][written[r] + 1])]
        BY <1>2 DEF RecordOne, WriteNew, Write
      <3>2. NewRecord(r, Records[r][written[r] + 1]).seq = n
        BY DEF NewRecord
      <3>3. /\ seq \in [Run -> Nat] /\ written \in [Proc -> Nat] /\ DOMAIN files = DocId
            /\ DOMAIN origin = DocId
        BY DEF TypeOK
      <3>4. origin' = [origin EXCEPT ![j] = NewRecord(r, Records[r][written[r] + 1])]
        BY <1>2 DEF RecordOne, WriteNew
      <3> HIDE DEF n
      <3> QED BY <1>0, <3>1, <3>2, <3>3, <3>4
    <2>2. pc[r] \notin Ended
      BY <2>1 DEF Ended
    <2>3. /\ \A i \in Earlier(r)' : i \in Earlier(r) /\ files'[i] = files[i]
          /\ \A k \in In(files') : files'[k].by = r /\ ~files'[k].compressed =>
               (k \in In(files) /\ files'[k] = files[k]) \/ origin[k] = NoDoc
      BY <1>0, <2>1, <2>2, NoneJoin DEF Inv
    <2>4. ASSUME NEW i \in Earlier(r)
          PROVE  files[i].seq \in Nat /\ n \in Nat /\ files[i].seq < n
      <3>1. i \in DocId /\ files[i] # NoDoc
        BY DEF Earlier, In
      <3>2. files[i].seq \in Nat
        BY <3>1 DEF TypeOK, Doc
      <3>3. index[r] \in [DocId -> OptDoc] /\ seq[r] \in Nat
        BY <1>0 DEF TypeOK, OptDoc
      <3>4. MaxSeq(index[r]) \in Nat
        BY <3>3, MaxSeqIsNat
      <3>5. CASE written[r] = 0
        <4>1. i \in In(index[r])
          BY <1>2, <2>1, <3>1, <3>5 DEF RecencyOf, In
        <4>2. index[r][i].seq = files[i].seq
          BY <1>0, <3>1, <4>1 DEF In, Inv, CopyInv, Same
        <4>3. IsFiniteSet(In(index[r]))
          <5>1. In(index[r]) \in SUBSET In(origin)
            BY <1>0 DEF In, Inv, CopyInv
          <5> QED BY <5>1, FS_Subset DEF AgeInv
        <4>4. files[i].seq <= MaxSeq(index[r])
          BY <3>3, <4>1, <4>2, <4>3, MaxSeqIsMax
        <4>5. n = MaxSeq(index[r]) + 1
          BY <3>5 DEF NextSeq
        <4> HIDE DEF n
        <4> QED BY <3>2, <3>4, <4>4, <4>5
      <3>6. CASE written[r] # 0
        <4>1. n = seq[r] + 1
          BY <3>6 DEF NextSeq
        <4>2. files[i].seq <= seq[r]
          BY <1>2, <2>1, <3>6 DEF RecencyOf
        <4> HIDE DEF n
        <4> QED BY <3>2, <3>3, <4>1, <4>2
      <3> QED BY <3>5, <3>6
    <2> HIDE DEF n
    <2>5. \A i \in Earlier(r)' : files'[i].seq <= seq'[r]
      BY <2>1, <2>3, <2>4
    <2>6. ASSUME NEW i \in Earlier(r)', NEW k \in In(files'), files'[k].by = r, ~files'[k].compressed
          PROVE  files'[i].seq < files'[k].seq
      <3>1. CASE k = j
        BY <2>1, <2>3, <2>4, <3>1
      <3>2. CASE k # j
        <4>1. k \in In(files) /\ files'[k] = files[k]
          BY <2>1, <2>6, <3>2 DEF In
        <4> QED BY <1>2, <2>3, <2>6, <4>1 DEF RecencyOf
      <3> QED BY <3>1, <3>2
    <2>7. written'[r] # 0
      BY <2>1
    <2> QED BY <2>1, <2>5, <2>6, <2>7 DEF RecencyOf
  <1>3. ASSUME skipped[r], NEW j \in DocId, RecordOne(r, j)
        PROVE  RecencyOf(r)'
    BY <1>3 DEF RecencyOf, RecordOne
  <1> QED BY <1>1, <1>2, <1>3 DEF RunNext

-----------------------------------------------------------------------------
(* Replacing passages.                                                     *)

\* No other indexer or collector has been at work since x opened the store.
Solo(x) == /\ \A y \in Index \ {x} : y \in past[x] \/ pc[y] = "start"
           /\ \A g \in Gc : pc[g] = "start"

Chunks == {i \in In(files) \ Damaged : files[i].kind = "chunk"}

\* How many of its passages x has stored.
Stored(x) == IF pc[x] = "done" THEN Len(Passages[x]) ELSE written[x]

\* x sees every passage to replace, until those there are its own.
Replacing(x) ==
    /\ pc[x] = "opening" => \A i \in Chunks : i \in unread[x] \/ index[x][i] # NoDoc
    /\ pc[x] \in {"locking", "replacing"} => \A i \in Chunks : index[x][i] # NoDoc
    /\ pc[x] \in {"storing", "done"} =>
         /\ \A i \in Chunks : files[i].by = x
         /\ \A t \in Text : Cardinality(Copies(x, t))
                            = Cardinality(Occurrences(x, Stored(x), t))

ReplacingOf(x) == Solo(x) => Replacing(x)

ReplacingInv == \A x \in Index : ReplacingOf(x)

\* A recorder writes no passages, and nobody else is at work.
LEMMA ReplacingOfOthers ==
    ASSUME Inv, NEW p \in Proc, pc[p] \notin Ended, pc'[p] # "start", AgeInv,
           \A q \in Proc : q # p => Undisturbed(q),
           \A i \in DocId : FileChange(p, i), NEW x \in Index, p # x, ReplacingOf(x)
    PROVE  ReplacingOf(x)'
  <1> SUFFICES ASSUME Solo(x)' PROVE ReplacingOf(x)'
    BY DEF ReplacingOf
  <1>1. x \in Proc /\ Undisturbed(x)
    BY DEF Proc
  <1>2. p \in Run
    <2>1. p \notin Gc
      BY DEF Solo
    <2>2. p \notin Index
      <3> SUFFICES ASSUME p \in Index PROVE FALSE
        OBVIOUS
      <3>1. p \in past[x]
        BY <1>1 DEF Solo, Undisturbed
      <3> QED BY <1>1, <3>1 DEF AgeInv
    <2> QED BY <2>1, <2>2 DEF Proc
  <1>3. Solo(x)
    <2>1. \A y \in Index \cup Gc : y # p /\ y \in Proc
      BY <1>2, SessionStoreAssumption DEF Proc
    <2>2. \A y \in Index \cup Gc : pc'[y] = pc[y]
      BY <2>1 DEF Undisturbed
    <2> QED BY <1>1, <2>2 DEF Solo, Undisturbed
  <1>4. p \notin Index /\ p \notin Gc
    BY <1>2, SessionStoreAssumption
  <1>5. ASSUME NEW i \in DocId
        PROVE  /\ files[i] # NoDoc /\ files[i].kind = "chunk" => files'[i] = files[i]
               /\ files'[i] # NoDoc /\ files'[i].kind = "chunk" => files'[i] = files[i]
    <2>1. origin[i] = NoDoc => files[i] = NoDoc
      BY DEF Inv, CopyInv
    <2>2. \/ files'[i] = files[i]
          \/ files[i] = NoDoc /\ files'[i] # NoDoc /\ files'[i].kind = "record"
      BY <1>2, <1>4, <2>1 DEF FileChange
    <2> QED BY <2>2
  <1>6. Chunks' = Chunks /\ \A i \in Chunks : files'[i] = files[i]
    BY <1>5 DEF Chunks, In
  <1>7. \A t \in Text : Copies(x, t)' = Copies(x, t)
    BY <1>5 DEF Copies, In
  <1>8. Stored(x)' = Stored(x)
    BY <1>1 DEF Stored, Undisturbed
  <1>9. /\ pc'[x] = pc[x] /\ unread'[x] = unread[x] /\ index'[x] = index[x]
    BY <1>1 DEF Undisturbed
  <1>10. /\ pc[x] = "opening" => \A i \in Chunks : i \in unread[x] \/ index[x][i] # NoDoc
         /\ pc[x] \in {"locking", "replacing"} => \A i \in Chunks : index[x][i] # NoDoc
         /\ pc[x] \in {"storing", "done"} =>
              /\ \A i \in Chunks : files[i].by = x
              /\ \A t \in Text : Cardinality(Copies(x, t))
                                 = Cardinality(Occurrences(x, Stored(x), t))
    BY <1>3 DEF ReplacingOf, Replacing
  <1>11. /\ pc'[x] = "opening" => \A i \in Chunks' : i \in unread'[x] \/ index'[x][i] # NoDoc
         /\ pc'[x] \in {"locking", "replacing"} => \A i \in Chunks' : index'[x][i] # NoDoc
    BY <1>6, <1>9, <1>10
  <1>12. ASSUME pc'[x] \in {"storing", "done"}
         PROVE  /\ \A i \in Chunks' : files'[i].by = x
                /\ \A t \in Text : Cardinality(Copies(x, t)')
                                   = Cardinality(Occurrences(x, Stored(x)', t))
    BY <1>6, <1>7, <1>8, <1>9, <1>10, <1>12
  <1> QED BY <1>11, <1>12 DEF ReplacingOf, Replacing, Occurrences

\* A further passage is one more copy.
LEMMA OneMoreCopy ==
    ASSUME TypeOK, AgeInv, Inv, NEW x \in Index, NEW j \in DocId, StorePassage(x, j), NEW t \in Text,
           Cardinality(Copies(x, t)) = Cardinality(Occurrences(x, written[x], t))
    PROVE  Cardinality(Copies(x, t)') = Cardinality(Occurrences(x, written[x] + 1, t))
  <1> DEFINE n == written[x]
             text == Passages[x][n + 1]
             d == NewDocument(x, "chunk", text)
  <1>0. x \in Proc
    BY DEF Proc
  <1>1. /\ n \in Nat /\ origin[j] = NoDoc /\ DOMAIN files = DocId
        /\ files' = [files EXCEPT ![j] = d]
    BY <1>0 DEF StorePassage, WriteNew, Write, TypeOK
  <1>2. /\ d.kind = "chunk" /\ d.by = x /\ d.text = text /\ d # NoDoc
    <2>1. text \in Text
      <3>1. Passages[x] \in Seq(Text) /\ n < Len(Passages[x])
        BY SessionStoreAssumption DEF StorePassage
      <3> QED BY <1>1, <3>1
    <2>2. d \in Doc
      BY <2>1, NewDocumentType
    <2> QED BY <2>2, SessionStoreAssumption DEF NewDocument
  <1>3. files[j] = NoDoc
    BY <1>1 DEF Inv, CopyInv
  <1> HIDE DEF d
  <1>4. /\ files'[j] = d /\ \A i \in DocId : i # j => files'[i] = files[i]
    BY <1>1
  <1>5. /\ j \notin Copies(x, t)
        /\ Copies(x, t)' = IF text = t THEN Copies(x, t) \cup {j} ELSE Copies(x, t)
    BY <1>2, <1>3, <1>4 DEF Copies, In
  <1>6. IsFiniteSet(Copies(x, t))
    <2>1. Copies(x, t) \in SUBSET In(origin)
      BY DEF Copies, In, Inv, CopyInv
    <2> QED BY <2>1, FS_Subset DEF AgeInv
  <1>7. /\ n + 1 \notin Occurrences(x, n, t)
        /\ Occurrences(x, n + 1, t) = IF text = t THEN Occurrences(x, n, t) \cup {n + 1}
                                                  ELSE Occurrences(x, n, t)
    BY <1>1 DEF Occurrences
  <1>8. IsFiniteSet(Occurrences(x, n, t))
    <2>1. IsFiniteSet(1 .. n) /\ Occurrences(x, n, t) \in SUBSET (1 .. n)
      BY <1>1, FS_Interval DEF Occurrences
    <2> QED BY <2>1, FS_Subset
  <1> HIDE DEF text, n
  <1>9. CASE text = t
    <2>1. /\ Cardinality(Copies(x, t)') = Cardinality(Copies(x, t)) + 1
      BY <1>5, <1>6, <1>9, FS_AddElement
    <2>2. Cardinality(Occurrences(x, n + 1, t)) = Cardinality(Occurrences(x, n, t)) + 1
      BY <1>7, <1>8, <1>9, FS_AddElement
    <2> QED BY <2>1, <2>2 DEF n
  <1>10. CASE text # t
    BY <1>5, <1>7, <1>10 DEF n
  <1> QED BY <1>9, <1>10

\* Its own steps take x from one stage of `Replacing` to the next.
LEMMA ReplacingOfOwn ==
    ASSUME Inv, TypeOK, AgeInv, NEW x \in Index, StoreNext(x) \/ IndexNext(x),
           \A q \in Proc : q # x => Undisturbed(q), ReplacingOf(x)
    PROVE  ReplacingOf(x)'
  <1>0. x \in Proc /\ x \notin Run /\ x \notin Gc
    BY SessionStoreAssumption DEF Proc
  <1>1. CASE Open(x)
    <2>1. UNCHANGED <<files, index>> /\ pc'[x] = "opening" /\ unread'[x] = In(files)
      BY <1>0, <1>1 DEF Open, Goto, TypeOK
    <2> QED BY <2>1 DEF ReplacingOf, Replacing, Chunks, In
  <1>2. SUFFICES ASSUME ~Open(x), Solo(x)'
                 PROVE  Replacing(x)'
    BY <1>1 DEF ReplacingOf
  <1>3. Replacing(x)
    <2>1. past'[x] = past[x]
      <3>1. CASE StoreNext(x)
        BY <1>2, <3>1 DEF StoreNext, Opened, Fail, ReadDoc, SkipDoc, End
      <3>2. CASE IndexNext(x)
        BY <3>2 DEF IndexNext, Acquire, DeleteStale, Replaced, Indexed, Kill, StorePassage, Reindex, End
      <3> QED BY <3>1, <3>2
    <2>2. \A y \in Index \ {x} : pc'[y] = pc[y]
      BY DEF Undisturbed, Proc
    <2>3. \A g \in Gc : pc'[g] = pc[g]
      BY <1>0 DEF Undisturbed, Proc
    <2>4. Solo(x)
      BY <1>2, <2>1, <2>2, <2>3 DEF Solo
    <2> QED BY <2>4 DEF ReplacingOf
  <1>4. \A i \in Chunks : /\ i \in DocId /\ origin[i] # NoDoc /\ origin[i].kind = "chunk"
                          /\ index[x][i] # NoDoc => i \in Stale(x)
    BY <1>0 DEF Chunks, In, Inv, CopyInv, Same, Stale
  <1>5. ASSUME NEW i \in DocId, ReadDoc(x, i)
        PROVE  Replacing(x)'
    <2>1. /\ pc[x] = "opening" /\ pc'[x] = "opening" /\ UNCHANGED files /\ files[i] # NoDoc
          /\ \A k \in DocId : index'[x][k] = IF k = i THEN files[i] ELSE index[x][k]
          /\ unread'[x] = unread[x] \ {i}
      BY <1>0, <1>5 DEF ReadDoc, TypeOK
    <2>2. Chunks' = Chunks
      BY <2>1 DEF Chunks, In
    <2> QED BY <1>3, <1>4, <2>1, <2>2 DEF Replacing
  <1>6. ASSUME NEW i \in DocId, SkipDoc(x, i)
        PROVE  Replacing(x)'
    <2>1. /\ pc[x] = "opening" /\ pc'[x] = "opening" /\ UNCHANGED <<files, index>>
          /\ unread'[x] = unread[x] \ {i} /\ i \notin Chunks
      BY <1>0, <1>6 DEF SkipDoc, TypeOK, Chunks, In
    <2>2. Chunks' = Chunks
      BY <2>1 DEF Chunks, In
    <2> QED BY <1>3, <2>1, <2>2 DEF Replacing
  <1>7. CASE Opened(x)
    <2>1. /\ pc[x] = "opening" /\ pc'[x] = "locking" /\ UNCHANGED <<files, index>> /\ unread[x] = {}
      BY <1>0, <1>7 DEF Opened, Goto, TypeOK
    <2>2. Chunks' = Chunks
      BY <2>1 DEF Chunks, In
    <2> QED BY <1>3, <2>1, <2>2 DEF Replacing
  <1>8. CASE Fail(x) \/ Kill(x)
    <2>1. pc'[x] \in {"failed", "killed"}
      BY <1>0, <1>8 DEF Fail, Kill, End, Goto, TypeOK
    <2> QED BY <2>1 DEF Replacing
  <1>9. CASE Acquire(x)
    <2>1. pc[x] = "locking" /\ pc'[x] = "replacing" /\ UNCHANGED <<files, index>>
      BY <1>0, <1>9 DEF Acquire, Goto, TypeOK
    <2>2. Chunks' = Chunks
      BY <2>1 DEF Chunks, In
    <2> QED BY <1>3, <2>1, <2>2 DEF Replacing
  <1>10. CASE DeleteStale(x)
    <2>1. PICK i \in Stale(x) : Delete(x, i)
      BY <1>10 DEF DeleteStale
    <2>2. /\ pc[x] = "replacing" /\ UNCHANGED pc /\ i \in DocId
      BY <1>10, <2>1 DEF DeleteStale, Stale, In
    <2>3. \A k \in DocId : /\ files'[k] = IF k = i THEN NoDoc ELSE files[k]
                           /\ index'[x][k] = IF k = i THEN NoDoc ELSE index[x][k]
      BY <1>0, <2>1 DEF Delete, TypeOK
    <2>4. Chunks' = Chunks \ {i}
      BY <2>2, <2>3 DEF Chunks, In
    <2> QED BY <1>3, <1>4, <2>2, <2>3, <2>4 DEF Replacing
  <1>11. CASE Replaced(x)
    <2>1. /\ pc[x] = "replacing" /\ pc'[x] = "storing" /\ Stale(x) = {} /\ written[x] = 0
          /\ UNCHANGED <<files, written>>
      BY <1>0, <1>11 DEF Replaced, Goto, TypeOK, AgeInv, Early
    <2>2. Chunks' = {}
      <3>1. Chunks = {}
        BY <1>3, <1>4, <2>1 DEF Replacing
      <3> QED BY <2>1, <3>1 DEF Chunks, In
    <2>3. \A t \in Text : Copies(x, t)' = {}
      <3> SUFFICES ASSUME NEW j \in In(files), files[j].by = x PROVE FALSE
        BY <2>1 DEF Copies, In
      <3>1. origin[j] # NoDoc /\ origin[j].by = x /\ j \in DocId
        BY DEF In, Inv, CopyInv, Same
      <3>2. x # NoProc
        BY <1>0, SessionStoreAssumption
      <3> QED BY <2>1, <3>1, <3>2 DEF AgeInv, Early
    <2>4. Stored(x)' = 0
      BY <2>1 DEF Stored
    <2>5. \A t \in Text : Occurrences(x, 0, t) = {}
      BY DEF Occurrences
    <2> QED BY <2>1, <2>2, <2>3, <2>4, <2>5 DEF Replacing, Occurrences
  <1>12. ASSUME NEW j \in DocId, StorePassage(x, j)
         PROVE  Replacing(x)'
    <2>1. /\ pc[x] = "storing" /\ UNCHANGED pc /\ written'[x] = written[x] + 1
      BY <1>0, <1>12 DEF StorePassage, TypeOK
    <2>2. Stored(x) = written[x] /\ Stored(x)' = written[x] + 1
      BY <2>1 DEF Stored
    <2>3. /\ files'[j].by = x
          /\ \A i \in DocId : i # j => files'[i] = files[i]
      <3>1. files' = [files EXCEPT ![j] = NewDocument(x, "chunk", Passages[x][written[x] + 1])]
        BY <1>12 DEF StorePassage, WriteNew, Write
      <3>2. NewDocument(x, "chunk", Passages[x][written[x] + 1]).by = x
        BY DEF NewDocument
      <3> QED BY <3>1, <3>2 DEF TypeOK
    <2>4. \A i \in Chunks' : files'[i].by = x
      <3>1. \A i \in Chunks' : i = j \/ (i \in Chunks /\ files'[i] = files[i])
        BY <2>3 DEF Chunks, In
      <3> QED BY <1>3, <2>1, <2>3, <3>1 DEF Replacing
    <2>5. ASSUME NEW t \in Text
          PROVE  Cardinality(Copies(x, t)') = Cardinality(Occurrences(x, Stored(x)', t))
      <3>1. Cardinality(Copies(x, t)) = Cardinality(Occurrences(x, written[x], t))
        BY <1>3, <2>1, <2>2 DEF Replacing
      <3> QED BY <1>12, <2>2, <3>1, OneMoreCopy
    <2> QED BY <2>1, <2>4, <2>5 DEF Replacing, Occurrences
  <1>13. ASSUME NEW j \in DocId, Reindex(x, j)
         PROVE  Replacing(x)'
    <2>1. pc[x] = "storing" /\ UNCHANGED <<pc, written>>
      BY <1>13 DEF Reindex
    <2>2. /\ files[j] = NoDoc /\ files'[j].kind = "graph_node"
          /\ \A i \in DocId : i # j => files'[i] = files[i]
      <3>1. /\ files' = [files EXCEPT ![j] = NewDocument(x, "graph_node", NodeText)]
            /\ origin[j] = NoDoc
        BY <1>13 DEF Reindex, WriteNew, Write
      <3>2. NewDocument(x, "graph_node", NodeText).kind = "graph_node"
        BY DEF NewDocument
      <3> QED BY <3>1, <3>2 DEF TypeOK, Inv, CopyInv
    <2>3. Chunks' = Chunks /\ \A i \in Chunks : files'[i] = files[i]
      BY <2>2 DEF Chunks, In
    <2>4. \A t \in Text : Copies(x, t)' = Copies(x, t)
      BY <2>2 DEF Copies, In
    <2>5. Stored(x)' = Stored(x)
      BY <2>1 DEF Stored
    <2> QED BY <1>3, <2>1, <2>3, <2>4, <2>5 DEF Replacing, Occurrences
  <1>14. CASE Indexed(x)
    <2>1. /\ pc[x] = "storing" /\ pc'[x] = "done" /\ written[x] = Len(Passages[x]) /\ UNCHANGED files
      BY <1>0, <1>14 DEF Indexed, End, Goto, TypeOK
    <2>2. Chunks' = Chunks /\ \A t \in Text : Copies(x, t)' = Copies(x, t)
      BY <2>1 DEF Chunks, Copies, In
    <2>3. Stored(x)' = Stored(x)
      BY <2>1 DEF Stored
    <2> QED BY <1>3, <2>1, <2>2, <2>3 DEF Replacing, Occurrences
  <1> QED BY <1>1, <1>2, <1>5, <1>6, <1>7, <1>8, <1>9, <1>10, <1>11, <1>12, <1>13, <1>14
          DEF StoreNext, IndexNext

-----------------------------------------------------------------------------
(* The theorems.                                                           *)

\* The inductive invariant behind them.
HistoryInv == Inv /\ TypeOK /\ AgeInv /\ RecencyInv /\ ReplacingInv

LEMMA InitHistory == Init => HistoryInv
  <1> SUFFICES ASSUME Init PROVE HistoryInv
    OBVIOUS
  <1>1. Inv /\ TypeOK
    BY InitInv, InitTypes
  <1>2. \A p \in Proc : pc[p] = "start" /\ written[p] = 0 /\ past[p] = {}
    BY DEF Init
  <1>3. \A i \in DocId : origin[i] # NoDoc => origin[i].by = NoProc
    BY SessionStoreAssumption DEF Init
  <1>4. IsFiniteSet(In(origin))
    BY SessionStoreAssumption DEF Init, In
  <1>5. AgeInv
    BY <1>2, <1>3, <1>4 DEF AgeInv
  <1>6. RecencyInv
    <2>1. \A r \in Run : r \in Proc /\ pc[r] = "start" /\ past[r] = {}
      BY <1>2 DEF Proc
    <2> QED BY <2>1 DEF RecencyInv, RecencyOf, Earlier
  <1>7. ReplacingInv
    <2>1. \A x \in Index : pc[x] = "start"
      BY <1>2 DEF Proc
    <2> QED BY <2>1 DEF ReplacingInv, ReplacingOf, Replacing
  <1> QED BY <1>1, <1>5, <1>6, <1>7 DEF HistoryInv

LEMMA StepHistory ==
    ASSUME HistoryInv, Inv', NEW p \in Proc, Step(p)
    PROVE  HistoryInv'
  <1>0. Inv /\ TypeOK /\ AgeInv /\ RecencyInv /\ ReplacingInv /\ Types
    BY DEF HistoryInv, Inv
  <1>1. /\ pc[p] \notin Ended /\ pc'[p] # "start"
        /\ \A q \in Proc : q # p => Undisturbed(q)
        /\ \A i \in DocId : FileChange(p, i)
    BY <1>0, StepActive, StepLocal, StepFiles
  <1>2. TypeOK' /\ AgeInv'
    BY <1>0, StepTypes, StepAgeInv
  <1>3. ASSUME NEW r \in Run PROVE RecencyOf(r)'
    <2>1. RecencyOf(r)
      BY <1>0 DEF RecencyInv
    <2>2. CASE p = r
      <3>1. r \notin Index /\ r \notin Gc
        BY SessionStoreAssumption
      <3>2. StoreNext(r) \/ RunNext(r)
        BY <2>2, <3>1 DEF Step
      <3> QED BY <1>0, <1>1, <2>1, <2>2, <3>2, RecencyOfOpening, RecencyOfRecording
    <2>3. CASE p # r
      <3>1. Undisturbed(r)
        BY <1>1, <2>3 DEF Proc
      <3> QED BY <1>0, <1>1, <2>1, <2>3, <3>1, RecencyOfOthers
    <2> QED BY <2>2, <2>3
  <1>4. ASSUME NEW x \in Index PROVE ReplacingOf(x)'
    <2>1. ReplacingOf(x)
      BY <1>0 DEF ReplacingInv
    <2>2. CASE p = x
      <3>1. x \notin Run /\ x \notin Gc
        BY SessionStoreAssumption
      <3>2. StoreNext(x) \/ IndexNext(x)
        BY <2>2, <3>1 DEF Step
      <3> QED BY <1>0, <1>1, <2>1, <2>2, <3>2, ReplacingOfOwn
    <2>3. CASE p # x
      BY <1>0, <1>1, <2>1, <2>3, ReplacingOfOthers
    <2> QED BY <2>2, <2>3
  <1> QED BY <1>2, <1>3, <1>4 DEF HistoryInv, RecencyInv, ReplacingInv

LEMMA NextHistory == HistoryInv /\ [Next]_vars => HistoryInv'
  <1> SUFFICES ASSUME HistoryInv, [Next]_vars PROVE HistoryInv'
    OBVIOUS
  <1>1. Inv'
    BY NextInv DEF HistoryInv
  <1>2. CASE UNCHANGED vars
    <2>1. UNCHANGED <<files, pc, index, unread, skipped, written, seq, plan, lock, origin, past>>
      BY <1>2 DEF vars
    <2>2. TypeOK' /\ AgeInv'
      BY <2>1 DEF HistoryInv, TypeOK, AgeInv, In
    <2>3. RecencyInv'
      BY <2>1 DEF HistoryInv, RecencyInv, RecencyOf, Earlier, In
    <2>4. ReplacingInv'
      BY <2>1 DEF HistoryInv, ReplacingInv, ReplacingOf, Replacing, Solo, Chunks, Stored, Copies,
                  Occurrences, In
    <2> QED BY <1>1, <2>2, <2>3, <2>4 DEF HistoryInv
  <1>3. ASSUME NEW p \in Proc, Step(p) PROVE HistoryInv'
    BY <1>1, <1>3, StepHistory
  <1> QED BY <1>2, <1>3, NextIsStep

LEMMA HistoryHolds == Spec => []HistoryInv
  BY InitHistory, NextHistory, PTL DEF Spec

\* Types, and the lock is never left with a process that returned.
THEOREM SessionTypeCorrect == Spec => []TypeOK
  <1>1. HistoryInv => TypeOK
    BY DEF HistoryInv
  <1> QED BY <1>1, HistoryHolds, PTL

\* Records count as later than those of the runs that had ended.
THEOREM LaterRunsCountAsLater == Spec => []RecencyFollowsRuns
  <1>1. HistoryInv => RecencyFollowsRuns
    <2> SUFFICES ASSUME HistoryInv, NEW i \in In(files), NEW j \in In(files),
                        files[i].by \in Run, files[j].by \in Run, files[i].by \in past[files[j].by],
                        ~skipped[files[j].by], ~files[i].compressed, ~files[j].compressed
                 PROVE  files[i].seq < files[j].seq
      BY DEF RecencyFollowsRuns
    <2>1. i \in Earlier(files[j].by)
      BY DEF Earlier
    <2>2. RecencyOf(files[j].by)
      BY DEF HistoryInv, RecencyInv
    <2> QED BY <2>1, <2>2 DEF RecencyOf
  <1> QED BY <1>1, HistoryHolds, PTL

\* Indexing a file replaces its passages.
THEOREM ReindexingReplaces == Spec => []SerialReindexIsExact
  <1>1. HistoryInv => SerialReindexIsExact
    <2> SUFFICES ASSUME HistoryInv, NEW x \in Index, pc[x] = "done", Solo(x)
                 PROVE  /\ \A i \in In(files) \ Damaged : files[i].kind = "chunk" => files[i].by = x
                        /\ \A t \in Text : Cardinality(Copies(x, t))
                                           = Cardinality(Occurrences(x, Len(Passages[x]), t))
      BY DEF SerialReindexIsExact, Solo
    <2>1. Replacing(x)
      BY DEF HistoryInv, ReplacingInv, ReplacingOf
    <2>2. Stored(x) = Len(Passages[x])
      BY DEF Stored
    <2> QED BY <2>1, <2>2 DEF Replacing, Chunks
  <1> QED BY <1>1, HistoryHolds, PTL
=============================================================================
