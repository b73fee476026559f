------------------------------ MODULE WebProofs ------------------------------
(***************************************************************************)
(* The web: the server's connections, and the gateway's search cache.        *)
(*                                                                         *)
(* For any number of clients, any cap and any limits: the counter of         *)
(* connections is the number of threads, never above the cap, and nobody who  *)
(* said anything is dropped without an answer.                               *)
(*                                                                         *)
(* For any number of runs, search threads and queries, and any capacity:    *)
(* a cached answer misses what a run persisted only if the search that      *)
(* cached it overlapped that run in one of the two ways MissedRunsOverlap   *)
(* names, and the queue and the map of the cache never part.                *)
(***************************************************************************)
EXTENDS SearchGateway, WebServer, SequenceTheorems, FiniteSetTheorems, TLAPS

-----------------------------------------------------------------------------
(* The server.                                                             *)

Stage == {"absent", "queued", "refused", "closed"} \cup Threaded

Connection ==
    [stage : Stage, left : Int, partial : BOOLEAN, need : Int, heard : BOOLEAN,
     open : BOOLEAN, reply : Nat]

\* A peer was heard once a line was begun, and who leaves after that has its
\* answer.
Answered(r) ==
    /\ r.stage \in {"absent", "queued"} => ~r.heard
    /\ r.stage = "line" /\ ~r.partial => ~r.heard
    /\ r.stage \in {"refused", "writing", "draining"} => r.reply # 0
    /\ r.stage \in {"leaving", "closed"} /\ r.heard => r.reply # 0

Busy == {c \in Client : Is(c, Threaded)}

ServerInv ==
    /\ active \in Nat
    /\ conn \in [Client -> Connection]
    /\ \A c \in Client : Answered(conn[c])
    /\ SlotsReturned

\* What the properties need of a connection: its stage, whether its peer was
\* heard, and its reply.
Fields(q, stage, heard, reply) ==
    q \in Connection /\ q.stage = stage /\ q.heard = heard /\ q.reply = reply

LEMMA PastFields ==
  ASSUME NEW r \in Connection, NEW s \in Stage
  PROVE  Fields(Past(r, s), s, r.heard, r.reply)
  <1> DEFINE r1 == [r EXCEPT !.stage = s]
             r2 == [r1 EXCEPT !.left = MaxBytes]
             r3 == [r2 EXCEPT !.partial = FALSE]
             r4 == [r3 EXCEPT !.need = 0]
             r5 == [r4 EXCEPT !.open = TRUE]
  <1>0. Past(r, s) = r5
    BY DEF Past
  <1>1. Fields(r1, s, r.heard, r.reply)
    BY DEF Connection, Fields
  <1> HIDE DEF r1
  <1>2. Fields(r2, s, r.heard, r.reply)
    BY <1>1, ServerAssumption DEF Connection, Fields
  <1> HIDE DEF r2
  <1>3. Fields(r3, s, r.heard, r.reply)
    BY <1>2 DEF Connection, Fields
  <1> HIDE DEF r3
  <1>4. Fields(r4, s, r.heard, r.reply)
    BY <1>3 DEF Connection, Fields
  <1> HIDE DEF r4
  <1>5. Fields(r5, s, r.heard, r.reply)
    BY <1>4 DEF Connection, Fields
  <1> QED BY <1>0, <1>5

LEMMA RejectedFields ==
  ASSUME NEW r \in Connection, NEW status \in Nat
  PROVE  Fields(Rejected(r, status), "draining", r.heard, status)
  <1> DEFINE r1 == [r EXCEPT !.stage = "draining"]
             r2 == [r1 EXCEPT !.reply = status]
             r3 == [r2 EXCEPT !.left = MaxBytes]
             r4 == [r3 EXCEPT !.partial = FALSE]
             r5 == [r4 EXCEPT !.need = 0]
  <1>0. Rejected(r, status) = r5
    BY DEF Rejected
  <1>1. Fields(r1, "draining", r.heard, r.reply)
    BY DEF Connection, Fields, Stage, Threaded, Reading
  <1> HIDE DEF r1
  <1>2. Fields(r2, "draining", r.heard, status)
    BY <1>1 DEF Connection, Fields
  <1> HIDE DEF r2
  <1>3. Fields(r3, "draining", r.heard, status)
    BY <1>2, ServerAssumption DEF Connection, Fields
  <1> HIDE DEF r3
  <1>4. Fields(r4, "draining", r.heard, status)
    BY <1>3 DEF Connection, Fields
  <1> HIDE DEF r4
  <1>5. Fields(r5, "draining", r.heard, status)
    BY <1>4 DEF Connection, Fields
  <1> QED BY <1>0, <1>5

LEMMA ReadFields ==
  ASSUME NEW r \in Connection, NEW p \in BOOLEAN
  PROVE  LET q == [r EXCEPT !.left = @ - 1, !.partial = p, !.heard = TRUE]
         IN  Fields(q, r.stage, TRUE, r.reply) /\ q.partial = p
  <1> DEFINE r1 == [r EXCEPT !.left = r.left - 1]
             r2 == [r1 EXCEPT !.partial = p]
             r3 == [r2 EXCEPT !.heard = TRUE]
  <1>0. [r EXCEPT !.left = @ - 1, !.partial = p, !.heard = TRUE] = r3
    OBVIOUS
  <1>1. Fields(r1, r.stage, r.heard, r.reply)
    BY DEF Connection, Fields
  <1> HIDE DEF r1
  <1>2. Fields(r2, r.stage, r.heard, r.reply) /\ r2.partial = p
    BY <1>1 DEF Connection, Fields
  <1> HIDE DEF r2
  <1>3. Fields(r3, r.stage, TRUE, r.reply) /\ r3.partial = p
    BY <1>2 DEF Connection, Fields
  <1> QED BY <1>0, <1>3

LEMMA NeededFields ==
  ASSUME NEW r \in Connection
  PROVE  Fields([r EXCEPT !.need = @ - 1], r.stage, r.heard, r.reply)
  BY DEF Connection, Fields

LEMMA RepliedFields ==
  ASSUME NEW r \in Connection, NEW s \in Stage, NEW status \in Nat
  PROVE  Fields([r EXCEPT !.stage = s, !.reply = status], s, r.heard, status)
  <1> DEFINE r1 == [r EXCEPT !.stage = s]
             r2 == [r1 EXCEPT !.reply = status]
  <1>0. [r EXCEPT !.stage = s, !.reply = status] = r2
    OBVIOUS
  <1>1. Fields(r1, s, r.heard, r.reply)
    BY DEF Connection, Fields
  <1> HIDE DEF r1
  <1>2. Fields(r2, s, r.heard, status)
    BY <1>1 DEF Connection, Fields
  <1> QED BY <1>0, <1>2

LEMMA ServerSufficient == ServerInv => NoSilentDrop
  BY DEF ServerInv, NoSilentDrop, Answered, Is

LEMMA InitOK == ServerInit => ServerInv
  <1> SUFFICES ASSUME ServerInit PROVE ServerInv
    OBVIOUS
  <1>1. MaxBytes \in Int /\ Nobody \notin Client /\ MaxConcurrent \in Nat
    BY ServerAssumption
  <1>2. conn \in [Client -> Connection] /\ \A c \in Client : Answered(conn[c])
    BY <1>1 DEF ServerInit, Connection, Stage, Answered
  <1>3. {c \in Client : Is(c, Threaded)} = {}
    BY DEF ServerInit, Is, Threaded, Reading
  <1>4. active = Cardinality({c \in Client : Is(c, Threaded)}) /\ active \in Nat /\ active <= MaxConcurrent
    BY <1>1, <1>3, FS_EmptySet DEF ServerInit
  <1>5. \A c \in Client : accepting = c <=> Is(c, {"refused"})
    BY <1>1 DEF ServerInit, Is
  <1> QED BY <1>2, <1>4, <1>5 DEF ServerInv, SlotsReturned

\* A step within a connection c that is now r: it neither takes nor returns a
\* slot, nor the accept thread.
OnlyOf(c, r) ==
    /\ Set(c, r) /\ UNCHANGED <<accepting, active>>
    /\ r \in Connection /\ Answered(r)
    /\ r.stage \in Threaded <=> conn[c].stage \in Threaded
    /\ r.stage = "refused" <=> conn[c].stage = "refused"

LEMMA LocalStep ==
  ASSUME ServerInv, NEW c \in Client, NEW r, OnlyOf(c, r)
  PROVE  ServerInv'
  <1>1. /\ conn' \in [Client -> Connection]
        /\ \A d \in Client : conn'[d] = IF d = c THEN r ELSE conn[d]
    BY DEF ServerInv, OnlyOf, Set
  <1>2. \A d \in Client : Answered(conn'[d])
    BY <1>1 DEF ServerInv, OnlyOf
  <1>3. {d \in Client : Is(d, Threaded)}' = {d \in Client : Is(d, Threaded)}
    BY <1>1 DEF OnlyOf, Is
  <1>4. \A d \in Client : Is(d, {"refused"})' <=> Is(d, {"refused"})
    BY <1>1 DEF OnlyOf, Is
  <1> QED BY <1>1, <1>2, <1>3, <1>4 DEF ServerInv, SlotsReturned, OnlyOf

-----------------------------------------------------------------------------
(* One lemma per group of actions.                                         *)

LEMMA RecordOf ==
  ASSUME ServerInv, NEW c \in Client
  PROVE  conn[c] \in Connection /\ Answered(conn[c])
  BY DEF ServerInv

Served(q) == q \in Connection /\ Answered(q) /\ q.stage \in Threaded /\ q.stage # "refused"

\* What the parser makes of a connection it reads from.
LEMMA ParsedRecords ==
  ASSUME NEW r \in Connection, Answered(r), r.stage \in Reading
  PROVE  /\ \A status \in {400, 413} : Served(Rejected(r, status))
         /\ Served(Past(r, "handling"))
  <1>1. ASSUME NEW status \in {400, 413} PROVE Served(Rejected(r, status))
    <2>1. Fields(Rejected(r, status), "draining", r.heard, status) /\ status # 0
      BY RejectedFields
    <2> QED BY <2>1 DEF Fields, Answered, Served, Threaded
  <1>2. Served(Past(r, "handling"))
    <2>1. Fields(Past(r, "handling"), "handling", r.heard, r.reply)
      BY PastFields DEF Stage, Threaded
    <2> QED BY <2>1 DEF Fields, Answered, Served, Threaded
  <1> QED BY <1>1, <1>2

LEMMA BodyRecord ==
  ASSUME NEW r \in Connection, Answered(r), r.stage = "headers"
  PROVE  Served(BodyOf(r))
  <1>1. r.stage \in Reading
    BY DEF Reading
  <1>2. CASE r.need > r.left
    BY <1>1, <1>2, ParsedRecords DEF BodyOf
  <1>3. CASE ~(r.need > r.left) /\ r.need = 0
    BY <1>1, <1>3, ParsedRecords DEF BodyOf
  <1>4. CASE ~(r.need > r.left) /\ r.need # 0
    <2>1. BodyOf(r) = [r EXCEPT !.stage = "body"]
      BY <1>4 DEF BodyOf
    <2> QED BY <2>1 DEF Served, Connection, Answered, Stage, Threaded, Reading
  <1> QED BY <1>2, <1>3, <1>4

LEMMA ParseKeeps ==
  ASSUME ServerInv, NEW c \in Client, ParseStep(c)
  PROVE  ServerInv'
  <1> DEFINE r == conn[c]
  <1>0. r \in Connection /\ Answered(r)
    BY RecordOf
  <1>1. CASE ReadByte(c)
    <2> DEFINE q == [conn[c] EXCEPT !.left = @ - 1, !.partial = TRUE, !.heard = TRUE]
    <2>1. Fields(q, r.stage, TRUE, r.reply) /\ q.partial
      BY <1>0, ReadFields
    <2>2. Set(c, q) /\ UNCHANGED <<accepting, active>> /\ r.stage \in {"line", "headers"}
      BY <1>1 DEF ReadByte, Is
    <2> HIDE DEF q
    <2>3. q \in Connection /\ Answered(q) /\ q.stage = r.stage
      BY <1>0, <2>1, <2>2 DEF Fields, Answered
    <2>4. OnlyOf(c, q)
      BY <2>2, <2>3 DEF OnlyOf, Threaded, Reading
    <2> QED BY <2>4, LocalStep
  <1>2. CASE ReadLine(c)
    <2> DEFINE q == [conn[c] EXCEPT !.left = @ - 1, !.partial = FALSE, !.heard = TRUE]
    <2>1. r.stage \in {"line", "headers"} /\ UNCHANGED <<accepting, active>>
      BY <1>2 DEF ReadLine, Is
    <2>5. Fields(q, r.stage, TRUE, r.reply)
      BY <1>0, ReadFields
    <2>6. q \in Connection /\ q.stage = r.stage /\ (r.stage = "headers" => Answered(q))
      <3> HIDE DEF q
      <3> QED BY <1>0, <2>5 DEF Fields, Answered
    <2>7. \/ q.stage = "line" /\ Set(c, [q EXCEPT !.stage = "headers"])
          \/ q.stage = "headers" /\ \E n \in 0 .. MaxBytes + 1 : Set(c, [q EXCEPT !.need = n])
          \/ q.stage = "headers" /\ Set(c, BodyOf(q))
      BY <1>2 DEF ReadLine
    <2> HIDE DEF q
    <2>2. CASE q.stage = "line" /\ Set(c, [q EXCEPT !.stage = "headers"])
      <3>1. OnlyOf(c, [q EXCEPT !.stage = "headers"])
        BY <2>1, <2>2, <2>6 DEF OnlyOf, Connection, Answered, Stage, Threaded, Reading
      <3> QED BY <3>1, LocalStep
    <2>3. ASSUME q.stage = "headers", NEW n \in 0 .. MaxBytes + 1, Set(c, [q EXCEPT !.need = n])
          PROVE  ServerInv'
      <3>1. n \in Int
        BY ServerAssumption
      <3>2. OnlyOf(c, [q EXCEPT !.need = n])
        BY <2>1, <2>3, <2>6, <3>1 DEF OnlyOf, Connection, Answered, Stage, Threaded, Reading
      <3> QED BY <3>2, LocalStep
    <2>4. CASE q.stage = "headers" /\ Set(c, BodyOf(q))
      <3>1. q \in Connection /\ Answered(q)
        BY <2>4, <2>6
      <3>2. r.stage = "headers" /\ q.stage = "headers"
        BY <2>4, <2>6
      <3>3. OnlyOf(c, BodyOf(q))
        BY <2>1, <2>4, <3>1, <3>2, BodyRecord DEF Served, OnlyOf, Threaded, Reading
      <3> QED BY <3>3, LocalStep
    <2> QED BY <1>2, <2>1, <2>2, <2>3, <2>4, <2>7
  <1>3. CASE OverBudget(c)
    <2>1. OnlyOf(c, Rejected(r, 413))
      BY <1>0, <1>3, ParsedRecords DEF Served, OverBudget, OnlyOf, Is, Threaded, Reading
    <2> QED BY <2>1, LocalStep
  <1>4. CASE ReadBody(c)
    <2> DEFINE q == [conn[c] EXCEPT !.need = @ - 1]
    <2>1. q \in Connection /\ Answered(q) /\ r.stage = "body" /\ q.stage = "body"
      <3>1. r.stage = "body"
        BY <1>4 DEF ReadBody, Is
      <3>2. Fields(q, r.stage, r.heard, r.reply)
        BY <1>0, NeededFields
      <3> HIDE DEF q
      <3> QED BY <3>1, <3>2 DEF Fields, Answered
    <2>2. Past(q, "handling") \in Connection /\ Answered(Past(q, "handling"))
            /\ Past(q, "handling").stage \in Threaded /\ Past(q, "handling").stage # "refused"
      <3> HIDE DEF q
      <3>1. q.stage \in Reading
        BY <2>1 DEF Reading
      <3>2. Served(Past(q, "handling"))
        BY <2>1, <3>1, ParsedRecords
      <3> QED BY <3>2 DEF Served
    <2>3. Set(c, IF q.need = 0 THEN Past(q, "handling") ELSE q) /\ UNCHANGED <<accepting, active>>
      BY <1>4 DEF ReadBody
    <2>4. OnlyOf(c, IF q.need = 0 THEN Past(q, "handling") ELSE q)
      BY <2>1, <2>2, <2>3 DEF OnlyOf, Threaded, Reading
    <2> QED BY <2>4, LocalStep
  <1>5. CASE EndOfStream(c)
    <2> DEFINE next == CASE r.stage = "line" /\ ~r.partial -> Past(r, "leaving")
                         [] r.stage = "headers" /\ ~r.partial /\ r.left > 0 -> BodyOf(r)
                         [] r.stage = "body" -> Rejected(r, 400)
                         [] OTHER -> Rejected(r, 413)
    <2>1. Set(c, next) /\ UNCHANGED <<accepting, active>> /\ r.stage \in Reading
      BY <1>5 DEF EndOfStream, Is
    <2>2. Served(next)
      <3>1. CASE r.stage = "line" /\ ~r.partial
        <4>1. next = Past(r, "leaving")
          BY <3>1
        <4>2. Fields(Past(r, "leaving"), "leaving", r.heard, r.reply) /\ ~r.heard
          BY <1>0, <3>1, PastFields DEF Answered, Stage, Threaded
        <4> HIDE DEF next, r
        <4> QED BY <4>1, <4>2 DEF Served, Fields, Answered, Threaded
      <3>2. CASE r.stage = "headers" /\ ~r.partial /\ r.left > 0
        <4>1. next = BodyOf(r)
          BY <3>2
        <4> QED BY <1>0, <3>2, <4>1, BodyRecord
      <3>3. CASE r.stage = "body"
        <4>1. next = Rejected(r, 400)
          BY <3>3
        <4> QED BY <1>0, <2>1, <4>1, ParsedRecords
      <3>4. CASE ~(r.stage = "line" /\ ~r.partial) /\ ~(r.stage = "headers" /\ ~r.partial /\ r.left > 0)
                   /\ r.stage # "body"
        <4>1. next = Rejected(r, 413)
          BY <3>4
        <4> QED BY <1>0, <2>1, <4>1, ParsedRecords
      <3> QED BY <3>1, <3>2, <3>3, <3>4
    <2>3. OnlyOf(c, next)
      <3> HIDE DEF next
      <3> QED BY <2>1, <2>2 DEF Served, OnlyOf, Threaded, Reading
    <2> QED BY <2>3, LocalStep
  <1>6. CASE ParseFails(c)
    <2>1. OnlyOf(c, Rejected(r, 400))
      BY <1>0, <1>6, ParsedRecords DEF Served, ParseFails, OnlyOf, Is, Threaded, Reading
    <2> QED BY <2>1, LocalStep
  <1> QED BY <1>1, <1>2, <1>3, <1>4, <1>5, <1>6 DEF ParseStep

\* The steps of a connection outside the parser that keep slot and accept thread.
LEMMA OthersKeep ==
  ASSUME ServerInv, NEW c \in Client,
         Connect(c) \/ Hangup(c) \/ AcceptFails(c) \/ Handle(c) \/ WriteTo(c) \/ Drain(c)
  PROVE  ServerInv'
  <1>0. conn[c] \in Connection /\ Answered(conn[c])
    BY RecordOf
  <1>1. CASE Connect(c)
    <2>1. OnlyOf(c, [conn[c] EXCEPT !.stage = "queued"])
      BY <1>0, <1>1 DEF Connect, OnlyOf, Is, Connection, Answered, Stage, Threaded, Reading
    <2> QED BY <2>1, LocalStep
  <1>2. CASE Hangup(c)
    <2>1. OnlyOf(c, [conn[c] EXCEPT !.open = FALSE])
      BY <1>0, <1>2 DEF Hangup, OnlyOf, Is, Connection, Answered, Stage, Threaded, Reading
    <2> QED BY <2>1, LocalStep
  <1>3. CASE AcceptFails(c)
    <2>1. OnlyOf(c, [conn[c] EXCEPT !.stage = "closed"])
      BY <1>0, <1>3 DEF AcceptFails, OnlyOf, Is, Connection, Answered, Stage, Threaded, Reading
    <2> QED BY <2>1, LocalStep
  <1>4. ASSUME NEW n \in Nat, n # 0, Handle(c),
               Set(c, [conn[c] EXCEPT !.stage = "writing", !.reply = n])
        PROVE  ServerInv'
    <2> DEFINE q == [conn[c] EXCEPT !.stage = "writing", !.reply = n]
    <2>1. "writing" \in Stage
      BY DEF Stage, Threaded
    <2>2. Fields(q, "writing", conn[c].heard, n)
      BY <1>0, <2>1, RepliedFields, Zenon
    <2>3. Set(c, q) /\ conn[c].stage = "handling" /\ UNCHANGED <<accepting, active>>
      BY <1>4 DEF Handle, Is
    <2> HIDE DEF q
    <2>4. q \in Connection /\ Answered(q) /\ q.stage = "writing"
      BY <1>4, <2>2 DEF Fields, Answered
    <2>5. OnlyOf(c, q)
      BY <2>3, <2>4 DEF OnlyOf, Threaded, Reading
    <2> QED BY <2>5, LocalStep
  <1>5. CASE WriteTo(c)
    <2>1. OnlyOf(c, [conn[c] EXCEPT !.stage = "leaving"])
      BY <1>0, <1>5 DEF WriteTo, OnlyOf, Is, Connection, Answered, Stage, Threaded, Reading
    <2> QED BY <2>1, LocalStep
  <1>6. CASE Drain(c)
    <2>1. OnlyOf(c, [conn[c] EXCEPT !.left = @ - 1])
      BY <1>0, <1>6 DEF Drain, OnlyOf, Is, Connection, Answered, Stage, Threaded, Reading
    <2> QED BY <2>1, LocalStep
  <1>7. CASE Handle(c)
    <2>1. 200 \in Nat /\ 200 # 0 /\ 500 \in Nat /\ 500 # 0
      OBVIOUS
    <2>2. \/ Set(c, [conn[c] EXCEPT !.stage = "writing", !.reply = 200])
          \/ Set(c, [conn[c] EXCEPT !.stage = "writing", !.reply = 500])
      BY <1>7 DEF Handle
    <2> QED BY <1>4, <1>7, <2>1, <2>2
  <1> QED BY <1>1, <1>2, <1>3, <1>5, <1>6, <1>7

\* A slot is taken.
LEMMA AcceptKeeps ==
  ASSUME ServerInv, NEW c \in Client, Accept(c)
  PROVE  ServerInv'
  <1> DEFINE r == [conn[c] EXCEPT !.stage = "line"]
  <1>0. conn[c] \in Connection /\ Answered(conn[c]) /\ conn[c].stage = "queued"
    BY RecordOf DEF Accept, Is
  <1>1. r \in Connection /\ Answered(r) /\ r.stage = "line"
    BY <1>0 DEF Connection, Answered, Stage, Threaded, Reading
  <1>2. /\ conn' \in [Client -> Connection]
        /\ \A d \in Client : conn'[d] = IF d = c THEN r ELSE conn[d]
    BY <1>1 DEF ServerInv, Accept, Set
  <1> HIDE DEF r
  <1>3. \A d \in Client : Answered(conn'[d])
    BY <1>1, <1>2 DEF ServerInv
  <1>4. Busy' = Busy \cup {c} /\ c \notin Busy
    BY <1>0, <1>1, <1>2 DEF Busy, Is, Threaded, Reading
  <1>5. IsFiniteSet(Busy)
    BY ServerAssumption, FS_Subset DEF Busy
  <1>6. Cardinality(Busy') = Cardinality(Busy) + 1
    BY <1>4, <1>5, FS_AddElement
  <1>7. active' = Cardinality(Busy') /\ active' \in Nat /\ active' <= MaxConcurrent
    BY <1>6, ServerAssumption DEF ServerInv, SlotsReturned, Accept, Busy
  <1>8. \A d \in Client : Is(d, {"refused"})' <=> Is(d, {"refused"})
    BY <1>0, <1>1, <1>2 DEF Is
  <1> QED BY <1>2, <1>3, <1>7, <1>8 DEF ServerInv, SlotsReturned, Accept, Busy

\* And returned.
LEMMA LeaveKeeps ==
  ASSUME ServerInv, NEW c \in Client, Leave(c)
  PROVE  ServerInv'
  <1> DEFINE r == [conn[c] EXCEPT !.stage = "closed"]
  <1>0. conn[c] \in Connection /\ Answered(conn[c]) /\ conn[c].stage = "leaving"
    BY RecordOf DEF Leave, Is
  <1>1. r \in Connection /\ Answered(r) /\ r.stage = "closed"
    BY <1>0 DEF Connection, Answered, Stage
  <1>2. /\ conn' \in [Client -> Connection]
        /\ \A d \in Client : conn'[d] = IF d = c THEN r ELSE conn[d]
    BY <1>1 DEF ServerInv, Leave, Set
  <1> HIDE DEF r
  <1>3. \A d \in Client : Answered(conn'[d])
    BY <1>1, <1>2 DEF ServerInv
  <1>4. Busy' = Busy \ {c} /\ c \in Busy
    BY <1>0, <1>1, <1>2 DEF Busy, Is, Threaded, Reading
  <1>5. IsFiniteSet(Busy)
    BY ServerAssumption, FS_Subset DEF Busy
  <1>6. Cardinality(Busy') = Cardinality(Busy) - 1 /\ IsFiniteSet(Busy')
    BY <1>4, <1>5, FS_RemoveElement
  <1>7. Cardinality(Busy') \in Nat
    BY <1>6, FS_CardinalityType
  <1>8. active' = Cardinality(Busy') /\ active' \in Nat /\ active' <= MaxConcurrent
    BY <1>6, <1>7, ServerAssumption DEF ServerInv, SlotsReturned, Leave, Busy
  <1>9. \A d \in Client : Is(d, {"refused"})' <=> Is(d, {"refused"})
    BY <1>0, <1>1, <1>2 DEF Is
  <1> QED BY <1>2, <1>3, <1>8, <1>9 DEF ServerInv, SlotsReturned, Leave, Busy

\* The accept thread takes a peer to drain, and lets it go.
LEMMA RefuseKeeps ==
  ASSUME ServerInv, NEW c \in Client, Refuse(c)
  PROVE  ServerInv'
  <1> DEFINE r == [conn[c] EXCEPT !.stage = "refused", !.reply = 503]
  <1>0. conn[c] \in Connection /\ conn[c].stage = "queued"
    BY RecordOf DEF Refuse, Is
  <1>1. r \in Connection /\ Answered(r) /\ r.stage = "refused"
    <2>1. Fields(r, "refused", conn[c].heard, 503)
      <3> DEFINE stage == "refused"
                 status == 503
                 q == conn[c]
      <3>1. stage \in Stage /\ status \in Nat /\ q \in Connection
        BY <1>0 DEF Stage
      <3> HIDE DEF stage, status, q
      <3>2. Fields([q EXCEPT !.stage = stage, !.reply = status], stage, q.heard, status)
        BY ONLY <3>1, RepliedFields
      <3> QED BY <3>2 DEF stage, status, q
    <2> HIDE DEF r
    <2> QED BY <2>1 DEF Fields, Answered
  <1>2. /\ conn' \in [Client -> Connection]
        /\ \A d \in Client : conn'[d] = IF d = c THEN r ELSE conn[d]
    BY <1>1 DEF ServerInv, Refuse, Set
  <1> HIDE DEF r
  <1>3. \A d \in Client : Answered(conn'[d])
    BY <1>1, <1>2 DEF ServerInv
  <1>4. Busy' = Busy
    BY <1>0, <1>1, <1>2 DEF Busy, Is, Threaded, Reading
  <1>5. \A d \in Client : ~Is(d, {"refused"})
    BY ServerAssumption DEF ServerInv, SlotsReturned, Refuse
  <1>6. \A d \in Client : accepting' = d <=> Is(d, {"refused"})'
    BY <1>1, <1>2, <1>5 DEF Is, Refuse
  <1> QED BY <1>2, <1>3, <1>4, <1>6 DEF ServerInv, SlotsReturned, Refuse, Busy

LEMMA DrainedKeeps ==
  ASSUME ServerInv, NEW c \in Client, Drained(c)
  PROVE  ServerInv'
  <1>0. conn[c] \in Connection /\ Answered(conn[c]) /\ MaxBytes \in Int
    BY RecordOf, ServerAssumption
  <1>1. CASE Is(c, {"draining"}) /\ Set(c, Past(conn[c], "leaving")) /\ UNCHANGED <<accepting, active>>
    <2> DEFINE r == Past(conn[c], "leaving")
    <2>1. Fields(r, "leaving", conn[c].heard, conn[c].reply)
      BY <1>0, PastFields DEF Stage, Threaded
    <2>2. conn[c].stage = "draining" /\ Set(c, r) /\ UNCHANGED <<accepting, active>>
      BY <1>1 DEF Is
    <2> HIDE DEF r
    <2>3. r \in Connection /\ Answered(r) /\ r.stage = "leaving"
      BY <1>0, <2>1, <2>2 DEF Fields, Answered
    <2>4. OnlyOf(c, r)
      BY <2>2, <2>3 DEF OnlyOf, Threaded, Reading
    <2> QED BY <2>4, LocalStep
  <1>2. CASE /\ Is(c, {"refused"}) /\ Set(c, Past(conn[c], "closed"))
             /\ accepting' = Nobody /\ UNCHANGED active
    <2> DEFINE r == Past(conn[c], "closed")
    <2>1. r \in Connection /\ Answered(r) /\ r.stage = "closed" /\ conn[c].stage = "refused"
      <3>1. Fields(r, "closed", conn[c].heard, conn[c].reply) /\ conn[c].stage = "refused"
        BY <1>0, <1>2, PastFields DEF Is, Stage
      <3> HIDE DEF r
      <3> QED BY <1>0, <3>1 DEF Fields, Answered
    <2>2. /\ conn' \in [Client -> Connection]
          /\ \A d \in Client : conn'[d] = IF d = c THEN r ELSE conn[d]
      BY <1>2, <2>1 DEF ServerInv, Set
    <2> HIDE DEF r
    <2>3. \A d \in Client : Answered(conn'[d])
      BY <2>1, <2>2 DEF ServerInv
    <2>4. Busy' = Busy
      BY <2>1, <2>2 DEF Busy, Is, Threaded, Reading
    <2>5. accepting = c /\ \A d \in Client : Is(d, {"refused"}) => d = c
      BY <1>2 DEF ServerInv, SlotsReturned
    <2>6. \A d \in Client : accepting' = d <=> Is(d, {"refused"})'
      BY <1>2, <2>1, <2>2, <2>5, ServerAssumption DEF Is
    <2> QED BY <1>2, <2>2, <2>3, <2>4, <2>6 DEF ServerInv, SlotsReturned, Busy
  <1> QED BY <1>1, <1>2 DEF Drained

-----------------------------------------------------------------------------
LEMMA NextKeeps == ServerInv /\ [ServerNext]_serverVars => ServerInv'
  <1> SUFFICES ASSUME ServerInv, [ServerNext]_serverVars PROVE ServerInv'
    OBVIOUS
  <1>1. CASE UNCHANGED serverVars
    BY <1>1 DEF serverVars, ServerInv, SlotsReturned, Is
  <1>2. ASSUME NEW c \in Client, Connect(c) \/ Hangup(c) \/ ServerStep(c)
        PROVE  ServerInv'
    BY <1>2, ParseKeeps, OthersKeep, AcceptKeeps, LeaveKeeps, RefuseKeeps, DrainedKeeps DEF ServerStep
  <1> QED BY <1>1, <1>2 DEF ServerNext

\* Connection slots are counted exactly, over every way a connection can end
\* (web/src/lib.rs, serve_bounded).
THEOREM SlotsAreReturned == ServerSpec => []SlotsReturned
  <1>1. ServerInv => SlotsReturned
    BY DEF ServerInv
  <1> QED BY <1>1, InitOK, NextKeeps, PTL DEF ServerSpec

\* A connection whose peer said something does not close without an answer
\* (web/src/http.rs, handle_connection).
THEOREM NobodyIsDroppedSilently == ServerSpec => []NoSilentDrop
  <1> QED BY ServerSufficient, InitOK, NextKeeps, PTL DEF ServerSpec

-----------------------------------------------------------------------------
(* The gateway.                                                            *)

\* The part of the state the argument needs well typed: all but the LRU queue.
Typed ==
    /\ runPc \in [Run -> RunLocations]
    /\ searchPc \in [Search -> SearchLocations]
    /\ documents \subseteq DocumentPart
    /\ graph \subseteq GraphPart
    /\ generation \in Nat
    /\ local \in [Search -> Local]
    /\ \E o, e : cache = [order |-> o, entries |-> e]
    /\ cache.entries \in [Query -> Entry \cup {NoEntry}]

Unbumped == {"unevicted", "evicted"}
Ended == {"ok", "err"}

\* Nothing of a run is persisted before it has bumped the generation.
PersistInv ==
    /\ \A p \in documents : runPc[p[1]] \in {"reflect", "update", "ok"}
    /\ \A p \in graph : runPc[p[1]] = "ok"

\* A search that is still to compare generations will notice every bump since it
\* captured its own.
GenInv == \A t \in Search : searchPc[t] \in {"lookup", "open", "load", "compare"} =>
    /\ local[t].genBefore <= generation
    /\ \A r \in Run :
          (local[t].before[r] \in Unbumped /\ runPc[r] \in RunLocations \ {"engine", "evict", "bump", "err"})
              => local[t].genBefore < generation

\* What a search has read holds all of every run that had ended when it began.
ReadInv == \A t \in Search, r \in Run :
    (searchPc[t] # "idle" /\ local[t].before[r] = "ended") =>
        /\ runPc[r] \in Ended
        /\ searchPc[t] \in {"load", "compare", "put"} =>
              \A p \in documents : p[1] = r => p \in local[t].hits
        /\ searchPc[t] \in {"compare", "put"} =>
              \A p \in graph : p[1] = r => p \in local[t].hits

\* A search about to cache its answer saw the same generation.
PutInv == \A t \in Search, r \in Run :
    (searchPc[t] = "put" /\ local[t].before[r] \in Unbumped) =>
        local[t].checked[r] \in Unbumped \/ runPc[r] = "err"

\* The same of a cached answer e, which is also no older than an eviction.
AnswerOk(e, r) ==
    /\ \/ e.before[r] = "mutating"
       \/ e.checked[r] \in Unbumped
       \/ runPc[r] \in Ended /\ Persisted(r) \subseteq e.hits
    /\ e.stored[r] = "unevicted" => runPc[r] \in {"engine", "evict", "err"}

EntryInv == \A q \in Query, r \in Run :
    cache.entries[q] # NoEntry => AnswerOk(cache.entries[q], r)

IInv == Typed /\ PersistInv /\ GenInv /\ ReadInv /\ PutInv /\ EntryInv

\* The invariant implies the property.
LEMMA Sufficient == IInv => MissedRunsOverlap
  <1> SUFFICES ASSUME IInv, NEW q \in Keys(cache), NEW r \in Run,
                      ~(Persisted(r) \subseteq cache.entries[q].hits)
               PROVE  \/ cache.entries[q].before[r] = "mutating"
                      \/ /\ cache.entries[q].checked[r] \in {"unevicted", "evicted"}
                         /\ cache.entries[q].stored[r] # "unevicted"
    BY DEF MissedRunsOverlap
  <1>1. q \in Query /\ cache.entries[q] # NoEntry
    BY DEF Keys
  <1>2. runPc[r] \in {"reflect", "update", "ok"}
    BY DEF IInv, PersistInv, Persisted
  <1>3. /\ \/ cache.entries[q].before[r] = "mutating"
           \/ cache.entries[q].checked[r] \in Unbumped
        /\ cache.entries[q].stored[r] # "unevicted"
    BY <1>1, <1>2 DEF IInv, EntryInv, AnswerOk, Ended
  <1> QED BY <1>3 DEF Unbumped

\* A run's phase is one of the four.
LEMMA PhasesType == runPc \in [Run -> RunLocations] => Phases \in [Run -> Phase]
  BY DEF Phases, PhaseOf, Phase, RunLocations

\* What each phase says of a run's location.
LEMMA PhaseFacts ==
    ASSUME NEW r \in Run, runPc \in [Run -> RunLocations]
    PROVE  /\ Phases[r] = "unevicted" <=> runPc[r] \in {"engine", "evict"}
           /\ Phases[r] = "evicted" <=> runPc[r] = "bump"
           /\ Phases[r] = "ended" <=> runPc[r] \in Ended
  BY DEF Phases, PhaseOf, RunLocations, Ended

\* A step of a run touches neither searches nor, unless it evicts, the cache.
LEMMA RunFrame ==
    ASSUME NEW r \in Run, RunStep(r), Typed
    PROVE  /\ UNCHANGED searchVars
           /\ \A x \in Run : x # r => runPc'[x] = runPc[x]
           /\ runPc[r] \notin Ended /\ runPc' \in [Run -> RunLocations]
           /\ cache' = cache \/ (Evict(r) /\ cache' = EmptyCache)
  <1>1. UNCHANGED searchVars /\ (cache' = cache \/ (Evict(r) /\ cache' = EmptyCache))
    BY DEF RunStep, EngineOk, EngineErr, Evict, Bump, OpenStore, RecordRun, RecordReflections,
           UpdateGraph
  <1>2. /\ \A x \in Run : x # r => runPc'[x] = runPc[x]
        /\ runPc[r] \notin Ended /\ runPc' \in [Run -> RunLocations]
    BY DEF RunStep, EngineOk, EngineErr, Evict, Bump, OpenStore, RecordRun, RecordReflections,
           UpdateGraph, RunGoto, Typed, RunLocations, Ended
  <1> QED BY <1>1, <1>2

\* A step of a search touches nothing of the runs, nor another search.
LEMMA SearchFrame ==
    ASSUME NEW t \in Search, SearchStep(t), Typed
    PROVE  /\ UNCHANGED <<runPc, documents, graph, generation>>
           /\ \A x \in Search : x # t => searchPc'[x] = searchPc[x] /\ local'[x] = local[x]
  <1>1. UNCHANGED <<runPc, documents, graph, generation>>
    BY DEF SearchStep, Capture, Hit, Miss, ReadStore, ReadGraph, ReadFails, CompareSame,
           CompareChanged, Store, storeVars
  <1>2. \A x \in Search : x # t => searchPc'[x] = searchPc[x]
    BY DEF SearchStep, Capture, Hit, Miss, ReadStore, ReadGraph, ReadFails, CompareSame,
           CompareChanged, Store, SearchGoto, Respond, Typed
  <1>3. \A x \in Search : x # t => local'[x] = local[x]
    <2>1. local' = local \/ \E l : local' = [local EXCEPT ![t] = l]
      BY DEF SearchStep, Capture, Hit, Miss, ReadStore, ReadGraph, ReadFails, CompareSame,
             CompareChanged, Store, Respond
    <2> QED BY <2>1 DEF Typed
  <1> QED BY <1>1, <1>2, <1>3

\* What a run adds to the session is its own; it ends with nothing left to add.
LEMMA RunAdds ==
    ASSUME NEW r \in Run, RunStep(r), Typed
    PROVE  /\ documents' = documents \/ (\E p \in DocumentPart : p[1] = r /\ documents' = documents \cup {p})
           /\ graph' = graph \/ (\E p \in GraphPart : p[1] = r /\ graph' = graph \cup {p})
  <1>1. <<r, "results">> \in DocumentPart /\ <<r, "reflections">> \in DocumentPart
        /\ <<r, "concepts">> \in GraphPart
        /\ <<r, "results">>[1] = r /\ <<r, "reflections">>[1] = r /\ <<r, "concepts">>[1] = r
    BY DEF DocumentPart, GraphPart
  <1> QED BY <1>1 DEF RunStep, EngineOk, EngineErr, Evict, Bump, OpenStore, RecordRun,
             RecordReflections, UpdateGraph, storeVars

\* The locals of a thread without a request.
LEMMA NoLocalType == Query # {} => NoLocal \in Local
  BY DEF NoLocal, Local, Phase

\* The record a search caches.
LEMMA StoreEntry ==
    ASSUME NEW t \in Search, Typed
    PROVE  [hits |-> local[t].hits, before |-> local[t].before, checked |-> local[t].checked,
            stored |-> Phases] \in Entry
  BY PhasesType DEF Typed, Local, Entry

\* What `put` does to the map: the query gets the answer or nothing at all, the
\* others keep theirs or lose it.
LEMMA PutEntries ==
    ASSUME NEW t \in Search, Store(t)
    PROVE  \E o, gone :
              cache' = [order   |-> o,
                        entries |-> [x \in Query |->
                            IF x \in gone THEN NoEntry
                            ELSE IF x = local[t].query
                            THEN [hits |-> local[t].hits, before |-> local[t].before,
                                  checked |-> local[t].checked, stored |-> Phases]
                            ELSE cache.entries[x]]]
  <1> DEFINE e == [hits |-> local[t].hits, before |-> local[t].before,
                   checked |-> local[t].checked, stored |-> Phases]
             q == local[t].query
             o1 == Touch(cache.order, q)
             n == Excess(Cardinality(Keys(cache) \cup {q}))
             g == Evicted(o1, n)
             o2 == SubSeq(o1, n + 1, Len(o1))
  <1>1. cache' = Put(cache, q, e)
    BY DEF Store
  <1>2. Put(cache, q, e) = [order   |-> o2,
                            entries |-> [x \in Query |->
                                IF x \in g THEN NoEntry
                                ELSE IF x = q THEN e ELSE cache.entries[x]]]
    BY DEF Put
  <1> HIDE DEF o2, g, n
  <1> QED BY <1>1, <1>2

\* Steps keep the state well typed.
LEMMA TypedStep == Typed /\ [Next]_vars => Typed'
  <1> SUFFICES ASSUME Typed, [Next]_vars PROVE Typed'
    OBVIOUS
  <1>1. ASSUME NEW r \in Run, RunStep(r) PROVE Typed'
    <2>1. documents' \subseteq DocumentPart /\ graph' \subseteq GraphPart
      <3>1. documents \subseteq DocumentPart /\ graph \subseteq GraphPart
        BY DEF Typed
      <3>2. documents' = documents \/ \E p \in DocumentPart : documents' = documents \cup {p}
        BY <1>1, RunAdds
      <3>3. graph' = graph \/ \E p \in GraphPart : graph' = graph \cup {p}
        BY <1>1, RunAdds
      <3> QED BY <3>1, <3>2, <3>3
    <2>2. generation' \in Nat
      <3>1. generation' = generation \/ Bump(r)
        BY <1>1 DEF RunStep, EngineOk, EngineErr, Evict, OpenStore, RecordRun,
               RecordReflections, UpdateGraph
      <3>2. generation \in Nat
        BY DEF Typed
      <3> QED BY <3>1, <3>2 DEF Bump
    <2>3. /\ \E o, e : cache' = [order |-> o, entries |-> e]
          /\ cache'.entries \in [Query -> Entry \cup {NoEntry}]
      <3>1. CASE cache' = cache
        BY <3>1 DEF Typed
      <3>2. CASE cache' = EmptyCache
        <4>1. cache' = [order |-> <<>>, entries |-> [q \in Query |-> NoEntry]]
          BY <3>2 DEF EmptyCache
        <4>2. cache'.entries = [q \in Query |-> NoEntry]
          BY <4>1
        <4> QED BY <4>1, <4>2
      <3> QED BY <1>1, <3>1, <3>2, RunFrame
    <2> QED BY <1>1, <2>1, <2>2, <2>3, RunFrame DEF Typed, searchVars
  <1>2. ASSUME NEW t \in Search, SearchStep(t) PROVE Typed'
    <2>1. searchPc' \in [Search -> SearchLocations]
      BY <1>2 DEF SearchStep, Capture, Hit, Miss, ReadStore, ReadGraph, ReadFails, CompareSame,
             CompareChanged, Store, SearchGoto, Respond, Typed, SearchLocations
    <2>2. local[t] \in Local /\ Query # {}
      BY DEF Typed, Local
    <2>3. local' = local \/ \E l \in Local : local' = [local EXCEPT ![t] = l]
      <3>1. NoLocal \in Local
        BY <2>2, NoLocalType
      <3>2. CASE Capture(t)
        <4>1. PICK q \in Query :
                local' = [local EXCEPT ![t] = [NoLocal EXCEPT !.query = q,
                                                              !.genBefore = generation,
                                                              !.before = Phases]]
          BY <3>2 DEF Capture
        <4>2. [NoLocal EXCEPT !.query = q, !.genBefore = generation, !.before = Phases] \in Local
          BY <3>1, PhasesType DEF Typed, Local
        <4> QED BY <4>1, <4>2
      <3>3. CASE ReadStore(t)
        <4>1. [local[t] EXCEPT !.hits = documents] \in Local
          BY <2>2 DEF Typed, Local, Part
        <4> QED BY <3>3, <4>1 DEF ReadStore
      <3>4. CASE ReadGraph(t)
        <4>1. [local[t] EXCEPT !.hits = @ \cup graph] \in Local
          BY <2>2 DEF Typed, Local, Part
        <4> QED BY <3>4, <4>1 DEF ReadGraph
      <3>5. CASE CompareSame(t)
        <4>1. [local[t] EXCEPT !.checked = Phases] \in Local
          BY <2>2, PhasesType DEF Typed, Local
        <4> QED BY <3>5, <4>1 DEF CompareSame
      <3>6. CASE Hit(t) \/ Miss(t) \/ ReadFails(t) \/ CompareChanged(t) \/ Store(t)
        BY <3>1, <3>6 DEF Hit, Miss, ReadFails, CompareChanged, Store, Respond
      <3> QED BY <1>2, <3>2, <3>3, <3>4, <3>5, <3>6 DEF SearchStep
    <2>4. local' \in [Search -> Local]
      BY <2>3 DEF Typed
    <2>5. /\ \E o, e : cache' = [order |-> o, entries |-> e]
          /\ cache'.entries \in [Query -> Entry \cup {NoEntry}]
      <3>1. CASE Hit(t)
        BY <3>1 DEF Hit, Get, Typed
      <3>2. CASE Store(t)
        <4> DEFINE e == [hits |-> local[t].hits, before |-> local[t].before,
                         checked |-> local[t].checked, stored |-> Phases]
        <4>1. e \in Entry
          BY StoreEntry
        <4>2. PICK o, gone : cache' = [order |-> o,
                entries |-> [x \in Query |-> IF x \in gone THEN NoEntry
                                            ELSE IF x = local[t].query THEN e
                                            ELSE cache.entries[x]]]
          BY <3>2, PutEntries
        <4> HIDE DEF e
        <4>3. cache'.entries = [x \in Query |-> IF x \in gone THEN NoEntry
                                            ELSE IF x = local[t].query THEN e
                                            ELSE cache.entries[x]]
          BY <4>2
        <4>4. cache'.entries \in [Query -> Entry \cup {NoEntry}]
          BY <4>1, <4>3 DEF Typed
        <4> QED BY <4>2, <4>4
      <3>3. CASE cache' = cache
        BY <3>3 DEF Typed
      <3> QED BY <1>2, <3>1, <3>2, <3>3
              DEF SearchStep, Capture, Miss, ReadStore, ReadGraph, ReadFails, CompareSame,
                  CompareChanged
    <2> QED BY <1>2, <2>1, <2>4, <2>5, SearchFrame DEF Typed
  <1>3. CASE UNCHANGED vars
    BY <1>3 DEF vars, storeVars, searchVars, Typed
  <1> QED BY <1>1, <1>2, <1>3 DEF Next

\* A run persists a part only after its bump, and moves forward.
LEMMA PersistStep == Typed /\ PersistInv /\ [Next]_vars => PersistInv'
  <1> SUFFICES ASSUME Typed, PersistInv, [Next]_vars PROVE PersistInv'
    OBVIOUS
  <1>0. (\A p \in documents : p[1] \in Run) /\ (\A p \in graph : p[1] \in Run)
    BY DEF Typed, DocumentPart, GraphPart
  <1>1. ASSUME NEW r \in Run, RunStep(r) PROVE PersistInv'
    <2>1. \A x \in Run : x # r => runPc'[x] = runPc[x]
      BY <1>1, RunFrame
    <2>2. CASE EngineOk(r) \/ EngineErr(r) \/ Evict(r) \/ Bump(r) \/ OpenStore(r)
      <3>1. UNCHANGED <<documents, graph>>
        BY <2>2 DEF EngineOk, EngineErr, Evict, Bump, OpenStore, storeVars
      <3>2. runPc[r] \notin {"reflect", "update", "ok"}
        BY <2>2 DEF EngineOk, EngineErr, Evict, Bump, OpenStore
      <3> QED BY <1>0, <2>1, <3>1, <3>2 DEF PersistInv
    <2>3. CASE RecordRun(r)
      <3>1. runPc[r] = "record" /\ runPc'[r] \in {"reflect", "update"} /\ graph' = graph
        BY <2>3 DEF RecordRun, RunGoto, Typed
      <3>2. \A p \in documents' : p \in documents \/ p[1] = r
        BY <2>3 DEF RecordRun, RunGoto, Typed
      <3> QED BY <1>0, <2>1, <3>1, <3>2 DEF PersistInv
    <2>4. CASE RecordReflections(r)
      <3>1. runPc[r] = "reflect" /\ runPc'[r] = "update" /\ graph' = graph
        BY <2>4 DEF RecordReflections, RunGoto, Typed
      <3>2. \A p \in documents' : p \in documents \/ p[1] = r
        BY <2>4 DEF RecordReflections
      <3> QED BY <1>0, <2>1, <3>1, <3>2 DEF PersistInv
    <2>5. CASE UpdateGraph(r)
      <3>1. runPc[r] = "update" /\ runPc'[r] = "ok" /\ documents' = documents
        BY <2>5 DEF UpdateGraph, RunGoto, Typed
      <3>2. \A p \in graph' : p \in graph \/ p[1] = r
        BY <2>5 DEF UpdateGraph
      <3> QED BY <1>0, <2>1, <3>1, <3>2 DEF PersistInv
    <2> QED BY <1>1, <2>2, <2>3, <2>4, <2>5 DEF RunStep
  <1>2. ASSUME NEW t \in Search, SearchStep(t) PROVE PersistInv'
    BY <1>2, SearchFrame DEF PersistInv
  <1>3. CASE UNCHANGED vars
    BY <1>3 DEF vars, storeVars, PersistInv
  <1> QED BY <1>1, <1>2, <1>3 DEF Next

\* A bump after the capture shows in the comparison.
LEMMA GenStep == Typed /\ GenInv /\ [Next]_vars => GenInv'
  <1> SUFFICES ASSUME Typed, GenInv, [Next]_vars PROVE GenInv'
    OBVIOUS
  <1> DEFINE Bumped == RunLocations \ {"engine", "evict", "bump", "err"}
  <1>0. \A t \in Search : local[t].genBefore \in Nat
    BY DEF Typed, Local
  <1>1. ASSUME NEW r \in Run, RunStep(r) PROVE GenInv'
    <2>1. searchPc' = searchPc /\ local' = local
      BY <1>1, RunFrame DEF searchVars
    <2>2. CASE Bump(r)
      <3>1. generation' = generation + 1 /\ generation \in Nat
        BY <2>2 DEF Bump, Typed
      <3>2. \A t \in Search : local[t].genBefore <= generation =>
               local[t].genBefore <= generation' /\ local[t].genBefore < generation'
        BY <1>0, <3>1
      <3> QED BY <2>1, <3>2 DEF GenInv
    <2>3. CASE ~ Bump(r)
      <3>1. generation' = generation
        BY <1>1, <2>3 DEF RunStep, EngineOk, EngineErr, Evict, OpenStore, RecordRun,
               RecordReflections, UpdateGraph
      <3>2. \A x \in Run : runPc'[x] \in Bumped => runPc[x] \in Bumped
        BY <1>1, <2>3 DEF RunStep, EngineOk, EngineErr, Evict, OpenStore, RecordRun,
               RecordReflections, UpdateGraph, RunGoto, Typed, RunLocations
      <3> QED BY <2>1, <3>1, <3>2 DEF GenInv
    <2> QED BY <2>2, <2>3
  <1>2. ASSUME NEW t \in Search, SearchStep(t) PROVE GenInv'
    <2>1. /\ UNCHANGED <<runPc, generation>>
          /\ \A x \in Search : x # t => searchPc'[x] = searchPc[x] /\ local'[x] = local[x]
      BY <1>2, SearchFrame
    <2>2. CASE Capture(t)
      <3>1. local'[t].genBefore = generation /\ local'[t].before = Phases /\ generation \in Nat
        BY <2>2 DEF Capture, NoLocal, Typed
      <3>2. \A r \in Run : local'[t].before[r] \in Unbumped => runPc[r] \notin Bumped
        BY <3>1, PhaseFacts DEF Unbumped, Typed
      <3> QED BY <2>1, <3>1, <3>2 DEF GenInv
    <2>3. CASE ~ Capture(t)
      <3>1. searchPc'[t] \in {"lookup", "open", "load", "compare"} =>
              /\ searchPc[t] \in {"lookup", "open", "load", "compare"}
              /\ local'[t].genBefore = local[t].genBefore /\ local'[t].before = local[t].before
        <4>1. CASE Miss(t)
          BY <4>1 DEF Miss, SearchGoto, Typed
        <4>2. CASE ReadStore(t)
          BY <4>2 DEF ReadStore, SearchGoto, Typed, Local
        <4>3. CASE ReadGraph(t)
          BY <4>3 DEF ReadGraph, SearchGoto, Typed, Local
        <4>4. CASE Hit(t) \/ ReadFails(t) \/ CompareSame(t) \/ CompareChanged(t) \/ Store(t)
          BY <4>4 DEF Hit, ReadFails, CompareSame, CompareChanged, Store, Respond, SearchGoto, Typed
        <4> QED BY <1>2, <2>3, <4>1, <4>2, <4>3, <4>4 DEF SearchStep
      <3> QED BY <2>1, <3>1 DEF GenInv
    <2> QED BY <2>2, <2>3
  <1>3. CASE UNCHANGED vars
    BY <1>3 DEF vars, searchVars, GenInv
  <1> QED BY <1>1, <1>2, <1>3 DEF Next

\* A run that had ended adds nothing more, and what it added is read.
LEMMA ReadStep == Typed /\ ReadInv /\ [Next]_vars => ReadInv'
  <1> SUFFICES ASSUME Typed, ReadInv, [Next]_vars PROVE ReadInv'
    OBVIOUS
  <1>1. ASSUME NEW r \in Run, RunStep(r) PROVE ReadInv'
    <2>1. /\ searchPc' = searchPc /\ local' = local /\ runPc[r] \notin Ended
          /\ \A x \in Run : x # r => runPc'[x] = runPc[x]
      BY <1>1, RunFrame DEF searchVars
    <2>2. /\ \A p \in documents' : p \in documents \/ p[1] = r
          /\ \A p \in graph' : p \in graph \/ p[1] = r
      BY <1>1, RunAdds
    <2> QED BY <2>1, <2>2 DEF ReadInv
  <1>2. ASSUME NEW t \in Search, SearchStep(t) PROVE ReadInv'
    <2>1. /\ UNCHANGED <<runPc, documents, graph>>
          /\ \A x \in Search : x # t => searchPc'[x] = searchPc[x] /\ local'[x] = local[x]
      BY <1>2, SearchFrame
    <2>2. CASE Capture(t)
      <3>1. local'[t].before = Phases /\ searchPc'[t] = "lookup"
        BY <2>2 DEF Capture, NoLocal, SearchGoto, Typed
      <3>2. \A r \in Run : local'[t].before[r] = "ended" => runPc[r] \in Ended
        BY <3>1, PhaseFacts DEF Typed
      <3> QED BY <2>1, <3>1, <3>2 DEF ReadInv
    <2>3. CASE ReadStore(t)
      <3>1. /\ searchPc[t] = "open" /\ searchPc'[t] = "load"
            /\ local'[t].hits = documents /\ local'[t].before = local[t].before
        BY <2>3 DEF ReadStore, SearchGoto, Typed, Local
      <3> QED BY <2>1, <3>1 DEF ReadInv
    <2>4. CASE ReadGraph(t)
      <3>1. /\ searchPc[t] = "load" /\ searchPc'[t] = "compare"
            /\ local'[t].hits = local[t].hits \cup graph /\ local'[t].before = local[t].before
        BY <2>4 DEF ReadGraph, SearchGoto, Typed, Local
      <3> QED BY <2>1, <3>1 DEF ReadInv
    <2>5. CASE CompareSame(t)
      <3>1. /\ searchPc[t] = "compare" /\ searchPc'[t] = "put"
            /\ local'[t].hits = local[t].hits /\ local'[t].before = local[t].before
        BY <2>5 DEF CompareSame, SearchGoto, Typed, Local
      <3> QED BY <2>1, <3>1 DEF ReadInv
    <2>6. CASE Miss(t)
      <3>1. searchPc[t] = "lookup" /\ searchPc'[t] = "open" /\ local'[t] = local[t]
        BY <2>6 DEF Miss, SearchGoto, Typed
      <3> QED BY <2>1, <3>1 DEF ReadInv
    <2>7. CASE Hit(t) \/ ReadFails(t) \/ CompareChanged(t) \/ Store(t)
      <3>1. searchPc'[t] = "idle"
        BY <2>7 DEF Hit, ReadFails, CompareChanged, Store, Respond, SearchGoto, Typed
      <3> QED BY <2>1, <3>1 DEF ReadInv
    <2> QED BY <1>2, <2>2, <2>3, <2>4, <2>5, <2>6, <2>7 DEF SearchStep
  <1>3. CASE UNCHANGED vars
    BY <1>3 DEF vars, searchVars, storeVars, ReadInv
  <1> QED BY <1>1, <1>2, <1>3 DEF Next

\* Equal generations: no run bumped between the capture and the comparison.
LEMMA PutStep == Typed /\ GenInv /\ PutInv /\ [Next]_vars => PutInv'
  <1> SUFFICES ASSUME Typed, GenInv, PutInv, [Next]_vars PROVE PutInv'
    OBVIOUS
  <1>1. ASSUME NEW r \in Run, RunStep(r) PROVE PutInv'
    BY <1>1, RunFrame DEF PutInv, searchVars, Ended
  <1>2. ASSUME NEW t \in Search, SearchStep(t) PROVE PutInv'
    <2>1. /\ UNCHANGED runPc
          /\ \A x \in Search : x # t => searchPc'[x] = searchPc[x] /\ local'[x] = local[x]
      BY <1>2, SearchFrame
    <2>2. CASE CompareSame(t)
      <3>1. /\ searchPc[t] = "compare" /\ generation = local[t].genBefore
            /\ local'[t].checked = Phases /\ local'[t].before = local[t].before
        BY <2>2 DEF CompareSame, SameGeneration, Typed, Local
      <3>2. ASSUME NEW r \in Run, local[t].before[r] \in Unbumped
            PROVE  Phases[r] \in Unbumped \/ runPc[r] = "err"
        <4>1. generation \in Nat /\ runPc[r] \in RunLocations
          BY DEF Typed
        <4>2. runPc[r] \in {"engine", "evict", "bump", "err"}
          BY <3>1, <3>2, <4>1 DEF GenInv
        <4> QED BY <4>2, PhaseFacts DEF Unbumped, Typed
      <3> QED BY <2>1, <3>1, <3>2 DEF PutInv
    <2>3. CASE ~ CompareSame(t)
      <3>1. searchPc'[t] # "put"
        BY <1>2, <2>3 DEF SearchStep, Capture, Hit, Miss, ReadStore, ReadGraph, ReadFails,
               CompareChanged, Store, SearchGoto, Respond, Typed
      <3> QED BY <2>1, <3>1 DEF PutInv
    <2> QED BY <2>2, <2>3
  <1>3. CASE UNCHANGED vars
    BY <1>3 DEF vars, searchVars, PutInv
  <1> QED BY <1>1, <1>2, <1>3 DEF Next

\* A search about to cache has an answer that is right to cache.
LEMMA StoreOk ==
    ASSUME Typed, PersistInv, ReadInv, PutInv, NEW t \in Search, searchPc[t] = "put", NEW r \in Run
    PROVE  AnswerOk([hits |-> local[t].hits, before |-> local[t].before,
                     checked |-> local[t].checked, stored |-> Phases], r)
  <1> DEFINE e == [hits |-> local[t].hits, before |-> local[t].before,
                   checked |-> local[t].checked, stored |-> Phases]
  <1>1. e.hits = local[t].hits /\ e.before = local[t].before /\ e.checked = local[t].checked
        /\ e.stored = Phases
    OBVIOUS
  <1> HIDE DEF e
  <1>2. local[t].before[r] \in Phase
    BY DEF Typed, Local
  <1>3. e.stored[r] = "unevicted" => runPc[r] \in {"engine", "evict", "err"}
    BY <1>1, PhaseFacts DEF Typed
  <1>4. CASE local[t].before[r] = "ended"
    <2>1. /\ runPc[r] \in Ended
          /\ \A p \in documents : p[1] = r => p \in local[t].hits
          /\ \A p \in graph : p[1] = r => p \in local[t].hits
      BY <1>4 DEF ReadInv
    <2>2. Persisted(r) \subseteq local[t].hits
      BY <2>1 DEF Persisted
    <2> QED BY <1>1, <1>3, <2>1, <2>2 DEF AnswerOk
  <1>5. CASE local[t].before[r] \in Unbumped
    <2>1. local[t].checked[r] \in Unbumped \/ runPc[r] = "err"
      BY <1>5 DEF PutInv
    <2>2. ASSUME runPc[r] = "err" PROVE Persisted(r) = {}
      BY <2>2 DEF PersistInv, Persisted
    <2> QED BY <1>1, <1>3, <2>1, <2>2 DEF AnswerOk, Ended
  <1>6. CASE local[t].before[r] = "mutating"
    BY <1>1, <1>3, <1>6 DEF AnswerOk
  <1>7. QED BY <1>2, <1>4, <1>5, <1>6 DEF Phase, Unbumped, e

\* Answers stay right: an eviction erases the ones a run is about to outdate.
LEMMA EntryStep ==
    Typed /\ PersistInv /\ ReadInv /\ PutInv /\ EntryInv /\ [Next]_vars => EntryInv'
  <1> SUFFICES ASSUME Typed, PersistInv, ReadInv, PutInv, EntryInv, [Next]_vars,
                      NEW q \in Query, NEW x \in Run, cache'.entries[q] # NoEntry
               PROVE  AnswerOk(cache.entries[q], x)'
    BY DEF EntryInv
  <1>0. ASSUME cache.entries[q] # NoEntry PROVE AnswerOk(cache.entries[q], x)
    BY <1>0 DEF EntryInv
  <1>1. ASSUME NEW r \in Run, RunStep(r) PROVE AnswerOk(cache.entries[q], x)'
    <2>1. ~ Evict(r) /\ cache' = cache
      <3>1. CASE Evict(r)
        <4>1. cache' = [order |-> <<>>, entries |-> [k \in Query |-> NoEntry]]
          BY <3>1 DEF Evict, EmptyCache
        <4>2. cache'.entries[q] = NoEntry
          BY <4>1
        <4> QED BY <4>2
      <3> QED BY <1>1, <3>1, RunFrame
    <2>2. AnswerOk(cache.entries[q], x)
      BY <1>0, <2>1
    <2> DEFINE e == cache.entries[q]
    <2>3. e' = e
      BY <2>1
    <2> HIDE DEF e
    <2>4. CASE x = r
      <3>1. e.before[x] = "mutating" \/ e.checked[x] \in Unbumped
        BY <1>1, <2>2, <2>4, RunFrame DEF AnswerOk, e
      <3>2. runPc[r] \in {"engine", "evict"} => runPc'[r] \in {"engine", "evict", "err"}
        BY <1>1, <2>1 DEF RunStep, EngineOk, EngineErr, Bump, OpenStore, RecordRun,
               RecordReflections, UpdateGraph, RunGoto, Typed
      <3>3. e.stored[x] = "unevicted" => runPc'[x] \in {"engine", "evict", "err"}
        BY <1>1, <2>2, <2>4, <3>2, RunFrame DEF AnswerOk, e, Ended
      <3>4. /\ \/ e'.before[x] = "mutating"
               \/ e'.checked[x] \in Unbumped
            /\ e'.stored[x] = "unevicted" => runPc'[x] \in {"engine", "evict", "err"}
        BY <2>3, <3>1, <3>3
      <3> QED BY <3>4 DEF AnswerOk, e
    <2>5. CASE x # r
      <3>1. runPc'[x] = runPc[x]
        BY <1>1, <2>5, RunFrame
      <3>2. Persisted(x)' \subseteq Persisted(x)
        BY <1>1, <2>5, RunAdds DEF Persisted
      <3>3. /\ \/ e'.before[x] = "mutating"
               \/ e'.checked[x] \in Unbumped
               \/ runPc'[x] \in Ended /\ Persisted(x)' \subseteq e'.hits
            /\ e'.stored[x] = "unevicted" => runPc'[x] \in {"engine", "evict", "err"}
        BY <2>2, <2>3, <3>1, <3>2 DEF AnswerOk, e
      <3> QED BY <3>3 DEF AnswerOk, e
    <2> QED BY <2>4, <2>5
  <1>2. ASSUME NEW t \in Search, SearchStep(t) PROVE AnswerOk(cache.entries[q], x)'
    <2>1. UNCHANGED <<runPc, documents, graph>>
      BY <1>2, SearchFrame
    <2>2. ASSUME NEW c, AnswerOk(c, x), cache'.entries[q] = c
          PROVE  AnswerOk(cache.entries[q], x)'
      BY <2>1, <2>2 DEF AnswerOk, Persisted
    <2>3. CASE cache'.entries = cache.entries
      BY <1>0, <2>2, <2>3
    <2>4. CASE Store(t)
      <3> DEFINE e == [hits |-> local[t].hits, before |-> local[t].before,
                       checked |-> local[t].checked, stored |-> Phases]
      <3>1. AnswerOk(e, x)
        BY <2>4, StoreOk DEF Store
      <3>2. PICK o, gone : cache' = [order |-> o,
                entries |-> [k \in Query |-> IF k \in gone THEN NoEntry
                                            ELSE IF k = local[t].query THEN e
                                            ELSE cache.entries[k]]]
        BY <2>4, PutEntries
      <3> HIDE DEF e
      <3>3. cache'.entries[q] = e \/ cache'.entries[q] = cache.entries[q]
        BY <3>2
      <3> QED BY <1>0, <2>2, <3>1, <3>3
    <2>5. CASE Hit(t)
      <3>1. cache' = [cache EXCEPT !.order = Touch(@, local[t].query)]
        BY <2>5 DEF Hit, Get
      <3>2. cache'.entries = cache.entries
        BY <3>1 DEF Typed
      <3> QED BY <2>3, <3>2
    <2>6. CASE cache' = cache
      BY <2>3, <2>6
    <2> QED BY <1>2, <2>4, <2>5, <2>6
            DEF SearchStep, Capture, Miss, ReadStore, ReadGraph, ReadFails, CompareSame,
                CompareChanged
  <1>3. CASE UNCHANGED vars
    <2>1. UNCHANGED <<runPc, documents, graph, cache>>
      BY <1>3 DEF vars, storeVars
    <2>2. AnswerOk(cache.entries[q], x)
      BY <1>0, <2>1
    <2> QED BY <2>1, <2>2 DEF AnswerOk, Persisted
  <1> QED BY <1>1, <1>2, <1>3 DEF Next

\* The invariant holds when the server starts.
LEMMA InitInv == Init => IInv
  <1> SUFFICES ASSUME Init PROVE IInv
    OBVIOUS
  <1>1. NoLocal \in Local
    BY NoLocalType, CacheAssumption
  <1>2. cache = [order |-> <<>>, entries |-> [q \in Query |-> NoEntry]]
    BY DEF Init, EmptyCache
  <1>3. cache.entries = [q \in Query |-> NoEntry]
    BY <1>2
  <1>4. Typed
    BY <1>1, <1>2, <1>3 DEF Init, Typed, RunLocations, SearchLocations
  <1>5. PersistInv /\ GenInv /\ ReadInv /\ PutInv
    BY DEF Init, PersistInv, GenInv, ReadInv, PutInv
  <1>6. EntryInv
    BY <1>3 DEF EntryInv
  <1> QED BY <1>4, <1>5, <1>6 DEF IInv

\* The invariant holds in every state.
THEOREM IInvHolds == Spec => []IInv
  <1>1. IInv /\ [Next]_vars => IInv'
    BY TypedStep, PersistStep, GenStep, ReadStep, PutStep, EntryStep DEF IInv
  <1> QED BY <1>1, InitInv, PTL DEF Spec

\* A cached answer misses what a run persisted only if its search captured its
\* generation while that run was changing the session, or compared before that
\* run's bump and stored after its eviction: for any numbers of runs, searches and
\* queries and any capacity of the cache.
THEOREM MissesOnlyOverlappingRuns == Spec => []MissedRunsOverlap
  BY IInvHolds, Sufficient, PTL
------------------------------------------------------------------------------
\* The LRU queue

\* No query occurs twice in a queue.
NoRepeat(order) == \A i, j \in DOMAIN order : order[i] = order[j] => i = j

\* The queue holds each key of the map once, and no more than the capacity.
LruInv ==
    /\ cache.order \in Seq(Query)
    /\ NoRepeat(cache.order)
    /\ ToSet(cache.order) = Keys(cache)
    /\ Len(cache.order) <= Capacity

\* A queue without repetition is as long as it has elements.
LEMMA NoRepeatLen ==
    ASSUME NEW S, NEW s \in Seq(S), NoRepeat(s)
    PROVE  IsFiniteSet(ToSet(s)) /\ Cardinality(ToSet(s)) = Len(s)
  <1>1. PICK n \in Nat : n = Len(s) /\ DOMAIN s = 1 .. n
    OBVIOUS
  <1>2. IsFiniteSet(1 .. n) /\ Cardinality(1 .. n) = n
    <2>1. 1 \in Int /\ n \in Int /\ (IF 1 > n THEN 0 ELSE n - 1 + 1) = n
      OBVIOUS
    <2> QED BY <2>1, FS_Interval
  <1> DEFINE g == [i \in 1 .. n |-> s[i]]
  <1>3. g \in Bijection(1 .. n, ToSet(s))
    BY <1>1 DEF NoRepeat, ToSet, Bijection, Injection, Surjection, IsInjective
  <1>4. ExistsBijection(1 .. n, ToSet(s))
    BY <1>3 DEF ExistsBijection
  <1> QED BY <1>1, <1>2, <1>4, FS_Bijection

\* `order.remove(pos)` of the position `touch` finds takes out that query only.
LEMMA RemoveFirstProperties ==
    ASSUME NEW S, NEW s \in Seq(S), NoRepeat(s), NEW q
    PROVE  /\ RemoveFirst(s, q) \in Seq(S) /\ NoRepeat(RemoveFirst(s, q))
           /\ ToSet(RemoveFirst(s, q)) = ToSet(s) \ {q}
  <1>1. PICK n \in Nat : n = Len(s) /\ DOMAIN s = 1 .. n
    OBVIOUS
  <1>2. CASE ~ \E i \in 1 .. n : s[i] = q
    BY <1>1, <1>2 DEF RemoveFirst, ToSet
  <1>3. ASSUME NEW k \in 1 .. n, s[k] = q
        PROVE  /\ RemoveFirst(s, q) \in Seq(S) /\ NoRepeat(RemoveFirst(s, q))
               /\ ToSet(RemoveFirst(s, q)) = ToSet(s) \ {q}
    <2>1. SelectInSeq(s, LAMBDA v : v = q) = k
      <3>1. {i \in 1 .. Len(s) : s[i] = q} = {k}
        BY <1>1, <1>3 DEF NoRepeat
      <3>2. Min({k}) = k
        BY DEF Min
      <3> QED BY <3>1, <3>2 DEF SelectInSeq
    <2>2. RemoveFirst(s, q) = RemoveAt(s, k)
      BY <1>1, <1>3, <2>1 DEF RemoveFirst
    <2> DEFINE a == SubSeq(s, 1, k - 1)
               b == SubSeq(s, k + 1, n)
               r == a \o b
    <2>3. RemoveAt(s, k) = r
      BY <1>1 DEF RemoveAt
    <2>4. /\ a \in Seq(S) /\ Len(a) = k - 1
          /\ \A i \in 1 .. (k - 1) : a[i] = s[i]
      BY <1>1, <1>3, SubSeqProperties
    <2>5. /\ b \in Seq(S) /\ Len(b) = n - k
          /\ \A i \in 1 .. (n - k) : b[i] = s[k + i]
      BY <1>1, <1>3, SubSeqProperties
    <2> HIDE DEF a, b
    <2>6. /\ r \in Seq(S) /\ Len(r) = n - 1
          /\ \A i \in 1 .. (n - 1) : r[i] = IF i < k THEN s[i] ELSE s[i + 1]
      BY <1>1, <1>3, <2>4, <2>5, ConcatProperties
    <2> HIDE DEF r
    <2>7. DOMAIN r = 1 .. (n - 1)
      BY <2>6
    <2>8. NoRepeat(r)
      BY <1>1, <2>6, <2>7 DEF NoRepeat
    <2>9. ToSet(r) = ToSet(s) \ {q}
      <3>1. \A i \in 1 .. (n - 1) : \E j \in 1 .. n : j # k /\ r[i] = s[j]
        BY <1>1, <2>6
      <3>2. \A j \in 1 .. n : j # k => \E i \in 1 .. (n - 1) : r[i] = s[j]
        <4>1. \A j \in 1 .. n : j < k => j \in 1 .. (n - 1) /\ r[j] = s[j]
          BY <1>1, <2>6
        <4>2. \A j \in 1 .. n : j > k => (j - 1) \in 1 .. (n - 1) /\ r[j - 1] = s[j]
          BY <1>1, <2>6
        <4> QED BY <4>1, <4>2
      <3>3. \A j \in 1 .. n : j # k <=> s[j] # q
        BY <1>1, <1>3 DEF NoRepeat
      <3>4. ToSet(r) = {r[i] : i \in 1 .. (n - 1)} /\ ToSet(s) = {s[j] : j \in 1 .. n}
        BY <1>1, <2>7 DEF ToSet
      <3>5. \A x \in ToSet(r) : x \in ToSet(s) \ {q}
        BY <3>1, <3>3, <3>4
      <3>6. \A x \in ToSet(s) \ {q} : x \in ToSet(r)
        BY <3>2, <3>3, <3>4
      <3> QED BY <3>5, <3>6
    <2> QED BY <2>2, <2>3, <2>6, <2>8, <2>9
  <1> QED BY <1>2, <1>3

\* `touch` leaves every query of the queue and the touched one, once.
LEMMA TouchProperties ==
    ASSUME NEW S, NEW s \in Seq(S), NoRepeat(s), NEW q \in S
    PROVE  /\ Touch(s, q) \in Seq(S) /\ NoRepeat(Touch(s, q))
           /\ ToSet(Touch(s, q)) = ToSet(s) \cup {q}
  <1>1. PICK r \in Seq(S), n \in Nat :
          r = RemoveFirst(s, q) /\ n = Len(r) /\ DOMAIN r = 1 .. n
    BY RemoveFirstProperties
  <1>2. NoRepeat(r) /\ ToSet(r) = ToSet(s) \ {q}
    BY <1>1, RemoveFirstProperties
  <1> DEFINE u == Append(r, q)
  <1>3. /\ u \in Seq(S) /\ DOMAIN u = 1 .. (n + 1) /\ u[n + 1] = q
        /\ \A i \in 1 .. n : u[i] = r[i]
    BY <1>1, AppendProperties
  <1> HIDE DEF u
  <1>4. \A i \in 1 .. n : r[i] # q
    BY <1>1, <1>2 DEF ToSet
  <1>5. NoRepeat(u)
    <2> SUFFICES ASSUME NEW i \in 1 .. (n + 1), NEW j \in 1 .. (n + 1), u[i] = u[j]
                 PROVE  i = j
      BY <1>3 DEF NoRepeat
    <2>1. (i \in 1 .. n \/ i = n + 1) /\ (j \in 1 .. n \/ j = n + 1)
      OBVIOUS
    <2>2. CASE i \in 1 .. n /\ j \in 1 .. n
      BY <1>1, <1>2, <1>3, <2>2 DEF NoRepeat
    <2>3. CASE i = n + 1 \/ j = n + 1
      BY <1>3, <1>4, <2>1, <2>3
    <2> QED BY <2>1, <2>2, <2>3
  <1>6. ToSet(u) = ToSet(r) \cup {q}
    <2>1. 1 .. (n + 1) = (1 .. n) \cup {n + 1}
      OBVIOUS
    <2> QED BY <1>1, <1>3, <2>1 DEF ToSet
  <1>7. ToSet(u) = ToSet(s) \cup {q}
    BY <1>2, <1>6
  <1> QED BY <1>1, <1>3, <1>5, <1>7 DEF Touch, u

\* Popping n queries from the front leaves the others, in order.
LEMMA PopProperties ==
    ASSUME NEW S, NEW s \in Seq(S), NoRepeat(s), NEW n \in 0 .. Len(s)
    PROVE  LET r == SubSeq(s, n + 1, Len(s))
           IN  /\ r \in Seq(S) /\ NoRepeat(r) /\ Len(r) = Len(s) - n
               /\ ToSet(r) = ToSet(s) \ Evicted(s, n)
  <1>1. PICK m \in Nat : m = Len(s) /\ DOMAIN s = 1 .. m
    OBVIOUS
  <1> DEFINE r == SubSeq(s, n + 1, m)
  <1>2. /\ r \in Seq(S) /\ Len(r) = m - n
        /\ \A i \in 1 .. (m - n) : r[i] = s[n + i]
    BY <1>1, SubSeqProperties
  <1> HIDE DEF r
  <1>3. DOMAIN r = 1 .. (m - n)
    BY <1>1, <1>2
  <1>4. \A i \in 1 .. (m - n) : n + i \in 1 .. m
    BY <1>1
  <1>5. NoRepeat(r)
    <2> SUFFICES ASSUME NEW i \in 1 .. (m - n), NEW j \in 1 .. (m - n), r[i] = r[j]
                 PROVE  i = j
      BY <1>3 DEF NoRepeat
    <2>1. s[n + i] = s[n + j] /\ n + i \in 1 .. m /\ n + j \in 1 .. m
      BY <1>2, <1>4
    <2>2. n + i = n + j
      BY <1>1, <2>1 DEF NoRepeat
    <2> QED BY <2>2
  <1>6. ToSet(r) = ToSet(s) \ Evicted(s, n)
    <2>1. \A j \in 1 .. m : j > n => (j - n) \in 1 .. (m - n) /\ r[j - n] = s[j]
      BY <1>1, <1>2
    <2>2. \A j \in 1 .. m : s[j] \in Evicted(s, n) <=> j <= n
      <3> SUFFICES ASSUME NEW j \in 1 .. m PROVE s[j] \in Evicted(s, n) <=> j <= n
        OBVIOUS
      <3>1. j <= n => s[j] \in Evicted(s, n)
        BY DEF Evicted
      <3>2. ASSUME s[j] \in Evicted(s, n) PROVE j <= n
        <4>1. PICK k \in 1 .. n : s[k] = s[j]
          BY <3>2 DEF Evicted
        <4>2. k \in 1 .. m
          BY <1>1
        <4>3. k = j
          BY <1>1, <4>1, <4>2 DEF NoRepeat
        <4> QED BY <4>1, <4>3
      <3> QED BY <3>1, <3>2
    <2>3. \A i \in 1 .. (m - n) : n + i \in 1 .. m /\ ~(n + i <= n)
      BY <1>1
    <2>4. ToSet(r) = {r[i] : i \in 1 .. (m - n)} /\ ToSet(s) = {s[j] : j \in 1 .. m}
      BY <1>1, <1>3 DEF ToSet
    <2>5. \A i \in 1 .. (m - n) : r[i] \in ToSet(s) /\ r[i] \notin Evicted(s, n)
      <3> SUFFICES ASSUME NEW i \in 1 .. (m - n)
                   PROVE  r[i] \in ToSet(s) /\ r[i] \notin Evicted(s, n)
        OBVIOUS
      <3>1. PICK j \in 1 .. m : j = n + i /\ ~(j <= n) /\ r[i] = s[j]
        BY <1>2, <2>3
      <3> QED BY <2>2, <2>4, <3>1
    <2>6. \A j \in 1 .. m : s[j] \notin Evicted(s, n) => s[j] \in ToSet(r)
      <3> SUFFICES ASSUME NEW j \in 1 .. m, s[j] \notin Evicted(s, n) PROVE s[j] \in ToSet(r)
        OBVIOUS
      <3>1. j > n
        BY <2>2
      <3> QED BY <2>1, <2>4, <3>1
    <2> QED BY <2>4, <2>5, <2>6
  <1> QED BY <1>1, <1>2, <1>5, <1>6 DEF r

\* `get` keeps the queue and the map together.
LEMMA HitKeepsLru ==
    ASSUME Typed, LruInv, NEW t \in Search, Hit(t)
    PROVE  LruInv'
  <1>1. PICK q \in Query : q = local[t].query /\ q \in Keys(cache)
    BY DEF Hit, Keys
  <1>2. cache' = [cache EXCEPT !.order = Touch(@, q)]
    BY <1>1 DEF Hit, Get
  <1>3. cache'.order = Touch(cache.order, q) /\ cache'.entries = cache.entries
    BY <1>2 DEF Typed
  <1>4. Keys(cache') = Keys(cache)
    BY <1>3 DEF Keys
  <1>5. /\ cache'.order \in Seq(Query) /\ NoRepeat(cache'.order)
        /\ ToSet(cache'.order) = ToSet(cache.order) \cup {q}
    BY <1>3, TouchProperties DEF LruInv
  <1>6. ToSet(cache'.order) = Keys(cache')
    BY <1>1, <1>4, <1>5 DEF LruInv
  <1>7. Len(cache'.order) = Len(cache.order)
    BY <1>4, <1>5, <1>6, NoRepeatLen DEF LruInv
  <1> QED BY <1>5, <1>6, <1>7 DEF LruInv

\* `put` keeps the queue and the map together and within the capacity: what it
\* evicts it takes out of both, and it never evicts the query it inserts.
LEMMA StoreKeepsLru ==
    ASSUME Typed, LruInv, NEW t \in Search, Store(t)
    PROVE  LruInv'
  <1> DEFINE hits == [hits |-> local[t].hits, before |-> local[t].before,
                      checked |-> local[t].checked, stored |-> Phases]
             q == local[t].query
             o == Touch(cache.order, q)
             n == Excess(Cardinality(Keys(cache) \cup {q}))
             gone == Evicted(o, n)
             r == SubSeq(o, n + 1, Len(o))
             e == [x \in Query |-> IF x \in gone THEN NoEntry
                                   ELSE IF x = q THEN hits ELSE cache.entries[x]]
  <1>1. q \in Query /\ hits # NoEntry
    BY StoreEntry, EntryAssumption DEF Typed, Local
  <1>2. cache' = Put(cache, q, hits)
    BY DEF Store
  <1>3. Put(cache, q, hits) = [order |-> r, entries |-> e]
    BY DEF Put
  <1> HIDE DEF hits
  <1>4. /\ o \in Seq(Query) /\ NoRepeat(o) /\ ToSet(o) = Keys(cache) \cup {q}
    BY <1>1, TouchProperties DEF LruInv
  <1> HIDE DEF o
  <1>5. Cardinality(Keys(cache) \cup {q}) = Len(o) /\ Len(o) \in Nat
    <2>1. Cardinality(ToSet(o)) = Len(o)
      BY <1>4, NoRepeatLen
    <2> QED BY <1>4, <2>1
  <1>6. n = IF Len(o) > Capacity THEN Len(o) - Capacity ELSE 0
    BY <1>5 DEF Excess
  <1>7. n \in 0 .. Len(o) /\ Len(o) - n <= Capacity
    BY <1>5, <1>6, CacheAssumption
  <1> HIDE DEF n
  <1>8. /\ r \in Seq(Query) /\ NoRepeat(r) /\ Len(r) = Len(o) - n
        /\ ToSet(r) = ToSet(o) \ gone
    BY <1>4, <1>7, PopProperties
  <1> HIDE DEF r
  <1>9. {x \in Query : e[x] # NoEntry} = (Keys(cache) \cup {q}) \ gone
    <2> HIDE DEF gone
    <2>1. \A x \in Query : e[x] # NoEntry <=> x \notin gone /\ (x = q \/ x \in Keys(cache))
      BY <1>1 DEF Keys
    <2> HIDE DEF e
    <2> QED BY <1>1, <2>1 DEF Keys
  <1> HIDE DEF gone, e
  <1>10. cache'.order = r /\ cache'.entries = e
    BY <1>2, <1>3
  <1>11. ToSet(cache'.order) = Keys(cache')
    BY <1>4, <1>8, <1>9, <1>10 DEF Keys
  <1> QED BY <1>7, <1>8, <1>10, <1>11 DEF LruInv

\* An eviction empties both.
LEMMA EmptyLru ==
    ASSUME NEW c, c = EmptyCache
    PROVE  /\ c.order \in Seq(Query) /\ NoRepeat(c.order) /\ ToSet(c.order) = Keys(c)
           /\ Len(c.order) <= Capacity
  <1>1. c = [order |-> <<>>, entries |-> [q \in Query |-> NoEntry]]
    BY DEF EmptyCache
  <1>2. c.order = <<>> /\ \A q \in Query : c.entries[q] = NoEntry
    BY <1>1
  <1>3. Keys(c) = {}
    BY <1>2 DEF Keys
  <1> QED BY <1>2, <1>3, CacheAssumption DEF NoRepeat, ToSet

\* The queue and the map of the search cache always have the same keys, each
\* once and no more than the capacity, whatever runs and searches do to them in
\* whatever order: the eviction loop of `put` always finds something to pop.
THEOREM QueueAndMapAgree == Spec => []LruConsistent
  <1>1. Init => LruInv
    BY EmptyLru DEF Init, LruInv
  <1>2. Typed /\ LruInv /\ [Next]_vars => LruInv'
    <2> SUFFICES ASSUME Typed, LruInv, [Next]_vars PROVE LruInv'
      OBVIOUS
    <2>1. CASE cache' = cache
      BY <2>1 DEF LruInv, Keys
    <2>2. CASE cache' = EmptyCache
      BY <2>2, EmptyLru DEF LruInv
    <2>3. ASSUME NEW r \in Run, RunStep(r) PROVE LruInv'
      BY <2>1, <2>2, <2>3, RunFrame
    <2>4. ASSUME NEW t \in Search, SearchStep(t) PROVE LruInv'
      <3>1. CASE Hit(t)
        BY <3>1, HitKeepsLru
      <3>2. CASE Store(t)
        BY <3>2, StoreKeepsLru
      <3>3. CASE ~ Hit(t) /\ ~ Store(t)
        BY <2>1, <2>4, <3>3 DEF SearchStep, Capture, Miss, ReadStore, ReadGraph, ReadFails,
           CompareSame, CompareChanged
      <3> QED BY <3>1, <3>2, <3>3
    <2>5. CASE UNCHANGED vars
      BY <2>1, <2>5 DEF vars
    <2> QED BY <2>3, <2>4, <2>5 DEF Next
  <1>3. LruInv => LruConsistent
    <2> SUFFICES ASSUME LruInv PROVE LruConsistent
      OBVIOUS
    <2>1. Cardinality(Keys(cache)) = Len(cache.order)
      BY NoRepeatLen DEF LruInv
    <2> QED BY <2>1 DEF LruInv, LruConsistent
  <1>4. IInv => Typed
    BY DEF IInv
  <1> QED BY <1>1, <1>2, <1>3, <1>4, IInvHolds, PTL DEF Spec
=============================================================================
