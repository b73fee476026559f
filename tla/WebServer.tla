----------------------------- MODULE WebServer -----------------------------
(***************************************************************************)
(* The accept loop (web/src/lib.rs, serve_bounded) and what a connection's   *)
(* thread does (web/src/http.rs: parse, handle_connection and                *)
(* write_early_response).  One thread accepts; above the cap it answers 503  *)
(* itself and drains the peer before it accepts again.  Every read returns   *)
(* bytes, the end of the stream or an error (an idle timeout, a line that is *)
(* no UTF-8).                                                                *)
(***************************************************************************)
EXTENDS Integers, FiniteSets

CONSTANTS
    Client,          \* one connection each
    MaxConcurrent,   \* MAX_CONCURRENT_CONNECTIONS
    MaxBytes,        \* MAX_REQUEST_BYTES and MAX_DRAIN_BYTES, in what one read returns
    Nobody           \* not a client

ASSUME ServerAssumption ==
    /\ MaxConcurrent \in Nat \ {0} /\ MaxBytes \in Nat \ {0}
    /\ Nobody \notin Client /\ IsFiniteSet(Client)

VARIABLES
    accepting,       \* Nobody, or the peer whom the accept thread is draining
    active,          \* the counter of connections
    conn             \* of each connection, as below

serverVars == <<accepting, active, conn>>

Reading == {"line", "headers", "body"}
Threaded == Reading \cup {"handling", "writing", "draining", "leaving"}

\* A connection is a record: its `stage` is absent, queued, refused, closed
\* or one of Threaded; `left` is what may still be read, `partial` whether a
\* line was begun, `need` the body still to come, `heard` whether anything was
\* read, `open` whether the peer may send more, and `reply` the status sent,
\* 0 for none.
ServerInit ==
    /\ accepting = Nobody
    /\ active = 0
    /\ conn = [c \in Client |-> [stage |-> "absent", left |-> MaxBytes, partial |-> FALSE, need |-> 0,
                                 heard |-> FALSE, open |-> TRUE, reply |-> 0]]

Set(c, r) == conn' = [conn EXCEPT ![c] = r]

\* Past reading; what the parser knew is gone.
Past(r, stage) == [r EXCEPT !.stage = stage, !.left = MaxBytes, !.partial = FALSE, !.need = 0, !.open = TRUE]
Is(c, stages) == conn[c].stage \in stages

-----------------------------------------------------------------------------
(* The peer and the accept loop.                                           *)

Connect(c) == Is(c, {"absent"}) /\ Set(c, [conn[c] EXCEPT !.stage = "queued"]) /\ UNCHANGED <<accepting, active>>

\* A peer closes its side; reads find the end then.
Hangup(c) ==
    /\ Is(c, Reading \cup {"refused", "draining"}) /\ conn[c].open
    /\ Set(c, [conn[c] EXCEPT !.open = FALSE])
    /\ UNCHANGED <<accepting, active>>

\* `incoming` gives an error: the peer was gone.
AcceptFails(c) ==
    /\ accepting = Nobody /\ Is(c, {"queued"})
    /\ Set(c, [conn[c] EXCEPT !.stage = "closed"])
    /\ UNCHANGED <<accepting, active>>

Refuse(c) ==
    /\ accepting = Nobody /\ Is(c, {"queued"}) /\ active >= MaxConcurrent
    /\ accepting' = c
    /\ Set(c, [conn[c] EXCEPT !.stage = "refused", !.reply = 503])
    /\ UNCHANGED active

Accept(c) ==
    /\ accepting = Nobody /\ Is(c, {"queued"}) /\ active < MaxConcurrent
    /\ active' = active + 1
    /\ Set(c, [conn[c] EXCEPT !.stage = "line"])
    /\ UNCHANGED accepting

-----------------------------------------------------------------------------
(* parse.                                                                  *)

\* A request that is not taken: answer, then drain.
Rejected(r, status) ==
    [r EXCEPT !.stage = "draining", !.reply = status, !.left = MaxBytes, !.partial = FALSE, !.need = 0]

\* After the headers.
BodyOf(r) ==
    IF r.need > r.left THEN Rejected(r, 413)
    ELSE IF r.need = 0 THEN Past(r, "handling") ELSE [r EXCEPT !.stage = "body"]

\* A part of a line that does not end it.
ReadByte(c) ==
    /\ Is(c, {"line", "headers"}) /\ conn[c].open /\ conn[c].left > 0
    /\ Set(c, [conn[c] EXCEPT !.left = @ - 1, !.partial = TRUE, !.heard = TRUE])
    /\ UNCHANGED <<accepting, active>>

\* The line ends; a header may announce a body.  A line of white space only
\* is the last.
ReadLine(c) ==
    /\ Is(c, {"line", "headers"}) /\ conn[c].open /\ conn[c].left > 0
    /\ LET r == [conn[c] EXCEPT !.left = @ - 1, !.partial = FALSE, !.heard = TRUE]
       IN  \/ r.stage = "line" /\ Set(c, [r EXCEPT !.stage = "headers"])
           \/ r.stage = "headers" /\ \E n \in 0 .. MaxBytes + 1 : Set(c, [r EXCEPT !.need = n])
           \/ r.stage = "headers" /\ Set(c, BodyOf(r))
    /\ UNCHANGED <<accepting, active>>

\* Mutant: only a line that begins after the limit is refused.
over_budget_between_lines(c) ==
    /\ Is(c, {"line", "headers"}) /\ conn[c].left = 0 /\ ~conn[c].partial
    /\ Set(c, Rejected(conn[c], 413))
    /\ UNCHANGED <<accepting, active>>

\* The limit within a line or before the next.
OverBudget(c) ==
    /\ Is(c, {"line", "headers"}) /\ conn[c].left = 0
    /\ Set(c, Rejected(conn[c], 413))
    /\ UNCHANGED <<accepting, active>>

ReadBody(c) ==
    /\ Is(c, {"body"}) /\ conn[c].open
    /\ LET r == [conn[c] EXCEPT !.need = @ - 1]
       IN  Set(c, IF r.need = 0 THEN Past(r, "handling") ELSE r)
    /\ UNCHANGED <<accepting, active>>

\* Mutant: a peer that says nothing keeps its slot.
forget_silent(c) ==
    /\ Is(c, Reading) /\ ~conn[c].open
    /\ LET r == conn[c]
       IN  Set(c, CASE r.stage = "line" /\ ~r.partial -> Past(r, "closed")
                    [] r.stage = "headers" /\ ~r.partial -> BodyOf(r)
                    [] r.stage = "body" -> Rejected(r, 400)
                    [] OTHER -> Rejected(r, 413))
    /\ UNCHANGED <<accepting, active>>

\* Mutant: a peer that leaves within a line gets no answer.
end_unanswered(c) ==
    /\ Is(c, Reading) /\ ~conn[c].open
    /\ LET r == conn[c]
       IN  Set(c, CASE r.stage = "headers" /\ ~r.partial /\ r.left > 0 -> BodyOf(r)
                    [] r.stage = "body" -> Rejected(r, 400)
                    [] OTHER -> Past(r, "leaving"))
    /\ UNCHANGED <<accepting, active>>

\* The end of the stream: no request, the end of the headers, a line without
\* its end (which is taken for one over the budget), or a short body.
EndOfStream(c) ==
    /\ Is(c, Reading) /\ ~conn[c].open
    /\ LET r == conn[c]
       IN  Set(c, CASE r.stage = "line" /\ ~r.partial -> Past(r, "leaving")
                    [] r.stage = "headers" /\ ~r.partial /\ r.left > 0 -> BodyOf(r)
                    [] r.stage = "body" -> Rejected(r, 400)
                    [] OTHER -> Rejected(r, 413))
    /\ UNCHANGED <<accepting, active>>

\* Any other error, READ_TIMEOUT among them.
ParseFails(c) ==
    /\ Is(c, Reading) /\ (Is(c, {"body"}) \/ conn[c].left > 0)
    /\ Set(c, Rejected(conn[c], 400))
    /\ UNCHANGED <<accepting, active>>

-----------------------------------------------------------------------------
(* handle_connection.                                                      *)

\* The handler returns, or panics and is caught.
Handle(c) ==
    /\ Is(c, {"handling"})
    /\ \E status \in {200, 500} : Set(c, [conn[c] EXCEPT !.stage = "writing", !.reply = status])
    /\ UNCHANGED <<accepting, active>>

\* There is no timeout for a peer that does not take the response.
WriteTo(c) ==
    /\ Is(c, {"writing"})
    /\ Set(c, [conn[c] EXCEPT !.stage = "leaving"])
    /\ UNCHANGED <<accepting, active>>

\* write_early_response: what still comes is thrown away, up to a limit.
Drain(c) ==
    /\ Is(c, {"draining", "refused"}) /\ conn[c].open /\ conn[c].left > 0
    /\ Set(c, [conn[c] EXCEPT !.left = @ - 1])
    /\ UNCHANGED <<accepting, active>>

\* The limit, the end of the stream, or DRAIN_TIMEOUT.
Drained(c) ==
    \/ /\ Is(c, {"draining"})
       /\ Set(c, Past(conn[c], "leaving"))
       /\ UNCHANGED <<accepting, active>>
    \/ /\ Is(c, {"refused"})
       /\ Set(c, Past(conn[c], "closed"))
       /\ accepting' = Nobody
       /\ UNCHANGED active

\* The thread ends.
Leave(c) ==
    /\ Is(c, {"leaving"})
    /\ active' = active - 1
    /\ Set(c, [conn[c] EXCEPT !.stage = "closed"])
    /\ UNCHANGED accepting

-----------------------------------------------------------------------------
ParseStep(c) == ReadByte(c) \/ ReadLine(c) \/ OverBudget(c) \/ ReadBody(c) \/ EndOfStream(c) \/ ParseFails(c)
ServerStep(c) ==
    \/ AcceptFails(c) \/ Refuse(c) \/ Accept(c) \/ ParseStep(c)
    \/ Handle(c) \/ WriteTo(c) \/ Drain(c) \/ Drained(c) \/ Leave(c)

ServerNext == \E c \in Client : Connect(c) \/ Hangup(c) \/ ServerStep(c)

\* Each read returns within its timeout, and the accept loop runs.  Nothing is
\* assumed of handlers or of peers that take their responses.
ServerFairness ==
    \A c \in Client : /\ WF_serverVars(AcceptFails(c) \/ Refuse(c) \/ Accept(c))
                      /\ WF_serverVars(ParseStep(c))
                      /\ WF_serverVars(Drain(c) \/ Drained(c))

ServerSpec == ServerInit /\ [][ServerNext]_serverVars /\ ServerFairness

-----------------------------------------------------------------------------
(* Properties.                                                             *)

\* The counter is the number of threads, whichever way they end, and never
\* above the cap; the accept thread waits for a peer exactly while it drains
\* one that it refused.
SlotsReturned ==
    /\ active = Cardinality({c \in Client : Is(c, Threaded)})
    /\ active <= MaxConcurrent
    /\ \A c \in Client : accepting = c <=> Is(c, {"refused"})

\* A connection that closed without an answer is one that said nothing: not
\* a request that was cut, too long, slow or that made a handler panic.
NoSilentDrop ==
    \A c \in Client : Is(c, {"closed"}) /\ conn[c].heard => conn[c].reply # 0

\* No peer holds a thread or the accept loop for ever by what it sends or
\* does not send: its request is handled or its connection ends.
PeersCannotStall ==
    \A c \in Client :
        Is(c, {"queued", "refused", "draining"} \cup Reading) ~> Is(c, {"handling", "leaving", "closed"})
=============================================================================
