------------------------------ MODULE Messaging ------------------------------
(***************************************************************************)
(* The message bus with an inbox per agent, and the service mesh over it     *)
(* that routes to a provider of a capability in turn (sdk/src/messaging.rs). *)
(* Ghosts: `sent`, everything a send or route reported as delivered, in      *)
(* order; `received`, what each agent has drained; `turns`, per capability   *)
(* the providers chosen since the last one registered for it.                *)
(***************************************************************************)
EXTENDS Integers, Sequences, FiniteSets

CONSTANTS Peer, Cap, MaxMessages, MaxProviders

ASSUME MessagingAssumption ==
    MaxMessages \in Nat /\ MaxProviders \in Nat /\ IsFiniteSet(Peer)

VARIABLES
    inboxes,         \* agent -> queue; an agent without an inbox is absent
    providers,       \* capability -> its providers, one registered twice twice
    cursor,          \* capability -> next turn
    delivered,       \* messages the mesh has delivered
    seq,             \* MSG_SEQ
    sent, received, turns

meshVars == <<inboxes, providers, cursor, delivered, seq, sent, received, turns>>

\* Derived order of the Priority enum.
Rank == [low |-> 1, normal |-> 2, high |-> 3, critical |-> 4]

Message(dst, priority) == [id |-> seq, dst |-> dst, priority |-> priority]

is_registered(a) == a \in DOMAIN inboxes

RegisterInbox(a) ==
    inboxes' = [x \in DOMAIN inboxes \cup {a} |-> IF is_registered(x) THEN inboxes[x] ELSE <<>>]

\* Delivery, which needs an inbox; without one the sender gets NotFound.
Send(m) ==
    /\ is_registered(m.dst)
    /\ inboxes' = [inboxes EXCEPT ![m.dst] = Append(@, m)]
    /\ sent' = Append(sent, m)

\* A mutant of Earlier: the comparison is the wrong way round.
earlier_ascending(s, i, j) ==
    \/ Rank[s[i].priority] < Rank[s[j].priority]
    \/ Rank[s[i].priority] = Rank[s[j].priority] /\ i < j

\* `b.priority.cmp(&a.priority)` under a stable sort: whether s[i] comes out
\* before s[j].
Earlier(s, i, j) ==
    \/ Rank[s[i].priority] > Rank[s[j].priority]
    \/ Rank[s[i].priority] = Rank[s[j].priority] /\ i < j

Place(s, i) == Cardinality({j \in DOMAIN s : Earlier(s, j, i)}) + 1

\* The sorted sequence has at k the message whose place is k.
by_priority(s) == [k \in DOMAIN s |-> s[CHOOSE i \in DOMAIN s : Place(s, i) = k]]

MeshInit ==
    /\ inboxes = <<>> /\ providers = [c \in Cap |-> <<>>] /\ cursor = [c \in Cap |-> 0]
    /\ delivered = 0 /\ seq = 1
    /\ sent = <<>> /\ received = [a \in Peer |-> <<>>] /\ turns = [c \in Cap |-> <<>>]

\* bus.register, as a sender that provides nothing does.
Join(a) == ~is_registered(a) /\ RegisterInbox(a)
           /\ UNCHANGED <<providers, cursor, delivered, seq, sent, received, turns>>

RegisterProvider(a, c) ==
    /\ RegisterInbox(a)
    /\ providers' = [providers EXCEPT ![c] = Append(@, a)]
    /\ turns' = [turns EXCEPT ![c] = <<>>]
    /\ UNCHANGED <<cursor, delivered, seq, sent, received>>

\* A direct send on the bus; an id is used up whether or not it is delivered.
SendDirect(dst, p) ==
    /\ seq' = seq + 1
    /\ \/ Send(Message(dst, p))
       \/ ~is_registered(dst) /\ UNCHANGED <<inboxes, sent>>
    /\ UNCHANGED <<providers, cursor, delivered, received, turns>>

\* A mutant of Route: the cursor follows the number of messages delivered.
route_by_delivered(c) ==
    LET ps     == providers[c]
        chosen == ps[(delivered % Len(ps)) + 1]
    IN  /\ ps # <<>>
        /\ cursor' = [cursor EXCEPT ![c] = @ + 1]
        /\ seq' = seq + 1
        /\ Send(Message(chosen, "normal"))
        /\ delivered' = delivered + 1
        /\ turns' = [turns EXCEPT ![c] = Append(@, chosen)]
        /\ UNCHANGED <<providers, received>>

\* Routing fails only without a provider: a provider always has an inbox, so
\* the turn that is used up before the send is never lost on an error.
Route(c) ==
    LET ps     == providers[c]
        chosen == ps[(cursor[c] % Len(ps)) + 1]
    IN  /\ ps # <<>>
        /\ cursor' = [cursor EXCEPT ![c] = @ + 1]
        /\ seq' = seq + 1
        /\ Send(Message(chosen, "normal"))
        /\ delivered' = delivered + 1
        /\ turns' = [turns EXCEPT ![c] = Append(@, chosen)]
        /\ UNCHANGED <<providers, received>>

\* Receiving drains the inbox; an agent without one receives nothing.
Receive(a) ==
    /\ is_registered(a) /\ inboxes[a] # <<>>
    /\ inboxes' = [inboxes EXCEPT ![a] = <<>>]
    /\ received' = [received EXCEPT ![a] = @ \o <<by_priority(inboxes[a])>>]
    /\ UNCHANGED <<providers, cursor, delivered, seq, sent, turns>>

pending(a) == IF is_registered(a) THEN Len(inboxes[a]) ELSE 0

MeshNext ==
    \/ \E a \in Peer : Join(a) \/ Receive(a)
    \/ \E a \in Peer, c \in Cap : Len(providers[c]) < MaxProviders /\ RegisterProvider(a, c)
    \/ \E a \in Peer, p \in {"low", "high"} : seq <= MaxMessages /\ SendDirect(a, p)
    \/ \E c \in Cap : seq <= MaxMessages /\ Route(c)

MeshSpec == MeshInit /\ [][MeshNext]_meshVars

-----------------------------------------------------------------------------
\* The batches an agent received and, last, what waits in its inbox.
Boxes(a) == Append(received[a], inboxes[a])

\* m is at one place of the boxes and at no other.
AtOnePlace(boxes, m) ==
    \E b \in DOMAIN boxes : \E i \in DOMAIN boxes[b] :
        /\ boxes[b][i] = m
        /\ \A d \in DOMAIN boxes : \A j \in DOMAIN boxes[d] :
             boxes[d][j] = m => d = b /\ j = i

\* A message reported as delivered is in its destination's inbox or was
\* received there, once, in one batch, and nothing else is; batches come in the
\* order of sending, and each comes out with the highest priority first and,
\* within a priority, in the order of sending; and the mesh's count is the
\* number it routed (messaging.rs:104, 120, 199).
NothingLostOrReordered ==
    /\ delivered = Cardinality({k \in DOMAIN sent : sent[k].priority = "normal"})
    /\ \A k \in DOMAIN sent : AtOnePlace(Boxes(sent[k].dst), sent[k])
    /\ \A a \in DOMAIN inboxes : \A b \in DOMAIN Boxes(a) : \A i \in DOMAIN Boxes(a)[b] :
         /\ \E k \in DOMAIN sent : sent[k] = Boxes(a)[b][i] /\ sent[k].dst = a
         /\ \A d \in DOMAIN Boxes(a) : \A j \in DOMAIN Boxes(a)[d] :
              b < d => Boxes(a)[b][i].id < Boxes(a)[d][j].id
    /\ \A a \in Peer : \A b \in DOMAIN received[a] :
         \A i, j \in DOMAIN received[a][b] : i < j =>
           LET m == received[a][b][i]  n == received[a][b][j]
           IN  \/ Rank[m.priority] > Rank[n.priority]
               \/ m.priority = n.priority /\ m.id < n.id

\* How often x occurs in s.
Occurrences(s, x) == Cardinality({i \in DOMAIN s : s[i] = x})

\* Among the registrations for a capability the turns are even: since the
\* last registration none of two agents registered once has been chosen two
\* times more often than the other (messaging.rs:193-195).
TurnsAreEven ==
    \A c \in Cap : \A a, b \in {providers[c][i] : i \in DOMAIN providers[c]} :
        (Occurrences(providers[c], a) = 1 /\ Occurrences(providers[c], b) = 1)
          => Occurrences(turns[c], a) - Occurrences(turns[c], b) <= 1
=============================================================================
