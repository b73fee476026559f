------------------------------ MODULE Security ------------------------------
(***************************************************************************)
(* Sealed messages and the replay guard (sdk/src/security.rs).  Envelopes    *)
(* travel over a wire that keeps, reorders and repeats them, and may alter   *)
(* one on the way; the guard checks each at its own clock, which never runs  *)
(* backwards (security.rs:171-173 assumes so).  HMAC-SHA256 is a term that   *)
(* only the key and the data make.                                          *)
(***************************************************************************)
EXTENDS Integers, Sequences, FiniteSets

CONSTANTS
    Field,           \* what a field of a message may hold: sequences of characters
    Key,             \* the shared key
    Window,          \* window_ms
    MaxTime, MaxSealed, MaxVerified

ASSUME SecurityAssumption ==
    /\ \A f \in Field : f \in Seq({f[i] : i \in DOMAIN f})
    /\ Window \in Nat /\ MaxTime \in Nat /\ MaxSealed \in Nat /\ MaxVerified \in Nat

VARIABLES
    clock,           \* now_ms of the guard
    wire,            \* every envelope put on the wire, altered ones too
    sealed,          \* the envelopes that were sealed, in order
    seen,            \* nonce -> the timestamp it was sealed with
    accepted,        \* the envelopes verify has accepted, in order
    verdict          \* the latest call of verify and its outcome

guardVars == <<clock, wire, sealed, seen, accepted, verdict>>

abs_diff(a, b) == IF a < b THEN b - a ELSE a - b

\* The fields joined with "|"; a message is its id, its body and a memory
\* reference, the other six fields being written the same way.
canonical(message, nonce, timestamp) ==
    message.id \o <<"|">> \o message.body \o <<"|">> \o message.memory_ref
      \o <<"|", nonce, "|", timestamp>>

sign(key, data) == <<key, data>>

seal(message, nonce, timestamp) ==
    [message |-> message, nonce |-> nonce, timestamp |-> timestamp,
     signature |-> sign(Key, canonical(message, nonce, timestamp))]

GuardInit ==
    /\ clock = 0 /\ wire = {} /\ sealed = <<>> /\ seen = <<>> /\ accepted = <<>>
    /\ verdict = [result |-> "none", at |-> 0, nonce |-> 0]

Tick == clock < MaxTime /\ clock' = clock + 1
        /\ UNCHANGED <<wire, sealed, seen, accepted, verdict>>

\* The sender's clock is its own; the nonce is fresh, as seal's caller must
\* see to.
Seal(message, timestamp) ==
    LET e == seal(message, Len(sealed) + 1, timestamp)
    IN  /\ Len(sealed) < MaxSealed
        /\ wire' = wire \cup {e}
        /\ sealed' = Append(sealed, e)
        /\ UNCHANGED <<clock, seen, accepted, verdict>>

Alter(e, body, nonce, timestamp) ==
    /\ wire' = wire \cup {[e EXCEPT !.message.body = body, !.nonce = nonce, !.timestamp = timestamp]}
    /\ UNCHANGED <<clock, sealed, seen, accepted, verdict>>

\* A mutant of Fresh: a nonce exactly at the edge of the window is dropped.
fresh_short(now) == [n \in {m \in DOMAIN seen : abs_diff(now, seen[m]) < Window} |-> seen[n]]

\* The nonces `retain` keeps.
Fresh(now) == [n \in {m \in DOMAIN seen : abs_diff(now, seen[m]) <= Window} |-> seen[n]]

Remember(e) ==
    [n \in DOMAIN Fresh(clock) \cup {e.nonce} |-> IF n = e.nonce THEN e.timestamp ELSE seen[n]]

\* A mutant of Signed: the nonce is left out of what is compared.
signed_body(e) == e.signature[2] # <<>> /\ e.signature[1] = Key

Signed(e) == e.signature = sign(Key, canonical(e.message, e.nonce, e.timestamp))
Timely(e) == abs_diff(clock, e.timestamp) <= Window

Verify(e) ==
    /\ Len(accepted) < MaxVerified
    /\ \/ /\ ~Signed(e)
          /\ verdict' = [result |-> "BadSignature", at |-> clock, nonce |-> e.nonce]
          /\ UNCHANGED <<seen, accepted>>
       \/ /\ Signed(e) /\ ~Timely(e)
          /\ verdict' = [result |-> "Expired", at |-> clock, nonce |-> e.nonce]
          /\ UNCHANGED <<seen, accepted>>
       \/ /\ Signed(e) /\ Timely(e) /\ e.nonce \in DOMAIN Fresh(clock)
          /\ seen' = Fresh(clock)
          /\ verdict' = [result |-> "Replayed", at |-> clock, nonce |-> e.nonce]
          /\ UNCHANGED accepted
       \/ /\ Signed(e) /\ Timely(e) /\ e.nonce \notin DOMAIN Fresh(clock)
          /\ seen' = Remember(e)
          /\ accepted' = Append(accepted, e)
          /\ verdict' = [result |-> "ok", at |-> clock, nonce |-> e.nonce]
    /\ UNCHANGED <<clock, wire, sealed>>

GuardNext ==
    \/ Tick
    \/ \E f, b \in Field, ts \in 0 .. MaxTime :
         Seal([id |-> f, body |-> b, memory_ref |-> <<>>], ts)
    \/ \E e \in wire, b \in Field, n \in 1 .. MaxSealed, ts \in 0 .. MaxTime :
         Cardinality(wire) <= Len(sealed) /\ Alter(e, b, n, ts)
    \/ \E e \in wire : Verify(e)

GuardSpec == GuardInit /\ [][GuardNext]_guardVars

-----------------------------------------------------------------------------
\* However often and however late an envelope is delivered, and although the
\* guard forgets nonces that age out of the window, verify accepts it once
\* (security.rs:156-183).
AcceptedOnce == \A i, j \in DOMAIN accepted : i # j => accepted[i] # accepted[j]

\* Only what was sealed is accepted, a nonce is called replayed only when it
\* was accepted before, and after a call that got as far as the nonces the
\* guard remembers none older than the window (security.rs:8-10).
GuardIsExact ==
    /\ \A i \in DOMAIN accepted : \E j \in DOMAIN sealed : accepted[i] = sealed[j]
    /\ verdict.result = "Replayed" => \E i \in DOMAIN accepted : accepted[i].nonce = verdict.nonce
    /\ (verdict.result \in {"ok", "Replayed"} /\ verdict.at = clock)
         => \A n \in DOMAIN seen : abs_diff(clock, seen[n]) <= Window
=============================================================================
