---------------------------- MODULE ServiceProofs ----------------------------
(***************************************************************************)
(* For any key, window, fields and clocks: the replay guard accepts an       *)
(* envelope once, although it forgets nonces, and only what was sealed. For  *)
(* any agents and capabilities: the mesh keeps every message and takes       *)
(* turns. For any roles, rules and runtimes: a grant never takes anything    *)
(* away, and the most local runtime is selected. For any graphs committed: a *)
(* merge is the union of what it merges. For any texts and labels: the index *)
(* follows the knowledge bus, and reading a text again changes nothing. For  *)
(* any manifests: an agent is found by the capabilities its text lists, in   *)
(* order and while it is in service. For any graph: a traversal finds all     *)
(* that is near enough, at its distance.                                     *)
(***************************************************************************)
EXTENDS Services, GraphAlgorithms, TLAPS, SequenceTheorems, FiniteSetTheorems, WellFoundedInduction

IsEnvelope(e) == "timestamp" \in DOMAIN e /\ e.timestamp \in Nat

\* What was accepted is remembered for as long as it could be accepted again.
Remembered(e) ==
    \/ clock - e.timestamp > Window
    \/ e.nonce \in DOMAIN seen /\ seen[e.nonce] = e.timestamp

IInv ==
    /\ clock \in Nat
    /\ \A e \in wire : IsEnvelope(e)
    /\ accepted \in Seq(wire)
    /\ \A n \in DOMAIN seen : seen[n] \in Nat
    /\ \A i \in DOMAIN accepted :
         accepted[i].timestamp <= clock + Window /\ Remembered(accepted[i])
    /\ AcceptedOnce

LEMMA InitOK == GuardInit => IInv
  BY DEF GuardInit, IInv, AcceptedOnce

LEMMA TickKeeps == ASSUME IInv, Tick PROVE IInv'
  <1>1. clock' \in Nat /\ clock' = clock + 1 /\ UNCHANGED <<wire, seen, accepted>>
    BY DEF IInv, Tick
  <1>2. ASSUME NEW i \in DOMAIN accepted
        PROVE  accepted[i].timestamp <= clock' + Window /\ Remembered(accepted[i])'
    <2>1. accepted[i].timestamp \in Nat
      BY DEF IInv, IsEnvelope
    <2>2. clock \in Nat /\ accepted[i].timestamp <= clock + Window /\ Remembered(accepted[i])
      BY DEF IInv
    <2>3. accepted[i].timestamp <= clock' + Window
      BY <1>1, <2>1, <2>2, SecurityAssumption
    <2>4. CASE clock - accepted[i].timestamp > Window
      BY <1>1, <2>1, <2>2, <2>3, <2>4, SecurityAssumption DEF Remembered
    <2>5. CASE accepted[i].nonce \in DOMAIN seen /\ seen[accepted[i].nonce] = accepted[i].timestamp
      BY <1>1, <2>3, <2>5 DEF Remembered
    <2> QED BY <2>2, <2>4, <2>5 DEF Remembered
  <1>3. AcceptedOnce'
    BY <1>1 DEF IInv, AcceptedOnce
  <1> QED BY <1>1, <1>2, <1>3 DEF IInv

\* Something is put on the wire.
LEMMA WireKeeps ==
  ASSUME IInv, NEW e, IsEnvelope(e), wire' = wire \cup {e}, UNCHANGED <<clock, seen, accepted>>
  PROVE  IInv'
  <1>1. accepted' \in Seq(wire')
    BY DEF IInv
  <1>2. \A i \in DOMAIN accepted : Remembered(accepted[i])'
    BY DEF IInv, Remembered
  <1>3. AcceptedOnce'
    BY DEF IInv, AcceptedOnce
  <1>4. \A f \in wire' : IsEnvelope(f)
    BY DEF IInv
  <1> QED BY <1>1, <1>2, <1>3, <1>4 DEF IInv

LEMMA SealKeeps ==
  ASSUME IInv, NEW message, NEW ts \in Nat, Seal(message, ts)
  PROVE  IInv'
  <1> DEFINE e == seal(message, Len(sealed) + 1, ts)
  <1>1. IsEnvelope(e)
    BY DEF seal, IsEnvelope
  <1>2. wire' = wire \cup {e} /\ UNCHANGED <<clock, seen, accepted>>
    BY DEF Seal
  <1> QED BY <1>1, <1>2, WireKeeps

LEMMA AlterKeeps ==
  ASSUME IInv, NEW e \in wire, NEW body, NEW nonce, NEW ts \in Nat, Alter(e, body, nonce, ts)
  PROVE  IInv'
  <1> DEFINE e1 == [e EXCEPT !.message.body = body]
             e2 == [e1 EXCEPT !.nonce = nonce]
             e3 == [e2 EXCEPT !.timestamp = ts]
  <1>1. wire' = wire \cup {e3} /\ UNCHANGED <<clock, seen, accepted>>
    BY DEF Alter
  <1>2. "timestamp" \in DOMAIN e
    BY DEF IInv, IsEnvelope
  <1>3. "timestamp" \in DOMAIN e1
    BY <1>2
  <1> HIDE DEF e1
  <1>4. "timestamp" \in DOMAIN e2
    BY <1>3
  <1> HIDE DEF e2
  <1>5. IsEnvelope(e3)
    BY <1>4 DEF IsEnvelope
  <1> HIDE DEF e3
  <1> QED BY <1>1, <1>5, WireKeeps

-----------------------------------------------------------------------------
\* The nonces kept are those of timestamps in the window.
LEMMA FreshNonces ==
  ASSUME IInv
  PROVE  /\ \A n : n \in DOMAIN Fresh(clock) <=> n \in DOMAIN seen /\ abs_diff(clock, seen[n]) <= Window
         /\ \A n \in DOMAIN Fresh(clock) : Fresh(clock)[n] = seen[n]
  BY DEF Fresh

\* What is dropped with `retain` had left the window for good: nothing is
\* accepted that is further ahead of the clock than the window.
LEMMA FreshRemembers ==
  ASSUME IInv, NEW i \in DOMAIN accepted
  PROVE  LET e == accepted[i]
         IN  \/ clock - e.timestamp > Window
             \/ e.nonce \in DOMAIN Fresh(clock) /\ Fresh(clock)[e.nonce] = e.timestamp
  <1> DEFINE e == accepted[i]
  <1>1. e.timestamp \in Nat /\ clock \in Nat /\ e.timestamp <= clock + Window /\ Remembered(e)
    BY DEF IInv, IsEnvelope
  <1>2. CASE clock - e.timestamp > Window
    BY <1>2
  <1>3. CASE ~(clock - e.timestamp > Window)
    <2>1. e.nonce \in DOMAIN seen /\ seen[e.nonce] = e.timestamp
      BY <1>1, <1>3 DEF Remembered
    <2>2. abs_diff(clock, e.timestamp) <= Window
      BY <1>1, <1>3, SecurityAssumption DEF abs_diff
    <2> QED BY <2>1, <2>2, FreshNonces
  <1> QED BY <1>2, <1>3

LEMMA ReplayKeeps ==
  ASSUME IInv, seen' = Fresh(clock), UNCHANGED <<clock, wire, accepted>>
  PROVE  IInv'
  <1>1. \A i \in DOMAIN accepted : Remembered(accepted[i])'
    BY FreshRemembers DEF Remembered
  <1>2. \A n \in DOMAIN seen' : seen'[n] \in Nat
    BY FreshNonces DEF IInv
  <1>3. AcceptedOnce'
    BY DEF IInv, AcceptedOnce
  <1> QED BY <1>1, <1>2, <1>3 DEF IInv

LEMMA AcceptKeeps ==
  ASSUME IInv, NEW e \in wire, Timely(e), e.nonce \notin DOMAIN Fresh(clock),
         seen' = Remember(e), accepted' = Append(accepted, e),
         UNCHANGED <<clock, wire>>
  PROVE  IInv'
  <1>1. /\ DOMAIN seen' = DOMAIN Fresh(clock) \cup {e.nonce}
        /\ seen'[e.nonce] = e.timestamp
        /\ \A n \in DOMAIN Fresh(clock) : seen'[n] = Fresh(clock)[n]
    BY FreshNonces DEF Remember
  <1>2. e.timestamp \in Nat /\ clock \in Nat /\ accepted \in Seq(wire)
    BY DEF IInv, IsEnvelope
  <1>3. e.timestamp <= clock + Window /\ ~(clock - e.timestamp > Window)
    BY <1>2, SecurityAssumption DEF Timely, abs_diff
  <1>4. /\ accepted' \in Seq(wire')
        /\ DOMAIN accepted' = 1 .. Len(accepted) + 1
        /\ accepted'[Len(accepted) + 1] = e
        /\ DOMAIN accepted = 1 .. Len(accepted) /\ Len(accepted) \in Nat
        /\ \A i \in 1 .. Len(accepted) : accepted'[i] = accepted[i]
    BY <1>2
  <1>5. ASSUME NEW i \in DOMAIN accepted
        PROVE  accepted[i].timestamp <= clock + Window /\ Remembered(accepted[i])' /\ accepted[i] # e
    <2>1. accepted[i].timestamp <= clock + Window
      BY DEF IInv
    <2>2. CASE clock - accepted[i].timestamp > Window
      BY <1>3, <2>1, <2>2 DEF Remembered
    <2>3. CASE accepted[i].nonce \in DOMAIN Fresh(clock) /\ Fresh(clock)[accepted[i].nonce] = accepted[i].timestamp
      BY <1>1, <2>1, <2>3 DEF Remembered
    <2> QED BY <2>2, <2>3, FreshRemembers
  <1>6. Remembered(e)'
    BY <1>1 DEF Remembered
  <1>7. ASSUME NEW i \in DOMAIN accepted'
        PROVE  accepted'[i].timestamp <= clock' + Window /\ Remembered(accepted[i])'
    <2>1. CASE i \in 1 .. Len(accepted)
      BY <1>4, <1>5, <2>1
    <2>2. CASE i = Len(accepted) + 1
      BY <1>3, <1>4, <1>6, <2>2
    <2> QED BY <1>4, <2>1, <2>2
  <1>8. AcceptedOnce'
    BY <1>4, <1>5 DEF IInv, AcceptedOnce
  <1>9. \A n \in DOMAIN seen' : seen'[n] \in Nat
    BY <1>1, <1>2, FreshNonces DEF IInv
  <1> QED BY <1>4, <1>7, <1>8, <1>9 DEF IInv

LEMMA VerifyKeeps == ASSUME IInv, NEW e \in wire, Verify(e) PROVE IInv'
  <1>1. CASE UNCHANGED <<clock, wire, seen, accepted>>
    BY <1>1 DEF IInv, AcceptedOnce, Remembered
  <1>2. CASE seen' = Fresh(clock) /\ UNCHANGED <<clock, wire, accepted>>
    BY <1>2, ReplayKeeps
  <1>3. CASE /\ Timely(e) /\ e.nonce \notin DOMAIN Fresh(clock)
             /\ seen' = Remember(e)
             /\ accepted' = Append(accepted, e) /\ UNCHANGED <<clock, wire>>
    BY <1>3, AcceptKeeps
  <1> QED BY <1>1, <1>2, <1>3 DEF Verify

LEMMA NextKeeps == IInv /\ [GuardNext]_guardVars => IInv'
  <1> SUFFICES ASSUME IInv, [GuardNext]_guardVars PROVE IInv'
    OBVIOUS
  <1>1. CASE UNCHANGED guardVars
    BY <1>1 DEF guardVars, IInv, AcceptedOnce, Remembered
  <1>2. CASE Tick
    BY <1>2, TickKeeps
  <1>3. ASSUME NEW message, NEW ts \in 0 .. MaxTime, Seal(message, ts) PROVE IInv'
    BY <1>3, SealKeeps
  <1>4. ASSUME NEW e \in wire, NEW b, NEW n, NEW ts \in 0 .. MaxTime, Alter(e, b, n, ts) PROVE IInv'
    BY <1>4, AlterKeeps
  <1>5. ASSUME NEW e \in wire, Verify(e) PROVE IInv'
    BY <1>5, VerifyKeeps
  <1> QED BY <1>1, <1>2, <1>3, <1>4, <1>5 DEF GuardNext

\* The guard accepts no envelope twice, although it keeps only the nonces of
\* the last window (sdk/src/security.rs, ReplayGuard::verify).
THEOREM ReplaysAreRejected == GuardSpec => []AcceptedOnce
  <1>1. IInv => AcceptedOnce
    BY DEF IInv
  <1> QED BY <1>1, InitOK, NextKeeps, PTL DEF GuardSpec

-----------------------------------------------------------------------------
(* What is accepted was sealed: `canonical` can be taken apart again once the *)
(* lengths of the fields before the body are known.                          *)

Messages == [id : Field, body : Field, memory_ref : {<<>>}]

\* Alter leaves the message's id and the signature of what was sealed.
IsCopy(e, original) ==
    /\ e = [message |-> e.message, nonce |-> e.nonce, timestamp |-> e.timestamp,
            signature |-> e.signature]
    /\ e.message \in Messages
    /\ e.message.id = original.message.id
    /\ e.signature = original.signature

IsSealed(e) == \E m \in Messages, n \in Nat, ts \in Nat : e = seal(m, n, ts)

CopyInv ==
    /\ \E E : sealed \in Seq(E)
    /\ \A j \in DOMAIN sealed : IsSealed(sealed[j])
    /\ \A e \in wire : e.nonce \in Nat /\ e.timestamp \in Nat
    /\ \A e \in wire : \E j \in DOMAIN sealed : IsCopy(e, sealed[j])

\* What the guard remembers and what it said last.
VerdictInv ==
    /\ verdict.at \in Nat /\ verdict.at <= clock
    /\ \A n \in DOMAIN seen : \E i \in DOMAIN accepted : accepted[i].nonce = n

ExactInv == CopyInv /\ VerdictInv /\ GuardIsExact

\* Where the parts of a concatenation are.
LEMMA ConcatParts ==
  ASSUME NEW A, NEW s \in Seq(A), NEW t \in Seq(A)
  PROVE  /\ s \o t \in Seq(A) /\ Len(s \o t) = Len(s) + Len(t)
         /\ \A i \in 1 .. Len(s) : (s \o t)[i] = s[i]
         /\ \A i \in 1 .. Len(t) : (s \o t)[Len(s) + i] = t[i]
  <1>1. Len(s) \in Nat /\ Len(t) \in Nat
    OBVIOUS
  <1> QED BY <1>1, ConcatProperties

\* Where the parts of a canonical form are.
HasShape(c, id, body, nonce, ts) ==
  /\ Len(c) = Len(id) + Len(body) + 6
  /\ c[Len(id) + Len(body) + 4] = nonce /\ c[Len(id) + Len(body) + 6] = ts
  /\ \A i \in 1 .. Len(body) : c[Len(id) + 1 + i] = body[i]

\* Where nonce, time and body are in the canonical form.
LEMMA CanonicalHasShape ==
  ASSUME NEW A, NEW id \in Seq(A), NEW body \in Seq(A), NEW nonce \in A, NEW ts \in A, "|" \in A
  PROVE  HasShape(canonical([id |-> id, body |-> body, memory_ref |-> <<>>], nonce, ts), id, body, nonce, ts)
  <1> DEFINE bar  == <<"|">>
             none == <<>>
             tail == <<"|", nonce, "|", ts>>
             c1 == id \o bar
             c2 == c1 \o body
             c3 == c2 \o bar
             c4 == c3 \o none
             c5 == c4 \o tail
  <1>1. bar \in Seq(A) /\ Len(bar) = 1
    OBVIOUS
  <1>2. none \in Seq(A) /\ Len(none) = 0
    OBVIOUS
  <1>3. tail \in Seq(A) /\ Len(tail) = 4 /\ tail[2] = nonce /\ tail[4] = ts
    OBVIOUS
  <1>4. /\ canonical([id |-> id, body |-> body, memory_ref |-> <<>>], nonce, ts) = c5
        /\ c1 = id \o bar /\ c2 = c1 \o body /\ c3 = c2 \o bar /\ c4 = c3 \o none /\ c5 = c4 \o tail
    BY DEF canonical
  <1> HIDE DEF bar, none, tail, c1, c2, c3, c4, c5
  <1>5. c1 \in Seq(A) /\ Len(c1) = Len(id) + 1
    <2>1. id \o bar \in Seq(A) /\ Len(id \o bar) = Len(id) + Len(bar)
      BY <1>1, ConcatParts
    <2> QED BY <1>1, <1>4, <2>1
  <1>6. /\ c2 \in Seq(A) /\ Len(c2) = Len(id) + 1 + Len(body)
        /\ \A i \in 1 .. Len(body) : c2[Len(id) + 1 + i] = body[i]
    BY <1>4, <1>5, ConcatParts
  <1>7. /\ c3 \in Seq(A) /\ Len(c3) = Len(id) + 2 + Len(body)
        /\ \A i \in 1 .. Len(c2) : c3[i] = c2[i]
    BY <1>1, <1>4, <1>6, ConcatParts
  <1>8. /\ c4 \in Seq(A) /\ Len(c4) = Len(id) + 2 + Len(body)
        /\ \A i \in 1 .. Len(c3) : c4[i] = c3[i]
    BY <1>2, <1>4, <1>7, ConcatParts
  <1>9. /\ Len(c5) = Len(id) + Len(body) + 6
        /\ \A i \in 1 .. 4 : c5[Len(id) + Len(body) + 2 + i] = tail[i]
        /\ \A i \in 1 .. Len(c4) : c5[i] = c4[i]
    <2>1. /\ Len(c4 \o tail) = Len(c4) + Len(tail)
          /\ \A i \in 1 .. Len(tail) : (c4 \o tail)[Len(c4) + i] = tail[i]
          /\ \A i \in 1 .. Len(c4) : (c4 \o tail)[i] = c4[i]
      <3>1. tail \in Seq(A) /\ c4 \in Seq(A)
        BY <1>3, <1>8
      <3> QED BY ONLY <3>1, ConcatParts
    <2>2. Len(id) \in Nat /\ Len(body) \in Nat
      OBVIOUS
    <2>3. Len(c4) = Len(id) + 2 + Len(body) /\ Len(tail) = 4 /\ c5 = c4 \o tail
      BY <1>3, <1>4, <1>8
    <2>4. Len(c5) = Len(id) + Len(body) + 6
      BY <2>1, <2>2, <2>3
    <2>5. ASSUME NEW i \in 1 .. 4 PROVE c5[Len(id) + Len(body) + 2 + i] = tail[i]
      <3>1. (c4 \o tail)[Len(c4) + i] = tail[i]
        BY <2>1, <2>3
      <3>2. Len(c4) + i = Len(id) + Len(body) + 2 + i
        BY <2>2, <2>3
      <3> QED BY <2>3, <3>1, <3>2
    <2>6. \A i \in 1 .. Len(c4) : c5[i] = c4[i]
      BY <2>1, <2>3
    <2> QED BY <2>4, <2>5, <2>6
  <1>10. c5[Len(id) + Len(body) + 4] = tail[2] /\ c5[Len(id) + Len(body) + 6] = tail[4]
    BY <1>9
  <1>11. ASSUME NEW i \in 1 .. Len(body)
         PROVE  c5[Len(id) + 1 + i] = body[i]
    <2> DEFINE k == Len(id) + 1 + i
    <2>1. k \in 1 .. Len(c2) /\ k \in 1 .. Len(c3) /\ k \in 1 .. Len(c4)
      BY <1>6, <1>7, <1>8
    <2>2. c2[k] = body[i]
      BY <1>6
    <2> HIDE DEF k
    <2>3. c5[k] = body[i]
      BY <1>7, <1>8, <1>9, <2>1, <2>2
    <2> QED BY <2>3 DEF k
  <1>12. HasShape(c5, id, body, nonce, ts)
    BY <1>3, <1>9, <1>10, <1>11 DEF HasShape
  <1> QED BY <1>4, <1>12

\* The same canonical form and the same id: the same body, nonce and time.
LEMMA CanonicalIsInjective ==
  ASSUME NEW m \in Messages, NEW k \in Messages, m.id = k.id,
         NEW n1 \in Nat, NEW n2 \in Nat, NEW t1 \in Nat, NEW t2 \in Nat,
         canonical(m, n1, t1) = canonical(k, n2, t2)
  PROVE  m = k /\ n1 = n2 /\ t1 = t2
  <1> DEFINE Chars(f) == {f[i] : i \in DOMAIN f}
             A == Chars(m.id) \cup Chars(m.body) \cup Chars(k.body) \cup {"|"} \cup Nat
  <1>1. m.id \in Field /\ m.body \in Field /\ k.body \in Field
    BY DEF Messages
  <1>2. /\ m.id \in Seq(Chars(m.id)) /\ m.body \in Seq(Chars(m.body))
        /\ k.body \in Seq(Chars(k.body))
    BY <1>1, SecurityAssumption
  <1>3. /\ Chars(m.id) \subseteq A /\ Chars(m.body) \subseteq A /\ Chars(k.body) \subseteq A
        /\ "|" \in A /\ Nat \subseteq A
    OBVIOUS
  <1> HIDE DEF A, Chars
  <1>4. m.id \in Seq(A) /\ m.body \in Seq(A) /\ k.body \in Seq(A)
    BY <1>2, <1>3
  <1> DEFINE id == m.id
             b == m.body
             d == k.body
  <1>5. m = [id |-> id, body |-> b, memory_ref |-> <<>>]
    BY DEF Messages
  <1>6. k = [id |-> id, body |-> d, memory_ref |-> <<>>]
    BY DEF Messages
  <1> HIDE DEF id, b, d
  <1>7. id \in Seq(A) /\ b \in Seq(A) /\ d \in Seq(A)
    BY <1>4 DEF id, b, d
  <1> DEFINE c == canonical(m, n1, t1)
  <1>8. /\ Len(c) = Len(id) + Len(b) + 6
        /\ c[Len(id) + Len(b) + 4] = n1 /\ c[Len(id) + Len(b) + 6] = t1
        /\ \A i \in 1 .. Len(b) : c[Len(id) + 1 + i] = b[i]
    <2>1. n1 \in A /\ t1 \in A /\ "|" \in A
      BY <1>3
    <2>2. c = canonical([id |-> id, body |-> b, memory_ref |-> <<>>], n1, t1)
      BY <1>5
    <2> HIDE DEF c
    <2>3. HasShape(canonical([id |-> id, body |-> b, memory_ref |-> <<>>], n1, t1), id, b, n1, t1)
      BY <1>7, <2>1, CanonicalHasShape, Zenon
    <2>4. HasShape(c, id, b, n1, t1)
      BY <2>2, <2>3
    <2> QED BY <2>4 DEF HasShape
  <1>9. /\ Len(c) = Len(id) + Len(d) + 6
        /\ c[Len(id) + Len(d) + 4] = n2 /\ c[Len(id) + Len(d) + 6] = t2
        /\ \A i \in 1 .. Len(d) : c[Len(id) + 1 + i] = d[i]
    <2>1. n2 \in A /\ t2 \in A /\ "|" \in A
      BY <1>3
    <2>2. c = canonical([id |-> id, body |-> d, memory_ref |-> <<>>], n2, t2)
      BY <1>6
    <2> HIDE DEF c
    <2>3. HasShape(canonical([id |-> id, body |-> d, memory_ref |-> <<>>], n2, t2), id, d, n2, t2)
      BY <1>7, <2>1, CanonicalHasShape, Zenon
    <2>4. HasShape(c, id, d, n2, t2)
      BY <2>2, <2>3
    <2> QED BY <2>4 DEF HasShape
  <1> HIDE DEF c
  <1>10. Len(b) = Len(d)
    BY <1>7, <1>8, <1>9
  <1>11. \A i \in 1 .. Len(b) : b[i] = d[i]
    BY <1>8, <1>9, <1>10
  <1>12. b = d
    BY <1>7, <1>10, <1>11, SeqEqual
  <1> QED BY <1>5, <1>6, <1>8, <1>9, <1>10, <1>12

\* An altered copy is signed only if it is what was sealed.
LEMMA SignedIsSealed ==
  ASSUME NEW m \in Messages, NEW n \in Nat, NEW ts \in Nat, NEW e,
         IsCopy(e, seal(m, n, ts)), e.nonce \in Nat, e.timestamp \in Nat, Signed(e)
  PROVE  e = seal(m, n, ts)
  <1> DEFINE o == seal(m, n, ts)
  <1>1. /\ o.message = m /\ o.nonce = n /\ o.timestamp = ts
        /\ o.signature = sign(Key, canonical(m, n, ts))
        /\ o = [message |-> m, nonce |-> n, timestamp |-> ts, signature |-> o.signature]
    BY DEF seal
  <1>2. e.message \in Messages /\ e.message.id = m.id /\ e.signature = o.signature
    BY <1>1 DEF IsCopy
  <1>3. sign(Key, canonical(e.message, e.nonce, e.timestamp)) = sign(Key, canonical(m, n, ts))
    BY <1>1, <1>2 DEF Signed
  <1>4. canonical(e.message, e.nonce, e.timestamp) = canonical(m, n, ts)
    BY <1>3 DEF sign
  <1>5. e.message = m /\ e.nonce = n /\ e.timestamp = ts
    BY <1>2, <1>4, CanonicalIsInjective
  <1> QED BY <1>1, <1>2, <1>5 DEF IsCopy

-----------------------------------------------------------------------------
\* Initially nothing is on the wire and nothing was said.
LEMMA InitExact == GuardInit => ExactInv
  <1> SUFFICES ASSUME GuardInit PROVE ExactInv
    OBVIOUS
  <1>1. sealed = <<>> /\ sealed \in Seq({})
    BY DEF GuardInit
  <1>2. CopyInv
    BY <1>1 DEF GuardInit, CopyInv
  <1>3. VerdictInv /\ GuardIsExact
    BY DEF GuardInit, VerdictInv, GuardIsExact
  <1> QED BY <1>2, <1>3 DEF ExactInv

\* A new envelope keeps what is said of the others.
LEMMA SealExact ==
  ASSUME IInv, ExactInv, NEW message \in Messages, NEW ts \in Nat, Seal(message, ts)
  PROVE  ExactInv'
  <1> DEFINE e == seal(message, Len(sealed) + 1, ts)
  <1>1. /\ wire' = wire \cup {e} /\ sealed' = Append(sealed, e)
        /\ UNCHANGED <<clock, seen, accepted, verdict>>
    BY DEF Seal
  <1>2. PICK E : sealed \in Seq(E)
    BY DEF ExactInv, CopyInv
  <1>3. Len(sealed) \in Nat
    BY <1>2
  <1>4. IsSealed(e)
    BY <1>3 DEF IsSealed
  <1>5. /\ e = [message |-> e.message, nonce |-> e.nonce, timestamp |-> e.timestamp,
                signature |-> e.signature]
        /\ e.message = message /\ e.nonce \in Nat /\ e.timestamp \in Nat
    BY <1>3 DEF seal
  <1> HIDE DEF e
  <1>6. /\ sealed' \in Seq(E \cup {e})
        /\ DOMAIN sealed = 1 .. Len(sealed) /\ DOMAIN sealed' = 1 .. Len(sealed) + 1
        /\ \A j \in DOMAIN sealed : j \in DOMAIN sealed' /\ sealed'[j] = sealed[j]
        /\ sealed'[Len(sealed) + 1] = e
    BY <1>1, <1>2, <1>3
  <1>7. \A j \in DOMAIN sealed' : IsSealed(sealed'[j])
    BY <1>3, <1>4, <1>6 DEF ExactInv, CopyInv
  <1>8. \A f \in wire' : f.nonce \in Nat /\ f.timestamp \in Nat
    BY <1>1, <1>5 DEF ExactInv, CopyInv
  <1>9. IsCopy(e, e)
    BY <1>5 DEF IsCopy
  <1>10. \A f \in wire' : \E j \in DOMAIN sealed' : IsCopy(f, sealed'[j])
    <2> SUFFICES ASSUME NEW f \in wire' PROVE \E j \in DOMAIN sealed' : IsCopy(f, sealed'[j])
      OBVIOUS
    <2>1. CASE f \in wire
      BY <1>6, <2>1 DEF ExactInv, CopyInv
    <2>2. CASE f = e
      BY <1>3, <1>6, <1>9, <2>2
    <2> QED BY <1>1, <2>1, <2>2
  <1>11. CopyInv'
    BY <1>6, <1>7, <1>8, <1>10 DEF CopyInv
  <1>12. VerdictInv'
    BY <1>1 DEF ExactInv, VerdictInv
  <1>13. GuardIsExact'
    BY <1>1, <1>6 DEF ExactInv, GuardIsExact
  <1> QED BY <1>11, <1>12, <1>13 DEF ExactInv

\* What is altered on the way is still a copy.
LEMMA AlterExact ==
  ASSUME IInv, ExactInv, NEW e \in wire, NEW body \in Field, NEW nonce \in Nat, NEW ts \in Nat,
         Alter(e, body, nonce, ts)
  PROVE  ExactInv'
  <1> DEFINE f == [e EXCEPT !.message.body = body, !.nonce = nonce, !.timestamp = ts]
  <1>1. wire' = wire \cup {f} /\ UNCHANGED <<clock, sealed, seen, accepted, verdict>>
    BY DEF Alter
  <1>2. PICK j \in DOMAIN sealed : IsCopy(e, sealed[j])
    BY DEF ExactInv, CopyInv
  <1>3. e.message = [id |-> e.message.id, body |-> e.message.body, memory_ref |-> e.message.memory_ref]
    BY <1>2 DEF IsCopy, Messages
  <1>4. e = [message |-> e.message, nonce |-> e.nonce, timestamp |-> e.timestamp,
             signature |-> e.signature]
    BY <1>2 DEF IsCopy
  <1> DEFINE m == [id |-> e.message.id, body |-> body, memory_ref |-> e.message.memory_ref]
             g == [message |-> m, nonce |-> nonce, timestamp |-> ts, signature |-> e.signature]
             e1 == [e EXCEPT !.message.body = body]
             e2 == [e1 EXCEPT !.nonce = nonce]
  <1>5. f = [e2 EXCEPT !.timestamp = ts]
    OBVIOUS
  <1>6. e1 = [message |-> m, nonce |-> e.nonce, timestamp |-> e.timestamp, signature |-> e.signature]
    <2>1. [e.message EXCEPT !.body = body] = m
      BY <1>3
    <2>2. e1 = [e EXCEPT !.message = [e.message EXCEPT !.body = body]]
      BY <1>4
    <2> HIDE DEF e1, m
    <2> QED BY <1>4, <2>1, <2>2
  <1>7. e2 = [message |-> m, nonce |-> nonce, timestamp |-> e.timestamp, signature |-> e.signature]
    <2> HIDE DEF e1, m
    <2> QED BY <1>6
  <1>8. f = g
    <2> HIDE DEF e2, m, f
    <2> QED BY <1>5, <1>7
  <1>9. m \in Messages /\ m.id = e.message.id
    BY <1>2 DEF IsCopy, Messages
  <1> HIDE DEF f, m, e1, e2
  <1>10. /\ f.message = m /\ f.nonce = nonce /\ f.timestamp = ts /\ f.signature = e.signature
         /\ f = [message |-> f.message, nonce |-> f.nonce, timestamp |-> f.timestamp,
                 signature |-> f.signature]
    BY <1>8
  <1>11. IsCopy(f, sealed[j])
    BY <1>2, <1>9, <1>10 DEF IsCopy
  <1>12. CopyInv'
    <2>1. \A h \in wire' : h.nonce \in Nat /\ h.timestamp \in Nat
      BY <1>1, <1>10 DEF ExactInv, CopyInv
    <2>2. \A h \in wire' : \E k \in DOMAIN sealed' : IsCopy(h, sealed'[k])
      BY <1>1, <1>2, <1>11 DEF ExactInv, CopyInv
    <2> QED BY <1>1, <2>1, <2>2 DEF ExactInv, CopyInv
  <1>13. VerdictInv' /\ GuardIsExact'
    BY <1>1 DEF ExactInv, VerdictInv, GuardIsExact
  <1> QED BY <1>12, <1>13 DEF ExactInv

\* The clock advances past the last verdict.
LEMMA TickExact == ASSUME IInv, ExactInv, Tick PROVE ExactInv'
  <1>1. clock \in Nat /\ clock' = clock + 1 /\ UNCHANGED <<wire, sealed, seen, accepted, verdict>>
    BY DEF IInv, Tick
  <1>2. CopyInv'
    BY <1>1 DEF ExactInv, CopyInv
  <1>3. verdict.at \in Nat /\ verdict.at <= clock
    BY DEF ExactInv, VerdictInv
  <1>4. VerdictInv'
    BY <1>1, <1>3 DEF ExactInv, VerdictInv
  <1>5. verdict'.at # clock'
    BY <1>1, <1>3
  <1>6. GuardIsExact'
    BY <1>1, <1>5 DEF ExactInv, GuardIsExact
  <1> QED BY <1>2, <1>4, <1>6 DEF ExactInv

\* A verdict speaks of what was sealed and accepted.
LEMMA VerifyExact == ASSUME IInv, ExactInv, NEW e \in wire, Verify(e) PROVE ExactInv'
  <1>1. UNCHANGED <<clock, wire, sealed>> /\ clock \in Nat
    BY DEF Verify, IInv
  <1>2. CopyInv'
    BY <1>1 DEF ExactInv, CopyInv
  <1>3. CASE /\ verdict' \in {[result |-> "BadSignature", at |-> clock, nonce |-> e.nonce],
                               [result |-> "Expired", at |-> clock, nonce |-> e.nonce]}
             /\ UNCHANGED <<seen, accepted>>
    <2>1. verdict'.at = clock /\ verdict'.result \notin {"Replayed", "ok"}
      BY <1>3
    <2>2. VerdictInv'
      BY <1>1, <1>3, <2>1 DEF ExactInv, VerdictInv
    <2>3. GuardIsExact'
      BY <1>1, <1>3, <2>1 DEF ExactInv, GuardIsExact
    <2> QED BY <1>2, <2>2, <2>3 DEF ExactInv
  <1>4. CASE /\ e.nonce \in DOMAIN Fresh(clock) /\ seen' = Fresh(clock)
             /\ verdict' = [result |-> "Replayed", at |-> clock, nonce |-> e.nonce]
             /\ UNCHANGED accepted
    <2>1. verdict'.at = clock /\ verdict'.nonce = e.nonce
      BY <1>4
    <2>2. \A n \in DOMAIN seen' : \E i \in DOMAIN accepted : accepted[i].nonce = n
      BY <1>4, FreshNonces DEF ExactInv, VerdictInv
    <2>3. VerdictInv'
      BY <1>1, <1>4, <2>1, <2>2 DEF VerdictInv
    <2>4. \A n \in DOMAIN seen' : abs_diff(clock, seen'[n]) <= Window
      BY <1>4, FreshNonces
    <2>5. GuardIsExact'
      BY <1>1, <1>4, <2>1, <2>2, <2>4 DEF ExactInv, GuardIsExact
    <2> QED BY <1>2, <2>3, <2>5 DEF ExactInv
  <1>5. CASE /\ Signed(e) /\ Timely(e) /\ e.nonce \notin DOMAIN Fresh(clock)
             /\ seen' = Remember(e) /\ accepted' = Append(accepted, e)
             /\ verdict' = [result |-> "ok", at |-> clock, nonce |-> e.nonce]
    <2>1. verdict'.at = clock /\ verdict'.result = "ok"
      BY <1>5
    <2>2. /\ DOMAIN seen' = DOMAIN Fresh(clock) \cup {e.nonce}
          /\ seen'[e.nonce] = e.timestamp
          /\ \A n \in DOMAIN Fresh(clock) : seen'[n] = Fresh(clock)[n]
      BY <1>5, FreshNonces DEF Remember
    <2>3. accepted \in Seq(wire)
      BY DEF IInv
    <2>4. /\ DOMAIN accepted = 1 .. Len(accepted) /\ Len(accepted) \in Nat
          /\ DOMAIN accepted' = 1 .. Len(accepted) + 1
          /\ accepted'[Len(accepted) + 1] = e
          /\ \A i \in 1 .. Len(accepted) : accepted'[i] = accepted[i]
      BY <1>5, <2>3
    <2>5. \A n \in DOMAIN seen' : \E i \in DOMAIN accepted' : accepted'[i].nonce = n
      <3> SUFFICES ASSUME NEW n \in DOMAIN seen'
                   PROVE  \E i \in DOMAIN accepted' : accepted'[i].nonce = n
        OBVIOUS
      <3>1. CASE n = e.nonce
        BY <2>4, <3>1
      <3>2. CASE n \in DOMAIN Fresh(clock)
        <4>1. PICK i \in DOMAIN accepted : accepted[i].nonce = n
          BY <3>2, FreshNonces DEF ExactInv, VerdictInv
        <4> QED BY <2>4, <4>1
      <3> QED BY <2>2, <3>1, <3>2
    <2>6. VerdictInv'
      BY <1>1, <2>1, <2>5 DEF VerdictInv
    <2>7. PICK j \in DOMAIN sealed : IsCopy(e, sealed[j])
      BY DEF ExactInv, CopyInv
    <2>8. e = sealed[j]
      <3>1. PICK m \in Messages, n \in Nat, ts \in Nat : sealed[j] = seal(m, n, ts)
        BY DEF ExactInv, CopyInv, IsSealed
      <3>2. e.nonce \in Nat /\ e.timestamp \in Nat
        BY DEF ExactInv, CopyInv
      <3> QED BY <1>5, <2>7, <3>1, <3>2, SignedIsSealed
    <2>9. \A i \in DOMAIN accepted' : \E k \in DOMAIN sealed' : accepted'[i] = sealed'[k]
      <3> SUFFICES ASSUME NEW i \in DOMAIN accepted'
                   PROVE  \E k \in DOMAIN sealed : accepted'[i] = sealed[k]
        BY <1>1
      <3>1. CASE i \in 1 .. Len(accepted)
        BY <2>4, <3>1 DEF ExactInv, GuardIsExact
      <3>2. CASE i = Len(accepted) + 1
        BY <2>4, <2>7, <2>8, <3>2
      <3> QED BY <2>4, <3>1, <3>2
    <2>10. \A n \in DOMAIN seen' : abs_diff(clock, seen'[n]) <= Window
      BY <1>5, <2>2, FreshNonces DEF Timely
    <2>11. GuardIsExact'
      BY <1>1, <2>1, <2>9, <2>10 DEF GuardIsExact
    <2> QED BY <1>2, <2>6, <2>11 DEF ExactInv
  <1> QED BY <1>3, <1>4, <1>5 DEF Verify

\* Every step keeps it, given what AcceptedOnce rests on.
LEMMA NextExact == IInv /\ ExactInv /\ [GuardNext]_guardVars => ExactInv'
  <1> SUFFICES ASSUME IInv, ExactInv, [GuardNext]_guardVars PROVE ExactInv'
    OBVIOUS
  <1>1. CASE UNCHANGED guardVars
    BY <1>1 DEF guardVars, ExactInv, CopyInv, VerdictInv, GuardIsExact
  <1>2. CASE Tick
    BY <1>2, TickExact
  <1>3. ASSUME NEW f \in Field, NEW b \in Field, NEW ts \in 0 .. MaxTime,
               Seal([id |-> f, body |-> b, memory_ref |-> <<>>], ts)
        PROVE  ExactInv'
    <2>1. [id |-> f, body |-> b, memory_ref |-> <<>>] \in Messages /\ ts \in Nat
      BY DEF Messages
    <2> QED BY <1>3, <2>1, SealExact
  <1>4. ASSUME NEW e \in wire, NEW b \in Field, NEW n \in 1 .. MaxSealed, NEW ts \in 0 .. MaxTime,
               Alter(e, b, n, ts)
        PROVE  ExactInv'
    BY <1>4, AlterExact
  <1>5. ASSUME NEW e \in wire, Verify(e) PROVE ExactInv'
    BY <1>5, VerifyExact
  <1> QED BY <1>1, <1>2, <1>3, <1>4, <1>5 DEF GuardNext

\* The guard accepts only what was sealed with the key, whatever was altered
\* on the way, calls replayed only what it accepted before, and forgets what
\* left the window (sdk/src/security.rs, verify, ReplayGuard).
THEOREM VerdictsAreRight == GuardSpec => []GuardIsExact
  <1>1. ExactInv => GuardIsExact
    BY DEF ExactInv
  <1> QED BY <1>1, InitOK, NextKeeps, InitExact, NextExact, PTL DEF GuardSpec

-----------------------------------------------------------------------------
(* Turns.                                                                   *)

\* The next turn after n of length l ones.
LEMMA NextTurn ==
  ASSUME NEW n \in Nat, NEW l \in Nat \ {0}
  PROVE  /\ n % l \in 0 .. l - 1
         /\ (n + 1) % l = IF n % l = l - 1 THEN 0 ELSE (n % l) + 1
  <1>1. PICK q \in Int, r \in 0 .. l - 1 : n = l * q + r /\ n % l = r /\ q = n \div l
    OBVIOUS
  <1>2. PICK u \in Int, v \in 0 .. l - 1 : n + 1 = l * u + v /\ (n + 1) % l = v /\ u = (n + 1) \div l
    OBVIOUS
  <1>3. l * (u - q) = r + 1 - v
    BY <1>1, <1>2
  <1>4. PICK d \in Int : d = u - q
    OBVIOUS
  <1>5. l * d = r + 1 - v
    BY <1>3, <1>4
  <1>6. d \in {0, 1}
    <2>1. CASE d >= 2
      <3>1. l * d >= l * 2
        BY <2>1
      <3> QED BY <1>1, <1>2, <1>5, <3>1
    <2>2. CASE d <= -1
      <3>1. l * d <= l * (-1)
        BY <2>2
      <3> QED BY <1>1, <1>2, <1>5, <3>1
    <2> QED BY <1>4, <2>1, <2>2
  <1> QED BY <1>1, <1>2, <1>5, <1>6

\* One more message for y.
LEMMA OneMore ==
  ASSUME NEW S, NEW s \in Seq(S), NEW y \in S, NEW x
  PROVE  /\ Occurrences(s, x) \in Nat
         /\ Occurrences(Append(s, y), x) = Occurrences(s, x) + IF x = y THEN 1 ELSE 0
  <1> DEFINE t == Append(s, y)
             I == {i \in DOMAIN s : s[i] = x}
             J == {i \in DOMAIN t : t[i] = x}
  <1>1. PICK n \in Nat : n = Len(s) /\ DOMAIN s = 1 .. n
    OBVIOUS
  <1>2. DOMAIN t = 1 .. n + 1 /\ t[n + 1] = y /\ \A i \in 1 .. n : t[i] = s[i]
    BY <1>1
  <1>3. IsFiniteSet(1 .. n) /\ I \subseteq 1 .. n
    BY <1>1, FS_Interval
  <1>4. IsFiniteSet(I) /\ Cardinality(I) \in Nat
    BY <1>3, FS_Subset, FS_CardinalityType
  <1> HIDE DEF t
  <1>5. CASE x = y
    <2>1. J = I \cup {n + 1}
      BY <1>1, <1>2, <1>5
    <2>2. n + 1 \notin I
      BY <1>3
    <2> QED BY <1>4, <1>5, <2>1, <2>2, FS_AddElement DEF Occurrences, t
  <1>6. CASE x # y
    <2>1. J = I
      BY <1>1, <1>2, <1>6
    <2>2. Occurrences(t, x) = Occurrences(s, x) /\ Occurrences(s, x) \in Nat
      BY <1>4, <2>1 DEF Occurrences
    <2> QED BY <1>6, <2>2 DEF t
  <1> QED BY <1>5, <1>6

\* The place of slot p after a round that starts at base.
Off(p, base, l) == IF base <= p - 1 THEN p - 1 - base ELSE p - 1 - base + l

Once(ps, p) == \A q \in DOMAIN ps : ps[q] = ps[p] => q = p

\* Since the last registration, when the cursor stood at base, every slot had
\* `round` turns, and the first `done` of the current round one more.
EvenTurns(ps, cur, ts) ==
    ps # <<>> =>
      \E base \in 0 .. Len(ps) - 1, done \in 0 .. Len(ps) - 1, round \in Nat :
        /\ cur % Len(ps) = IF base + done < Len(ps) THEN base + done ELSE base + done - Len(ps)
        /\ \A p \in DOMAIN ps : Once(ps, p) =>
             Occurrences(ts, ps[p]) = round + IF Off(p, base, Len(ps)) < done THEN 1 ELSE 0

\* A registration starts the count again.
LEMMA FreshTurns ==
  ASSUME NEW ps \in Seq(Peer), NEW cur \in Nat
  PROVE  EvenTurns(ps, cur, <<>>)
  <1> SUFFICES ASSUME ps # <<>> PROVE EvenTurns(ps, cur, <<>>)
    BY DEF EvenTurns
  <1>1. PICK l \in Nat \ {0} : l = Len(ps) /\ DOMAIN ps = 1 .. l
    OBVIOUS
  <1>2. PICK base \in 0 .. l - 1 : base = cur % l
    BY <1>1, NextTurn
  <1>3. \A x : Occurrences(<<>>, x) = 0
    BY FS_EmptySet DEF Occurrences
  <1>4. \A p \in DOMAIN ps : Off(p, base, l) \in Nat
    BY <1>1 DEF Off
  <1>5. \A p \in DOMAIN ps : ~(Off(p, base, l) < 0)
    BY <1>4
  <1>6. cur % l = IF base + 0 < l THEN base + 0 ELSE base + 0 - l
    BY <1>2
  <1>7. \A p \in DOMAIN ps : Occurrences(<<>>, ps[p]) = 0 + IF Off(p, base, l) < 0 THEN 1 ELSE 0
    BY <1>3, <1>5
  <1> QED BY <1>1, <1>6, <1>7 DEF EvenTurns

\* The slot whose turn it is gets one more.
LEMMA TurnTaken ==
  ASSUME NEW ps \in Seq(Peer), NEW cur \in Nat, NEW ts \in Seq(Peer), ps # <<>>,
         EvenTurns(ps, cur, ts)
  PROVE  EvenTurns(ps, cur + 1, Append(ts, ps[(cur % Len(ps)) + 1]))
  <1>1. PICK l \in Nat \ {0} : l = Len(ps) /\ DOMAIN ps = 1 .. l
    OBVIOUS
  <1>2. PICK base \in 0 .. l - 1, done \in 0 .. l - 1, round \in Nat :
          /\ cur % l = IF base + done < l THEN base + done ELSE base + done - l
          /\ \A p \in DOMAIN ps : Once(ps, p) =>
               Occurrences(ts, ps[p]) = round + IF Off(p, base, l) < done THEN 1 ELSE 0
    BY <1>1 DEF EvenTurns
  <1>3. PICK s \in 1 .. l : s = (cur % l) + 1 /\ (cur + 1) % l = IF s = l THEN 0 ELSE s
    <2>1. PICK c \in 0 .. l - 1 : c = cur % l /\ (cur + 1) % l = IF c = l - 1 THEN 0 ELSE c + 1
      BY <1>1, NextTurn
    <2>2. c + 1 \in 1 .. l /\ (c + 1 = l <=> c = l - 1)
      BY <1>1, <2>1
    <2> QED BY <2>1, <2>2
  <1>5. \A p \in DOMAIN ps : Off(p, base, l) \in 0 .. l - 1
    BY <1>1 DEF Off
  <1>6. \A p \in DOMAIN ps : Off(p, base, l) = done <=> p = s
    <2> SUFFICES ASSUME NEW p \in DOMAIN ps PROVE Off(p, base, l) = done <=> p = s
      OBVIOUS
    <2>1. s - 1 = IF base + done < l THEN base + done ELSE base + done - l
      BY <1>2, <1>3
    <2>2. CASE base <= p - 1
      <3>1. Off(p, base, l) = p - 1 - base
        BY <2>2 DEF Off
      <3> QED BY <1>1, <1>2, <1>3, <2>1, <2>2, <3>1
    <2>3. CASE ~(base <= p - 1)
      <3>1. Off(p, base, l) = p - 1 - base + l
        BY <2>3 DEF Off
      <3>2. p \in 1 .. l /\ l \in Nat /\ base \in 0 .. l - 1 /\ done \in 0 .. l - 1 /\ s \in 1 .. l
        BY <1>1, <1>2, <1>3
      <3>3. CASE base + done < l
        BY <2>1, <2>3, <3>1, <3>2, <3>3
      <3>4. CASE ~(base + done < l)
        BY <2>1, <2>3, <3>1, <3>2, <3>4
      <3> QED BY <3>3, <3>4
    <2> QED BY <2>2, <2>3
  <1> DEFINE ts1 == Append(ts, ps[s])
  <1>7. ps[s] \in Peer
    BY <1>1
  <1>8. ASSUME NEW p \in DOMAIN ps, Once(ps, p)
        PROVE  Occurrences(ts1, ps[p]) = round + IF Off(p, base, l) < done + 1 THEN 1 ELSE 0
    <2>1. Occurrences(ts1, ps[p]) = Occurrences(ts, ps[p]) + IF ps[p] = ps[s] THEN 1 ELSE 0
      BY <1>7, OneMore
    <2>2. ps[p] = ps[s] <=> p = s
      BY <1>1, <1>8 DEF Once
    <2>3. PICK o \in 0 .. l - 1 : o = Off(p, base, l)
      BY <1>5
    <2>4. Occurrences(ts, ps[p]) = round + IF o < done THEN 1 ELSE 0
      BY <1>2, <1>8, <2>3
    <2>5. o = done <=> p = s
      BY <1>6, <2>3
    <2> HIDE DEF ts1
    <2> QED BY <2>1, <2>2, <2>3, <2>4, <2>5
  <1> HIDE DEF ts1
  <1>9. CASE done + 1 < l
    <2>1. (cur + 1) % l = IF base + (done + 1) < l THEN base + (done + 1) ELSE base + (done + 1) - l
      BY <1>2, <1>3, <1>9
    <2>2. done + 1 \in 0 .. l - 1
      BY <1>9
    <2>3. EvenTurns(ps, cur + 1, ts1)
      BY <1>1, <1>8, <2>1, <2>2 DEF EvenTurns
    <2> QED BY <1>1, <1>3, <2>3 DEF ts1
  <1>10. CASE done + 1 = l
    <2>1. (cur + 1) % l = IF base + 0 < l THEN base + 0 ELSE base + 0 - l
      BY <1>2, <1>3, <1>10
    <2>2. \A p \in DOMAIN ps : Once(ps, p) =>
            Occurrences(ts1, ps[p]) = (round + 1) + IF Off(p, base, l) < 0 THEN 1 ELSE 0
      <3> SUFFICES ASSUME NEW p \in DOMAIN ps, Once(ps, p)
                   PROVE  Occurrences(ts1, ps[p]) = (round + 1) + IF Off(p, base, l) < 0 THEN 1 ELSE 0
        OBVIOUS
      <3>1. PICK o \in 0 .. l - 1 : o = Off(p, base, l)
        BY <1>5
      <3>2. Occurrences(ts1, ps[p]) = round + IF o < done + 1 THEN 1 ELSE 0
        BY <1>8, <3>1
      <3> QED BY <1>10, <3>1, <3>2
    <2>3. 0 \in 0 .. l - 1 /\ round + 1 \in Nat
      OBVIOUS
    <2>4. EvenTurns(ps, cur + 1, ts1)
      BY <1>1, <2>1, <2>2, <2>3 DEF EvenTurns
    <2> QED BY <1>1, <1>3, <2>4 DEF ts1
  <1> QED BY <1>9, <1>10

\* Of two agents registered once none is two turns ahead.
LEMMA EvenTurnsBound ==
  ASSUME NEW ps \in Seq(Peer), NEW cur \in Nat, NEW ts \in Seq(Peer), EvenTurns(ps, cur, ts),
         NEW p \in DOMAIN ps, NEW q \in DOMAIN ps,
         Occurrences(ps, ps[p]) = 1, Occurrences(ps, ps[q]) = 1
  PROVE  Occurrences(ts, ps[p]) - Occurrences(ts, ps[q]) <= 1
  <1>1. PICK l \in Nat \ {0} : l = Len(ps) /\ DOMAIN ps = 1 .. l
    OBVIOUS
  <1>2. ASSUME NEW r \in DOMAIN ps, Occurrences(ps, ps[r]) = 1
        PROVE  Once(ps, r)
    <2> DEFINE I == {i \in DOMAIN ps : ps[i] = ps[r]}
    <2>1. IsFiniteSet(I)
      <3>1. IsFiniteSet(1 .. l) /\ I \in SUBSET (1 .. l)
        BY <1>1, FS_Interval
      <3> QED BY <3>1, FS_Subset
    <2>2. PICK x : I = {x}
      BY <1>2, <2>1, FS_Singleton DEF Occurrences
    <2> QED BY <2>2 DEF Once
  <1>3. ps # <<>>
    OBVIOUS
  <1>4. PICK base \in 0 .. Len(ps) - 1, done \in 0 .. Len(ps) - 1, round \in Nat :
          /\ cur % Len(ps) = IF base + done < Len(ps) THEN base + done ELSE base + done - Len(ps)
          /\ \A r \in DOMAIN ps : Once(ps, r) =>
               Occurrences(ts, ps[r]) = round + IF Off(r, base, Len(ps)) < done THEN 1 ELSE 0
    BY <1>3, Zenon DEF EvenTurns
  <1>5. Occurrences(ts, ps[p]) \in {round, round + 1} /\ Occurrences(ts, ps[q]) \in {round, round + 1}
    BY <1>2, <1>4
  <1> QED BY <1>4, <1>5

-----------------------------------------------------------------------------
(* The sort.                                                                *)

Msg == [id : Nat, dst : Peer, priority : {"low", "normal", "high", "critical"}]

\* Priorities are ranked one to one.
LEMMA RankProperties ==
  ASSUME NEW m \in Msg, NEW n \in Msg
  PROVE  /\ Rank[m.priority] \in Int
         /\ Rank[m.priority] = Rank[n.priority] => m.priority = n.priority
  BY DEF Rank, Msg

\* `Earlier` orders the messages of an inbox, strictly and totally.
LEMMA EarlierOrders ==
  ASSUME NEW s \in Seq(Msg), NEW i \in DOMAIN s, NEW j \in DOMAIN s, NEW k \in DOMAIN s
  PROVE  /\ ~Earlier(s, i, i)
         /\ i # j => Earlier(s, i, j) \/ Earlier(s, j, i)
         /\ Earlier(s, i, j) /\ Earlier(s, j, k) => Earlier(s, i, k)
  <1>1. i \in Nat /\ j \in Nat /\ k \in Nat
    OBVIOUS
  <1>2. s[i] \in Msg /\ s[j] \in Msg /\ s[k] \in Msg
    OBVIOUS
  <1>3. PICK a, b, c \in Int : /\ a = Rank[s[i].priority]
                               /\ b = Rank[s[j].priority] /\ c = Rank[s[k].priority]
    <2>1. Rank[s[i].priority] \in Int
      BY <1>2, RankProperties
    <2>2. Rank[s[j].priority] \in Int
      BY <1>2, RankProperties
    <2>3. Rank[s[k].priority] \in Int
      BY <1>2, RankProperties
    <2> QED BY ONLY <2>1, <2>2, <2>3
  <1>4. Earlier(s, i, j) <=> a > b \/ (a = b /\ i < j)
    BY <1>3 DEF Earlier
  <1>5. Earlier(s, j, i) <=> b > a \/ (b = a /\ j < i)
    BY <1>3 DEF Earlier
  <1>6. Earlier(s, j, k) <=> b > c \/ (b = c /\ j < k)
    BY <1>3 DEF Earlier
  <1>7. Earlier(s, i, k) <=> a > c \/ (a = c /\ i < k)
    BY <1>3 DEF Earlier
  <1>8. Earlier(s, i, i) <=> a > a \/ (a = a /\ i < i)
    BY <1>3 DEF Earlier
  <1>9. ~Earlier(s, i, i)
    BY ONLY a \in Int, <1>1, <1>8
  <1>10. i # j => Earlier(s, i, j) \/ Earlier(s, j, i)
    BY ONLY a \in Int, b \in Int, <1>1, <1>4, <1>5
  <1>11. Earlier(s, i, j) /\ Earlier(s, j, k) => Earlier(s, i, k)
    BY <1>1, <1>4, <1>6, <1>7
  <1> QED BY <1>9, <1>10, <1>11

\* Every place is taken, and what comes earlier has the smaller one.
LEMMA Places ==
  ASSUME NEW s \in Seq(Msg)
  PROVE  /\ \A i \in DOMAIN s : Place(s, i) \in DOMAIN s
         /\ \A i, j \in DOMAIN s : Earlier(s, i, j) => Place(s, i) < Place(s, j)
         /\ \A k \in DOMAIN s : \E i \in DOMAIN s : Place(s, i) = k
  <1>1. PICK n \in Nat : n = Len(s) /\ DOMAIN s = 1 .. n
    OBVIOUS
  <1>2. IsFiniteSet(1 .. n) /\ Cardinality(1 .. n) = n
    BY FS_Interval
  <1> DEFINE B(i) == {j \in DOMAIN s : Earlier(s, j, i)}
  <1>3. ASSUME NEW i \in DOMAIN s
        PROVE  IsFiniteSet(B(i)) /\ Cardinality(B(i)) \in 0 .. n - 1
    <2>1. B(i) \in SUBSET ((1 .. n) \ {i})
      BY <1>1, EarlierOrders
    <2>2. IsFiniteSet((1 .. n) \ {i}) /\ Cardinality((1 .. n) \ {i}) = n - 1
      BY <1>1, <1>2, FS_RemoveElement
    <2> HIDE DEF B
    <2>3. IsFiniteSet(B(i)) /\ Cardinality(B(i)) <= n - 1
      BY <2>1, <2>2, FS_Subset
    <2> QED BY <2>3, FS_CardinalityType
  <1>4. \A i \in DOMAIN s : Place(s, i) = Cardinality(B(i)) + 1
    BY DEF Place
  <1>5. ASSUME NEW i \in DOMAIN s, NEW j \in DOMAIN s, Earlier(s, i, j)
        PROVE  Cardinality(B(i)) < Cardinality(B(j))
    <2>1. B(i) \in SUBSET B(j)
      BY <1>5, EarlierOrders
    <2>2. i \in B(j) /\ i \notin B(i)
      BY <1>5, EarlierOrders
    <2> HIDE DEF B
    <2>3. Cardinality(B(i)) <= Cardinality(B(j)) /\ Cardinality(B(i)) # Cardinality(B(j))
      BY <1>3, <2>1, <2>2, FS_Subset
    <2> QED BY <1>3, <2>3
  <1> HIDE DEF B
  <1>6. \A i \in DOMAIN s : Place(s, i) \in 1 .. n
    BY <1>3, <1>4
  <1>7. \A i, j \in DOMAIN s : Earlier(s, i, j) => Place(s, i) < Place(s, j)
    BY <1>3, <1>4, <1>5
  <1> DEFINE f == [i \in 1 .. n |-> Place(s, i)]
  <1>8. f \in Injection(1 .. n, 1 .. n)
    <2>1. f \in [1 .. n -> 1 .. n]
      BY <1>1, <1>6
    <2>2. ASSUME NEW i \in 1 .. n, NEW j \in 1 .. n, i # j
          PROVE  f[i] # f[j]
      <3>1. Earlier(s, i, j) \/ Earlier(s, j, i)
        BY <1>1, <2>2, EarlierOrders
      <3>2. Place(s, i) \in Int /\ Place(s, j) \in Int
        BY <1>1, <1>6
      <3>3. Place(s, i) # Place(s, j)
        BY <1>1, <1>7, <3>1, <3>2
      <3> QED BY <3>3
    <2> QED BY <2>1, <2>2 DEF Injection, IsInjective
  <1>9. f \in Surjection(1 .. n, 1 .. n)
    BY <1>2, <1>8, FS_Injection
  <1>10. \A k \in 1 .. n : \E i \in 1 .. n : f[i] = k
    BY <1>9 DEF Surjection
  <1> QED BY <1>1, <1>6, <1>7, <1>10

\* Highest priority first, and in the order of sending within a priority.
Ordered(t) ==
    \A i, j \in DOMAIN t : i < j =>
      \/ Rank[t[i].priority] > Rank[t[j].priority]
      \/ t[i].priority = t[j].priority /\ t[i].id < t[j].id

\* Receiving drains exactly what was there, in order.
LEMMA Sorting ==
  ASSUME NEW s \in Seq(Msg), \A i, j \in DOMAIN s : i < j => s[i].id < s[j].id
  PROVE  LET t == by_priority(s)
         IN  /\ t \in Seq(Msg) /\ Ordered(t)
             /\ \A k \in DOMAIN t : \E i \in DOMAIN s : t[k] = s[i]
             /\ \A i \in DOMAIN s : \E k \in DOMAIN t : t[k] = s[i]
             /\ \A k, l \in DOMAIN t : k # l => t[k].id # t[l].id
  <1> DEFINE t == by_priority(s)
             At(k) == CHOOSE i \in DOMAIN s : Place(s, i) = k
  <1>1. PICK n \in Nat : n = Len(s) /\ DOMAIN s = 1 .. n
    OBVIOUS
  <1>2. DOMAIN t = 1 .. n /\ \A k \in 1 .. n : t[k] = s[At(k)]
    BY <1>1 DEF by_priority
  <1>3. \A k \in 1 .. n : At(k) \in DOMAIN s /\ Place(s, At(k)) = k
    BY <1>1, Places
  <1> HIDE DEF At, t
  <1>4. t \in Seq(Msg)
    <2>1. \A k \in 1 .. n : t[k] \in Msg
      BY <1>2, <1>3
    <2>2. t = [k \in 1 .. n |-> s[At(k)]]
      BY <1>1 DEF t, At, by_priority
    <2>3. \A k \in 1 .. n : s[At(k)] \in Msg
      BY <1>3
    <2>4. [k \in 1 .. n |-> s[At(k)]] \in Seq(Msg)
      BY <2>3
    <2> QED BY <2>2, <2>4
  <1>5. \A i, j \in DOMAIN s : Place(s, i) = Place(s, j) => i = j
    <2> SUFFICES ASSUME NEW i \in DOMAIN s, NEW j \in DOMAIN s, Place(s, i) = Place(s, j), i # j
                 PROVE  FALSE
      OBVIOUS
    <2>1. Earlier(s, i, j) \/ Earlier(s, j, i)
      BY EarlierOrders
    <2>2. Place(s, i) \in Int /\ Place(s, j) \in Int
      BY <1>1, Places
    <2>3. /\ Earlier(s, i, j) => Place(s, i) < Place(s, j)
          /\ Earlier(s, j, i) => Place(s, j) < Place(s, i)
      BY Places
    <2> QED BY <2>1, <2>2, <2>3
  <1>6. ASSUME NEW i \in DOMAIN s
        PROVE  \E k \in DOMAIN t : t[k] = s[i]
    <2>1. Place(s, i) \in 1 .. n
      BY <1>1, Places
    <2>2. At(Place(s, i)) = i
      BY <1>3, <1>5, <2>1
    <2> QED BY <1>2, <2>1, <2>2
  <1>7. ASSUME NEW k \in 1 .. n, NEW l \in 1 .. n, k < l
        PROVE  \/ Rank[t[k].priority] > Rank[t[l].priority]
               \/ t[k].priority = t[l].priority /\ t[k].id < t[l].id
    <2>1. PICK i, j \in DOMAIN s : i = At(k) /\ j = At(l) /\ Place(s, i) = k /\ Place(s, j) = l
      BY <1>3
    <2>2. i # j
      BY <1>7, <2>1
    <2>3. ~Earlier(s, j, i)
      BY <1>7, <2>1, Places
    <2>4. Earlier(s, i, j)
      BY <2>2, <2>3, EarlierOrders
    <2>5. s[i] \in Msg /\ s[j] \in Msg
      BY <2>1
    <2> QED BY <1>2, <2>1, <2>4, <2>5, RankProperties DEF Earlier
  <1>8. Ordered(t)
    BY <1>2, <1>7 DEF Ordered
  <1>9. ASSUME NEW k \in DOMAIN t, NEW l \in DOMAIN t, k # l
        PROVE  t[k].id # t[l].id
    <2>1. PICK i, j \in DOMAIN s : i = At(k) /\ j = At(l) /\ Place(s, i) = k /\ Place(s, j) = l
      BY <1>2, <1>3
    <2>2. i # j /\ i \in Nat /\ j \in Nat
      BY <1>1, <1>9, <2>1
    <2>3. s[i].id \in Nat /\ s[j].id \in Nat
      <3>1. s[i] \in Msg /\ s[j] \in Msg
        BY <2>1
      <3> QED BY <3>1 DEF Msg
    <2>4. s[i].id # s[j].id
      <3>1. CASE i < j
        BY <2>3, <3>1
      <3>2. CASE j < i
        BY <2>3, <3>2
      <3> QED BY <2>2, <3>1, <3>2
    <2> QED BY <1>2, <2>1, <2>4
  <1> QED BY <1>2, <1>3, <1>4, <1>6, <1>8, <1>9 DEF t

-----------------------------------------------------------------------------
(* The boxes of one agent.                                                  *)

\* bs, the batches of agent a and its inbox, hold what st says was sent to a,
\* each message once and every batch after the ones before.
WellBoxed(bs, a, st) ==
    /\ bs \in Seq(Seq(Msg))
    /\ \A b \in DOMAIN bs : \A i \in DOMAIN bs[b] :
         \E k \in DOMAIN st : st[k] = bs[b][i] /\ st[k].dst = a
    /\ \A k \in DOMAIN st : st[k].dst = a =>
         \E b \in DOMAIN bs : \E i \in DOMAIN bs[b] : bs[b][i] = st[k]
    /\ \A b, d \in DOMAIN bs : b < d =>
         \A i \in DOMAIN bs[b], j \in DOMAIN bs[d] : bs[b][i].id < bs[d][j].id
    /\ \A b \in DOMAIN bs : \A i, j \in DOMAIN bs[b] : i # j => bs[b][i].id # bs[b][j].id

\* What Append does, index by index.
LEMMA AppendParts ==
  ASSUME NEW S, NEW s \in Seq(S), NEW x \in S
  PROVE  /\ Append(s, x) \in Seq(S) /\ Len(s) \in Nat
         /\ DOMAIN s = 1 .. Len(s) /\ DOMAIN Append(s, x) = 1 .. Len(s) + 1
         /\ Append(s, x)[Len(s) + 1] = x
         /\ \A i \in 1 .. Len(s) : Append(s, x)[i] = s[i]
  OBVIOUS

\* The last box of new has m at `at`, the others are those of old, and nst has
\* m besides what st has.
BoxGrown(old, new, last, at, m, st, nst) ==
    /\ DOMAIN new = DOMAIN old /\ last \in DOMAIN old
    /\ at \in DOMAIN new[last] /\ new[last][at] = m
    /\ \A b \in DOMAIN old : ~(last < b)
    /\ \A b \in DOMAIN old : \A i \in DOMAIN old[b] : i \in DOMAIN new[b] /\ new[b][i] = old[b][i]
    /\ \A b \in DOMAIN old : \A i \in DOMAIN new[b] :
         \/ i \in DOMAIN old[b] /\ new[b][i] = old[b][i]
         \/ b = last /\ i = at
    /\ \A k \in DOMAIN st : k \in DOMAIN nst /\ nst[k] = st[k]
    /\ \A k \in DOMAIN nst : (k \in DOMAIN st /\ nst[k] = st[k]) \/ nst[k] = m
    /\ \E k \in DOMAIN nst : nst[k] = m
    /\ \A k \in DOMAIN st : st[k].id < m.id /\ st[k].id # m.id

\* One message more in the last box, and in what was sent.
LEMMA OneMoreInBox ==
  ASSUME NEW old, NEW new \in Seq(Seq(Msg)), NEW st, NEW nst, NEW m, NEW a, NEW last, NEW at,
         m.dst = a, WellBoxed(old, a, st), BoxGrown(old, new, last, at, m, st, nst)
  PROVE  WellBoxed(new, a, nst)
  <1> USE DEF BoxGrown
  <1>1. \A b \in DOMAIN old : \A i \in DOMAIN old[b] :
          \E k \in DOMAIN st : st[k] = old[b][i] /\ st[k].dst = a
    BY DEF WellBoxed
  <1>2. \A b \in DOMAIN new : \A i \in DOMAIN new[b] :
          \E k \in DOMAIN nst : nst[k] = new[b][i] /\ nst[k].dst = a
    <2> SUFFICES ASSUME NEW b \in DOMAIN new, NEW i \in DOMAIN new[b]
                 PROVE  \E k \in DOMAIN nst : nst[k] = new[b][i] /\ nst[k].dst = a
      OBVIOUS
    <2>1. CASE i \in DOMAIN old[b] /\ new[b][i] = old[b][i]
      <3>1. PICK k \in DOMAIN st : st[k] = old[b][i] /\ st[k].dst = a
        BY <1>1, <2>1
      <3> QED BY <2>1, <3>1
    <2>2. CASE new[b][i] = m
      BY <2>2
    <2> QED BY <2>1, <2>2
  <1>3. \A k \in DOMAIN nst : nst[k].dst = a =>
          \E b \in DOMAIN new : \E i \in DOMAIN new[b] : new[b][i] = nst[k]
    <2> SUFFICES ASSUME NEW k \in DOMAIN nst, nst[k].dst = a
                 PROVE  \E b \in DOMAIN new : \E i \in DOMAIN new[b] : new[b][i] = nst[k]
      OBVIOUS
    <2>1. CASE k \in DOMAIN st /\ nst[k] = st[k]
      <3>1. PICK b \in DOMAIN old : \E i \in DOMAIN old[b] : old[b][i] = st[k]
        BY <2>1 DEF WellBoxed
      <3> QED BY <2>1, <3>1
    <2>2. CASE nst[k] = m
      BY <2>2
    <2> QED BY <2>1, <2>2
  <1>4. \A b, d \in DOMAIN new : b < d =>
          \A i \in DOMAIN new[b], j \in DOMAIN new[d] : new[b][i].id < new[d][j].id
    <2> SUFFICES ASSUME NEW b \in DOMAIN old, NEW d \in DOMAIN old, b < d,
                        NEW i \in DOMAIN new[b], NEW j \in DOMAIN new[d]
                 PROVE  new[b][i].id < new[d][j].id
      OBVIOUS
    <2>1. i \in DOMAIN old[b] /\ new[b][i] = old[b][i]
      OBVIOUS
    <2>2. CASE j \in DOMAIN old[d] /\ new[d][j] = old[d][j]
      <3>1. old[b][i].id < old[d][j].id
        BY <2>1, <2>2 DEF WellBoxed
      <3> QED BY <2>1, <2>2, <3>1
    <2>3. CASE new[d][j] = m
      <3>1. PICK k \in DOMAIN st : st[k] = old[b][i]
        BY <1>1, <2>1
      <3> QED BY <2>1, <2>3, <3>1
    <2> QED BY <2>2, <2>3
  <1>5. \A b \in DOMAIN new : \A i, j \in DOMAIN new[b] : i # j => new[b][i].id # new[b][j].id
    <2> SUFFICES ASSUME NEW b \in DOMAIN old, NEW i \in DOMAIN new[b], NEW j \in DOMAIN new[b], i # j
                 PROVE  new[b][i].id # new[b][j].id
      OBVIOUS
    <2>1. ASSUME NEW x \in DOMAIN old[b]
          PROVE  old[b][x].id # m.id
      <3>1. PICK k \in DOMAIN st : st[k] = old[b][x]
        BY <1>1, <2>1
      <3> QED BY <3>1
    <2>2. CASE i \in DOMAIN old[b] /\ j \in DOMAIN old[b] /\ new[b][i] = old[b][i] /\ new[b][j] = old[b][j]
      <3>1. \A x, y \in DOMAIN old[b] : x # y => old[b][x].id # old[b][y].id
        BY DEF WellBoxed
      <3> QED BY <2>2, <3>1
    <2>3. CASE i \in DOMAIN old[b] /\ new[b][i] = old[b][i] /\ new[b][j] = m
      BY <2>1, <2>3
    <2>4. CASE j \in DOMAIN old[b] /\ new[b][j] = old[b][j] /\ new[b][i] = m
      BY <2>1, <2>4
    <2> QED BY <2>2, <2>3, <2>4
  <1> QED BY <1>2, <1>3, <1>4, <1>5 DEF WellBoxed

\* A message of agent a goes to the end of its inbox.
LEMMA BoxGrows ==
  ASSUME NEW bs \in Seq(Seq(Msg)), NEW box \in Seq(Msg), NEW st \in Seq(Msg), NEW m \in Msg,
         NEW a, m.dst = a, WellBoxed(Append(bs, box), a, st),
         \A k \in DOMAIN st : st[k].id < m.id
  PROVE  WellBoxed(Append(bs, Append(box, m)), a, Append(st, m))
  <1> DEFINE old == Append(bs, box)
             nbox == Append(box, m)
             new == Append(bs, nbox)
             nst == Append(st, m)
  <1>1. PICK n \in Nat : /\ n = Len(bs) /\ DOMAIN old = 1 .. n + 1
                          /\ old[n + 1] = box /\ \A b \in 1 .. n : old[b] = bs[b]
    BY AppendParts
  <1>2. PICK l \in Nat : /\ l = Len(box) /\ DOMAIN box = 1 .. l /\ DOMAIN nbox = 1 .. l + 1
                          /\ nbox \in Seq(Msg)
                          /\ nbox[l + 1] = m /\ \A i \in 1 .. l : nbox[i] = box[i]
    BY AppendParts
  <1>3. PICK t \in Nat : /\ t = Len(st) /\ DOMAIN st = 1 .. t /\ DOMAIN nst = 1 .. t + 1
                          /\ nst[t + 1] = m /\ \A k \in 1 .. t : nst[k] = st[k]
    BY AppendParts
  <1>4. /\ new \in Seq(Seq(Msg)) /\ DOMAIN new = 1 .. n + 1
        /\ new[n + 1] = nbox /\ \A b \in 1 .. n : new[b] = bs[b]
    BY <1>1, <1>2, AppendParts
  <1>5. WellBoxed(old, a, st)
    OBVIOUS
  <1> HIDE DEF old, nbox, new, nst
  <1>6. PICK last \in Nat, at \in Nat : last = n + 1 /\ at = l + 1
    BY <1>1, <1>2
  <1>7. \A b \in DOMAIN old : \A i \in DOMAIN old[b] : i \in DOMAIN new[b] /\ new[b][i] = old[b][i]
    <2> SUFFICES ASSUME NEW b \in 1 .. n + 1, NEW i \in DOMAIN old[b]
                 PROVE  i \in DOMAIN new[b] /\ new[b][i] = old[b][i]
      BY <1>1
    <2>1. CASE b \in 1 .. n
      BY <1>1, <1>4, <2>1
    <2>2. CASE b = n + 1
      <3>1. old[b] = box /\ new[b] = nbox
        BY <1>1, <1>4, <2>2
      <3> QED BY <1>2, <3>1
    <2> QED BY <2>1, <2>2
  <1>8. \A b \in DOMAIN old : \A i \in DOMAIN new[b] :
          \/ i \in DOMAIN old[b] /\ new[b][i] = old[b][i]
          \/ b = last /\ i = at
    <2> SUFFICES ASSUME NEW b \in 1 .. n + 1, NEW i \in DOMAIN new[b]
                 PROVE  \/ i \in DOMAIN old[b] /\ new[b][i] = old[b][i]
                        \/ b = last /\ i = at
      BY <1>1
    <2>1. CASE b \in 1 .. n
      BY <1>1, <1>4, <2>1
    <2>2. CASE b = n + 1
      <3>1. old[b] = box /\ new[b] = nbox
        BY <1>1, <1>4, <2>2
      <3> QED BY <1>2, <1>6, <2>2, <3>1
    <2> QED BY <2>1, <2>2
  <1>9. /\ DOMAIN new = DOMAIN old /\ last \in DOMAIN old
        /\ at \in DOMAIN new[last] /\ new[last][at] = m
        /\ \A b \in DOMAIN old : ~(last < b)
    BY <1>1, <1>2, <1>4, <1>6
  <1>10. /\ \A k \in DOMAIN st : k \in DOMAIN nst /\ nst[k] = st[k]
         /\ \A k \in DOMAIN nst : (k \in DOMAIN st /\ nst[k] = st[k]) \/ nst[k] = m
         /\ \E k \in DOMAIN nst : nst[k] = m
    BY <1>3
  <1>11. \A k \in DOMAIN st : st[k].id < m.id /\ st[k].id # m.id
    <2> SUFFICES ASSUME NEW k \in DOMAIN st PROVE st[k].id # m.id
      OBVIOUS
    <2>1. st[k] \in Msg
      OBVIOUS
    <2> QED BY <2>1 DEF Msg
  <1>12. BoxGrown(old, new, last, at, m, st, nst)
    BY <1>7, <1>8, <1>9, <1>10, <1>11, Zenon DEF BoxGrown
  <1>13. WellBoxed(new, a, nst)
    BY <1>4, <1>5, <1>12, OneMoreInBox
  <1> QED BY <1>13 DEF new, nbox, nst

\* A message of another agent does not concern these boxes.
LEMMA BoxStays ==
  ASSUME NEW bs, NEW st \in Seq(Msg), NEW m \in Msg, NEW a, m.dst # a, WellBoxed(bs, a, st)
  PROVE  WellBoxed(bs, a, Append(st, m))
  <1> DEFINE nst == Append(st, m)
  <1>1. PICK t \in Nat : /\ t = Len(st) /\ DOMAIN st = 1 .. t /\ DOMAIN nst = 1 .. t + 1
                          /\ nst[t + 1] = m /\ \A k \in 1 .. t : nst[k] = st[k]
    BY AppendParts
  <1> HIDE DEF nst
  <1>2. \A b \in DOMAIN bs : \A i \in DOMAIN bs[b] :
           \E k \in DOMAIN nst : nst[k] = bs[b][i] /\ nst[k].dst = a
    <2> SUFFICES ASSUME NEW b \in DOMAIN bs, NEW i \in DOMAIN bs[b]
                 PROVE  \E k \in 1 .. t + 1 : nst[k] = bs[b][i] /\ nst[k].dst = a
      BY <1>1
    <2>1. PICK k \in 1 .. t : st[k] = bs[b][i] /\ st[k].dst = a
      BY <1>1 DEF WellBoxed
    <2> QED BY <1>1, <2>1
  <1>3. \A k \in DOMAIN nst : nst[k].dst = a =>
           \E b \in DOMAIN bs : \E i \in DOMAIN bs[b] : bs[b][i] = nst[k]
    <2> SUFFICES ASSUME NEW k \in 1 .. t + 1, nst[k].dst = a
                 PROVE  \E b \in DOMAIN bs : \E i \in DOMAIN bs[b] : bs[b][i] = nst[k]
      BY <1>1
    <2>1. k \in 1 .. t
      BY <1>1
    <2> QED BY <1>1, <2>1 DEF WellBoxed
  <1> QED BY <1>2, <1>3 DEF WellBoxed, nst

\* The last box of new has the messages of the last box of old, each once, the
\* others are those of old, and any further one is empty.
Replaced(old, new, last) ==
    /\ last \in DOMAIN old
    /\ \A b \in DOMAIN old : b \in DOMAIN new /\ (b # last => new[b] = old[b])
    /\ \A b \in DOMAIN new : \A i \in DOMAIN new[b] : b \in DOMAIN old
    /\ \A i \in DOMAIN new[last] : \E j \in DOMAIN old[last] : new[last][i] = old[last][j]
    /\ \A i \in DOMAIN old[last] : \E j \in DOMAIN new[last] : new[last][j] = old[last][i]
    /\ \A i, j \in DOMAIN new[last] : i # j => new[last][i].id # new[last][j].id

\* The order in which a batch comes out is no matter to what is where.
LEMMA BoxReplaced ==
  ASSUME NEW old, NEW new \in Seq(Seq(Msg)), NEW st, NEW a, NEW last,
         WellBoxed(old, a, st), Replaced(old, new, last)
  PROVE  WellBoxed(new, a, st)
  <1> USE DEF Replaced
  <1>1. \A b \in DOMAIN new : \A i \in DOMAIN new[b] :
          b \in DOMAIN old /\ \E j \in DOMAIN old[b] : new[b][i] = old[b][j]
    <2> SUFFICES ASSUME NEW b \in DOMAIN old, NEW i \in DOMAIN new[b]
                 PROVE  \E j \in DOMAIN old[b] : new[b][i] = old[b][j]
      OBVIOUS
    <2>1. CASE b = last
      BY <2>1
    <2>2. CASE b # last
      BY <2>2
    <2> QED BY <2>1, <2>2
  <1>2. \A b \in DOMAIN new : \A i \in DOMAIN new[b] :
          \E k \in DOMAIN st : st[k] = new[b][i] /\ st[k].dst = a
    BY <1>1 DEF WellBoxed
  <1>3. \A k \in DOMAIN st : st[k].dst = a =>
          \E b \in DOMAIN new : \E i \in DOMAIN new[b] : new[b][i] = st[k]
    <2> SUFFICES ASSUME NEW k \in DOMAIN st, st[k].dst = a
                 PROVE  \E b \in DOMAIN new : \E i \in DOMAIN new[b] : new[b][i] = st[k]
      OBVIOUS
    <2>1. PICK b \in DOMAIN old : \E i \in DOMAIN old[b] : old[b][i] = st[k]
      BY DEF WellBoxed
    <2>2. CASE b = last
      BY <2>1, <2>2
    <2>3. CASE b # last
      BY <2>1, <2>3
    <2> QED BY <2>2, <2>3
  <1>4. \A b, d \in DOMAIN new : b < d =>
          \A i \in DOMAIN new[b], j \in DOMAIN new[d] : new[b][i].id < new[d][j].id
    <2> SUFFICES ASSUME NEW b \in DOMAIN new, NEW d \in DOMAIN new, b < d,
                        NEW i \in DOMAIN new[b], NEW j \in DOMAIN new[d]
                 PROVE  new[b][i].id < new[d][j].id
      OBVIOUS
    <2>1. PICK x \in DOMAIN old[b] : b \in DOMAIN old /\ new[b][i] = old[b][x]
      BY <1>1
    <2>2. PICK y \in DOMAIN old[d] : d \in DOMAIN old /\ new[d][j] = old[d][y]
      BY <1>1
    <2>3. old[b][x].id < old[d][y].id
      BY <2>1, <2>2 DEF WellBoxed
    <2> QED BY <2>1, <2>2, <2>3
  <1>5. \A b \in DOMAIN new : \A i, j \in DOMAIN new[b] : i # j => new[b][i].id # new[b][j].id
    <2> SUFFICES ASSUME NEW b \in DOMAIN old, NEW i \in DOMAIN new[b], NEW j \in DOMAIN new[b], i # j
                 PROVE  new[b][i].id # new[b][j].id
      OBVIOUS
    <2>1. CASE b = last
      BY <2>1
    <2>2. CASE b # last
      <3>1. new[b] = old[b]
        BY <2>2
      <3>2. i \in DOMAIN old[b] /\ j \in DOMAIN old[b]
        BY <3>1
      <3>3. old[b][i].id # old[b][j].id
        BY <3>2 DEF WellBoxed
      <3> QED BY <3>1, <3>3
    <2> QED BY <2>1, <2>2
  <1> QED BY <1>2, <1>3, <1>4, <1>5 DEF WellBoxed

\* Receiving turns what waited into a batch and leaves an empty inbox.
LEMMA BoxDrained ==
  ASSUME NEW bs \in Seq(Seq(Msg)), NEW box \in Seq(Msg), NEW t \in Seq(Msg), NEW a, NEW st,
         WellBoxed(Append(bs, box), a, st),
         \A k \in DOMAIN t : \E i \in DOMAIN box : t[k] = box[i],
         \A i \in DOMAIN box : \E k \in DOMAIN t : t[k] = box[i],
         \A k, l \in DOMAIN t : k # l => t[k].id # t[l].id
  PROVE  WellBoxed(Append(Append(bs, t), <<>>), a, st)
  <1> DEFINE old == Append(bs, box)
             mid == Append(bs, t)
             none == <<>>
             new == Append(mid, none)
  <1>1. PICK n \in Nat : /\ n = Len(bs) /\ DOMAIN bs = 1 .. n /\ DOMAIN old = 1 .. n + 1
                          /\ old[n + 1] = box /\ \A b \in 1 .. n : old[b] = bs[b]
    <2> HIDE DEF mid, none, new
    <2> QED BY AppendParts
  <1>2. /\ mid \in Seq(Seq(Msg)) /\ Len(mid) = n + 1
        /\ mid[n + 1] = t /\ \A b \in 1 .. n : mid[b] = bs[b]
    BY <1>1
  <1>3. none \in Seq(Msg) /\ DOMAIN none = {}
    OBVIOUS
  <1>4. WellBoxed(old, a, st)
    OBVIOUS
  <1> HIDE DEF none, old, mid
  <1>5. /\ new \in Seq(Seq(Msg)) /\ DOMAIN new = 1 .. n + 2
        /\ new[n + 2] = none /\ \A b \in 1 .. n + 1 : new[b] = mid[b]
    BY <1>2, <1>3
  <1> HIDE DEF new
  <1>6. PICK last \in Nat : last = n + 1
    BY <1>1
  <1>7. \A b \in DOMAIN old : b \in DOMAIN new /\ (b # last => new[b] = old[b])
    <2> SUFFICES ASSUME NEW b \in 1 .. n + 1
                 PROVE  b \in DOMAIN new /\ (b # last => new[b] = old[b])
      BY <1>1
    <2>1. b \in 1 .. n + 2 /\ new[b] = mid[b]
      BY <1>1, <1>5
    <2>2. b # last => b \in 1 .. n
      BY <1>1, <1>6
    <2> QED BY <1>1, <1>2, <1>5, <2>1, <2>2
  <1>8. \A b \in DOMAIN new : \A i \in DOMAIN new[b] : b \in DOMAIN old
    BY <1>1, <1>3, <1>5
  <1>9. last \in DOMAIN old /\ new[last] = t /\ old[last] = box
    <2>1. last \in 1 .. n + 1
      BY <1>1, <1>6
    <2>2. new[last] = mid[last]
      BY <1>5, <2>1
    <2> QED BY <1>1, <1>2, <1>6, <2>1, <2>2
  <1>10. /\ \A i \in DOMAIN new[last] : \E j \in DOMAIN old[last] : new[last][i] = old[last][j]
         /\ \A i \in DOMAIN old[last] : \E j \in DOMAIN new[last] : new[last][j] = old[last][i]
         /\ \A i, j \in DOMAIN new[last] : i # j => new[last][i].id # new[last][j].id
    BY <1>9
  <1>11. Replaced(old, new, last)
    BY <1>7, <1>8, <1>9, <1>10, Zenon DEF Replaced
  <1>12. WellBoxed(new, a, st)
    BY <1>4, <1>5, <1>11, BoxReplaced
  <1> QED BY <1>12 DEF new, mid, none

\* A message sent is at one place.
LEMMA WellBoxedOnce ==
  ASSUME NEW bs, NEW a, NEW st, WellBoxed(bs, a, st), NEW k \in DOMAIN st, st[k].dst = a
  PROVE  AtOnePlace(bs, st[k])
  <1>1. PICK b \in DOMAIN bs : \E i \in DOMAIN bs[b] : bs[b][i] = st[k]
    BY DEF WellBoxed
  <1>2. PICK i \in DOMAIN bs[b] : bs[b][i] = st[k]
    BY <1>1
  <1>3. ASSUME NEW d \in DOMAIN bs, NEW j \in DOMAIN bs[d], bs[d][j] = st[k]
        PROVE  d = b /\ j = i
    <2>1. bs \in Seq(Seq(Msg)) /\ bs[b] \in Seq(Msg)
      BY <1>1 DEF WellBoxed
    <2>2. b \in Nat /\ d \in Nat
      BY <1>1, <2>1
    <2>3. bs[b][i] \in Msg
      BY <1>2, <2>1
    <2>4. st[k].id \in Nat
      BY <1>2, <2>3 DEF Msg
    <2>5. ~(st[k].id < st[k].id)
      BY <2>4
    <2>6. ~(b < d)
      <3> SUFFICES ASSUME b < d PROVE FALSE
        OBVIOUS
      <3>1. bs[b][i].id < bs[d][j].id
        BY <1>1, <1>2, <1>3 DEF WellBoxed
      <3> QED BY <1>2, <1>3, <2>5, <3>1
    <2>7. ~(d < b)
      <3> SUFFICES ASSUME d < b PROVE FALSE
        OBVIOUS
      <3>1. bs[d][j].id < bs[b][i].id
        BY <1>1, <1>2, <1>3 DEF WellBoxed
      <3> QED BY <1>2, <1>3, <2>5, <3>1
    <2>8. d = b
      BY <2>2, <2>6, <2>7
    <2>9. j # i => bs[b][j].id # bs[b][i].id
      BY <1>1, <1>2, <1>3, <2>8 DEF WellBoxed
    <2> QED BY <1>2, <1>3, <2>8, <2>9
  <1> QED BY <1>1, <1>2, <1>3 DEF AtOnePlace
-----------------------------------------------------------------------------
\* t is s with x at the end.
Longer(t, s, x) ==
    \E n \in Nat : /\ n = Len(s) /\ DOMAIN s = 1 .. n /\ DOMAIN t = 1 .. n + 1
                   /\ t[n + 1] = x /\ \A i \in 1 .. n : t[i] = s[i]

LEMMA Appended ==
  ASSUME NEW S, NEW s \in Seq(S), NEW x \in S
  PROVE  Longer(Append(s, x), s, x)
  <1> DEFINE t == Append(s, x)
  <1>1. /\ Len(s) \in Nat /\ DOMAIN s = 1 .. Len(s) /\ DOMAIN t = 1 .. Len(s) + 1
        /\ t[Len(s) + 1] = x /\ \A i \in 1 .. Len(s) : t[i] = s[i]
    BY AppendParts
  <1> HIDE DEF t
  <1>2. Longer(t, s, x)
    BY <1>1 DEF Longer
  <1> QED BY <1>2 DEF t

-----------------------------------------------------------------------------
(* The invariant of the mesh.                                               *)

MeshTypes ==
    /\ seq \in Nat /\ sent \in Seq(Msg)
    /\ DOMAIN inboxes \subseteq Peer
    /\ inboxes \in [DOMAIN inboxes -> Seq(Msg)]
    /\ received \in [Peer -> Seq(Seq(Msg))]
    /\ cursor \in [Cap -> Nat] /\ providers \in [Cap -> Seq(Peer)] /\ turns \in [Cap -> Seq(Peer)]

InOrder(s) == \A i, j \in DOMAIN s : i < j => s[i].id < s[j].id

\* The boxes of every agent hold what was sent to it.
BoxInv ==
    /\ \A k \in DOMAIN sent : sent[k].id < seq /\ sent[k].dst \in DOMAIN inboxes
    /\ \A a \in DOMAIN inboxes :
         WellBoxed(Append(received[a], inboxes[a]), a, sent) /\ InOrder(inboxes[a])
    /\ \A a \in Peer \ DOMAIN inboxes : received[a] = <<>>
    /\ \A a \in Peer : \A b \in DOMAIN received[a] : Ordered(received[a][b])

RoutedOf(s) == Cardinality({k \in DOMAIN s : s[k].priority = "normal"})

\* The turns are even, and a provider has an inbox.
TurnInv ==
    \A c \in Cap : /\ EvenTurns(providers[c], cursor[c], turns[c])
                    /\ \A p \in DOMAIN providers[c] : providers[c][p] \in DOMAIN inboxes

MeshInv == MeshTypes /\ BoxInv /\ delivered = RoutedOf(sent) /\ TurnInv

\* One more message counts when it was routed.
LEMMA OneMoreRouted ==
  ASSUME NEW s \in Seq(Msg), NEW m \in Msg
  PROVE  RoutedOf(Append(s, m)) = RoutedOf(s) + IF m.priority = "normal" THEN 1 ELSE 0
  <1> DEFINE t == Append(s, m)
             I == {k \in DOMAIN s : s[k].priority = "normal"}
             J == {k \in DOMAIN t : t[k].priority = "normal"}
  <1>1. PICK n \in Nat : n = Len(s) /\ DOMAIN s = 1 .. n
    OBVIOUS
  <1>2. DOMAIN t = 1 .. n + 1 /\ t[n + 1] = m /\ \A k \in 1 .. n : t[k] = s[k]
    BY <1>1
  <1>3. IsFiniteSet(1 .. n) /\ I \subseteq 1 .. n
    BY <1>1, FS_Interval
  <1>4. IsFiniteSet(I) /\ Cardinality(I) \in Nat
    BY <1>3, FS_Subset, FS_CardinalityType
  <1> HIDE DEF t
  <1>5. CASE m.priority = "normal"
    <2>1. J = I \cup {n + 1}
      BY <1>1, <1>2, <1>5
    <2>2. n + 1 \notin I
      BY <1>3
    <2> QED BY <1>4, <1>5, <2>1, <2>2, FS_AddElement DEF RoutedOf, t
  <1>6. CASE m.priority # "normal"
    <2>1. J = I
      BY <1>1, <1>2, <1>6
    <2>2. RoutedOf(t) = RoutedOf(s) /\ RoutedOf(s) \in Nat
      BY <1>4, <2>1 DEF RoutedOf
    <2> QED BY <1>6, <2>2 DEF t
  <1> QED BY <1>5, <1>6

\* Delivery appends to one inbox.
LEMMA SendKeepsBoxes ==
  ASSUME MeshTypes, BoxInv, NEW m \in Msg, m.id = seq, Send(m), seq' = seq + 1, UNCHANGED received
  PROVE  /\ BoxInv' /\ sent' \in Seq(Msg) /\ DOMAIN inboxes' = DOMAIN inboxes
         /\ inboxes' \in [DOMAIN inboxes -> Seq(Msg)]
  <1> DEFINE d == m.dst
  <1>1. /\ d \in DOMAIN inboxes /\ d \in Peer /\ sent' = Append(sent, m)
        /\ inboxes' = [inboxes EXCEPT ![d] = Append(@, m)]
    BY DEF Send, is_registered, MeshTypes
  <1>2. sent \in Seq(Msg) /\ inboxes[d] \in Seq(Msg) /\ received[d] \in Seq(Seq(Msg))
    BY <1>1 DEF MeshTypes
  <1>3. Append(inboxes[d], m) \in Seq(Msg) /\ sent' \in Seq(Msg)
    BY <1>1, <1>2
  <1>4. /\ DOMAIN inboxes' = DOMAIN inboxes /\ inboxes' \in [DOMAIN inboxes -> Seq(Msg)]
        /\ inboxes'[d] = Append(inboxes[d], m)
        /\ \A a \in DOMAIN inboxes : a # d => inboxes'[a] = inboxes[a]
    BY <1>1, <1>3 DEF MeshTypes
  <1>5. \A k \in DOMAIN sent : sent[k].id < m.id
    BY DEF BoxInv
  <1>6. seq \in Nat
    BY DEF MeshTypes
  <1>7. PICK t \in Nat : /\ t = Len(sent) /\ DOMAIN sent = 1 .. t /\ DOMAIN sent' = 1 .. t + 1
                          /\ sent'[t + 1] = m /\ \A k \in 1 .. t : sent'[k] = sent[k]
    <2>1. Longer(Append(sent, m), sent, m)
      BY <1>2, Appended
    <2> QED BY <1>1, <2>1 DEF Longer
  <1>8. \A k \in DOMAIN sent' : sent'[k].id < seq' /\ sent'[k].dst \in DOMAIN inboxes'
    <2> SUFFICES ASSUME NEW k \in 1 .. t + 1
                 PROVE  sent'[k].id < seq' /\ sent'[k].dst \in DOMAIN inboxes
      BY <1>4, <1>7
    <2>1. CASE k \in 1 .. t
      <3>1. sent[k] \in Msg /\ sent[k].id < seq /\ sent[k].dst \in DOMAIN inboxes
        BY <1>2, <1>7, <2>1 DEF BoxInv
      <3>2. sent[k].id \in Nat
        BY <3>1 DEF Msg
      <3> QED BY <1>6, <1>7, <2>1, <3>1, <3>2
    <2>2. CASE k = t + 1
      BY <1>1, <1>6, <1>7, <2>2
    <2> QED BY <2>1, <2>2
  <1>9. InOrder(Append(inboxes[d], m))
    <2> DEFINE box == inboxes[d]
               nbox == Append(box, m)
    <2>1. PICK l \in Nat : /\ l = Len(box) /\ DOMAIN box = 1 .. l /\ DOMAIN nbox = 1 .. l + 1
                            /\ nbox[l + 1] = m /\ \A i \in 1 .. l : nbox[i] = box[i]
      <3>1. Longer(nbox, box, m)
        BY <1>2, Appended
      <3> HIDE DEF nbox, box
      <3> QED BY <3>1 DEF Longer
    <2>2. ASSUME NEW i \in 1 .. l
          PROVE  box[i].id < m.id
      <3> DEFINE bs == Append(received[d], box)
      <3>1. Len(received[d]) + 1 \in DOMAIN bs /\ bs[Len(received[d]) + 1] = box
        BY <1>2, AppendParts
      <3>2. WellBoxed(bs, d, sent)
        BY <1>1 DEF BoxInv
      <3> HIDE DEF bs, box
      <3>3. \A j \in DOMAIN box : \E k \in DOMAIN sent : sent[k] = box[j]
        BY <3>1, <3>2 DEF WellBoxed
      <3>4. PICK k \in DOMAIN sent : sent[k] = box[i]
        BY <2>1, <3>3
      <3> QED BY <1>5, <3>4
    <2>3. InOrder(box)
      BY <1>1 DEF BoxInv
    <2> HIDE DEF box, nbox
    <2>4. ASSUME NEW i \in 1 .. l + 1, NEW j \in 1 .. l + 1, i < j
          PROVE  nbox[i].id < nbox[j].id
      <3>1. i \in 1 .. l
        BY <2>4
      <3>2. CASE j \in 1 .. l
        BY <2>1, <2>3, <2>4, <3>1, <3>2 DEF InOrder
      <3>3. CASE j = l + 1
        BY <2>1, <2>2, <3>1, <3>3
      <3> QED BY <3>2, <3>3
    <2>5. InOrder(nbox)
      BY <2>1, <2>4 DEF InOrder
    <2> QED BY <2>5 DEF nbox, box
  <1>10. ASSUME NEW a \in DOMAIN inboxes
         PROVE  WellBoxed(Append(received[a], inboxes'[a]), a, sent') /\ InOrder(inboxes'[a])
    <2>1. CASE a = d
      <3>1. WellBoxed(Append(received[d], inboxes[d]), d, sent)
        BY <1>1 DEF BoxInv
      <3>2. WellBoxed(Append(received[d], Append(inboxes[d], m)), d, Append(sent, m))
        BY <1>2, <1>5, <3>1, BoxGrows
      <3> QED BY <1>1, <1>4, <1>9, <2>1, <3>2
    <2>2. CASE a # d
      <3>1. WellBoxed(Append(received[a], inboxes[a]), a, sent) /\ InOrder(inboxes[a])
        BY DEF BoxInv
      <3>2. WellBoxed(Append(received[a], inboxes[a]), a, Append(sent, m))
        BY <1>2, <2>2, <3>1, BoxStays
      <3> QED BY <1>1, <1>4, <2>2, <3>1, <3>2
    <2> QED BY <2>1, <2>2
  <1> QED BY <1>3, <1>4, <1>8, <1>10 DEF BoxInv

\* A new inbox is empty, and nothing was sent to it yet.
LEMMA RegisterKeepsBoxes ==
  ASSUME MeshTypes, BoxInv, NEW a \in Peer, RegisterInbox(a), UNCHANGED <<received, sent, seq>>
  PROVE  /\ BoxInv' /\ DOMAIN inboxes' = DOMAIN inboxes \cup {a}
         /\ inboxes' \in [DOMAIN inboxes' -> Seq(Msg)]
  <1>1. /\ DOMAIN inboxes' = DOMAIN inboxes \cup {a}
        /\ \A x \in DOMAIN inboxes : inboxes'[x] = inboxes[x]
        /\ a \notin DOMAIN inboxes => inboxes'[a] = <<>>
        /\ inboxes' = [x \in DOMAIN inboxes \cup {a} |->
                         IF x \in DOMAIN inboxes THEN inboxes[x] ELSE <<>>]
    BY DEF RegisterInbox, is_registered
  <1>2. inboxes' \in [DOMAIN inboxes' -> Seq(Msg)]
    <2>1. \A x \in DOMAIN inboxes : inboxes[x] \in Seq(Msg)
      BY DEF MeshTypes
    <2>2. <<>> \in Seq(Msg)
      OBVIOUS
    <2> QED BY <1>1, <2>1, <2>2
  <1>3. ASSUME a \notin DOMAIN inboxes
        PROVE  WellBoxed(Append(received[a], <<>>), a, sent) /\ InOrder(<<>>)
    <2> DEFINE none == <<>>
               bs == Append(received[a], none)
    <2>1. received[a] = <<>>
      BY <1>3 DEF BoxInv
    <2>2. none \in Seq(Msg) /\ DOMAIN none = {}
      OBVIOUS
    <2>3. /\ bs \in Seq(Seq(Msg)) /\ DOMAIN bs = {1} /\ bs[1] = none
      BY <2>1, <2>2
    <2> HIDE DEF none, bs
    <2>4. \A k \in DOMAIN sent : sent[k].dst # a
      BY <1>3 DEF BoxInv
    <2>5. WellBoxed(bs, a, sent)
      BY <2>2, <2>3, <2>4 DEF WellBoxed
    <2>6. InOrder(none)
      BY <2>2 DEF InOrder
    <2> QED BY <2>5, <2>6 DEF none, bs
  <1>4. \A x \in DOMAIN inboxes' :
          WellBoxed(Append(received'[x], inboxes'[x]), x, sent') /\ InOrder(inboxes'[x])
    <2> SUFFICES ASSUME NEW x \in DOMAIN inboxes \cup {a}
                 PROVE  WellBoxed(Append(received[x], inboxes'[x]), x, sent) /\ InOrder(inboxes'[x])
      BY <1>1
    <2>1. CASE x \in DOMAIN inboxes
      <3>1. WellBoxed(Append(received[x], inboxes[x]), x, sent) /\ InOrder(inboxes[x])
        BY <2>1 DEF BoxInv
      <3> QED BY <1>1, <2>1, <3>1
    <2>2. CASE x \notin DOMAIN inboxes
      <3>1. x = a /\ inboxes'[x] = <<>>
        BY <1>1, <2>2
      <3> QED BY <1>3, <2>2, <3>1
    <2> QED BY <2>1, <2>2
  <1> QED BY <1>1, <1>2, <1>4 DEF BoxInv

\* What is drained becomes a batch in order.
LEMMA ReceiveKeepsBoxes ==
  ASSUME MeshTypes, BoxInv, NEW a \in Peer, Receive(a)
  PROVE  /\ BoxInv' /\ DOMAIN inboxes' = DOMAIN inboxes
         /\ inboxes' \in [DOMAIN inboxes -> Seq(Msg)] /\ received' \in [Peer -> Seq(Seq(Msg))]
  <1> DEFINE box == inboxes[a]
             t == by_priority(box)
             none == <<>>
  <1>1. /\ a \in DOMAIN inboxes /\ UNCHANGED <<sent, seq>>
        /\ inboxes' = [inboxes EXCEPT ![a] = none]
        /\ received' = [received EXCEPT ![a] = @ \o <<t>>]
    BY DEF Receive, is_registered
  <1>2. box \in Seq(Msg) /\ received[a] \in Seq(Seq(Msg)) /\ none \in Seq(Msg)
    BY <1>1 DEF MeshTypes
  <1>3. WellBoxed(Append(received[a], box), a, sent) /\ InOrder(box)
    BY <1>1 DEF BoxInv
  <1>4. /\ t \in Seq(Msg) /\ Ordered(t)
        /\ \A k \in DOMAIN t : \E i \in DOMAIN box : t[k] = box[i]
        /\ \A i \in DOMAIN box : \E k \in DOMAIN t : t[k] = box[i]
        /\ \A k, l \in DOMAIN t : k # l => t[k].id # t[l].id
    <2> HIDE DEF box
    <2> QED BY <1>2, <1>3, Sorting DEF InOrder
  <1> HIDE DEF t, box
  <1>5. received[a] \o <<t>> = Append(received[a], t)
    BY <1>2, <1>4, AppendIsConcat
  <1>6. WellBoxed(Append(Append(received[a], t), none), a, sent)
    BY <1>2, <1>3, <1>4, BoxDrained
  <1>7. Append(received[a], t) \in Seq(Seq(Msg))
    BY <1>2, <1>4
  <1> DEFINE nr == Append(received[a], t)
  <1>8. received' = [received EXCEPT ![a] = nr]
    BY <1>1, <1>5
  <1> HIDE DEF none
  <1>9. \A b \in DOMAIN nr : Ordered(nr[b])
    <2>1. Longer(nr, received[a], t)
      BY <1>2, <1>4, Appended
    <2> HIDE DEF nr
    <2>2. PICK n \in Nat : /\ n = Len(received[a]) /\ DOMAIN received[a] = 1 .. n
                            /\ DOMAIN nr = 1 .. n + 1 /\ nr[n + 1] = t
                            /\ \A b \in 1 .. n : nr[b] = received[a][b]
      BY <2>1 DEF Longer
    <2>3. ASSUME NEW b \in 1 .. n + 1 PROVE Ordered(nr[b])
      <3>1. CASE b \in 1 .. n
        BY <2>2, <3>1 DEF BoxInv
      <3>2. CASE b = n + 1
        BY <1>4, <2>2, <3>2
      <3> QED BY <3>1, <3>2
    <2> QED BY <2>2, <2>3
  <1> HIDE DEF nr
  <1>10. /\ received' \in [Peer -> Seq(Seq(Msg))] /\ received'[a] = nr
         /\ \A x \in Peer : x # a => received'[x] = received[x]
    BY <1>7, <1>8 DEF MeshTypes, nr
  <1>11. /\ DOMAIN inboxes' = DOMAIN inboxes /\ inboxes' \in [DOMAIN inboxes -> Seq(Msg)]
         /\ inboxes'[a] = none /\ \A x \in DOMAIN inboxes : x # a => inboxes'[x] = inboxes[x]
    BY <1>1, <1>2 DEF MeshTypes
  <1>12. ASSUME NEW x \in DOMAIN inboxes
         PROVE  WellBoxed(Append(received'[x], inboxes'[x]), x, sent) /\ InOrder(inboxes'[x])
    <2>1. CASE x = a
      <3>1. InOrder(none)
        BY DEF InOrder, none
      <3> QED BY <1>6, <1>10, <1>11, <2>1, <3>1 DEF nr
    <2>2. CASE x # a
      <3>1. WellBoxed(Append(received[x], inboxes[x]), x, sent) /\ InOrder(inboxes[x])
        BY DEF BoxInv
      <3>2. x \in Peer
        BY DEF MeshTypes
      <3> QED BY <1>10, <1>11, <2>2, <3>1, <3>2
    <2> QED BY <2>1, <2>2
  <1>13. \A x \in Peer \ DOMAIN inboxes' : received'[x] = <<>>
    BY <1>1, <1>10, <1>11 DEF BoxInv
  <1>14. \A x \in Peer : \A b \in DOMAIN received'[x] : Ordered(received'[x][b])
    BY <1>9, <1>10 DEF BoxInv
  <1>15. \A k \in DOMAIN sent' : sent'[k].id < seq' /\ sent'[k].dst \in DOMAIN inboxes'
    BY <1>1, <1>11 DEF BoxInv
  <1>16. \A x \in DOMAIN inboxes' :
           WellBoxed(Append(received'[x], inboxes'[x]), x, sent') /\ InOrder(inboxes'[x])
    BY <1>1, <1>11, <1>12
  <1>17. BoxInv'
    BY ONLY <1>13, <1>14, <1>15, <1>16 DEF BoxInv
  <1> QED BY <1>10, <1>11, <1>17

-----------------------------------------------------------------------------
(* The steps of the mesh.                                                   *)

LEMMA MeshStarts == MeshInit => MeshInv
  <1> SUFFICES ASSUME MeshInit PROVE MeshInv
    OBVIOUS
  <1>1. /\ inboxes = <<>> /\ DOMAIN inboxes = {} /\ sent = <<>> /\ DOMAIN sent = {}
        /\ seq = 1 /\ delivered = 0
        /\ providers = [c \in Cap |-> <<>>] /\ cursor = [c \in Cap |-> 0]
        /\ received = [a \in Peer |-> <<>>] /\ turns = [c \in Cap |-> <<>>]
    BY DEF MeshInit
  <1>2. MeshTypes
    <2>1. inboxes \in [DOMAIN inboxes -> Seq(Msg)]
      BY <1>1
    <2> QED BY <1>1, <2>1 DEF MeshTypes
  <1>3. BoxInv
    <2>1. \A a \in Peer : received[a] = <<>> /\ DOMAIN received[a] = {}
      BY <1>1
    <2> QED BY <1>1, <2>1 DEF BoxInv
  <1>4. delivered = RoutedOf(sent)
    <2>1. {k \in DOMAIN sent : sent[k].priority = "normal"} = {}
      BY <1>1
    <2> QED BY <1>1, <2>1, FS_EmptySet DEF RoutedOf
  <1>5. TurnInv
    <2> SUFFICES ASSUME NEW c \in Cap
                 PROVE  /\ EvenTurns(providers[c], cursor[c], turns[c])
                        /\ \A p \in DOMAIN providers[c] : providers[c][p] \in DOMAIN inboxes
      BY DEF TurnInv
    <2>1. providers[c] = <<>> /\ DOMAIN providers[c] = {}
      BY <1>1
    <2> QED BY <2>1 DEF EvenTurns
  <1> QED BY <1>2, <1>3, <1>4, <1>5 DEF MeshInv

\* The next message of the bus.
LEMMA NextMessage ==
  ASSUME MeshTypes, NEW d \in Peer, NEW p \in {"low", "normal", "high", "critical"}
  PROVE  /\ Message(d, p) \in Msg /\ Message(d, p).id = seq
         /\ Message(d, p).dst = d /\ Message(d, p).priority = p
  BY DEF MeshTypes, Message, Msg

LEMMA JoinStep ==
  ASSUME MeshInv, NEW a \in Peer, Join(a)
  PROVE  MeshInv'
  <1>1. /\ RegisterInbox(a)
        /\ UNCHANGED <<providers, cursor, delivered, seq, sent, received, turns>>
    BY DEF Join
  <1>2. MeshTypes /\ BoxInv /\ delivered = RoutedOf(sent) /\ TurnInv
    BY DEF MeshInv
  <1>3. /\ BoxInv' /\ DOMAIN inboxes' = DOMAIN inboxes \cup {a}
        /\ inboxes' \in [DOMAIN inboxes' -> Seq(Msg)]
    BY <1>1, <1>2, RegisterKeepsBoxes
  <1>4. MeshTypes'
    BY <1>1, <1>2, <1>3 DEF MeshTypes
  <1>5. TurnInv'
    BY <1>1, <1>2, <1>3 DEF TurnInv
  <1> QED BY <1>1, <1>2, <1>3, <1>4, <1>5 DEF MeshInv, RoutedOf

LEMMA ReceiveStep ==
  ASSUME MeshInv, NEW a \in Peer, Receive(a)
  PROVE  MeshInv'
  <1>1. UNCHANGED <<providers, cursor, delivered, seq, sent, turns>>
    BY DEF Receive
  <1>2. MeshTypes /\ BoxInv /\ delivered = RoutedOf(sent) /\ TurnInv
    BY DEF MeshInv
  <1>3. /\ BoxInv' /\ DOMAIN inboxes' = DOMAIN inboxes
        /\ inboxes' \in [DOMAIN inboxes -> Seq(Msg)] /\ received' \in [Peer -> Seq(Seq(Msg))]
    BY <1>2, ReceiveKeepsBoxes
  <1>4. MeshTypes'
    BY <1>1, <1>2, <1>3 DEF MeshTypes
  <1>5. TurnInv'
    BY <1>1, <1>2, <1>3 DEF TurnInv
  <1> QED BY <1>1, <1>2, <1>3, <1>4, <1>5 DEF MeshInv, RoutedOf

LEMMA RegisterProviderStep ==
  ASSUME MeshInv, NEW a \in Peer, NEW c \in Cap, RegisterProvider(a, c)
  PROVE  MeshInv'
  <1> DEFINE ps == Append(providers[c], a)
             none == <<>>
  <1>1. /\ RegisterInbox(a) /\ UNCHANGED <<cursor, delivered, seq, sent, received>>
        /\ providers' = [providers EXCEPT ![c] = ps]
        /\ turns' = [turns EXCEPT ![c] = none]
    BY DEF RegisterProvider
  <1>2. MeshTypes /\ BoxInv /\ delivered = RoutedOf(sent) /\ TurnInv
    BY DEF MeshInv
  <1>3. /\ BoxInv' /\ DOMAIN inboxes' = DOMAIN inboxes \cup {a}
        /\ inboxes' \in [DOMAIN inboxes' -> Seq(Msg)]
    BY <1>1, <1>2, RegisterKeepsBoxes
  <1>4. providers[c] \in Seq(Peer) /\ ps \in Seq(Peer) /\ none \in Seq(Peer) /\ cursor[c] \in Nat
    BY <1>2 DEF MeshTypes
  <1>5. Longer(ps, providers[c], a)
    BY <1>4, Appended
  <1>6. EvenTurns(ps, cursor[c], none)
    BY <1>4, FreshTurns DEF none
  <1> HIDE DEF ps, none
  <1>7. MeshTypes'
    <2>1. providers' \in [Cap -> Seq(Peer)] /\ turns' \in [Cap -> Seq(Peer)]
      BY <1>1, <1>2, <1>4 DEF MeshTypes
    <2> QED BY <1>1, <1>2, <1>3, <2>1 DEF MeshTypes
  <1>8. /\ providers'[c] = ps /\ turns'[c] = none
        /\ \A x \in Cap : x # c => providers'[x] = providers[x] /\ turns'[x] = turns[x]
    BY <1>1, <1>2 DEF MeshTypes
  <1>9. \A p \in DOMAIN ps : ps[p] \in DOMAIN inboxes'
    <2>1. PICK n \in Nat : /\ n = Len(providers[c]) /\ DOMAIN providers[c] = 1 .. n
                            /\ DOMAIN ps = 1 .. n + 1
                            /\ ps[n + 1] = a /\ \A i \in 1 .. n : ps[i] = providers[c][i]
      BY <1>5 DEF Longer
    <2>2. ASSUME NEW p \in 1 .. n + 1 PROVE ps[p] \in DOMAIN inboxes'
      <3>1. CASE p \in 1 .. n
        BY <1>2, <1>3, <2>1, <3>1 DEF TurnInv
      <3>2. CASE p = n + 1
        BY <1>3, <2>1, <3>2
      <3> QED BY <3>1, <3>2
    <2> QED BY <2>1, <2>2
  <1>10. TurnInv'
    <2> SUFFICES ASSUME NEW x \in Cap
                 PROVE  /\ EvenTurns(providers'[x], cursor[x], turns'[x])
                        /\ \A p \in DOMAIN providers'[x] : providers'[x][p] \in DOMAIN inboxes'
      BY <1>1 DEF TurnInv
    <2>1. CASE x = c
      BY <1>6, <1>8, <1>9, <2>1
    <2>2. CASE x # c
      BY <1>2, <1>3, <1>8, <2>2 DEF TurnInv
    <2> QED BY <2>1, <2>2
  <1> QED BY <1>1, <1>2, <1>3, <1>7, <1>10 DEF MeshInv, RoutedOf

LEMMA SendDirectStep ==
  ASSUME MeshInv, NEW d \in Peer, NEW p \in {"low", "high"}, SendDirect(d, p)
  PROVE  MeshInv'
  <1> DEFINE m == Message(d, p)
  <1>1. /\ seq' = seq + 1
        /\ Send(m) \/ UNCHANGED <<inboxes, sent>>
        /\ UNCHANGED <<providers, cursor, delivered, received, turns>>
    BY DEF SendDirect
  <1>2. MeshTypes /\ BoxInv /\ delivered = RoutedOf(sent) /\ TurnInv
    BY DEF MeshInv
  <1>3. m \in Msg /\ m.id = seq /\ m.priority # "normal"
    BY <1>2, NextMessage
  <1>4. seq \in Nat /\ seq' \in Nat
    BY <1>1, <1>2 DEF MeshTypes
  <1> HIDE DEF m
  <1>5. CASE Send(m)
    <2>1. /\ BoxInv' /\ sent' \in Seq(Msg) /\ DOMAIN inboxes' = DOMAIN inboxes
          /\ inboxes' \in [DOMAIN inboxes -> Seq(Msg)]
      BY <1>1, <1>2, <1>3, <1>5, SendKeepsBoxes
    <2>2. MeshTypes'
      BY <1>1, <1>2, <1>4, <2>1 DEF MeshTypes
    <2>3. TurnInv'
      BY <1>1, <1>2, <2>1 DEF TurnInv
    <2>4. sent' = Append(sent, m) /\ sent \in Seq(Msg)
      BY <1>2, <1>5 DEF Send, MeshTypes
    <2>5. RoutedOf(Append(sent, m)) = RoutedOf(sent) + 0
      BY <1>3, <2>4, OneMoreRouted
    <2>6. RoutedOf(sent) \in Nat
      <3>1. {k \in DOMAIN sent : sent[k].priority = "normal"} \in SUBSET DOMAIN sent
        OBVIOUS
      <3>2. IsFiniteSet(DOMAIN sent)
        <4>1. PICK n \in Nat : DOMAIN sent = 1 .. n
          BY <2>4
        <4> QED BY <4>1, FS_Interval
      <3> QED BY <3>1, <3>2, FS_Subset, FS_CardinalityType DEF RoutedOf
    <2>7. delivered' = RoutedOf(sent')
      BY <1>1, <1>2, <2>4, <2>5, <2>6
    <2> QED BY <2>1, <2>2, <2>3, <2>7 DEF MeshInv, RoutedOf
  <1>6. CASE UNCHANGED <<inboxes, sent>>
    <2>1. MeshTypes'
      BY <1>1, <1>2, <1>4, <1>6 DEF MeshTypes
    <2>2. TurnInv'
      BY <1>1, <1>2, <1>6 DEF TurnInv
    <2>3. \A k \in DOMAIN sent : sent[k].id < seq'
      <3> SUFFICES ASSUME NEW k \in DOMAIN sent PROVE sent[k].id < seq'
        OBVIOUS
      <3>1. sent[k] \in Msg /\ sent[k].id < seq
        BY <1>2 DEF BoxInv, MeshTypes
      <3>2. sent[k].id \in Nat
        BY <3>1 DEF Msg
      <3> QED BY <1>1, <1>4, <3>1, <3>2
    <2>4. BoxInv'
      BY <1>1, <1>2, <1>6, <2>3 DEF BoxInv
    <2> QED BY <1>1, <1>2, <1>6, <2>1, <2>2, <2>4 DEF MeshInv, RoutedOf
  <1> QED BY <1>1, <1>5, <1>6

LEMMA RouteStep ==
  ASSUME MeshInv, NEW c \in Cap, Route(c)
  PROVE  MeshInv'
  <1> DEFINE ps == providers[c]
             chosen == ps[(cursor[c] % Len(ps)) + 1]
             m == Message(chosen, "normal")
             ts == Append(turns[c], chosen)
  <1>1. /\ ps # <<>> /\ seq' = seq + 1 /\ delivered' = delivered + 1 /\ Send(m)
        /\ cursor' = [cursor EXCEPT ![c] = cursor[c] + 1]
        /\ turns' = [turns EXCEPT ![c] = ts]
        /\ UNCHANGED <<providers, received>>
    BY DEF Route
  <1>2. MeshTypes /\ BoxInv /\ delivered = RoutedOf(sent) /\ TurnInv
    BY DEF MeshInv
  <1>3. ps \in Seq(Peer) /\ turns[c] \in Seq(Peer) /\ cursor[c] \in Nat /\ seq \in Nat
    BY <1>2 DEF MeshTypes
  <1>4. chosen \in Peer
    <2>1. PICK l \in Nat \ {0} : l = Len(ps) /\ DOMAIN ps = 1 .. l
      <3> HIDE DEF ps
      <3>1. Len(ps) \in Nat /\ Len(ps) # 0 /\ DOMAIN ps = 1 .. Len(ps)
        BY <1>1, <1>3
      <3> QED BY <3>1
    <2>2. cursor[c] % l \in 0 .. l - 1
      BY <1>3, <2>1, NextTurn
    <2>3. (cursor[c] % l) + 1 \in DOMAIN ps
      BY <2>1, <2>2
    <2> QED BY <1>3, <2>1, <2>3
  <1>5. m \in Msg /\ m.id = seq /\ m.priority = "normal"
    <2> HIDE DEF chosen
    <2> QED BY <1>2, <1>4, NextMessage
  <1>6. EvenTurns(ps, cursor[c], turns[c])
    BY <1>2 DEF TurnInv
  <1>7. EvenTurns(ps, cursor[c] + 1, ts)
    BY <1>1, <1>3, <1>6, TurnTaken
  <1>8. ts \in Seq(Peer)
    <2> HIDE DEF chosen
    <2> QED BY <1>3, <1>4
  <1> HIDE DEF m, ts, chosen
  <1>9. /\ BoxInv' /\ sent' \in Seq(Msg) /\ DOMAIN inboxes' = DOMAIN inboxes
        /\ inboxes' \in [DOMAIN inboxes -> Seq(Msg)]
    BY <1>1, <1>2, <1>5, SendKeepsBoxes
  <1>10. /\ cursor' \in [Cap -> Nat] /\ turns' \in [Cap -> Seq(Peer)]
         /\ cursor'[c] = cursor[c] + 1 /\ turns'[c] = ts
         /\ \A x \in Cap : x # c => cursor'[x] = cursor[x] /\ turns'[x] = turns[x]
    BY <1>1, <1>2, <1>3, <1>8 DEF MeshTypes
  <1>11. MeshTypes'
    BY <1>1, <1>2, <1>3, <1>9, <1>10 DEF MeshTypes
  <1>12. TurnInv'
    <2> SUFFICES ASSUME NEW x \in Cap
                 PROVE  /\ EvenTurns(providers[x], cursor'[x], turns'[x])
                        /\ \A p \in DOMAIN providers[x] : providers[x][p] \in DOMAIN inboxes'
      BY <1>1 DEF TurnInv
    <2>1. \A p \in DOMAIN providers[x] : providers[x][p] \in DOMAIN inboxes'
      BY <1>2, <1>9 DEF TurnInv
    <2>2. CASE x = c
      BY <1>7, <1>10, <2>1, <2>2
    <2>3. CASE x # c
      BY <1>2, <1>10, <2>1, <2>3 DEF TurnInv
    <2> QED BY <2>2, <2>3
  <1>13. delivered' = RoutedOf(sent')
    <2>1. sent' = Append(sent, m) /\ sent \in Seq(Msg)
      BY <1>1, <1>2 DEF Send, MeshTypes
    <2>2. RoutedOf(Append(sent, m)) = RoutedOf(sent) + 1
      BY <1>5, <2>1, OneMoreRouted
    <2> QED BY <1>1, <1>2, <2>1, <2>2
  <1> QED BY <1>9, <1>11, <1>12, <1>13 DEF MeshInv, RoutedOf

\* The invariant holds in every state of the mesh.
THEOREM MeshInvHolds == MeshSpec => []MeshInv
  <1>1. MeshInv /\ [MeshNext]_meshVars => MeshInv'
    <2> SUFFICES ASSUME MeshInv, [MeshNext]_meshVars PROVE MeshInv'
      OBVIOUS
    <2>1. CASE \E a \in Peer : Join(a) \/ Receive(a)
      BY <2>1, JoinStep, ReceiveStep
    <2>2. CASE \E a \in Peer, c \in Cap : RegisterProvider(a, c)
      BY <2>2, RegisterProviderStep
    <2>3. CASE \E a \in Peer, p \in {"low", "high"} : SendDirect(a, p)
      BY <2>3, SendDirectStep
    <2>4. CASE \E c \in Cap : Route(c)
      BY <2>4, RouteStep
    <2>5. CASE UNCHANGED meshVars
      BY <2>5 DEF MeshInv, MeshTypes, BoxInv, TurnInv, RoutedOf, meshVars
    <2> QED BY <2>1, <2>2, <2>3, <2>4, <2>5 DEF MeshNext
  <1> QED BY <1>1, MeshStarts, PTL DEF MeshSpec

\* Nothing is lost, invented, duplicated or reordered.
THEOREM MessagesAreKept == MeshSpec => []NothingLostOrReordered
  <1>1. MeshInv => NothingLostOrReordered
    <2> SUFFICES ASSUME MeshInv PROVE NothingLostOrReordered
      OBVIOUS
    <2>1. MeshTypes /\ BoxInv /\ delivered = RoutedOf(sent)
      BY DEF MeshInv
    <2>2. ASSUME NEW k \in DOMAIN sent
          PROVE  AtOnePlace(Boxes(sent[k].dst), sent[k])
      <3>1. sent[k].dst \in DOMAIN inboxes
        BY <2>1 DEF BoxInv
      <3>2. WellBoxed(Boxes(sent[k].dst), sent[k].dst, sent)
        BY <2>1, <3>1 DEF BoxInv, Boxes
      <3> QED BY <3>2, WellBoxedOnce
    <2>3. ASSUME NEW a \in DOMAIN inboxes, NEW b \in DOMAIN Boxes(a), NEW i \in DOMAIN Boxes(a)[b]
          PROVE  /\ \E k \in DOMAIN sent : sent[k] = Boxes(a)[b][i] /\ sent[k].dst = a
                 /\ \A d \in DOMAIN Boxes(a) : \A j \in DOMAIN Boxes(a)[d] :
                      b < d => Boxes(a)[b][i].id < Boxes(a)[d][j].id
      <3>1. WellBoxed(Boxes(a), a, sent)
        BY <2>1 DEF BoxInv, Boxes
      <3> QED BY <2>3, <3>1 DEF WellBoxed
    <2>4. \A a \in Peer : \A b \in DOMAIN received[a] :
            \A i, j \in DOMAIN received[a][b] : i < j =>
              LET m == received[a][b][i]  n == received[a][b][j]
              IN  \/ Rank[m.priority] > Rank[n.priority]
                  \/ m.priority = n.priority /\ m.id < n.id
      BY <2>1 DEF BoxInv, Ordered
    <2> QED BY <2>1, <2>2, <2>3, <2>4 DEF NothingLostOrReordered, RoutedOf
  <1> QED BY <1>1, MeshInvHolds, PTL

\* The turns among the providers of a capability are even.
THEOREM TurnsGoRound == MeshSpec => []TurnsAreEven
  <1>1. MeshInv => TurnsAreEven
    <2> SUFFICES ASSUME MeshInv, NEW c \in Cap,
                        NEW p \in DOMAIN providers[c], NEW q \in DOMAIN providers[c],
                        Occurrences(providers[c], providers[c][p]) = 1,
                        Occurrences(providers[c], providers[c][q]) = 1
                 PROVE  Occurrences(turns[c], providers[c][p])
                          - Occurrences(turns[c], providers[c][q]) <= 1
      BY DEF TurnsAreEven
    <2>1. /\ providers[c] \in Seq(Peer) /\ cursor[c] \in Nat /\ turns[c] \in Seq(Peer)
          /\ EvenTurns(providers[c], cursor[c], turns[c])
      BY DEF MeshInv, MeshTypes, TurnInv
    <2> QED BY <2>1, EvenTurnsBound
  <1> QED BY <1>1, MeshInvHolds, PTL
-----------------------------------------------------------------------------
(* Access.                                                                 *)

AccessTypes ==
    /\ \A r \in DOMAIN role_permissions : role_permissions[r] \in SUBSET Permission
    /\ abac_rules \in Seq(Rule)

\* More permissions of the roles permit more.
LEMMA MorePermissions ==
    ASSUME NEW p, NEW q, \A r \in DOMAIN p : r \in DOMAIN q /\ p[r] \subseteq q[r],
           NEW rules, NEW req, evaluate(p, rules, req)
    PROVE  evaluate(q, rules, req)
  <1>1. rbac_allows(p, req.roles, req.action) => rbac_allows(q, req.roles, req.action)
    BY DEF rbac_allows
  <1> QED BY <1>1 DEF evaluate

\* The decision depends on which rules there are, not on their order.
LEMMA SameRules ==
    ASSUME NEW p, NEW s, NEW t, Range(s) = Range(t), NEW req
    PROVE  evaluate(p, s, req) <=> evaluate(p, t, req)
  BY DEF evaluate

LEMMA RangeOfReverse ==
    ASSUME NEW S, NEW s \in Seq(S)
    PROVE  Range(Reverse(s)) = Range(s)
  <1> DEFINE n == Len(s)
  <1>1. n \in Nat /\ DOMAIN s = 1 .. n /\ DOMAIN Reverse(s) = 1 .. n
    BY DEF Reverse
  <1>2. \A i \in 1 .. n : Reverse(s)[i] = s[(n - i) + 1]
    BY DEF Reverse
  <1>3. \A i \in 1 .. n : (n - i) + 1 \in 1 .. n /\ (n - ((n - i) + 1)) + 1 = i
    BY <1>1
  <1> HIDE DEF n
  <1> QED BY <1>1, <1>2, <1>3 DEF Range

LEMMA RangeOfAppend ==
    ASSUME NEW S, NEW s \in Seq(S), NEW x
    PROVE  Range(Append(s, x)) = Range(s) \cup {x} /\ Append(s, x)[Len(Append(s, x))] = x
  <1>1. /\ DOMAIN s = 1 .. Len(s) /\ Len(s) \in Nat
        /\ DOMAIN Append(s, x) = 1 .. Len(s) + 1 /\ Len(Append(s, x)) = Len(s) + 1
        /\ \A i \in 1 .. Len(s) : Append(s, x)[i] = s[i]
        /\ Append(s, x)[Len(s) + 1] = x
    OBVIOUS
  <1>2. \A i \in 1 .. Len(s) + 1 : i \in 1 .. Len(s) \/ i = Len(s) + 1
    BY <1>1
  <1>3. 1 .. Len(s) \subseteq 1 .. Len(s) + 1 /\ Len(s) + 1 \in 1 .. Len(s) + 1
    BY <1>1
  <1> QED BY <1>1, <1>2, <1>3 DEF Range

\* What one step may do to the rules and the permissions.
Configures ==
    \/ /\ abac_rules' = abac_rules
       /\ \A r \in DOMAIN role_permissions :
            r \in DOMAIN role_permissions' /\ role_permissions[r] \subseteq role_permissions'[r]
    \/ /\ role_permissions' = role_permissions
       /\ \E rule \in Rule : abac_rules' = Append(abac_rules, rule)

LEMMA StepConfigures ==
    ASSUME AccessTypes, AccessNext
    PROVE  Configures /\ AccessTypes'
  <1>1. ASSUME NEW role \in Role, NEW p \in Permission, Grant(role, p)
        PROVE  Configures /\ AccessTypes'
    BY <1>1 DEF Grant, Put, Configures, AccessTypes
  <1>2. ASSUME NEW rule \in Rule, AddRule(rule)
        PROVE  Configures /\ AccessTypes'
    BY <1>2 DEF AddRule, Configures, AccessTypes
  <1>3. ASSUME UNCHANGED <<role_permissions, abac_rules>>
        PROVE  Configures /\ AccessTypes'
    BY <1>3 DEF Configures, AccessTypes
  <1> QED BY <1>1, <1>2, <1>3 DEF AccessNext, AddToken, GrantTool, RegisterTool, RegisterRuntime

\* What a grant to the tools lets run, more grants let run.
LEMMA MoreGrants ==
    ASSUME NEW ts, NEW g, NEW h, g \subseteq h, NEW n, invoke(ts, g, n) = "executed"
    PROVE  invoke(ts, h, n) = "executed"
  BY DEF invoke

MonotoneStep ==
    /\ \A i \in Identity, a \in Permission :
         LET req    == request(i, a)
             before == evaluate(role_permissions, abac_rules, req)
             after  == evaluate(role_permissions', abac_rules', req)
         IN  /\ abac_rules' = abac_rules => (before => after)
             /\ (abac_rules' # abac_rules /\ ~abac_rules'[Len(abac_rules')].deny
                   /\ Permissive(abac_rules)) => (before => after)
             /\ (abac_rules' # abac_rules /\ abac_rules'[Len(abac_rules')].deny) => (after => before)
             /\ after <=> evaluate(role_permissions', Reverse(abac_rules'), req)
    /\ (tokens' = tokens /\ abac_rules' = abac_rules) =>
         \A t \in Token, a \in Permission : permitted(t, a) => permitted(t, a)'
    /\ tools' = tools => \A n \in DOMAIN tools :
         invoke(tools, granted, n) = "executed" => invoke(tools', granted', n) = "executed"

LEMMA StepIsMonotone ==
    ASSUME AccessTypes, AccessNext
    PROVE  MonotoneStep
  <1>1. Configures /\ AccessTypes'
    BY StepConfigures
  <1>2. ASSUME abac_rules' = abac_rules, NEW req, evaluate(role_permissions, abac_rules, req)
        PROVE  evaluate(role_permissions', abac_rules', req)
    <2>1. \A r \in DOMAIN role_permissions :
            r \in DOMAIN role_permissions' /\ role_permissions[r] \subseteq role_permissions'[r]
      BY <1>1, <1>2 DEF Configures
    <2> QED BY <1>2, <2>1, MorePermissions
  <1>3. ASSUME abac_rules' # abac_rules, NEW req
        PROVE  /\ ~abac_rules'[Len(abac_rules')].deny /\ Permissive(abac_rules) =>
                    (evaluate(role_permissions, abac_rules, req) =>
                       evaluate(role_permissions', abac_rules', req))
               /\ abac_rules'[Len(abac_rules')].deny =>
                    (evaluate(role_permissions', abac_rules', req) =>
                       evaluate(role_permissions, abac_rules, req))
    <2>1. PICK rule \in Rule : abac_rules' = Append(abac_rules, rule)
      BY <1>1, <1>3 DEF Configures
    <2>2. role_permissions' = role_permissions
      BY <1>1, <1>3 DEF Configures
    <2>3. Range(abac_rules') = Range(abac_rules) \cup {rule} /\ abac_rules'[Len(abac_rules')] = rule
      BY <2>1, RangeOfAppend DEF AccessTypes
    <2>4. Permissive(abac_rules) => \A r \in Range(abac_rules) : ~r.deny
      BY DEF Permissive, Range
    <2> QED BY <2>2, <2>3, <2>4 DEF evaluate
  <1>4. ASSUME NEW req
        PROVE  evaluate(role_permissions', abac_rules', req)
                 <=> evaluate(role_permissions', Reverse(abac_rules'), req)
    <2>1. Range(Reverse(abac_rules')) = Range(abac_rules')
      BY <1>1, RangeOfReverse DEF AccessTypes
    <2> QED BY <2>1, SameRules
  <1>5. ASSUME tokens' = tokens, abac_rules' = abac_rules, NEW t, NEW a, permitted(t, a)
        PROVE  permitted(t, a)'
    BY <1>2, <1>5 DEF permitted
  <1>6. ASSUME tools' = tools, NEW n, invoke(tools, granted, n) = "executed"
        PROVE  invoke(tools', granted', n) = "executed"
    <2>1. granted \subseteq granted'
      BY DEF AccessNext, Grant, AddRule, AddToken, GrantTool, RegisterTool, RegisterRuntime
    <2> QED BY <1>6, <2>1, MoreGrants
  <1> QED BY <1>2, <1>3, <1>4, <1>5, <1>6 DEF MonotoneStep

LEMMA AccessTypesHold == AccessSpec => []AccessTypes
  <1>1. AccessInit => AccessTypes
    BY DEF AccessInit, AccessTypes
  <1>2. AccessTypes /\ [AccessNext]_accessVars => AccessTypes'
    <2>1. AccessTypes /\ AccessNext => AccessTypes'
      BY StepConfigures
    <2>2. AccessTypes /\ UNCHANGED accessVars => AccessTypes'
      BY DEF AccessTypes, accessVars
    <2> QED BY <2>1, <2>2
  <1> QED BY <1>1, <1>2, PTL DEF AccessSpec

\* Deny wins, the order of the rules does not matter, and granting takes
\* nothing away.
THEOREM GrantsOnlyAdd == AccessSpec => DecisionsAreMonotone
  <1>1. AccessTypes /\ [AccessNext]_accessVars => [MonotoneStep]_accessVars
    BY StepIsMonotone
  <1> QED BY <1>1, AccessTypesHold, PTL DEF AccessSpec, DecisionsAreMonotone, MonotoneStep

-----------------------------------------------------------------------------
(* Runtimes.                                                               *)

\* The order lists the ids, each once.
RuntimeInv ==
    /\ order \in Seq(DOMAIN runtimes)
    /\ \A id \in DOMAIN runtimes : \E i \in DOMAIN order : order[i] = id
    /\ \A i, j \in DOMAIN order : order[i] = order[j] => i = j
    /\ \A id \in DOMAIN runtimes : runtimes[id].kind \in RuntimeKind

LEMMA RegisterKeeps ==
    ASSUME RuntimeInv, NEW id, NEW kind \in RuntimeKind, NEW caps, RegisterRuntime(id, kind, caps)
    PROVE  RuntimeInv'
  <1>1. /\ DOMAIN runtimes' = DOMAIN runtimes \cup {id}
        /\ \A x \in DOMAIN runtimes' : runtimes'[x].kind \in RuntimeKind
    BY DEF RuntimeInv, RegisterRuntime, Put
  <1>2. CASE id \in DOMAIN runtimes
    <2>1. order' = order /\ DOMAIN runtimes' = DOMAIN runtimes
      BY <1>1, <1>2 DEF RegisterRuntime
    <2> QED BY <1>1, <2>1 DEF RuntimeInv
  <1>3. CASE id \notin DOMAIN runtimes
    <2>1. order' = Append(order, id)
      BY <1>3 DEF RegisterRuntime
    <2>2. /\ order \in Seq(DOMAIN runtimes') /\ Len(order) \in Nat
          /\ DOMAIN order = 1 .. Len(order)
          /\ \A i \in DOMAIN order : order[i] # id
      BY <1>1, <1>3 DEF RuntimeInv
    <2>3. /\ order' \in Seq(DOMAIN runtimes') /\ DOMAIN order' = 1 .. Len(order) + 1
          /\ \A i \in 1 .. Len(order) : order'[i] = order[i]
          /\ order'[Len(order) + 1] = id
      BY <1>1, <2>1, <2>2
    <2>4. \A i \in DOMAIN order' : i \in DOMAIN order \/ i = Len(order) + 1
      BY <2>2, <2>3
    <2>5. /\ \A i \in DOMAIN order : i \in DOMAIN order' /\ order'[i] = order[i]
          /\ Len(order) + 1 \in DOMAIN order'
      BY <2>2, <2>3
    <2>6. \A x \in DOMAIN runtimes' : \E i \in DOMAIN order' : order'[i] = x
      BY <1>1, <2>3, <2>5 DEF RuntimeInv
    <2>7. \A i, j \in DOMAIN order' : order'[i] = order'[j] => i = j
      BY <2>2, <2>3, <2>4, <2>5 DEF RuntimeInv
    <2> QED BY <1>1, <2>3, <2>6, <2>7 DEF RuntimeInv
  <1> QED BY <1>2, <1>3

LEMMA RuntimeStepKeeps == RuntimeInv /\ [AccessNext]_accessVars => RuntimeInv'
  <1> SUFFICES ASSUME RuntimeInv, [AccessNext]_accessVars PROVE RuntimeInv'
    OBVIOUS
  <1>1. CASE \E id \in RuntimeId, k \in RuntimeKind, caps \in SUBSET RuntimeCap \ {{}} :
               RegisterRuntime(id, k, caps)
    BY <1>1, RegisterKeeps
  <1>2. CASE UNCHANGED <<runtimes, order>>
    BY <1>2 DEF RuntimeInv
  <1> QED BY <1>1, <1>2 DEF AccessNext, accessVars, Grant, AddRule, AddToken, GrantTool, RegisterTool

LEMMA RankOfKind ==
    ASSUME NEW kind \in RuntimeKind
    PROVE  locality_rank(kind) \in Nat
  <1> DEFINE kinds == <<"edge", "npu", "gpu", "cpu", "cloud">>
  <1>1. \E i \in 0 .. 4 : kinds[i + 1] = kind
    <2>1. /\ 0 + 1 = 1 /\ 1 + 1 = 2 /\ 2 + 1 = 3 /\ 3 + 1 = 4 /\ 4 + 1 = 5
          /\ {0, 1, 2, 3, 4} \subseteq 0 .. 4
      OBVIOUS
    <2>2. /\ kinds[1] = "edge" /\ kinds[2] = "npu" /\ kinds[3] = "gpu" /\ kinds[4] = "cpu"
          /\ kinds[5] = "cloud"
      OBVIOUS
    <2>3. kind \in {"edge", "npu", "gpu", "cpu", "cloud"}
      BY AccessAssumption
    <2> HIDE DEF kinds
    <2> QED BY <2>1, <2>2, <2>3
  <1>2. locality_rank(kind) \in 0 .. 4
    BY <1>1 DEF locality_rank
  <1> QED BY <1>2

\* Every set of numbers has a least one.
LEMMA LeastNat ==
    ASSUME NEW T \in SUBSET Nat, T # {}
    PROVE  \E x \in T : \A y \in T : x <= y
  <1>1. PICK x \in T : \A y \in T : ~(<<y, x>> \in OpToRel(<, Nat))
    BY WFMin, NatLessThanWellFounded
  <1>2. \A y \in T : ~(y < x)
    BY <1>1 DEF OpToRel
  <1> QED BY <1>2

LEMMA SelectIsBest ==
    ASSUME RuntimeInv, NEW c, NEW id \in DOMAIN runtimes, c \in runtimes[id].caps
    PROVE  LET s == select(runtimes, order, c)
           IN  /\ c \in runtimes[s].caps
               /\ \A x \in DOMAIN runtimes : c \in runtimes[x].caps =>
                    locality_rank(runtimes[s].kind) <= locality_rank(runtimes[x].kind)
  <1> DEFINE able == {i \in DOMAIN order : c \in runtimes[order[i]].caps}
             rank(i) == locality_rank(runtimes[order[i]].kind)
             best == {i \in able : \A j \in able : rank(i) < rank(j) \/ (rank(i) = rank(j) /\ i <= j)}
             ranks == {rank(i) : i \in able}
  <1>1. able \in SUBSET Nat /\ able # {}
    BY DEF RuntimeInv
  <1>2. \A i \in able : rank(i) \in Nat
    BY RankOfKind DEF RuntimeInv
  <1>3. PICK l \in ranks : \A r \in ranks : l <= r
    <2>1. ranks \in SUBSET Nat /\ ranks # {}
      BY <1>1, <1>2
    <2> HIDE DEF ranks
    <2> QED BY <2>1, LeastNat
  <1> DEFINE nearest == {i \in able : rank(i) = l}
  <1>4. PICK b \in nearest : \A i \in nearest : b <= i
    <2>1. nearest \in SUBSET Nat /\ nearest # {}
      BY <1>1
    <2> HIDE DEF nearest
    <2> QED BY <2>1, LeastNat
  <1>5. b \in best
    <2> HIDE DEF able, rank
    <2>1. \A j \in able : rank(j) \in Nat /\ l <= rank(j) /\ l = rank(b) /\ b \in able
      BY <1>2, <1>3, <1>4
    <2> QED BY <1>4, <2>1
  <1> DEFINE s == CHOOSE i \in best : TRUE
  <1>6. s \in best
    BY <1>5
  <1>7. select(runtimes, order, c) = order[s]
    BY <1>1 DEF select
  <1> HIDE DEF s
  <1>8. ASSUME NEW x \in DOMAIN runtimes, c \in runtimes[x].caps
        PROVE  rank(s) <= locality_rank(runtimes[x].kind)
    <2>1. PICK i \in DOMAIN order : order[i] = x
      BY DEF RuntimeInv
    <2>2. i \in able /\ rank(i) = locality_rank(runtimes[x].kind)
      BY <1>8, <2>1
    <2>3. rank(s) \in Nat /\ rank(i) \in Nat /\ (rank(s) < rank(i) \/ rank(s) = rank(i))
      BY <1>2, <1>6, <2>2
    <2> HIDE DEF rank
    <2>4. rank(s) <= rank(i)
      BY <2>3
    <2> QED BY <2>2, <2>4
  <1>9. c \in runtimes[order[s]].caps
    BY <1>6
  <1> QED BY <1>7, <1>8, <1>9

LEMMA SelectedWell == RuntimeInv => RuntimesAreFound
  <1> SUFFICES ASSUME RuntimeInv PROVE RuntimesAreFound
    OBVIOUS
  <1>1. {order[i] : i \in DOMAIN order} = DOMAIN runtimes
    BY DEF RuntimeInv
  <1>2. Len(list(runtimes, order)) = Cardinality(DOMAIN runtimes)
    <2>1. /\ Len(order) \in Nat /\ DOMAIN order = 1 .. Len(order)
          /\ order \in [1 .. Len(order) -> DOMAIN runtimes]
      BY DEF RuntimeInv
    <2>2. order \in Bijection(1 .. Len(order), DOMAIN runtimes)
      BY <2>1 DEF RuntimeInv, Bijection, Injection, Surjection, IsInjective
    <2>3. Cardinality(DOMAIN runtimes) = Len(order)
      BY <2>1, <2>2, FS_CountingElements DEF ExistsBijection
    <2>4. Len(list(runtimes, order)) = Len(order)
      BY <2>1 DEF list
    <2> QED BY <2>3, <2>4
  <1>3. ASSUME NEW c, \A id \in DOMAIN runtimes : c \notin runtimes[id].caps
        PROVE  select(runtimes, order, c) = "CapabilityUnavailable"
    <2>1. {i \in DOMAIN order : c \in runtimes[order[i]].caps} = {}
      BY <1>3 DEF RuntimeInv
    <2> QED BY <2>1 DEF select
  <1> QED BY <1>1, <1>2, <1>3, SelectIsBest DEF RuntimesAreFound

\* Every registered runtime is listed once, and the most local one that serves
\* a capability is selected.
THEOREM MostLocalIsSelected == AccessSpec => []RuntimesAreFound
  <1>1. AccessInit => RuntimeInv
    BY DEF AccessInit, RuntimeInv
  <1> QED BY <1>1, RuntimeStepKeeps, SelectedWell, PTL DEF AccessSpec

-----------------------------------------------------------------------------
(* Merging two graphs.                                                     *)

\* A finite set as a sequence has each element once.
LEMMA SetToSeqOnce ==
    ASSUME NEW S, IsFiniteSet(S)
    PROVE  LET s == SetToSeq(S) n == Cardinality(S)
           IN  /\ n \in Nat /\ s \in [1 .. n -> S] /\ Len(s) = n
               /\ \A i, j \in 1 .. n : s[i] = s[j] => i = j
               /\ \A x \in S : \E i \in 1 .. n : s[i] = x
  <1> DEFINE s == SetToSeq(S) n == Cardinality(S)
  <1>1. n \in Nat /\ ExistsBijection(1 .. n, S)
    BY FS_CardinalityType
  <1>2. PICK f : f \in Bijection(1 .. n, S)
    BY <1>1 DEF ExistsBijection
  <1>3. f \in [1 .. n -> S] /\ IsInjective(f)
    BY <1>2 DEF Bijection, Injection
  <1>4. s \in [1 .. n -> S] /\ IsInjective(s)
    BY <1>3 DEF SetToSeq
  <1> HIDE DEF s
  <1>5. s \in Injection(1 .. n, S)
    BY <1>4 DEF Injection
  <1>6. IsFiniteSet(1 .. n) /\ Cardinality(1 .. n) = n
    BY <1>1, FS_Interval
  <1>7. s \in Surjection(1 .. n, S)
    BY <1>5, <1>6, FS_Injection
  <1>8. Len(s) = n
    BY <1>1, <1>4
  <1> HIDE DEF n
  <1> QED BY <1>1, <1>4, <1>7, <1>8 DEF Surjection, IsInjective, s, n

\* What a graph says is finite.
LEMMA FiniteGraph ==
    ASSUME NEW g, IsGraph(g)
    PROVE  IsFiniteSet(Identities(g)) /\ IsFiniteSet(Facts(g)) /\ IsFiniteSet(edges(g))
  <1>1. IsFiniteSet(Identities(g))
    <2> DEFINE h == [id \in Ids(g) |-> identity(g.nodes[id])]
    <2>1. h \in Surjection(Ids(g), Identities(g))
      BY DEF Surjection, Identities
    <2> QED BY <2>1, FS_Surjection DEF IsGraph
  <1>2. IsFiniteSet(edges(g))
    <2> DEFINE leaving(x) == {<<x, g.adjacency[x][i].to, g.adjacency[x][i].kind>> : i \in DOMAIN g.adjacency[x]}
               all == {leaving(x) : x \in DOMAIN g.adjacency}
    <2>1. ASSUME NEW x \in DOMAIN g.adjacency PROVE IsFiniteSet(leaving(x))
      <3> DEFINE h == [i \in DOMAIN g.adjacency[x] |-> <<x, g.adjacency[x][i].to, g.adjacency[x][i].kind>>]
      <3>1. h \in Surjection(DOMAIN g.adjacency[x], leaving(x))
        BY DEF Surjection
      <3> QED BY <3>1, FS_Surjection DEF IsGraph
    <2>2. IsFiniteSet(all)
      <3> DEFINE h == [x \in DOMAIN g.adjacency |-> leaving(x)]
      <3> HIDE DEF leaving
      <3>1. h \in Surjection(DOMAIN g.adjacency, all)
        BY DEF Surjection
      <3> QED BY <3>1, FS_Surjection DEF IsGraph
    <2>3. edges(g) = UNION all
      BY DEF edges
    <2>4. \A T \in all : IsFiniteSet(T)
      BY <2>1
    <2> HIDE DEF all
    <2> QED BY <2>2, <2>3, <2>4, FS_UNION
  <1>3. IsFiniteSet(Facts(g))
    <2> DEFINE E == {e \in edges(g) : e[1] \in Ids(g) /\ e[2] \in Ids(g)}
               h == [e \in E |-> <<identity(g.nodes[e[1]]), identity(g.nodes[e[2]]), e[3]>>]
    <2>1. IsFiniteSet(E)
      <3>1. E \in SUBSET edges(g)
        OBVIOUS
      <3> QED BY <1>2, <3>1, FS_Subset
    <2>2. h \in Surjection(E, Facts(g))
      BY DEF Surjection, Facts
    <2> QED BY <2>1, <2>2, FS_Surjection
  <1> QED BY <1>1, <1>2, <1>3

\* A fact is about two identities.
LEMMA FactsShape ==
    ASSUME NEW g, NEW f \in Facts(g)
    PROVE  f = <<f[1], f[2], f[3]>> /\ f[1] \in Identities(g) /\ f[2] \in Identities(g)
  <1>1. PICK e : /\ e \in edges(g) /\ e[1] \in Ids(g) /\ e[2] \in Ids(g)
                 /\ f = <<identity(g.nodes[e[1]]), identity(g.nodes[e[2]]), e[3]>>
    BY DEF Facts
  <1>2. /\ identity(g.nodes[e[1]]) \in Identities(g) /\ identity(g.nodes[e[2]]) \in Identities(g)
    BY <1>1 DEF Identities
  <1> QED BY <1>1, <1>2

\* Where x is in `all`.
At(all, x) == CHOOSE j \in DOMAIN all : all[j] = x

\* The facts about x, in the order of its edges.
Leaving(F, x) == SetToSeq({f \in F : f[1] = x})

\* The graph r is made of one node for each element of S, in the order of
\* `all`, and an edge for each fact of F.
Made(r, base, n, S, all, F) ==
    /\ base \in Nat /\ n \in Nat /\ all \in [1 .. n -> S]
    /\ \A i, j \in 1 .. n : all[i] = all[j] => i = j
    /\ \A x \in S : \E i \in 1 .. n : all[i] = x
    /\ IsFiniteSet(F)
    /\ \A f \in F : f = <<f[1], f[2], f[3]>> /\ f[1] \in S /\ f[2] \in S
    /\ Ids(r) = base + 1 .. base + n
    /\ \A k \in base + 1 .. base + n : identity(r.nodes[k]) = all[k - base]
    /\ DOMAIN r.adjacency = base + 1 .. base + n
    /\ \A k \in base + 1 .. base + n :
         LET fs == Leaving(F, all[k - base])
         IN  r.adjacency[k] = [i \in DOMAIN fs |-> Edge(base + At(all, fs[i][2]), fs[i][3])]

LEMMA PlaceOf ==
    ASSUME NEW r, NEW base, NEW n, NEW S, NEW all, NEW F, Made(r, base, n, S, all, F), NEW x \in S
    PROVE  /\ At(all, x) \in 1 .. n /\ all[At(all, x)] = x
           /\ base + At(all, x) \in base + 1 .. base + n
           /\ (base + At(all, x)) - base = At(all, x)
  <1>1. At(all, x) \in 1 .. n /\ all[At(all, x)] = x
    BY DEF Made, At
  <1> QED BY <1>1 DEF Made

LEMMA NodeOf ==
    ASSUME NEW r, NEW base, NEW n, NEW S, NEW all, NEW F, Made(r, base, n, S, all, F),
           NEW k \in base + 1 .. base + n
    PROVE  k - base \in 1 .. n /\ all[k - base] \in S /\ At(all, all[k - base]) = k - base
  <1>1. k - base \in 1 .. n /\ all[k - base] \in S
    BY DEF Made
  <1>2. At(all, all[k - base]) \in 1 .. n /\ all[At(all, all[k - base])] = all[k - base]
    BY <1>1, PlaceOf
  <1> QED BY <1>1, <1>2 DEF Made

\* Each fact leaves its node once.
LEMMA LeavingOnce ==
    ASSUME NEW F, IsFiniteSet(F), NEW x,
           NEW i \in DOMAIN Leaving(F, x), NEW j \in DOMAIN Leaving(F, x),
           Leaving(F, x)[i] = Leaving(F, x)[j]
    PROVE  i = j
  <1> DEFINE out == {f \in F : f[1] = x}
  <1>1. IsFiniteSet(out)
    <2>1. out \in SUBSET F
      OBVIOUS
    <2> QED BY <2>1, FS_Subset
  <1>2. Leaving(F, x) = SetToSeq(out)
    BY DEF Leaving
  <1> HIDE DEF out
  <1> QED BY <1>1, <1>2, SetToSeqOnce

\* The edges that leave k are the facts about its identity.
LEMMA EdgesOf ==
    ASSUME NEW r, NEW base, NEW n, NEW S, NEW all, NEW F, Made(r, base, n, S, all, F),
           NEW k \in base + 1 .. base + n
    PROVE  LET fs == Leaving(F, all[k - base])
           IN  /\ IsFiniteSet(DOMAIN fs) /\ DOMAIN r.adjacency[k] = DOMAIN fs
               /\ \A i \in DOMAIN fs : /\ fs[i] \in F /\ fs[i] = <<all[k - base], fs[i][2], fs[i][3]>>
                                       /\ fs[i][2] \in S
                                       /\ r.adjacency[k][i].to = base + At(all, fs[i][2])
                                       /\ r.adjacency[k][i].kind = fs[i][3]
               /\ \A f \in F : f[1] = all[k - base] => \E i \in DOMAIN fs : fs[i] = f
  <1> DEFINE out == {f \in F : f[1] = all[k - base]}
             fs == Leaving(F, all[k - base])
             c == Cardinality(out)
  <1>1. IsFiniteSet(out)
    <2>1. out \in SUBSET F /\ IsFiniteSet(F)
      BY DEF Made
    <2> QED BY <2>1, FS_Subset
  <1>2. /\ c \in Nat /\ fs \in [1 .. c -> out]
        /\ \A i, j \in 1 .. c : fs[i] = fs[j] => i = j
        /\ \A f \in out : \E i \in 1 .. c : fs[i] = f
    <2>1. fs = SetToSeq(out)
      BY DEF Leaving
    <2> HIDE DEF out, fs
    <2> QED BY <1>1, <2>1, SetToSeqOnce
  <1>3. r.adjacency[k] = [i \in DOMAIN fs |-> Edge(base + At(all, fs[i][2]), fs[i][3])]
    BY DEF Made
  <1> HIDE DEF fs, c
  <1>4. DOMAIN fs = 1 .. c /\ IsFiniteSet(DOMAIN fs)
    BY <1>2, FS_Interval
  <1>5. ASSUME NEW i \in DOMAIN fs
        PROVE  /\ fs[i] \in F /\ fs[i] = <<all[k - base], fs[i][2], fs[i][3]>> /\ fs[i][2] \in S
               /\ r.adjacency[k][i].to = base + At(all, fs[i][2])
               /\ r.adjacency[k][i].kind = fs[i][3]
    <2>1. fs[i] \in F /\ fs[i][1] = all[k - base]
      BY <1>2, <1>4
    <2>2. fs[i] = <<fs[i][1], fs[i][2], fs[i][3]>> /\ fs[i][2] \in S
      BY <2>1 DEF Made
    <2> QED BY <1>3, <2>1, <2>2 DEF Edge
  <1>6. DOMAIN r.adjacency[k] = DOMAIN fs
    BY <1>3
  <1>7. /\ \A i, j \in DOMAIN fs : fs[i] = fs[j] => i = j
        /\ \A f \in F : f[1] = all[k - base] => \E i \in DOMAIN fs : fs[i] = f
    BY <1>2, <1>4
  <1> QED BY <1>4, <1>5, <1>6, <1>7 DEF fs

\* Such a graph says exactly what it was made of.
LEMMA MadeSays ==
    ASSUME NEW r, NEW base, NEW n, NEW S, NEW all, NEW F, Made(r, base, n, S, all, F)
    PROVE  /\ Identities(r) = S
           /\ \A x, y \in Ids(r) : identity(r.nodes[x]) = identity(r.nodes[y]) => x = y
           /\ Facts(r) = F
           /\ \A e \in edges(r) : e[1] \in Ids(r) /\ e[2] \in Ids(r)
           /\ \A x \in DOMAIN r.adjacency : \A i, j \in DOMAIN r.adjacency[x] :
                r.adjacency[x][i] = r.adjacency[x][j] => i = j
           /\ IsFiniteSet(Ids(r)) /\ IsFiniteSet(DOMAIN r.adjacency)
           /\ \A x \in DOMAIN r.adjacency : IsFiniteSet(DOMAIN r.adjacency[x])
  <1>1. /\ Ids(r) = base + 1 .. base + n /\ DOMAIN r.adjacency = base + 1 .. base + n
        /\ \A k \in base + 1 .. base + n : identity(r.nodes[k]) = all[k - base]
        /\ base \in Nat /\ n \in Nat
    BY DEF Made
  <1>2. \A k \in base + 1 .. base + n :
          k - base \in 1 .. n /\ all[k - base] \in S /\ At(all, all[k - base]) = k - base
    BY NodeOf
  <1>3. \A x \in S : /\ base + At(all, x) \in base + 1 .. base + n
                     /\ identity(r.nodes[base + At(all, x)]) = x
    BY <1>1, PlaceOf
  <1>4. Identities(r) = S
    BY <1>1, <1>2, <1>3 DEF Identities
  <1>5. ASSUME NEW x \in Ids(r), NEW y \in Ids(r), identity(r.nodes[x]) = identity(r.nodes[y])
        PROVE  x = y
    <2>1. x - base = y - base
      BY <1>1, <1>2, <1>5
    <2> QED BY <1>1, <2>1
  <1>6. ASSUME NEW e \in edges(r)
        PROVE  /\ e[1] \in Ids(r) /\ e[2] \in Ids(r)
               /\ <<identity(r.nodes[e[1]]), identity(r.nodes[e[2]]), e[3]>> \in F
    <2>0. PICK k \in DOMAIN r.adjacency : \E i \in DOMAIN r.adjacency[k] :
            e = <<k, r.adjacency[k][i].to, r.adjacency[k][i].kind>>
      BY DEF edges
    <2>1. PICK i \in DOMAIN r.adjacency[k] :
            e = <<k, r.adjacency[k][i].to, r.adjacency[k][i].kind>>
      BY <2>0
    <2> DEFINE fs == Leaving(F, all[k - base])
    <2>2. k \in base + 1 .. base + n
      BY <1>1
    <2>3. /\ i \in DOMAIN fs /\ fs[i] \in F /\ fs[i] = <<all[k - base], fs[i][2], fs[i][3]>>
          /\ fs[i][2] \in S /\ r.adjacency[k][i].to = base + At(all, fs[i][2])
          /\ r.adjacency[k][i].kind = fs[i][3]
      BY <2>2, EdgesOf
    <2> HIDE DEF fs
    <2>4. e[1] = k /\ e[2] = base + At(all, fs[i][2]) /\ e[3] = fs[i][3]
      BY <2>1, <2>3
    <2> QED BY <1>1, <1>3, <2>2, <2>3, <2>4
  <1>7. Facts(r) \subseteq F
    BY <1>6 DEF Facts
  <1>8. ASSUME NEW u \in F
        PROVE  u \in Facts(r)
    <2>1. u = <<u[1], u[2], u[3]>> /\ u[1] \in S /\ u[2] \in S
      BY DEF Made
    <2>2. PICK k \in base + 1 .. base + n : all[k - base] = u[1] /\ identity(r.nodes[k]) = u[1]
      BY <1>1, <1>3, <2>1
    <2> DEFINE fs == Leaving(F, all[k - base])
    <2>2a. /\ DOMAIN r.adjacency[k] = DOMAIN fs
           /\ \A f \in F : f[1] = all[k - base] => \E i \in DOMAIN fs : fs[i] = f
           /\ \A i \in DOMAIN fs : /\ r.adjacency[k][i].to = base + At(all, fs[i][2])
                                   /\ r.adjacency[k][i].kind = fs[i][3]
      <3>1. k \in base + 1 .. base + n
        BY <2>2
      <3> QED BY <3>1, EdgesOf
    <2> HIDE DEF fs
    <2>3. PICK i \in DOMAIN fs : fs[i] = u
      BY <2>2, <2>2a
    <2>4. /\ i \in DOMAIN r.adjacency[k]
          /\ r.adjacency[k][i].to = base + At(all, fs[i][2])
          /\ r.adjacency[k][i].kind = fs[i][3]
      BY <2>2a, <2>3
    <2> DEFINE e == <<k, r.adjacency[k][i].to, r.adjacency[k][i].kind>>
    <2>5. e \in edges(r)
      <3>1. k \in DOMAIN r.adjacency
        BY <1>1, <2>2
      <3>2. e \in {<<k, r.adjacency[k][j].to, r.adjacency[k][j].kind>> : j \in DOMAIN r.adjacency[k]}
        BY <2>4
      <3> HIDE DEF e
      <3> QED BY <3>1, <3>2 DEF edges
    <2>6. e[1] = k /\ e[2] = base + At(all, u[2]) /\ e[3] = u[3]
      BY <2>3, <2>4
    <2>7. /\ e[1] \in Ids(r) /\ e[2] \in Ids(r)
          /\ identity(r.nodes[e[1]]) = u[1] /\ identity(r.nodes[e[2]]) = u[2]
      BY <1>1, <1>3, <2>1, <2>2, <2>6
    <2> HIDE DEF e
    <2> QED BY <2>1, <2>5, <2>6, <2>7 DEF Facts
  <1>8a. ASSUME NEW k \in base + 1 .. base + n,
                NEW i \in DOMAIN Leaving(F, all[k - base]), NEW j \in DOMAIN Leaving(F, all[k - base]),
                Leaving(F, all[k - base])[i] = Leaving(F, all[k - base])[j]
         PROVE  i = j
    <2>1. IsFiniteSet(F)
      BY DEF Made
    <2> QED BY <1>8a, <2>1, LeavingOnce
  <1>9. ASSUME NEW x \in DOMAIN r.adjacency, NEW i \in DOMAIN r.adjacency[x],
               NEW j \in DOMAIN r.adjacency[x], r.adjacency[x][i] = r.adjacency[x][j]
        PROVE  i = j
    <2> DEFINE fs == Leaving(F, all[x - base])
    <2>1. x \in base + 1 .. base + n
      BY <1>1
    <2>2. /\ i \in DOMAIN fs /\ j \in DOMAIN fs
          /\ \A h \in DOMAIN fs : /\ fs[h] = <<all[x - base], fs[h][2], fs[h][3]>> /\ fs[h][2] \in S
                                  /\ r.adjacency[x][h].to = base + At(all, fs[h][2])
                                  /\ r.adjacency[x][h].kind = fs[h][3]
          /\ \A g, h \in DOMAIN fs : fs[g] = fs[h] => g = h
      <3>1. DOMAIN r.adjacency[x] = DOMAIN fs
        BY <2>1, EdgesOf
      <3>2. \A h \in DOMAIN fs : /\ fs[h] = <<all[x - base], fs[h][2], fs[h][3]>> /\ fs[h][2] \in S
                                 /\ r.adjacency[x][h].to = base + At(all, fs[h][2])
                                 /\ r.adjacency[x][h].kind = fs[h][3]
        BY <2>1, EdgesOf
      <3>3. \A g, h \in DOMAIN fs : fs[g] = fs[h] => g = h
        BY <2>1, <1>8a
      <3> QED BY <3>1, <3>2, <3>3
    <2> HIDE DEF fs
    <2>3. /\ fs[i][3] = fs[j][3]
          /\ base + At(all, fs[i][2]) = base + At(all, fs[j][2])
      BY <1>9, <2>2
    <2>4. fs[i][2] = fs[j][2]
      BY <1>3, <2>2, <2>3
    <2>5. fs[i] = fs[j]
      BY <2>2, <2>3, <2>4
    <2> QED BY <2>2, <2>5
  <1>10. IsFiniteSet(base + 1 .. base + n)
    BY <1>1, FS_Interval
  <1>11. ASSUME NEW x \in DOMAIN r.adjacency PROVE IsFiniteSet(DOMAIN r.adjacency[x])
    <2> DEFINE fs == Leaving(F, all[x - base])
    <2>1. x \in base + 1 .. base + n
      BY <1>1
    <2>2. IsFiniteSet(DOMAIN fs) /\ DOMAIN r.adjacency[x] = DOMAIN fs
      BY <2>1, EdgesOf
    <2> QED BY <2>2
  <1> QED BY <1>1, <1>4, <1>5, <1>6, <1>7, <1>8, <1>9, <1>10, <1>11

\* The node of the merge that stands for x, before its name is set.
KeptNode(o, t, po, pt, strategy, x) ==
    IF x \in DOMAIN po \cap DOMAIN pt THEN Chosen(strategy, o.nodes[po[x]], t.nodes[pt[x]])
    ELSE IF x \in DOMAIN po THEN o.nodes[po[x]] ELSE t.nodes[pt[x]]

NamedNode(o, t, po, pt, x) == IF x \in DOMAIN po THEN o.nodes[po[x]] ELSE t.nodes[pt[x]]

MergedNode(o, t, po, pt, strategy, x) ==
    [NewNode(NamedNode(o, t, po, pt, x).kind, NamedNode(o, t, po, pt, x).label,
             KeptNode(o, t, po, pt, strategy, x).confidence)
       EXCEPT !.date = KeptNode(o, t, po, pt, strategy, x).date,
              !.provenance = KeptNode(o, t, po, pt, strategy, x).provenance]

Attributes == {"kind", "label", "confidence", "date", "provenance"}

LEMMA NodesOfMerge ==
    ASSUME NEW o, NEW t, IsGraph(o), IsGraph(t), NEW po \in Picks(o), NEW pt \in Picks(t),
           NEW strategy, NEW x \in Identities(o) \cup Identities(t)
    PROVE  LET d == MergedNode(o, t, po, pt, strategy, x)
           IN  /\ identity(d) = x /\ DOMAIN d = Attributes
               /\ d.confidence = Least(KeptNode(o, t, po, pt, strategy, x).confidence, 100)
               /\ d.confidence \in 0 .. 255
               /\ TakenFrom(o, d) \/ TakenFrom(t, d)
  <1> DEFINE kept == KeptNode(o, t, po, pt, strategy, x)
             name == NamedNode(o, t, po, pt, x)
             d == MergedNode(o, t, po, pt, strategy, x)
  <1>1. /\ DOMAIN po = Identities(o) /\ DOMAIN pt = Identities(t)
        /\ \A y \in DOMAIN po : po[y] \in Ids(o) /\ identity(o.nodes[po[y]]) = y
        /\ \A y \in DOMAIN pt : pt[y] \in Ids(t) /\ identity(t.nodes[pt[y]]) = y
    BY DEF Picks
  <1>2. /\ \A y \in DOMAIN po : o.nodes[po[y]].confidence \in 0 .. 255
        /\ \A y \in DOMAIN pt : t.nodes[pt[y]].confidence \in 0 .. 255
    BY <1>1 DEF IsGraph
  <1>3. /\ kept.confidence \in 0 .. 255 /\ identity(name) = x
        /\ \/ \E n \in Ids(o) : kept = o.nodes[n] /\ identity(o.nodes[n]) = x
           \/ \E n \in Ids(t) : kept = t.nodes[n] /\ identity(t.nodes[n]) = x
    BY <1>1, <1>2 DEF KeptNode, NamedNode, Chosen
  <1>4. d = [NewNode(name.kind, name.label, kept.confidence)
               EXCEPT !.date = kept.date, !.provenance = kept.provenance]
    BY DEF MergedNode
  <1> HIDE DEF kept, name, d
  <1>5. /\ DOMAIN d = Attributes /\ d.kind = name.kind /\ d.label = name.label
        /\ d.confidence = Least(kept.confidence, 100)
        /\ d.date = kept.date /\ d.provenance = kept.provenance
    BY <1>4 DEF Attributes, NewNode
  <1>6. identity(d) = x
    BY <1>3, <1>5 DEF identity
  <1>7. d.confidence \in 0 .. 255
    BY <1>3, <1>5 DEF Least
  <1>8. TakenFrom(o, d) \/ TakenFrom(t, d)
    BY <1>3, <1>5, <1>6 DEF TakenFrom
  <1> QED BY <1>5, <1>6, <1>7, <1>8 DEF kept, d

\* The graph of the merge is made of the identities and the facts of both.
MergeMade(o, t, po, pt, strategy, base) ==
    LET r == MergeGraphs(o, t, po, pt, strategy, base).graph
        S == Identities(o) \cup Identities(t)
    IN  /\ Made(r, base, Cardinality(S), S, SetToSeq(S), Facts(o) \cup Facts(t))
        /\ \A k \in Ids(r) : r.nodes[k] = MergedNode(o, t, po, pt, strategy, SetToSeq(S)[k - base])

LEMMA MergeIsMade ==
    ASSUME NEW o, NEW t, IsGraph(o), IsGraph(t), NEW po \in Picks(o), NEW pt \in Picks(t),
           NEW strategy, NEW base \in Nat
    PROVE  MergeMade(o, t, po, pt, strategy, base)
  <1> DEFINE r == MergeGraphs(o, t, po, pt, strategy, base).graph
             S == Identities(o) \cup Identities(t)
             all == SetToSeq(S)
             n == Cardinality(S)
             F == Facts(o) \cup Facts(t)

  <1>1. DOMAIN po \cup DOMAIN pt = S
    BY DEF Picks
  <1>2. /\ n \in Nat /\ all \in [1 .. n -> S] /\ Len(all) = n
        /\ \A i, j \in 1 .. n : all[i] = all[j] => i = j
        /\ \A x \in S : \E i \in 1 .. n : all[i] = x
    <2>1. IsFiniteSet(S)
      BY FiniteGraph, FS_Union
    <2> HIDE DEF S
    <2> QED BY <2>1, SetToSeqOnce
  <1>3. /\ IsFiniteSet(F)
        /\ \A f \in F : f = <<f[1], f[2], f[3]>> /\ f[1] \in S /\ f[2] \in S
    BY FiniteGraph, FactsShape, FS_Union
  <1> DEFINE Made_of(A) ==
                 [nodes |-> [k \in base + 1 .. base + Len(SetToSeq(A)) |->
                               MergedNode(o, t, po, pt, strategy, SetToSeq(A)[k - base])],
                  adjacency |-> [k \in base + 1 .. base + Len(SetToSeq(A)) |->
                                   LET fs == Leaving(F, SetToSeq(A)[k - base])
                                   IN  [i \in DOMAIN fs |->
                                          Edge(base + At(SetToSeq(A), fs[i][2]), fs[i][3])]]]
  <1>a. r = Made_of(DOMAIN po \cup DOMAIN pt)
    BY Zenon DEF MergeGraphs, MergedNode, KeptNode, NamedNode, At, Leaving
  <1>b. Made_of(DOMAIN po \cup DOMAIN pt) = Made_of(S)
    <2> HIDE DEF Made_of
    <2> QED BY <1>1
  <1>4. r = [nodes |-> [k \in base + 1 .. base + Len(all) |->
                          MergedNode(o, t, po, pt, strategy, all[k - base])],
             adjacency |-> [k \in base + 1 .. base + Len(all) |->
                              LET fs == Leaving(F, all[k - base])
                              IN  [i \in DOMAIN fs |-> Edge(base + At(all, fs[i][2]), fs[i][3])]]]
    <2> HIDE DEF r, F
    <2> QED BY <1>a, <1>b
  <1> HIDE DEF r, S, all, n, F
  <1>5. /\ Ids(r) = base + 1 .. base + n /\ DOMAIN r.adjacency = base + 1 .. base + n
        /\ \A k \in base + 1 .. base + n :
             LET fs == Leaving(F, all[k - base])
             IN  r.adjacency[k] = [i \in DOMAIN fs |-> Edge(base + At(all, fs[i][2]), fs[i][3])]
        /\ \A k \in Ids(r) : r.nodes[k] = MergedNode(o, t, po, pt, strategy, all[k - base])
    BY <1>2, <1>4 DEF Ids
  <1>6. ASSUME NEW k \in base + 1 .. base + n
        PROVE  identity(r.nodes[k]) = all[k - base]
    <2>1. all[k - base] \in S
      BY <1>2
    <2> QED BY <1>5, <2>1, NodesOfMerge DEF S
  <1>7. Made(r, base, n, S, all, F)
    BY <1>2, <1>3, <1>5, <1>6 DEF Made
  <1> QED BY <1>5, <1>7 DEF MergeMade, r, S, all, n, F

\* What a merge into r promises of the graphs o and t.
MergedWell(o, t, r, conflicts, strategy) ==
    /\ IsUnion(o, t, r)
    /\ AttributesTaken(o, t, r)
    /\ ConflictsTold(conflicts, strategy, r)
    /\ \A x \in Identities(o) \cap Identities(t) : x \notin DOMAIN conflicts =>
         \E n \in Ids(o), m \in Ids(t) :
           identity(o.nodes[n]) = x /\ identity(t.nodes[m]) = x /\ ~Differ(o.nodes[n], t.nodes[m])

LEMMA MergeIsRight ==
    ASSUME NEW o, NEW t, IsGraph(o), IsGraph(t), NEW po \in Picks(o), NEW pt \in Picks(t),
           NEW strategy \in Strategy, NEW base \in Nat
    PROVE  LET m == MergeGraphs(o, t, po, pt, strategy, base)
           IN  IsGraph(m.graph) /\ MergedWell(o, t, m.graph, m.conflicts, strategy)
  <1> DEFINE m == MergeGraphs(o, t, po, pt, strategy, base)
             r == m.graph
             S == Identities(o) \cup Identities(t)
             all == SetToSeq(S)
             n == Cardinality(S)
             F == Facts(o) \cup Facts(t)
             both == DOMAIN po \cap DOMAIN pt
             clashing == {x \in both : Differ(o.nodes[po[x]], t.nodes[pt[x]])}
  <1>1. /\ Made(r, base, n, S, all, F)
        /\ \A k \in Ids(r) : r.nodes[k] = MergedNode(o, t, po, pt, strategy, all[k - base])
    <2>1. MergeMade(o, t, po, pt, strategy, base)
      BY MergeIsMade
    <2> QED BY <2>1, Zenon DEF MergeMade
  <1>2. m.conflicts = [x \in clashing |->
                         [ours |-> o.nodes[po[x]].confidence, theirs |-> t.nodes[pt[x]].confidence,
                          resolved |-> KeptNode(o, t, po, pt, strategy, x).confidence]]
    BY Zenon DEF MergeGraphs, KeptNode
  <1>3. /\ DOMAIN po = Identities(o) /\ DOMAIN pt = Identities(t)
        /\ \A y \in DOMAIN po : po[y] \in Ids(o) /\ identity(o.nodes[po[y]]) = y
        /\ \A y \in DOMAIN pt : pt[y] \in Ids(t) /\ identity(t.nodes[pt[y]]) = y
    BY DEF Picks
  <1>4. both \subseteq S
    BY <1>3
  <1> HIDE DEF m, all, n, F
  <1>5. IsUnion(o, t, r) /\ IsFiniteSet(Ids(r)) /\ IsFiniteSet(DOMAIN r.adjacency)
        /\ \A x \in DOMAIN r.adjacency : IsFiniteSet(DOMAIN r.adjacency[x])
    <2> HIDE DEF S
    <2>1. /\ Identities(r) = S
          /\ \A x, y \in Ids(r) : identity(r.nodes[x]) = identity(r.nodes[y]) => x = y
          /\ Facts(r) = F
          /\ \A e \in edges(r) : e[1] \in Ids(r) /\ e[2] \in Ids(r)
          /\ \A x \in DOMAIN r.adjacency : \A i, j \in DOMAIN r.adjacency[x] :
               r.adjacency[x][i] = r.adjacency[x][j] => i = j
          /\ IsFiniteSet(Ids(r)) /\ IsFiniteSet(DOMAIN r.adjacency)
          /\ \A x \in DOMAIN r.adjacency : IsFiniteSet(DOMAIN r.adjacency[x])
      BY <1>1, MadeSays
    <2> QED BY <2>1 DEF IsUnion, S, F
  <1>6. \A k \in Ids(r) : all[k - base] \in S
    <2> HIDE DEF S
    <2>1. Ids(r) = base + 1 .. base + n
      BY <1>1 DEF Made
    <2> QED BY <1>1, <2>1, NodeOf
  <1>7. \A k \in Ids(r) : /\ DOMAIN r.nodes[k] = Attributes /\ r.nodes[k].confidence \in 0 .. 255
                          /\ TakenFrom(o, r.nodes[k]) \/ TakenFrom(t, r.nodes[k])
    <2> TAKE k \in Ids(r)
    <2> HIDE DEF S
    <2>1. PICK x \in S : x = all[k - base]
      BY <1>6
    <2>2. r.nodes[k] = MergedNode(o, t, po, pt, strategy, x)
      BY <1>1, <2>1
    <2> DEFINE d == MergedNode(o, t, po, pt, strategy, x)
    <2>3. /\ DOMAIN d = Attributes /\ d.confidence \in 0 .. 255
          /\ TakenFrom(o, d) \/ TakenFrom(t, d)
      <3>1. x \in Identities(o) \cup Identities(t)
        BY <2>1 DEF S
      <3> QED BY <3>1, NodesOfMerge
    <2> HIDE DEF d
    <2> QED BY <2>2, <2>3 DEF d
  <1>7a. AttributesTaken(o, t, r)
    BY <1>7 DEF AttributesTaken
  <1>8. IsGraph(r)
    BY <1>5, <1>7 DEF IsGraph, Attributes
  <1>9. ASSUME NEW x \in S
        PROVE  \E k \in Ids(r) : /\ identity(r.nodes[k]) = x
                                 /\ r.nodes[k].confidence =
                                      Least(KeptNode(o, t, po, pt, strategy, x).confidence, 100)
    <2> DEFINE k == base + At(all, x)
    <2>1. k \in base + 1 .. base + n /\ k - base = At(all, x) /\ all[At(all, x)] = x
      <3> HIDE DEF S
      <3> QED BY <1>1, PlaceOf
    <2>2. k \in Ids(r)
      BY <1>1, <2>1 DEF Made
    <2>3. r.nodes[k] = MergedNode(o, t, po, pt, strategy, x)
      BY <1>1, <2>1, <2>2
    <2> HIDE DEF k
    <2> QED BY <2>2, <2>3, NodesOfMerge
  <1>10. ConflictsTold(m.conflicts, strategy, r)
    <2> SUFFICES ASSUME NEW x \in DOMAIN m.conflicts
                 PROVE  LET c == m.conflicts[x]
                        IN  /\ \E id \in Ids(r) : /\ identity(r.nodes[id]) = x
                                                  /\ r.nodes[id].confidence = Least(c.resolved, 100)
                            /\ c.resolved = CASE strategy = "PreferOurs"   -> c.ours
                                              [] strategy = "PreferTheirs" -> c.theirs
                                              [] OTHER -> Greatest(c.ours, c.theirs)
      BY DEF ConflictsTold
    <2> DEFINE c == m.conflicts[x]
    <2>1. /\ x \in both /\ x \in S
          /\ c.ours = o.nodes[po[x]].confidence /\ c.theirs = t.nodes[pt[x]].confidence
          /\ c.resolved = KeptNode(o, t, po, pt, strategy, x).confidence
      BY <1>2, <1>4
    <2>2. c.resolved = Chosen(strategy, o.nodes[po[x]], t.nodes[pt[x]]).confidence
      BY <2>1 DEF KeptNode
    <2>3. c.ours \in 0 .. 255 /\ c.theirs \in 0 .. 255
      BY <1>3, <2>1 DEF IsGraph
    <2>4. c.resolved = CASE strategy = "PreferOurs"   -> c.ours
                         [] strategy = "PreferTheirs" -> c.theirs
                         [] OTHER -> Greatest(c.ours, c.theirs)
      <3> HIDE DEF c
      <3> QED BY <2>1, <2>2, <2>3 DEF Chosen, PickTheirs, Greatest, Strategy
    <2>5. \E id \in Ids(r) : /\ identity(r.nodes[id]) = x
                             /\ r.nodes[id].confidence = Least(c.resolved, 100)
      BY <1>9, <2>1
    <2> QED BY <2>4, <2>5
  <1>11. ASSUME NEW x \in Identities(o) \cap Identities(t), x \notin DOMAIN m.conflicts
         PROVE  \E i \in Ids(o), j \in Ids(t) :
                  /\ identity(o.nodes[i]) = x /\ identity(t.nodes[j]) = x
                  /\ ~Differ(o.nodes[i], t.nodes[j])
    <2>1. ~Differ(o.nodes[po[x]], t.nodes[pt[x]])
      BY <1>2, <1>3, <1>11
    <2> QED BY <1>3, <2>1
  <1> QED BY <1>5, <1>7a, <1>8, <1>10, <1>11 DEF MergedWell, m
-----------------------------------------------------------------------------
(* The ancestry.                                                           *)

\* Every version but the first was committed on an earlier one.
Ancestors ==
    /\ Len(versions) \in Nat
    /\ \A v \in 0 .. Len(versions) - 1 :
         versions[v + 1].parent = None \/ versions[v + 1].parent \in 0 .. v - 1

\* What the recursion of the log asks of f at i, P being the parents.
Chained(P, f, i) == IF P[i] = None THEN <<i>> ELSE <<i>> \o f[P[i]]

LinkedUpto(P, f, n) == \A i \in 0 .. n - 1 : f[i] = Chained(P, f, i)

LEMMA ChainExists ==
    ASSUME NEW L \in Nat, NEW P, \A i \in 0 .. L - 1 : P[i] = None \/ P[i] \in 0 .. i - 1
    PROVE  \E f : LinkedUpto(P, f, L)
  <1> DEFINE T == {n \in Nat : n <= L /\ ~ \E f : LinkedUpto(P, f, n)}
  <1> SUFFICES ASSUME L \in T PROVE FALSE
    OBVIOUS
  <1>1. PICK n \in T : \A k \in T : n <= k
    <2>1. T \in SUBSET Nat /\ T # {}
      OBVIOUS
    <2> HIDE DEF T
    <2> QED BY <2>1, LeastNat
  <1>2. n \in Nat /\ n <= L /\ ~ \E f : LinkedUpto(P, f, n)
    BY <1>1
  <1>3. n # 0
    <2>1. LinkedUpto(P, <<>>, 0)
      BY DEF LinkedUpto
    <2> QED BY <1>2, <2>1
  <1>4. PICK f : LinkedUpto(P, f, n - 1)
    <2>1. n - 1 \in Nat /\ n - 1 <= L /\ n - 1 < n
      BY <1>2, <1>3
    <2>2. n - 1 \notin T
      <3> HIDE DEF T
      <3> QED BY <1>1, <1>2, <2>1
    <2> QED BY <2>1, <2>2
  <1> DEFINE h == [i \in 0 .. n - 1 |-> IF i = n - 1 THEN Chained(P, f, i) ELSE f[i]]
  <1>5. ASSUME NEW i \in 0 .. n - 1 PROVE h[i] = Chained(P, h, i)
    <2>1. h[i] = Chained(P, f, i)
      <3>1. CASE i = n - 1
        BY <3>1
      <3>2. CASE i # n - 1
        <4>1. i \in 0 .. (n - 1) - 1
          BY <3>2, <1>2
        <4>2. h[i] = f[i]
          BY <3>2
        <4> QED BY <1>4, <4>1, <4>2 DEF LinkedUpto
      <3> QED BY <3>1, <3>2
    <2>2. CASE P[i] = None
      BY <2>1, <2>2 DEF Chained
    <2>3. CASE P[i] # None
      <3>1. i \in 0 .. L - 1
        BY <1>2
      <3>2. P[i] \in 0 .. i - 1
        BY <2>3, <3>1
      <3>3. P[i] \in 0 .. n - 1 /\ P[i] # n - 1
        BY <1>2, <3>2
      <3>4. h[P[i]] = f[P[i]]
        BY <3>3
      <3> HIDE DEF h
      <3> QED BY <2>1, <3>4 DEF Chained
    <2> QED BY <2>2, <2>3
  <1>6. LinkedUpto(P, h, n)
    <2> HIDE DEF h
    <2> QED BY <1>5 DEF LinkedUpto
  <1> QED BY <1>2, <1>6

LEMMA LogUnfolds ==
    ASSUME Ancestors, NEW v \in 0 .. Len(versions) - 1, versions[v + 1].parent # None
    PROVE  Log(v) = <<v>> \o Log(versions[v + 1].parent)
  <1> DEFINE D == 0 .. Len(versions) - 1
             P == [i \in D |-> versions[i + 1].parent]
             chain == CHOOSE f : f = [i \in D |-> IF versions[i + 1].parent = None THEN <<i>>
                                                  ELSE <<i>> \o f[versions[i + 1].parent]]
  <1>1. /\ Len(versions) \in Nat
        /\ \A i \in D : P[i] = versions[i + 1].parent /\ (P[i] = None \/ P[i] \in 0 .. i - 1)
    BY DEF Ancestors
  <1>2. \A w : Log(w) = chain[w]
    BY DEF Log
  <1>3. \A f : [i \in D |-> IF versions[i + 1].parent = None THEN <<i>>
                             ELSE <<i>> \o f[versions[i + 1].parent]]
               = [i \in D |-> Chained(P, f, i)]
    BY <1>1 DEF Chained
  <1>4. PICK f : LinkedUpto(P, f, Len(versions))
    <2> HIDE DEF P
    <2> QED BY <1>1, ChainExists
  <1> HIDE DEF P
  <1> DEFINE g == [i \in D |-> f[i]]
  <1>5. g = [i \in D |-> Chained(P, g, i)]
    <2>1. ASSUME NEW i \in D PROVE f[i] = Chained(P, g, i)
      <3>1. f[i] = Chained(P, f, i)
        BY <1>4 DEF LinkedUpto
      <3>2. CASE P[i] = None
        BY <3>1, <3>2 DEF Chained
      <3>3. CASE P[i] # None
        <4>1. P[i] \in D
          BY <1>1, <3>3
        <4>2. g[P[i]] = f[P[i]]
          BY <4>1
        <4> HIDE DEF g
        <4> QED BY <3>1, <4>2 DEF Chained
      <3> QED BY <3>2, <3>3
    <2> QED BY <2>1
  <1>6. chain = [i \in D |-> Chained(P, chain, i)]
    <2>1. g = [i \in D |-> IF versions[i + 1].parent = None THEN <<i>>
                           ELSE <<i>> \o g[versions[i + 1].parent]]
      <3> HIDE DEF g, D
      <3> QED BY <1>3, <1>5
    <2>2. chain = [i \in D |-> IF versions[i + 1].parent = None THEN <<i>>
                               ELSE <<i>> \o chain[versions[i + 1].parent]]
      <3> HIDE DEF g, D
      <3> QED BY <2>1
    <2> HIDE DEF chain, D
    <2> QED BY <1>3, <2>2
  <1>7. v \in D /\ P[v] = versions[v + 1].parent
    BY <1>1
  <1> HIDE DEF chain, D
  <1>8. chain[v] = Chained(P, chain, v)
    BY <1>6, <1>7
  <1> QED BY <1>2, <1>7, <1>8 DEF Chained
-----------------------------------------------------------------------------
(* The repository.                                                         *)

RepoTypes ==
    /\ versions \in Seq(Range(versions)) /\ Len(versions) \in Nat \ {0}
    /\ \A v \in 0 .. Len(versions) - 1 : IsGraph(GraphAt(v))
    /\ \A b \in DOMAIN branches : branches[b] \in 0 .. Len(versions) - 1
    /\ current \in DOMAIN branches
    /\ minted \in Nat

\* The last merge, of versions that are still what they were.
MergeInv ==
    merged # NoMerge =>
        /\ {merged.ours, merged.theirs, merged.result} \subseteq 0 .. Len(versions) - 1
        /\ versions[merged.result + 1].parent = merged.ours
        /\ MergedWell(GraphAt(merged.ours), GraphAt(merged.theirs), GraphAt(merged.result),
                      merged.conflicts, merged.strategy)

RepoInv == RepoTypes /\ Ancestors /\ MergeInv

LEMMA AppendKeeps ==
    ASSUME NEW s, s \in Seq(Range(s)), NEW e
    PROVE  LET u == Append(s, e)
           IN  /\ u \in Seq(Range(u)) /\ Len(s) \in Nat /\ Len(u) = Len(s) + 1
               /\ \A i \in 1 .. Len(s) : u[i] = s[i]
               /\ u[Len(s) + 1] = e
  <1> DEFINE u == Append(s, e)
             R == Range(s) \cup {e}
  <1>1. s \in Seq(R) /\ e \in R
    BY SeqDef
  <1>2. /\ u \in Seq(R) /\ Len(u) = Len(s) + 1 /\ Len(s) \in Nat
        /\ \A i \in 1 .. Len(s) : u[i] = s[i]
        /\ u[Len(s) + 1] = e
    <2> HIDE DEF R
    <2> QED BY <1>1
  <1>3. u \in [1 .. Len(u) -> Range(u)] /\ Len(u) \in Nat
    <2> HIDE DEF u, R
    <2>1. DOMAIN u = 1 .. Len(u) /\ Len(u) \in Nat /\ u = [i \in 1 .. Len(u) |-> u[i]]
      BY <1>2
    <2> QED BY <2>1 DEF Range
  <1>4. u \in Seq(Range(u))
    <2> HIDE DEF u
    <2> QED BY <1>3, SeqDef
  <1> QED BY <1>2, <1>4

LEMMA RepoInitInv == RepoInit => RepoInv
  <1> SUFFICES ASSUME RepoInit PROVE RepoInv
    OBVIOUS
  <1> DEFINE e == [parent |-> None, graph |-> empty_graph]
  <1>1. versions = <<e>> /\ Len(versions) = 1 /\ versions[1] = e
    BY DEF RepoInit
  <1>2. versions \in Seq(Range(versions))
    <2> HIDE DEF e
    <2>1. versions = Append(<<>>, e) /\ <<>> \in Seq(Range(<<>>))
      BY <1>1
    <2> QED BY <2>1, AppendKeeps
  <1>3. IsGraph(empty_graph)
    BY FS_EmptySet DEF IsGraph, empty_graph, Ids
  <1>4. IsGraph(GraphAt(0))
    BY <1>1, <1>3 DEF GraphAt
  <1>5. RepoTypes
    BY <1>1, <1>2, <1>4 DEF RepoTypes, RepoInit
  <1>6. Ancestors
    BY <1>1 DEF Ancestors
  <1> QED BY <1>5, <1>6 DEF RepoInv, MergeInv, RepoInit

\* A commit of g on the head keeps what is there and adds one version.
LEMMA CommitKeeps ==
    ASSUME RepoTypes, Ancestors, NEW g, IsGraph(g), CommitGraph(g), minted' \in Nat
    PROVE  /\ RepoTypes' /\ Ancestors'
           /\ Len(versions') = Len(versions) + 1
           /\ \A v \in 0 .. Len(versions) - 1 : versions'[v + 1] = versions[v + 1]
           /\ versions'[Len(versions) + 1] = [parent |-> head_id, graph |-> g]
           /\ head_id \in 0 .. Len(versions) - 1
  <1> DEFINE L == Len(versions)
  <1>1. versions' = Append(versions, [parent |-> head_id, graph |-> g])
    BY DEF CommitGraph
  <1>2. /\ versions' \in Seq(Range(versions')) /\ L \in Nat /\ Len(versions') = L + 1
        /\ \A i \in 1 .. L : versions'[i] = versions[i]
        /\ versions'[L + 1] = [parent |-> head_id, graph |-> g]
    <2> DEFINE e == [parent |-> head_id, graph |-> g]
    <2>1. versions \in Seq(Range(versions)) /\ versions' = Append(versions, e)
      BY <1>1 DEF RepoTypes
    <2> HIDE DEF e
    <2>2. /\ Append(versions, e) \in Seq(Range(Append(versions, e))) /\ L \in Nat
          /\ Len(Append(versions, e)) = L + 1
          /\ \A i \in 1 .. L : Append(versions, e)[i] = versions[i]
          /\ Append(versions, e)[L + 1] = e
      BY <2>1, AppendKeeps
    <2> QED BY <2>1, <2>2 DEF e
  <1>3. L # 0 /\ head_id \in 0 .. L - 1
    BY DEF RepoTypes, head_id
  <1>4. \A v \in 0 .. L - 1 : versions'[v + 1] = versions[v + 1]
    BY <1>2
  <1>5. /\ DOMAIN branches' = DOMAIN branches /\ current' = current
        /\ \A b \in DOMAIN branches : branches'[b] \in 0 .. L
    BY <1>2 DEF CommitGraph, RepoTypes
  <1>6. ASSUME NEW v \in 0 .. Len(versions') - 1 PROVE IsGraph(versions'[v + 1].graph)
    <2>1. CASE v \in 0 .. L - 1
      BY <1>4, <2>1 DEF RepoTypes, GraphAt
    <2>2. CASE v = L
      BY <1>2, <2>2
    <2> QED BY <1>2, <2>1, <2>2
  <1>7. RepoTypes'
    BY <1>2, <1>3, <1>5, <1>6 DEF RepoTypes, GraphAt
  <1>8. ASSUME NEW v \in 0 .. Len(versions') - 1
        PROVE  versions'[v + 1].parent = None \/ versions'[v + 1].parent \in 0 .. v - 1
    <2>1. CASE v \in 0 .. L - 1
      BY <1>4, <2>1 DEF Ancestors
    <2>2. CASE v = L
      BY <1>2, <1>3, <2>2
    <2> QED BY <1>2, <2>1, <2>2
  <1>9. Ancestors'
    BY <1>2, <1>8 DEF Ancestors
  <1> QED BY <1>2, <1>3, <1>4, <1>7, <1>9

\* What is said of the last merge stays true while versions are only added.
LEMMA MergeStays ==
    ASSUME MergeInv, UNCHANGED merged, Len(versions) \in Nat, Len(versions') \in Nat,
           Len(versions) <= Len(versions'),
           \A v \in 0 .. Len(versions) - 1 : versions'[v + 1] = versions[v + 1]
    PROVE  MergeInv'
  <1> SUFFICES ASSUME merged # NoMerge
               PROVE  /\ {merged.ours, merged.theirs, merged.result} \subseteq 0 .. Len(versions') - 1
                      /\ versions'[merged.result + 1].parent = merged.ours
                      /\ MergedWell(versions'[merged.ours + 1].graph, versions'[merged.theirs + 1].graph,
                                    versions'[merged.result + 1].graph,
                                    merged.conflicts, merged.strategy)
    BY DEF MergeInv, GraphAt
  <1>1. /\ {merged.ours, merged.theirs, merged.result} \subseteq 0 .. Len(versions) - 1
        /\ versions[merged.result + 1].parent = merged.ours
        /\ MergedWell(versions[merged.ours + 1].graph, versions[merged.theirs + 1].graph,
                      versions[merged.result + 1].graph, merged.conflicts, merged.strategy)
    BY DEF MergeInv, GraphAt
  <1>2. /\ versions'[merged.ours + 1] = versions[merged.ours + 1]
        /\ versions'[merged.theirs + 1] = versions[merged.theirs + 1]
        /\ versions'[merged.result + 1] = versions[merged.result + 1]
    BY <1>1
  <1> QED BY <1>1, <1>2

LEMMA CommitInv == RepoInv /\ Commit => RepoInv'
  <1> SUFFICES ASSUME RepoInv, Commit PROVE RepoInv'
    OBVIOUS
  <1>1. PICK g : /\ IsGraph(g) /\ CommitGraph(g) /\ UNCHANGED merged
                 /\ minted' = minted + Cardinality(DOMAIN g.nodes \ DOMAIN GraphAt(head_id).nodes)
    BY DEF Commit
  <1>2. minted' \in Nat
    <2>1. IsFiniteSet(DOMAIN g.nodes \ DOMAIN GraphAt(head_id).nodes)
      BY <1>1, FS_Difference DEF IsGraph, Ids
    <2>2. Cardinality(DOMAIN g.nodes \ DOMAIN GraphAt(head_id).nodes) \in Nat
      BY <2>1, FS_CardinalityType
    <2> QED BY <1>1, <2>2 DEF RepoInv, RepoTypes
  <1>3. /\ RepoTypes' /\ Ancestors'
        /\ Len(versions') = Len(versions) + 1
        /\ \A v \in 0 .. Len(versions) - 1 : versions'[v + 1] = versions[v + 1]
    BY <1>1, <1>2, CommitKeeps DEF RepoInv
  <1>4. MergeInv'
    <2>1. Len(versions) \in Nat
      BY DEF RepoInv, RepoTypes
    <2> QED BY <1>1, <1>3, <2>1, MergeStays DEF RepoInv
  <1> QED BY <1>3, <1>4 DEF RepoInv

LEMMA CreateBranchInv == ASSUME RepoInv, NEW name, CreateBranch(name) PROVE RepoInv'
  <1>1. /\ UNCHANGED <<versions, current, minted, merged>>
        /\ DOMAIN branches' = DOMAIN branches \cup {name}
        /\ \A b \in DOMAIN branches' : branches'[b] \in {head_id} \cup {branches[c] : c \in DOMAIN branches}
    BY DEF CreateBranch
  <1>2. RepoTypes'
    BY <1>1 DEF RepoInv, RepoTypes, head_id, GraphAt
  <1>3. Ancestors'
    BY <1>1 DEF RepoInv, Ancestors
  <1>4. MergeInv'
    BY <1>1, MergeStays DEF RepoInv, RepoTypes
  <1> QED BY <1>2, <1>3, <1>4 DEF RepoInv

LEMMA CheckoutInv == ASSUME RepoInv, NEW name, Checkout(name) PROVE RepoInv'
  <1>1. /\ UNCHANGED <<versions, branches, minted, merged>> /\ current' \in DOMAIN branches
    BY DEF Checkout
  <1>2. RepoTypes'
    BY <1>1 DEF RepoInv, RepoTypes, GraphAt
  <1>3. Ancestors'
    BY <1>1 DEF RepoInv, Ancestors
  <1>4. MergeInv'
    BY <1>1, MergeStays DEF RepoInv, RepoTypes
  <1> QED BY <1>2, <1>3, <1>4 DEF RepoInv

LEMMA MergeKeeps ==
    ASSUME RepoInv, NEW other, NEW strategy \in Strategy, Merge(other, strategy)
    PROVE  RepoInv'
  <1> DEFINE o == GraphAt(head_id)
             t == GraphAt(branches[other])
             L == Len(versions)
  <1>1. PICK po \in Picks(o) : \E pt \in Picks(t) :
          LET m == MergeGraphs(o, t, po, pt, strategy, minted)
          IN  /\ minted' = minted + Cardinality(Ids(m.graph))
              /\ CommitGraph(m.graph)
              /\ merged' = [ours |-> head_id, theirs |-> branches[other], result |-> L,
                            strategy |-> strategy, conflicts |-> m.conflicts,
                            added_from_theirs |-> m.added_from_theirs]
    BY DEF Merge
  <1>2. PICK pt \in Picks(t) :
          LET m == MergeGraphs(o, t, po, pt, strategy, minted)
          IN  /\ minted' = minted + Cardinality(Ids(m.graph))
              /\ CommitGraph(m.graph)
              /\ merged' = [ours |-> head_id, theirs |-> branches[other], result |-> L,
                            strategy |-> strategy, conflicts |-> m.conflicts,
                            added_from_theirs |-> m.added_from_theirs]
    BY <1>1
  <1> DEFINE m == MergeGraphs(o, t, po, pt, strategy, minted)
  <1>3. /\ other \in DOMAIN branches /\ branches[other] \in 0 .. L - 1 /\ head_id \in 0 .. L - 1
        /\ L \in Nat /\ minted \in Nat
    BY DEF Merge, RepoInv, RepoTypes, head_id
  <1>4. IsGraph(o) /\ IsGraph(t)
    BY <1>3 DEF RepoInv, RepoTypes
  <1>5. IsGraph(m.graph) /\ MergedWell(o, t, m.graph, m.conflicts, strategy)
    <2> HIDE DEF o, t
    <2> QED BY <1>1, <1>2, <1>3, <1>4, MergeIsRight
  <1>6. /\ minted' = minted + Cardinality(Ids(m.graph)) /\ CommitGraph(m.graph)
        /\ merged'.ours = head_id /\ merged'.theirs = branches[other] /\ merged'.result = L
        /\ merged'.strategy = strategy /\ merged'.conflicts = m.conflicts
    <2> HIDE DEF o, t
    <2> QED BY <1>2
  <1> HIDE DEF m
  <1>7. minted' \in Nat
    <2>1. IsFiniteSet(Ids(m.graph))
      BY <1>5 DEF IsGraph
    <2>2. Cardinality(Ids(m.graph)) \in Nat
      BY ONLY <2>1, FS_CardinalityType
    <2> QED BY <1>3, <1>6, <2>2
  <1>8. /\ RepoTypes' /\ Ancestors'
        /\ Len(versions') = L + 1
        /\ \A v \in 0 .. L - 1 : versions'[v + 1] = versions[v + 1]
        /\ versions'[L + 1] = [parent |-> head_id, graph |-> m.graph]
    <2>1. RepoTypes /\ Ancestors
      BY DEF RepoInv
    <2> DEFINE g == m.graph
    <2>2. IsGraph(g) /\ CommitGraph(g) /\ minted' \in Nat
      BY <1>5, <1>6, <1>7
    <2> HIDE DEF g
    <2>3. /\ RepoTypes' /\ Ancestors' /\ Len(versions') = L + 1
          /\ \A v \in 0 .. L - 1 : versions'[v + 1] = versions[v + 1]
          /\ versions'[L + 1] = [parent |-> head_id, graph |-> g]
      BY ONLY <2>1, <2>2, CommitKeeps
    <2> QED BY <2>3 DEF g
  <1>9. MergeInv'
    <2>1. /\ versions'[head_id + 1].graph = o /\ versions'[branches[other] + 1].graph = t
          /\ versions'[L + 1].graph = m.graph
      BY <1>3, <1>8 DEF GraphAt
    <2>2. /\ {merged'.ours, merged'.theirs, merged'.result} \subseteq 0 .. Len(versions') - 1
          /\ versions'[merged'.result + 1].parent = merged'.ours
          /\ MergedWell(versions'[merged'.ours + 1].graph, versions'[merged'.theirs + 1].graph,
                        versions'[merged'.result + 1].graph, merged'.conflicts, merged'.strategy)
      <3> HIDE DEF o, t
      <3> QED BY <1>3, <1>5, <1>6, <1>8, <2>1
    <2> QED BY <2>2 DEF MergeInv, GraphAt
  <1> QED BY <1>8, <1>9 DEF RepoInv

LEMMA RepoInvHolds == RepoSpec => []RepoInv
  <1>1. RepoInit => RepoInv
    BY RepoInitInv
  <1>2. RepoInv /\ [RepoNext]_repoVars => RepoInv'
    <2> SUFFICES ASSUME RepoInv, [RepoNext]_repoVars PROVE RepoInv'
      OBVIOUS
    <2>1. CASE Commit
      BY <2>1, CommitInv
    <2>2. ASSUME NEW b \in Branch, CreateBranch(b) PROVE RepoInv'
      BY <2>2, CreateBranchInv
    <2>3. ASSUME NEW b \in Branch, Checkout(b) PROVE RepoInv'
      BY <2>3, CheckoutInv
    <2>4. ASSUME NEW b \in Branch, NEW s \in Strategy, Merge(b, s) PROVE RepoInv'
      BY <2>4, MergeKeeps
    <2>5. CASE UNCHANGED repoVars
      BY <2>5 DEF repoVars, RepoInv, RepoTypes, Ancestors, MergeInv, GraphAt
    <2> QED BY <2>1, <2>2, <2>3, <2>4, <2>5 DEF RepoNext
  <1> QED BY <1>1, <1>2, PTL DEF RepoSpec

\* Every merge (versioning.rs) keeps all that both sides know and no more, as far
\* as identities tell nodes apart, mixes the attributes of no two nodes, tells
\* each disagreement as it was settled, the merged node having what was told cut
\* to 100, and is logged on top of the branch,
\* whatever was committed, branched or merged before and since.
THEOREM MergesAreUnions == RepoSpec => []MergeIsUnion
  <1>1. RepoInv => MergeIsUnion
    <2> SUFFICES ASSUME RepoInv, merged # NoMerge
                 PROVE  /\ MergedWell(GraphAt(merged.ours), GraphAt(merged.theirs),
                                      GraphAt(merged.result), merged.conflicts, merged.strategy)
                        /\ Log(merged.result) = <<merged.result>> \o Log(merged.ours)
      BY DEF MergeIsUnion, MergedWell
    <2>1. /\ merged.result \in 0 .. Len(versions) - 1 /\ merged.ours \in Nat
          /\ versions[merged.result + 1].parent = merged.ours
          /\ MergedWell(GraphAt(merged.ours), GraphAt(merged.theirs), GraphAt(merged.result),
                        merged.conflicts, merged.strategy)
      BY DEF RepoInv, MergeInv, RepoTypes
    <2>2. versions[merged.result + 1].parent # None
      BY <2>1, GraphRepoAssumption
    <2>3. Log(merged.result) = <<merged.result>> \o Log(versions[merged.result + 1].parent)
      BY <2>1, <2>2, LogUnfolds DEF RepoInv
    <2> QED BY <2>1, <2>3
  <1> QED BY <1>1, RepoInvHolds, PTL

-----------------------------------------------------------------------------
(* The knowledge bus: loops.                                               *)

\* What holds of 0 and passes from each number to the next holds up to N.
LEMMA UpTo ==
    ASSUME NEW N \in Nat, NEW G, 0 \in G, \A n \in 1 .. N : n - 1 \in G => n \in G
    PROVE  0 .. N \subseteq G
  <1> DEFINE T == (0 .. N) \ G
  <1> SUFFICES ASSUME T # {} PROVE FALSE
    OBVIOUS
  <1>1. T \in SUBSET Nat
    OBVIOUS
  <1> HIDE DEF T
  <1>2. PICK n \in T : \A k \in T : n <= k
    BY <1>1, LeastNat
  <1>3. n \in 1 .. N /\ n \notin G
    BY <1>2 DEF T
  <1>4. n - 1 \notin T
    BY <1>2, <1>3
  <1>5. n - 1 \in G
    BY <1>3, <1>4 DEF T
  <1> QED BY <1>3, <1>5

\* One turn of each of the loops: of a filter, of the words of a sentence, of
\* the distinct ids, of the links, of the documents; of a concatenation; of the
\* items and of the lines of a manifest; of the nodes near to another, of the
\* edges that a traversal follows and of its queue.
Turn(loop, c, a, x) ==
    CASE loop = "kept" -> IF x \in c THEN Append(a, x) ELSE a
      [] loop = "word" -> ParseWord(a, x)
      [] loop = "unique" -> IF x \in Range(a) THEN a ELSE Append(a, x)
      [] loop = "link" -> Link(a, x)
      [] loop = "store" -> StoreEach(a, x)
      [] loop = "concat" -> a \o x
      [] loop = "push" -> push_list_item(a, c, x)
      [] loop = "line" -> ParseLine(a, x)
      [] loop = "near" -> Spread(c[1], c[2], a)
      [] loop = "visit" -> VisitEdge(c[1], c[2], a, x)
      [] loop = "dequeue" -> Dequeue(c[1], c[2], a)

\* f follows the loop for n turns.
Turns(f, loop, c, base, xs, n) ==
    f[0] = base /\ \A i \in 1 .. n : f[i] = Turn(loop, c, f[i - 1], xs[i])

\* Each of the loops is a function: there is one on every prefix.
LEMMA LoopExists ==
    ASSUME NEW loop, NEW c, NEW base, NEW xs, NEW N \in Nat
    PROVE  \E f : f = [n \in 0 .. N |-> IF n = 0 THEN base ELSE Turn(loop, c, f[n - 1], xs[n])]
  <1> DEFINE G == {n \in 0 .. N : \E f : Turns(f, loop, c, base, xs, n)}
  <1>1. 0 \in G
    <2>1. Turns([n \in {0} |-> base], loop, c, base, xs, 0)
      BY DEF Turns
    <2> QED BY <2>1
  <1>2. ASSUME NEW n \in 1 .. N, n - 1 \in G PROVE n \in G
    <2>1. PICK f : Turns(f, loop, c, base, xs, n - 1)
      BY <1>2
    <2> DEFINE g == [i \in 0 .. n |-> IF i = n THEN Turn(loop, c, f[n - 1], xs[n]) ELSE f[i]]
    <2>2. \A i \in 0 .. n - 1 : g[i] = f[i]
      OBVIOUS
    <2>3. g[n] = Turn(loop, c, f[n - 1], xs[n])
      OBVIOUS
    <2> HIDE DEF g
    <2>4. \A i \in 1 .. n : g[i] = Turn(loop, c, g[i - 1], xs[i])
      <3> TAKE i \in 1 .. n
      <3>1. i - 1 \in 0 .. n - 1 /\ g[i - 1] = f[i - 1]
        BY <2>2
      <3>2. CASE i = n
        BY <2>3, <3>1, <3>2
      <3>3. CASE i # n
        <4>1. i \in 1 .. (n - 1) /\ i \in 0 .. (n - 1)
          BY <3>3
        <4>2. f[i] = Turn(loop, c, f[i - 1], xs[i])
          BY <2>1, <4>1 DEF Turns
        <4> QED BY <2>2, <3>1, <4>1, <4>2
      <3> QED BY <3>2, <3>3
    <2>5. g[0] = base
      BY <2>1, <2>2 DEF Turns
    <2> QED BY <2>4, <2>5 DEF Turns
  <1> HIDE DEF G
  <1>3. N \in G
    BY <1>1, <1>2, UpTo
  <1>4. PICK f : Turns(f, loop, c, base, xs, N)
    BY <1>3 DEF G
  <1> DEFINE h == [n \in 0 .. N |-> f[n]]
  <1>5. h = [n \in 0 .. N |-> IF n = 0 THEN base ELSE Turn(loop, c, h[n - 1], xs[n])]
    <2>1. ASSUME NEW n \in 0 .. N
          PROVE  f[n] = IF n = 0 THEN base ELSE Turn(loop, c, h[n - 1], xs[n])
      <3>1. CASE n = 0
        BY <1>4, <3>1 DEF Turns
      <3>2. CASE n # 0
        <4>1. n \in 1 .. N /\ n - 1 \in 0 .. N
          BY <3>2
        <4>2. h[n - 1] = f[n - 1]
          BY <4>1
        <4>3. f[n] = Turn(loop, c, f[n - 1], xs[n])
          BY <1>4, <4>1 DEF Turns
        <4> QED BY <3>2, <4>2, <4>3
      <3> QED BY <3>1, <3>2
    <2> QED BY <2>1
  <1> QED BY <1>5

\* What a loop written as a function on 0 .. N computes.
LEMMA LoopUnfolds ==
    ASSUME NEW loop, NEW c, NEW base, NEW xs, NEW N \in Nat, NEW f,
           f = CHOOSE g : g = [n \in 0 .. N |-> IF n = 0 THEN base ELSE Turn(loop, c, g[n - 1], xs[n])]
    PROVE  Turns(f, loop, c, base, xs, N)
  <1>1. f = [n \in 0 .. N |-> IF n = 0 THEN base ELSE Turn(loop, c, f[n - 1], xs[n])]
    BY LoopExists
  <1>2. f[0] = base
    BY <1>1
  <1>3. \A i \in 1 .. N : f[i] = Turn(loop, c, f[i - 1], xs[i])
    <2> TAKE i \in 1 .. N
    <2>1. i \in 0 .. N /\ i # 0
      OBVIOUS
    <2> QED BY <1>1, <2>1
  <1> QED BY <1>2, <1>3 DEF Turns

\* What every turn keeps holds at the end.
LEMMA LoopKeeps ==
    ASSUME NEW loop, NEW c, NEW base, NEW xs, NEW N \in Nat, NEW f, Turns(f, loop, c, base, xs, N),
           NEW P, base \in P, \A a \in P, i \in 1 .. N : Turn(loop, c, a, xs[i]) \in P
    PROVE  f[N] \in P
  <1> DEFINE G == {n \in 0 .. N : f[n] \in P}
  <1>2. 0 \in G
    BY DEF Turns
  <1>3. \A n \in 1 .. N : n - 1 \in G => n \in G
    BY DEF Turns
  <1> HIDE DEF G
  <1>4. N \in G
    <2>1. 0 .. N \subseteq G
      BY <1>2, <1>3, UpTo
    <2> QED BY <2>1
  <1> QED BY <1>4 DEF G

\* A filter keeps what is in the set, and nothing else.
LEMMA KeptIs ==
    ASSUME NEW R, NEW s \in Seq(R), NEW S
    PROVE  Kept(s, S) \in Seq(R) /\ Range(Kept(s, S)) = Range(s) \cap S
  <1> DEFINE N == Len(s)
             f == CHOOSE g : g = [n \in 0 .. N |->
                    IF n = 0 THEN <<>> ELSE IF s[n] \in S THEN Append(g[n - 1], s[n]) ELSE g[n - 1]]
             h == CHOOSE g : g = [n \in 0 .. N |-> IF n = 0 THEN <<>> ELSE Turn("kept", S, g[n - 1], s[n])]
             G == {n \in 0 .. N : f[n] \in Seq(R) /\ Range(f[n]) = {s[i] : i \in 1 .. n} \cap S}
  <1>1. N \in Nat /\ DOMAIN s = 1 .. N /\ \A i \in 1 .. N : s[i] \in R
    OBVIOUS
  <1>2. Kept(s, S) = f[N]
    BY DEF Kept
  <1>3. f = h
    BY DEF Turn
  <1> HIDE DEF f, N
  <1>4. Turns(f, "kept", S, <<>>, s, N)
    BY <1>1, <1>3, LoopUnfolds
  <1>5. 0 \in G
    <2>1. f[0] = <<>>
      BY <1>4 DEF Turns
    <2>2. Range(<<>>) = {} /\ <<>> \in Seq(R)
      BY DEF Range
    <2>3. {s[i] : i \in 1 .. 0} = {} /\ 0 \in 0 .. N
      BY <1>1
    <2> QED BY <2>1, <2>2, <2>3
  <1>6. ASSUME NEW n \in 1 .. N, n - 1 \in G PROVE n \in G
    <2> DEFINE a == f[n - 1]
    <2>1. f[n] = IF s[n] \in S THEN Append(a, s[n]) ELSE a
      BY <1>4 DEF Turns, Turn
    <2>2. a \in Seq(R) /\ Range(a) = {s[i] : i \in 1 .. n - 1} \cap S /\ s[n] \in R
      BY <1>1, <1>6
    <2>3. {s[i] : i \in 1 .. n} = {s[i] : i \in 1 .. n - 1} \cup {s[n]}
      BY <1>1
    <2> HIDE DEF a
    <2>4. Append(a, s[n]) \in Seq(R) /\ Range(Append(a, s[n])) = Range(a) \cup {s[n]}
      <3>1. Append(a, s[n]) \in Seq(R) /\ DOMAIN Append(a, s[n]) = 1 .. Len(a) + 1
        BY <2>2
      <3>2. DOMAIN a = 1 .. Len(a) /\ Len(a) \in Nat
        BY <2>2
      <3>3. Append(a, s[n])[Len(a) + 1] = s[n] /\ \A i \in 1 .. Len(a) : Append(a, s[n])[i] = a[i]
        BY <2>2
      <3> QED BY <3>1, <3>2, <3>3 DEF Range
    <2>5. f[n] \in Seq(R) /\ Range(f[n]) = {s[i] : i \in 1 .. n} \cap S
      BY <2>1, <2>2, <2>3, <2>4
    <2> QED BY <1>1, <2>5
  <1> HIDE DEF G
  <1>7. N \in G
    BY <1>1, <1>5, <1>6, UpTo
  <1>8. f[N] \in Seq(R) /\ Range(f[N]) = {s[i] : i \in 1 .. N} \cap S
    BY <1>7 DEF G
  <1> QED BY <1>1, <1>2, <1>8 DEF Range

-----------------------------------------------------------------------------
(* The knowledge bus: its graph.                                           *)

EdgesTo(n) == [to : 1 .. n, kind : EdgeKinds]
Adjacency(n) == UNION {[D -> Seq(EdgesTo(n))] : D \in SUBSET (1 .. n)}

IsNode(x) ==
    /\ x = [f \in {"kind", "label", "confidence", "date", "provenance"} |-> x[f]]
    /\ x.confidence \in Nat

\* Nodes and edges are between the first n ids.
Among(g, n) ==
    /\ g = [nodes |-> g.nodes, adjacency |-> g.adjacency]
    /\ g.nodes = [id \in Ids(g) |-> g.nodes[id]] /\ Ids(g) \subseteq 1 .. n
    /\ \A id \in Ids(g) : IsNode(g.nodes[id])
    /\ g.adjacency \in Adjacency(n)

\* The edges of one id.
LEMMA LeavingEdges ==
    ASSUME NEW n \in Nat, NEW g, Among(g, n), NEW id
    PROVE  /\ OutEdges(g, id) \in Seq(EdgesTo(n))
           /\ \A e \in Range(OutEdges(g, id)) : e \in EdgesTo(n) /\ e.to \in 1 .. n
  <1>1. OutEdges(g, id) \in Seq(EdgesTo(n))
    BY DEF OutEdges, Among, Adjacency
  <1>2. \A e \in EdgesTo(n) : e.to \in 1 .. n
    BY DEF EdgesTo
  <1> QED BY <1>1, <1>2 DEF Range

\* The neighbours are the nodes that the edges point at.
LEMMA NeighborsAre ==
    ASSUME NEW n \in Nat, NEW g, Among(g, n), NEW id
    PROVE  Range(neighbors(g, id)) = {x \in Ids(g) : \E e \in Range(OutEdges(g, id)) : e.to = x}
  <1> DEFINE out == OutEdges(g, id)
             S == {e \in Range(out) : e.to \in Ids(g)}
             live == Kept(out, S)
  <1>1. out \in Seq(EdgesTo(n))
    BY LeavingEdges
  <1> HIDE DEF out
  <1>2. live \in Seq(EdgesTo(n)) /\ Range(live) = Range(out) \cap S
    BY <1>1, KeptIs
  <1>3. neighbors(g, id) = [i \in DOMAIN live |-> live[i].to]
    BY DEF neighbors, out
  <1> HIDE DEF live
  <1>4. Range(neighbors(g, id)) = {e.to : e \in Range(live)}
    BY <1>3 DEF Range
  <1> QED BY <1>2, <1>4 DEF out

\* What is told of a node depends on it, its edges and the labels they point at.
LEMMA SummaryStays ==
    ASSUME NEW n \in Nat, NEW m \in Nat, NEW g, Among(g, n), NEW h, Among(h, m), NEW id \in Ids(g) \cap Ids(h),
           OutEdges(h, id) = OutEdges(g, id), Ids(h) \cap 1 .. n = Ids(g),
           \A x \in Ids(g) : h.nodes[x] = g.nodes[x]
    PROVE  summarize(h, id) = summarize(g, id)
  <1> DEFINE R == Range(neighbors(g, id))
  <1>1. \A e \in Range(OutEdges(g, id)) : e.to \in 1 .. n
    BY LeavingEdges
  <1>2. Range(neighbors(h, id)) = R
    <2>1. Range(neighbors(h, id)) = {x \in Ids(h) : \E e \in Range(OutEdges(h, id)) : e.to = x}
      BY NeighborsAre
    <2>2. R = {x \in Ids(g) : \E e \in Range(OutEdges(g, id)) : e.to = x}
      BY NeighborsAre
    <2> HIDE DEF R
    <2> QED BY <1>1, <2>1, <2>2
  <1>3. R \subseteq Ids(g)
    BY NeighborsAre
  <1> HIDE DEF R
  <1>4. {h.nodes[x].label : x \in R} = {g.nodes[x].label : x \in R}
    BY <1>3
  <1> QED BY <1>2, <1>4 DEF summarize, R

-----------------------------------------------------------------------------
(* The knowledge bus: each step.                                           *)

IsList(d) == Len(d) \in Nat /\ d = [i \in 1 .. Len(d) |-> d[i]]

BusInv ==
    /\ ids \in Nat
    /\ Among(graph, ids)
    /\ queue \in Seq(1 .. ids)
    /\ IsList(docs)
    /\ IndexFollowsBus

\* A bus starts empty, and so does its index.
LEMMA BusStarts == BusInit => BusInv
  <1> SUFFICES ASSUME BusInit PROVE BusInv
    OBVIOUS
  <1>1. ids \in Nat /\ ids = 0 /\ queue = <<>> /\ docs = <<>> /\ graph = empty_graph
    BY DEF BusInit
  <1>2. /\ empty_graph.nodes = <<>> /\ empty_graph.adjacency = <<>>
        /\ empty_graph = [nodes |-> empty_graph.nodes, adjacency |-> empty_graph.adjacency]
    BY DEF empty_graph
  <1>3. Ids(graph) = {} /\ graph.nodes = [id \in {} |-> graph.nodes[id]]
    BY <1>1, <1>2 DEF Ids
  <1>4. graph.adjacency \in Adjacency(0)
    <2>1. {} \in SUBSET (1 .. 0) /\ <<>> \in [{} -> Seq(EdgesTo(0))]
      OBVIOUS
    <2> QED BY <1>1, <1>2, <2>1 DEF Adjacency
  <1>5. Among(graph, ids)
    BY <1>1, <1>2, <1>3, <1>4 DEF Among
  <1>6. queue \in Seq(1 .. ids) /\ DOMAIN docs = {}
    BY <1>1
  <1>7. IsList(docs)
    BY <1>1 DEF IsList
  <1> QED BY <1>1, <1>3, <1>5, <1>6, <1>7 DEF BusInv, IndexFollowsBus

LEMMA ConcatIs ==
    ASSUME NEW S, NEW s \in Seq(S), NEW t \in Seq(S)
    PROVE  s \o t \in Seq(S) /\ Range(s \o t) = Range(s) \cup Range(t)
  <1>1. /\ s \o t \in Seq(S) /\ Len(s \o t) = Len(s) + Len(t)
        /\ \A i \in 1 .. Len(s) : (s \o t)[i] = s[i]
        /\ \A i \in 1 .. Len(t) : (s \o t)[Len(s) + i] = t[i]
    BY ConcatParts
  <1>2. /\ DOMAIN s = 1 .. Len(s) /\ DOMAIN t = 1 .. Len(t) /\ Len(s) \in Nat /\ Len(t) \in Nat
        /\ DOMAIN (s \o t) = 1 .. Len(s) + Len(t)
    BY <1>1
  <1>3. ASSUME NEW x \in Range(s) \cup Range(t) PROVE x \in Range(s \o t)
    <2>1. CASE x \in Range(s)
      BY <1>1, <1>2, <2>1 DEF Range
    <2>2. CASE x \in Range(t)
      <3>1. PICK i \in 1 .. Len(t) : x = t[i]
        BY <1>2, <2>2 DEF Range
      <3>2. Len(s) + i \in 1 .. Len(s) + Len(t)
        BY <1>2
      <3> QED BY <1>1, <1>2, <3>1, <3>2 DEF Range
    <2> QED BY <1>3, <2>1, <2>2
  <1>4. ASSUME NEW i \in 1 .. Len(s) + Len(t) PROVE (s \o t)[i] \in Range(s) \cup Range(t)
    <2>1. CASE i <= Len(s)
      BY <1>1, <1>2, <2>1 DEF Range
    <2>2. CASE i > Len(s)
      <3>1. i - Len(s) \in 1 .. Len(t) /\ i = Len(s) + (i - Len(s))
        BY <1>2, <2>2
      <3>2. (s \o t)[i] = t[i - Len(s)]
        BY <1>1, <3>1
      <3> QED BY <1>2, <3>1, <3>2 DEF Range
    <2> QED BY <1>2, <2>1, <2>2
  <1> QED BY <1>1, <1>2, <1>3, <1>4 DEF Range

\* A change that announces every node it changes, or remembers it as silent,
\* leaves the index as good as it was.
LEMMA AnnounceKeeps ==
    ASSUME BusInv, NEW m \in Nat, ids <= m, ids' = m, NEW g, Among(g, m), NEW changed \in Seq(1 .. m),
           NEW silently, Announce(g, changed, silently),
           \A id \in Ids(g) \ (Range(changed) \cup silently) :
              id \in Ids(graph) /\ summarize(g, id) = summarize(graph, id)
    PROVE  BusInv'
  <1>1. graph' = g /\ queue' = queue \o changed /\ docs' = docs /\ unsearched' = unsearched
        /\ quiet' = (quiet \cup silently) \ Range(changed)
    BY DEF Announce
  <1>2. queue \in Seq(1 .. ids) /\ ids \in Nat /\ IsList(docs) /\ IndexFollowsBus
    BY DEF BusInv
  <1>3. queue \in Seq(1 .. m)
    BY <1>2
  <1>4. queue' \in Seq(1 .. m)
    BY <1>1, <1>3
  <1>5. Range(queue') = Range(queue) \cup Range(changed)
    BY <1>1, <1>3, ConcatIs
  <1>6. ASSUME NEW id \in Ids(graph') \ (Range(queue') \cup quiet')
        PROVE  \E i \in DOMAIN docs' : docs'[i] = NodeDoc(id)'
    <2>1. id \in Ids(g) \ (Range(changed) \cup silently) /\ id \notin Range(queue) \cup quiet
      BY <1>1, <1>5, <1>6
    <2>2. id \in Ids(graph) /\ summarize(g, id) = summarize(graph, id)
      BY <2>1
    <2>3. PICK i \in DOMAIN docs : docs[i] = NodeDoc(id)
      BY <1>2, <2>1, <2>2 DEF IndexFollowsBus
    <2>4. NodeDoc(id)' = NodeDoc(id)
      BY <1>1, <2>2 DEF NodeDoc
    <2> QED BY <1>1, <2>3, <2>4
  <1>7. \A i, j \in DOMAIN docs' : docs'[i].node = docs'[j].node => i = j \/ docs'[i].node \in unsearched'
    BY <1>1, <1>2 DEF IndexFollowsBus
  <1>8. IndexFollowsBus'
    BY <1>6, <1>7 DEF IndexFollowsBus
  <1>9. Among(graph', m) /\ IsList(docs')
    BY <1>1, <1>2
  <1> QED BY <1>4, <1>8, <1>9 DEF BusInv

\* What is among some ids is among more.
LEMMA AmongMore ==
    ASSUME NEW n \in Nat, NEW m \in Nat, n <= m, NEW g, Among(g, n)
    PROVE  Among(g, m)
  <1>1. Seq(EdgesTo(n)) \subseteq Seq(EdgesTo(m))
    <2>1. EdgesTo(n) \subseteq EdgesTo(m)
      BY DEF EdgesTo
    <2> QED BY <2>1
  <1>2. PICK D \in SUBSET (1 .. n) : g.adjacency \in [D -> Seq(EdgesTo(n))]
    BY DEF Among, Adjacency
  <1>3. D \in SUBSET (1 .. m) /\ g.adjacency \in [D -> Seq(EdgesTo(m))]
    BY <1>1, <1>2
  <1>4. g.adjacency \in Adjacency(m)
    BY <1>3 DEF Adjacency
  <1> QED BY <1>4 DEF Among

\* What NewNode makes is a node.
LEMMA NewNodeIs ==
    ASSUME NEW kind, NEW label, NEW confidence \in Nat
    PROVE  /\ IsNode(NewNode(kind, label, confidence))
           /\ NewNode(kind, label, confidence).label = label
           /\ NewNode(kind, label, confidence).confidence = Least(confidence, 100)
  BY DEF NewNode, IsNode, Least

\* A new node changes nothing that is told of the others.
LEMMA InsertKeeps ==
    ASSUME NEW n \in Nat, NEW g, Among(g, n), NEW node, IsNode(node)
    PROVE  LET h == insert(g, n + 1, node)
           IN  /\ Among(h, n + 1) /\ Ids(h) = Ids(g) \cup {n + 1}
               /\ \A id \in Ids(g) : summarize(h, id) = summarize(g, id)
  <1> DEFINE h == insert(g, n + 1, node)
  <1>1. /\ h = [nodes |-> h.nodes, adjacency |-> h.adjacency]
        /\ h.nodes = [x \in Ids(g) \cup {n + 1} |-> IF x = n + 1 THEN node ELSE g.nodes[x]]
        /\ h.adjacency = or_default(g.adjacency, n + 1)
    BY DEF insert
  <1> HIDE DEF h
  <1>2. n + 1 \in Nat /\ Among(g, n + 1)
    BY AmongMore
  <1>3. Ids(h) = Ids(g) \cup {n + 1} /\ Ids(g) \subseteq 1 .. n
    BY <1>1 DEF Ids, Among
  <1>4. PICK D \in SUBSET (1 .. n + 1) : g.adjacency \in [D -> Seq(EdgesTo(n + 1))]
    BY <1>2 DEF Among, Adjacency
  <1>5. h.adjacency \in [D \cup {n + 1} -> Seq(EdgesTo(n + 1))]
    <2>1. <<>> \in Seq(EdgesTo(n + 1))
      OBVIOUS
    <2> QED BY <1>1, <1>4, <2>1 DEF or_default
  <1>6. h.adjacency \in Adjacency(n + 1)
    <2>1. D \cup {n + 1} \in SUBSET (1 .. n + 1)
      OBVIOUS
    <2> HIDE DEF h
    <2> QED BY <1>5, <2>1 DEF Adjacency
  <1>7. Among(h, n + 1)
    <2>1. \A id \in Ids(h) : IsNode(h.nodes[id])
      BY <1>1, <1>3 DEF Among
    <2>2. Ids(h) \subseteq 1 .. n + 1
      BY <1>3
    <2> QED BY <1>1, <1>3, <1>6, <2>1, <2>2 DEF Among
  <1>8. ASSUME NEW id \in Ids(g) PROVE summarize(h, id) = summarize(g, id)
    <2>1. \A x \in Ids(g) : h.nodes[x] = g.nodes[x]
      BY <1>1, <1>3
    <2>2. OutEdges(h, id) = OutEdges(g, id)
      BY <1>1 DEF OutEdges, or_default
    <2>3. Ids(h) \cap 1 .. n = Ids(g)
      BY <1>3
    <2>4. id \in Ids(g) \cap Ids(h)
      BY <1>3
    <2> QED BY <1>2, <1>7, <2>1, <2>2, <2>3, <2>4, SummaryStays
  <1> QED BY <1>3, <1>7, <1>8 DEF h

LEMMA AddNodeKeeps ==
    ASSUME BusInv, NEW kind, NEW label, NEW confidence \in Confidences, BusAddNode(kind, label, confidence)
    PROVE  BusInv'
  <1> DEFINE g == add_node(graph, ids + 1, kind, label, confidence)
  <1>1. ids \in Nat /\ Among(graph, ids)
    BY DEF BusInv
  <1>2. /\ Among(g, ids + 1) /\ Ids(g) = Ids(graph) \cup {ids + 1}
        /\ \A id \in Ids(graph) : summarize(g, id) = summarize(graph, id)
    <2>1. confidence \in Nat
      BY BusAssumption
    <2>2. IsNode(NewNode(kind, label, confidence))
      BY <2>1, NewNodeIs
    <2> QED BY <1>1, <2>2, InsertKeeps DEF add_node
  <1>3. ids' = ids + 1 /\ Announce(g, <<ids + 1>>, {})
    BY DEF BusAddNode
  <1> HIDE DEF g
  <1>4. <<ids + 1>> \in Seq(1 .. ids + 1) /\ Range(<<ids + 1>>) = {ids + 1}
    BY <1>1 DEF Range
  <1>5. \A id \in Ids(g) \ (Range(<<ids + 1>>) \cup {}) :
           id \in Ids(graph) /\ summarize(g, id) = summarize(graph, id)
    BY <1>2, <1>4
  <1>6. ids + 1 \in Nat /\ ids <= ids + 1
    BY <1>1
  <1> QED BY <1>2, <1>3, <1>4, <1>5, <1>6, AnnounceKeeps

\* A new edge changes what is told of the node it leaves only.
LEMMA ConnectIs ==
    ASSUME NEW n \in Nat, NEW g, Among(g, n), NEW from \in 1 .. n, NEW to \in 1 .. n, NEW kind \in EdgeKinds
    PROVE  LET h == connect(g, from, to, kind)
           IN  /\ Among(h, n) /\ h.nodes = g.nodes /\ Ids(h) = Ids(g)
               /\ OutEdges(h, from) = Append(OutEdges(g, from), Edge(to, kind))
               /\ \A id : id # from => OutEdges(h, id) = OutEdges(g, id)
  <1> DEFINE h == connect(g, from, to, kind)
             adjacency == [x \in DOMAIN g.adjacency \cup {from} |->
                             IF x = from THEN Append(OutEdges(g, from), Edge(to, kind)) ELSE g.adjacency[x]]
  <1>1. h = [nodes |-> h.nodes, adjacency |-> h.adjacency] /\ h.nodes = g.nodes /\ h.adjacency = adjacency
    BY DEF connect, Among
  <1> HIDE DEF h
  <1>2. Edge(to, kind) \in EdgesTo(n)
    BY DEF Edge, EdgesTo
  <1>3. Append(OutEdges(g, from), Edge(to, kind)) \in Seq(EdgesTo(n))
    BY <1>2, LeavingEdges
  <1>4. PICK D \in SUBSET (1 .. n) : g.adjacency \in [D -> Seq(EdgesTo(n))]
    BY DEF Among, Adjacency
  <1>5. adjacency \in [D \cup {from} -> Seq(EdgesTo(n))]
    BY <1>3, <1>4
  <1>6. h.adjacency \in Adjacency(n)
    <2>1. D \cup {from} \in SUBSET (1 .. n) /\ h.adjacency \in [D \cup {from} -> Seq(EdgesTo(n))]
      BY <1>1, <1>5
    <2> QED BY <2>1 DEF Adjacency
  <1>7. Ids(h) = Ids(g)
    BY <1>1 DEF Ids
  <1>8. Among(h, n)
    BY <1>1, <1>6, <1>7 DEF Among
  <1>9. OutEdges(h, from) = Append(OutEdges(g, from), Edge(to, kind))
    BY <1>1 DEF OutEdges
  <1>10. ASSUME NEW id, id # from PROVE OutEdges(h, id) = OutEdges(g, id)
    BY <1>1, <1>10 DEF OutEdges
  <1> QED BY <1>1, <1>7, <1>8, <1>9, <1>10 DEF h

LEMMA ConnectKeeps ==
    ASSUME BusInv, NEW from \in Ids(graph), NEW to \in 1 .. ids, BusConnect(from, to, "depends_on")
    PROVE  BusInv'
  <1> DEFINE g == connect(graph, from, to, "depends_on")
  <1>1. ids \in Nat /\ Among(graph, ids) /\ from \in 1 .. ids /\ "depends_on" \in EdgeKinds
    BY DEF BusInv, Among, EdgeKinds
  <1>2. /\ Among(g, ids) /\ g.nodes = graph.nodes /\ Ids(g) = Ids(graph)
        /\ \A id : id # from => OutEdges(g, id) = OutEdges(graph, id)
    BY <1>1, ConnectIs
  <1>3. ids' = ids /\ Announce(g, <<from>>, {})
    BY DEF BusConnect
  <1> HIDE DEF g
  <1>4. <<from>> \in Seq(1 .. ids) /\ Range(<<from>>) = {from}
    BY <1>1 DEF Range
  <1>5. ASSUME NEW id \in Ids(g) \ (Range(<<from>>) \cup {})
        PROVE  id \in Ids(graph) /\ summarize(g, id) = summarize(graph, id)
    <2>1. id \in Ids(graph) \cap Ids(g) /\ OutEdges(g, id) = OutEdges(graph, id)
      BY <1>2, <1>4
    <2>2. Ids(g) \cap 1 .. ids = Ids(graph) /\ \A x \in Ids(graph) : g.nodes[x] = graph.nodes[x]
      BY <1>1, <1>2 DEF Among
    <2> QED BY <1>1, <1>2, <2>1, <2>2, SummaryStays
  <1>6. ids <= ids
    BY <1>1
  <1> QED BY <1>1, <1>2, <1>3, <1>4, <1>5, <1>6, AnnounceKeeps

\* A graph with fewer nodes in a new bus: what is told of those left differs
\* for the silently changed only.
LEMMA RewrapKeeps ==
    ASSUME BusInv, NEW g, Among(g, ids), Ids(g) \subseteq Ids(graph), Rewrap(g)
    PROVE  BusInv'
  <1>1. /\ graph' = g /\ ids' = ids /\ queue' = queue /\ docs' = docs /\ unsearched' = unsearched
        /\ quiet' = (quiet \cup Changed(g)) \cap Ids(g)
    BY DEF Rewrap
  <1>2. ids \in Nat /\ queue \in Seq(1 .. ids) /\ IsList(docs) /\ IndexFollowsBus
    BY DEF BusInv
  <1>3. ASSUME NEW id \in Ids(graph') \ (Range(queue') \cup quiet')
        PROVE  \E i \in DOMAIN docs' : docs'[i] = NodeDoc(id)'
    <2>1. id \in Ids(g) /\ id \notin Range(queue) \cup quiet \cup Changed(g)
      BY <1>1, <1>3
    <2>2. id \in Ids(graph) /\ summarize(g, id) = summarize(graph, id)
      BY <2>1 DEF Changed
    <2>3. PICK i \in DOMAIN docs : docs[i] = NodeDoc(id)
      BY <1>2, <2>1, <2>2 DEF IndexFollowsBus
    <2>4. NodeDoc(id)' = NodeDoc(id)
      BY <1>1, <2>2 DEF NodeDoc
    <2> QED BY <1>1, <2>3, <2>4
  <1>4. IndexFollowsBus'
    BY <1>1, <1>2, <1>3 DEF IndexFollowsBus
  <1>5. Among(graph', ids') /\ IsList(docs')
    BY <1>1, <1>2
  <1> QED BY <1>1, <1>2, <1>4, <1>5 DEF BusInv

\* What is left of a graph is among the same ids.
LEMMA FewerNodes ==
    ASSUME NEW n \in Nat, NEW g, Among(g, n), NEW gone
    PROVE  /\ DOMAIN Without(g.nodes, gone) = Ids(g) \ gone
           /\ Without(g.nodes, gone) = [id \in Ids(g) \ gone |-> g.nodes[id]]
           /\ Ids(g) \ gone \subseteq 1 .. n
           /\ \A id \in Ids(g) \ gone : IsNode(Without(g.nodes, gone)[id])
  BY DEF Without, Among, Ids

LEMMA RemoveNodeIs ==
    ASSUME NEW n \in Nat, NEW g, Among(g, n), NEW id
    PROVE  Among(remove_node(g, id), n) /\ Ids(remove_node(g, id)) \subseteq Ids(g)
  <1> DEFINE h == remove_node(g, id)
             others(es) == Kept(es, {e \in Range(es) : e.to # id})
  <1>1. /\ h = [nodes |-> h.nodes, adjacency |-> h.adjacency] /\ h.nodes = Without(g.nodes, {id})
        /\ h.adjacency = [x \in DOMAIN g.adjacency \ {id} |-> others(g.adjacency[x])]
    BY DEF remove_node
  <1> HIDE DEF h
  <1>2. /\ Ids(h) = Ids(g) \ {id} /\ h.nodes = [x \in Ids(h) |-> h.nodes[x]] /\ Ids(h) \subseteq 1 .. n
        /\ \A x \in Ids(h) : IsNode(h.nodes[x])
    <2>1. /\ DOMAIN Without(g.nodes, {id}) = Ids(g) \ {id}
          /\ Without(g.nodes, {id}) = [x \in Ids(g) \ {id} |-> g.nodes[x]]
          /\ Ids(g) \ {id} \subseteq 1 .. n
          /\ \A x \in Ids(g) \ {id} : IsNode(Without(g.nodes, {id})[x])
      BY FewerNodes
    <2>2. Ids(h) = Ids(g) \ {id}
      BY <1>1, <2>1 DEF Ids
    <2> QED BY <1>1, <2>1, <2>2
  <1>3. PICK D \in SUBSET (1 .. n) : g.adjacency \in [D -> Seq(EdgesTo(n))]
    BY DEF Among, Adjacency
  <1>4. \A x \in D : others(g.adjacency[x]) \in Seq(EdgesTo(n))
    BY <1>3, KeptIs
  <1> HIDE DEF others
  <1>5. h.adjacency \in [D \ {id} -> Seq(EdgesTo(n))]
    BY <1>1, <1>3, <1>4
  <1>6. h.adjacency \in Adjacency(n)
    <2>1. D \ {id} \in SUBSET (1 .. n)
      OBVIOUS
    <2> QED BY <1>5, <2>1 DEF Adjacency
  <1>7. Among(h, n)
    BY <1>1, <1>2, <1>6 DEF Among
  <1> QED BY <1>2, <1>7 DEF h

LEMMA RemoveEdgeIs ==
    ASSUME NEW n \in Nat, NEW g, Among(g, n), NEW from, NEW to, NEW kind
    PROVE  Among(remove_edge(g, from, to, kind), n) /\ Ids(remove_edge(g, from, to, kind)) = Ids(g)
  <1>1. CASE from \notin DOMAIN g.adjacency
    BY <1>1 DEF remove_edge
  <1>2. CASE from \in DOMAIN g.adjacency
    <2> DEFINE h == remove_edge(g, from, to, kind)
               es == g.adjacency[from]
               S == Range(es) \ {Edge(to, kind)}
    <2>1. /\ h = [nodes |-> h.nodes, adjacency |-> h.adjacency] /\ h.nodes = g.nodes
          /\ h.adjacency = [g.adjacency EXCEPT ![from] = Kept(es, S)]
      BY <1>2 DEF remove_edge, Among
    <2> HIDE DEF h
    <2>2. PICK D \in SUBSET (1 .. n) : g.adjacency \in [D -> Seq(EdgesTo(n))]
      BY DEF Among, Adjacency
    <2>3. Kept(es, S) \in Seq(EdgesTo(n))
      <3>1. es \in Seq(EdgesTo(n))
        BY <1>2, <2>2
      <3> HIDE DEF es, S
      <3> QED BY <3>1, KeptIs
    <2>4. h.adjacency \in [D -> Seq(EdgesTo(n))]
      BY <2>1, <2>2, <2>3
    <2>5. h.adjacency \in Adjacency(n)
      BY <2>2, <2>4 DEF Adjacency
    <2>6. Ids(h) = Ids(g)
      BY <2>1 DEF Ids
    <2>7. Among(h, n)
      BY <2>1, <2>5, <2>6 DEF Among
    <2> QED BY <2>6, <2>7 DEF h
  <1> QED BY <1>1, <1>2

LEMMA RemoveOrphansIs ==
    ASSUME NEW n \in Nat, NEW g, Among(g, n)
    PROVE  Among(remove_orphans(g), n) /\ Ids(remove_orphans(g)) \subseteq Ids(g)
  <1> DEFINE h == remove_orphans(g)
             orphans == Ids(g) \ UNION {{e[1], e[2]} : e \in edges(g)}
  <1>1. /\ h = [nodes |-> h.nodes, adjacency |-> h.adjacency] /\ h.nodes = Without(g.nodes, orphans)
        /\ h.adjacency = Without(g.adjacency, orphans)
    BY DEF remove_orphans
  <1> HIDE DEF h, orphans
  <1>2. /\ Ids(h) = Ids(g) \ orphans /\ h.nodes = [x \in Ids(h) |-> h.nodes[x]] /\ Ids(h) \subseteq 1 .. n
        /\ \A x \in Ids(h) : IsNode(h.nodes[x])
    <2>1. /\ DOMAIN Without(g.nodes, orphans) = Ids(g) \ orphans
          /\ Without(g.nodes, orphans) = [x \in Ids(g) \ orphans |-> g.nodes[x]]
          /\ Ids(g) \ orphans \subseteq 1 .. n
          /\ \A x \in Ids(g) \ orphans : IsNode(Without(g.nodes, orphans)[x])
      BY FewerNodes
    <2>2. Ids(h) = Ids(g) \ orphans
      BY <1>1, <2>1 DEF Ids
    <2> QED BY <1>1, <2>1, <2>2
  <1>3. PICK D \in SUBSET (1 .. n) : g.adjacency \in [D -> Seq(EdgesTo(n))]
    BY DEF Among, Adjacency
  <1>4. D \ orphans \in SUBSET (1 .. n) /\ h.adjacency \in [D \ orphans -> Seq(EdgesTo(n))]
    BY <1>1, <1>3 DEF Without
  <1>5. h.adjacency \in Adjacency(n)
    BY <1>4 DEF Adjacency
  <1>6. Among(h, n)
    BY <1>1, <1>2, <1>5 DEF Among
  <1> QED BY <1>2, <1>6 DEF h

LEMMA PruneKeeps == ASSUME BusInv, Prune PROVE BusInv'
  <1>1. ids \in Nat /\ Among(graph, ids)
    BY DEF BusInv
  <1>2. CASE \E id \in Ids(graph) : Rewrap(remove_node(graph, id))
    BY <1>1, <1>2, RemoveNodeIs, RewrapKeeps
  <1>3. CASE \E e \in edges(graph) : Rewrap(remove_edge(graph, e[1], e[2], e[3]))
    <2>1. PICK e \in edges(graph) : Rewrap(remove_edge(graph, e[1], e[2], e[3]))
      BY <1>3
    <2> DEFINE g == remove_edge(graph, e[1], e[2], e[3])
    <2>2. Among(g, ids) /\ Ids(g) = Ids(graph)
      BY <1>1, RemoveEdgeIs
    <2>3. Rewrap(g)
      BY <2>1
    <2> HIDE DEF g
    <2> QED BY <2>2, <2>3, RewrapKeeps
  <1>4. CASE Rewrap(remove_orphans(graph))
    BY <1>1, <1>4, RemoveOrphansIs, RewrapKeeps
  <1> QED BY <1>2, <1>3, <1>4 DEF Prune

\* A function on the first n numbers is a list.
LEMMA MadeList ==
    ASSUME NEW S, NEW n \in Nat, NEW f, f = [i \in 1 .. n |-> f[i]], \A i \in 1 .. n : f[i] \in S
    PROVE  f \in Seq(S) /\ Len(f) = n
  OBVIOUS

\* The documents d hold `doc`.
HasDoc(d, doc) == \E i \in DOMAIN d : d[i] = doc

\* A node has one document in d, but for those in U.
OneEach(d, U) == \A i, j \in DOMAIN d : d[i].node = d[j].node => i = j \/ d[i].node \in U

LEMMA ListOf ==
    ASSUME NEW n \in Nat, NEW d, d = [i \in 1 .. n |-> d[i]]
    PROVE  IsList(d) /\ Len(d) = n
  <1> DEFINE S == {d[i] : i \in 1 .. n}
  <1>1. \A i \in 1 .. n : d[i] \in S
    OBVIOUS
  <1> HIDE DEF S
  <1>2. Len(d) = n
    BY <1>1, MadeList
  <1> QED BY <1>2 DEF IsList

\* A list with one more at its end.
LEMMA LongerList ==
    ASSUME NEW d, IsList(d), NEW doc
    PROVE  /\ IsList(Append(d, doc)) /\ DOMAIN Append(d, doc) = DOMAIN d \cup {Len(d) + 1}
           /\ DOMAIN d = 1 .. Len(d) /\ Append(d, doc)[Len(d) + 1] = doc
           /\ \A i \in DOMAIN d : Append(d, doc)[i] = d[i]
  <1> DEFINE S == Range(d) \cup {doc}
  <1>1. DOMAIN d = 1 .. Len(d) /\ Len(d) \in Nat /\ d = [i \in 1 .. Len(d) |-> d[i]]
    BY DEF IsList
  <1>2. \A i \in 1 .. Len(d) : d[i] \in S
    BY <1>1 DEF Range
  <1>3. doc \in S
    OBVIOUS
  <1> HIDE DEF S
  <1>4. d \in Seq(S)
    BY <1>1, <1>2, MadeList
  <1> DEFINE e == Append(d, doc)
  <1>5. /\ e \in Seq(S) /\ Len(e) = Len(d) + 1 /\ e[Len(d) + 1] = doc
        /\ \A i \in 1 .. Len(d) : e[i] = d[i]
    BY <1>3, <1>4
  <1> HIDE DEF e
  <1>6. DOMAIN e = 1 .. Len(d) + 1 /\ e = [i \in 1 .. Len(d) + 1 |-> e[i]]
    BY <1>5
  <1>7. IsList(e)
    <2>1. Len(d) + 1 \in Nat
      BY <1>1
    <2> QED BY <1>6, <2>1, ListOf
  <1>8. DOMAIN e = DOMAIN d \cup {Len(d) + 1}
    BY <1>1, <1>6
  <1> QED BY <1>1, <1>5, <1>7, <1>8 DEF e

\* Storing the document of one node leaves no node without its document, and
\* none with two unless the search failed.
LEMMA StoreDocIs ==
    ASSUME NEW d, IsList(d), NEW call, NEW U, OneEach(d, U), NEW x \in StoreDoc(d, call),
           NEW V, U \subseteq V, ~call.searched /\ call.written => call.id \in V
    PROVE  /\ IsList(x) /\ OneEach(x, V)
           /\ call.written /\ call.id \in Ids(graph) => HasDoc(x, NodeDoc(call.id))
           /\ \A other : HasDoc(d, NodeDoc(other)) => HasDoc(x, NodeDoc(other))
  <1> DEFINE id == call.id
  <1>1. CASE id \notin Ids(graph) \/ ~call.written
    BY <1>1 DEF StoreDoc, OneEach
  <1>2. CASE ~(id \notin Ids(graph) \/ ~call.written)
    <2> DEFINE doc == NodeDoc(id)
               found == {i \in DOMAIN d : d[i].node = id}
    <2>1. PICK place \in PlacesFor(d, id, call.searched) : x = WriteAt(d, place, doc)
      BY <1>2 DEF StoreDoc
    <2>2. doc.node = id /\ \A other : NodeDoc(other).node = other
      BY DEF NodeDoc
    <2>3. Len(d) \in Nat /\ DOMAIN d = 1 .. Len(d)
      BY DEF IsList
    <2> HIDE DEF doc
    <2>4. CASE call.searched /\ found # {}
      <3>1. place \in DOMAIN d /\ d[place].node = id
        BY <2>1, <2>4 DEF PlacesFor
      <3>2. x = [d EXCEPT ![place] = doc]
        BY <2>1, <3>1 DEF WriteAt
      <3>3. DOMAIN x = DOMAIN d /\ x[place] = doc /\ \A i \in DOMAIN d : i # place => x[i] = d[i]
        BY <3>1, <3>2
      <3>4. \A i \in DOMAIN x : x[i].node = d[i].node
        BY <2>2, <3>1, <3>3
      <3>5. OneEach(x, V)
        BY <3>3, <3>4 DEF OneEach
      <3>6. IsList(x)
        <4>1. x = [i \in 1 .. Len(d) |-> x[i]]
          BY <2>3, <3>2
        <4> QED BY <2>3, <4>1, ListOf
      <3>7. HasDoc(x, doc)
        BY <3>1, <3>3 DEF HasDoc
      <3>8. ASSUME NEW other, HasDoc(d, NodeDoc(other)) PROVE HasDoc(x, NodeDoc(other))
        <4>1. PICK i \in DOMAIN d : d[i] = NodeDoc(other)
          BY <3>8 DEF HasDoc
        <4>2. CASE i = place
          <5>1. other = id
            BY <2>2, <3>1, <4>1, <4>2
          <5> QED BY <3>7, <5>1 DEF doc
        <4>3. CASE i # place
          BY <3>3, <4>1, <4>3 DEF HasDoc
        <4> QED BY <4>2, <4>3
      <3> QED BY <3>5, <3>6, <3>7, <3>8 DEF doc
    <2>5. CASE ~(call.searched /\ found # {})
      <3>1. place = Len(d) + 1
        BY <2>1, <2>5 DEF PlacesFor
      <3>2. x = Append(d, doc)
        <4>1. place \notin DOMAIN d
          BY <2>3, <3>1
        <4> QED BY <2>1, <4>1 DEF WriteAt
      <3>3. /\ IsList(x) /\ DOMAIN x = DOMAIN d \cup {place} /\ x[place] = doc
            /\ \A i \in DOMAIN d : x[i] = d[i]
        BY <3>1, <3>2, LongerList
      <3>4. id \in V \/ \A i \in DOMAIN d : d[i].node # id
        BY <1>2, <2>5
      <3>5. OneEach(x, V)
        <4> SUFFICES ASSUME NEW i \in DOMAIN x, NEW j \in DOMAIN x, x[i].node = x[j].node, i # j
                     PROVE  x[i].node \in V
          BY DEF OneEach
        <4>1. CASE i \in DOMAIN d /\ j \in DOMAIN d
          BY <3>3, <4>1 DEF OneEach
        <4>2. CASE i = place \/ j = place
          BY <2>2, <3>3, <3>4, <4>2
        <4> QED BY <3>3, <4>1, <4>2
      <3>6. HasDoc(x, doc)
        BY <3>3 DEF HasDoc
      <3>7. \A other : HasDoc(d, NodeDoc(other)) => HasDoc(x, NodeDoc(other))
        BY <3>3 DEF HasDoc
      <3> QED BY <3>3, <3>5, <3>6, <3>7 DEF doc
    <2> QED BY <2>4, <2>5
  <1> QED BY <1>1, <1>2

\* The documents x after some ids, of which those in S had to be stored and
\* those in V may have two.
StoredIn(x, d, S, V) ==
    /\ IsList(x) /\ OneEach(x, V)
    /\ \A id \in S : HasDoc(x, NodeDoc(id))
    /\ \A id : HasDoc(d, NodeDoc(id)) => HasDoc(x, NodeDoc(id))

\* The nodes whose documents the first n calls must write, and those of which
\* they may write a second.
DueIn(calls, n) == {calls[i].id : i \in {j \in 1 .. n : calls[j].written}} \cap Ids(graph)
TwiceIn(calls, n) == {calls[i].id : i \in {j \in 1 .. n : calls[j].written /\ ~calls[j].searched}}

\* Draining the queue stores a document for each node left whose write does not fail.
LEMMA StoreAllIs ==
    ASSUME NEW T, NEW calls \in Seq(T), NEW d, IsList(d), NEW U, OneEach(d, U), NEW x \in StoreAll(d, calls)
    PROVE  StoredIn(x, d, DueIn(calls, Len(calls)), U \cup TwiceIn(calls, Len(calls)))
  <1> DEFINE N == Len(calls)
             f == CHOOSE g : g = [n \in 0 .. N |-> IF n = 0 THEN {d} ELSE StoreEach(g[n - 1], calls[n])]
             h == CHOOSE g : g = [n \in 0 .. N |-> IF n = 0 THEN {d} ELSE Turn("store", {}, g[n - 1], calls[n])]
             V(n) == U \cup TwiceIn(calls, n)
             G == {n \in 0 .. N : \A y \in f[n] : StoredIn(y, d, DueIn(calls, n), V(n))}
  <1>1. N \in Nat /\ DOMAIN calls = 1 .. N
    OBVIOUS
  <1>2. StoreAll(d, calls) = f[N]
    BY DEF StoreAll
  <1>3. f = h
    BY DEF Turn
  <1> HIDE DEF f, N
  <1>4. Turns(f, "store", {}, {d}, calls, N)
    BY <1>1, <1>3, LoopUnfolds
  <1>5. 0 \in G
    <2>1. f[0] = {d}
      BY <1>4 DEF Turns
    <2>2. DueIn(calls, 0) = {} /\ V(0) = U
      BY DEF DueIn, TwiceIn
    <2> HIDE DEF V
    <2>3. \A y \in f[0] : StoredIn(y, d, DueIn(calls, 0), V(0))
      BY <2>1, <2>2 DEF StoredIn
    <2> QED BY <1>1, <2>3
  <1>6. ASSUME NEW n \in 1 .. N, n - 1 \in G PROVE n \in G
    <2> DEFINE call == calls[n]
    <2>1. f[n] = StoreEach(f[n - 1], call)
      BY <1>4 DEF Turns, Turn
    <2>2. DueIn(calls, n) = DueIn(calls, n - 1) \cup ({c.id : c \in {e \in {call} : e.written}} \cap Ids(graph))
      BY <1>1 DEF DueIn
    <2>3. V(n - 1) \subseteq V(n) /\ (~call.searched /\ call.written => call.id \in V(n))
      BY <1>1 DEF TwiceIn
    <2> HIDE DEF call, V
    <2>4. ASSUME NEW y \in f[n] PROVE StoredIn(y, d, DueIn(calls, n), V(n))
      <3>1. PICK z \in f[n - 1] : y \in StoreDoc(z, call)
        BY <2>1, <2>4 DEF StoreEach
      <3>2. StoredIn(z, d, DueIn(calls, n - 1), V(n - 1))
        BY <1>6, <3>1
      <3>3. IsList(z) /\ OneEach(z, V(n - 1))
        BY <3>2 DEF StoredIn
      <3>4. /\ IsList(y) /\ OneEach(y, V(n))
            /\ call.written /\ call.id \in Ids(graph) => HasDoc(y, NodeDoc(call.id))
            /\ \A other : HasDoc(z, NodeDoc(other)) => HasDoc(y, NodeDoc(other))
        <4> DEFINE U0 == V(n - 1)
                   V0 == V(n)
        <4>1. IsList(z) /\ OneEach(z, U0) /\ y \in StoreDoc(z, call)
          BY <3>1, <3>3
        <4>2. U0 \subseteq V0 /\ (~call.searched /\ call.written => call.id \in V0)
          BY <2>3
        <4> HIDE DEF U0, V0
        <4>3. /\ IsList(y) /\ OneEach(y, V0)
              /\ call.written /\ call.id \in Ids(graph) => HasDoc(y, NodeDoc(call.id))
              /\ \A other : HasDoc(z, NodeDoc(other)) => HasDoc(y, NodeDoc(other))
          BY <4>1, <4>2, StoreDocIs
        <4> QED BY <4>3 DEF V0
      <3>5. \A other \in DueIn(calls, n) : HasDoc(y, NodeDoc(other))
        <4> TAKE other \in DueIn(calls, n)
        <4>1. CASE other \in DueIn(calls, n - 1)
          BY <3>2, <3>4, <4>1 DEF StoredIn
        <4>2. CASE other \notin DueIn(calls, n - 1)
          <5>1. other = call.id /\ call.written /\ call.id \in Ids(graph)
            BY <2>2, <4>2
          <5> QED BY <3>4, <5>1
        <4> QED BY <4>1, <4>2
      <3>6. \A other : HasDoc(d, NodeDoc(other)) => HasDoc(y, NodeDoc(other))
        BY <3>2, <3>4 DEF StoredIn
      <3> QED BY <3>4, <3>5, <3>6 DEF StoredIn
    <2> QED BY <1>1, <2>4
  <1> HIDE DEF G, V
  <1>7. N \in G
    BY <1>1, <1>5, <1>6, UpTo
  <1>8. \A y \in f[N] : StoredIn(y, d, DueIn(calls, N), V(N))
    BY <1>7 DEF G
  <1>9. x \in f[N]
    BY <1>2
  <1>10. StoredIn(x, d, DueIn(calls, N), V(N))
    BY <1>8, <1>9
  <1> QED BY <1>10 DEF N, V

LEMMA ProcessKeeps ==
    ASSUME BusInv, NEW blind \in SUBSET DOMAIN queue, NEW lost \in SUBSET DOMAIN queue, Process(blind, lost)
    PROVE  BusInv'
  <1> DEFINE calls == Calls(blind, lost)
             due == DueIn(calls, Len(calls))
             twice == TwiceIn(calls, Len(calls))
  <1>1. /\ ids \in Nat /\ Among(graph, ids) /\ queue \in Seq(1 .. ids) /\ IsList(docs)
        /\ IndexFollowsBus /\ OneEach(docs, unsearched)
    BY DEF BusInv, IndexFollowsBus, OneEach
  <1>2. /\ queue' = <<>> /\ docs' \in StoreAll(docs, calls) /\ graph' = graph /\ ids' = ids
        /\ quiet' = (quiet \cup (Range(queue) \cap Ids(graph))) \ Written(lost)
        /\ unsearched' = unsearched \cup {queue[i] : i \in blind \ lost}
    BY DEF Process
  <1>3. /\ DOMAIN queue = 1 .. Len(queue) /\ Len(queue) \in Nat
        /\ calls = [i \in 1 .. Len(queue) |-> calls[i]]
        /\ \A i \in 1 .. Len(queue) :
             calls[i] = [id |-> queue[i], searched |-> i \notin blind, written |-> i \notin lost]
    BY <1>1 DEF Calls
  <1> HIDE DEF calls
  <1>4. calls \in Seq(Range(calls)) /\ Len(calls) = Len(queue)
    <2>1. \A i \in 1 .. Len(queue) : calls[i] \in Range(calls)
      BY <1>3 DEF Range
    <2> QED BY <1>3, <2>1, MadeList
  <1> DEFINE n == Len(queue)
  <1>5. ASSUME NEW j \in 1 .. n
         PROVE  (calls[j].written <=> j \notin lost) /\ (calls[j].searched <=> j \notin blind)
    <2>1. calls[j] = [id |-> queue[j], searched |-> j \notin blind, written |-> j \notin lost]
      BY <1>3
    <2>2. calls[j].written = (j \notin lost) /\ calls[j].searched = (j \notin blind)
      BY <2>1
    <2>3. calls[j].written <=> j \notin lost
      BY <2>2, Zenon
    <2>4. calls[j].searched <=> j \notin blind
      BY <2>2, Zenon
    <2> QED BY <2>3, <2>4
  <1>6. due = Written(lost) \cap Ids(graph)
    <2>1. {j \in 1 .. n : calls[j].written} = DOMAIN queue \ lost
      BY <1>3, <1>5
    <2>3. due = {calls[i].id : i \in {j \in 1 .. n : calls[j].written}} \cap Ids(graph)
      BY <1>4 DEF DueIn
    <2>2. \A i \in DOMAIN queue \ lost : calls[i].id = queue[i]
      BY <1>3
    <2> HIDE DEF due, n
    <2> QED BY <2>1, <2>2, <2>3 DEF Written
  <1>7. twice = {queue[i] : i \in blind \ lost}
    <2>1. {j \in 1 .. n : calls[j].written /\ ~calls[j].searched} = blind \ lost
      BY <1>3, <1>5
    <2>2. \A i \in blind \ lost : calls[i].id = queue[i]
      BY <1>3
    <2>3. twice = {calls[i].id : i \in {j \in 1 .. n : calls[j].written /\ ~calls[j].searched}}
      BY <1>4 DEF TwiceIn
    <2> HIDE DEF twice, n
    <2> QED BY <2>1, <2>2, <2>3
  <1>8. StoredIn(docs', docs, due, unsearched \cup twice)
    BY <1>1, <1>2, <1>4, StoreAllIs
  <1> HIDE DEF due, twice
  <1>9. IsList(docs') /\ OneEach(docs', unsearched')
    BY <1>2, <1>7, <1>8 DEF StoredIn
  <1>10. queue' \in Seq(1 .. ids) /\ Range(queue') = {}
    BY <1>2 DEF Range
  <1>11. ASSUME NEW id \in Ids(graph') \ (Range(queue') \cup quiet')
         PROVE  \E i \in DOMAIN docs' : docs'[i] = NodeDoc(id)'
    <2>1. id \in Ids(graph) /\ NodeDoc(id)' = NodeDoc(id)
      BY <1>2, <1>11 DEF NodeDoc
    <2>2. HasDoc(docs', NodeDoc(id))
      <3>1. CASE id \in Written(lost)
        BY <1>6, <1>8, <2>1, <3>1 DEF StoredIn
      <3>2. CASE id \notin Written(lost)
        <4>1. id \notin Range(queue) \cup quiet
          BY <1>2, <1>11, <2>1, <3>2
        <4>2. HasDoc(docs, NodeDoc(id))
          BY <1>1, <2>1, <4>1 DEF IndexFollowsBus, HasDoc
        <4> QED BY <1>8, <4>2 DEF StoredIn
      <3> QED BY <3>1, <3>2
    <2> QED BY <2>1, <2>2 DEF HasDoc
  <1>12. IndexFollowsBus'
    BY <1>9, <1>11 DEF IndexFollowsBus, OneEach
  <1> QED BY <1>1, <1>2, <1>9, <1>10, <1>12 DEF BusInv

-----------------------------------------------------------------------------
(* The knowledge bus: reading a text.                                      *)

Word == DOMAIN Lower
Parsing == [entities : Seq(Seq(Word)), gaps : Seq(Seq(Word)), gap : Seq(Word), current : Seq(Word)]

\* What is left of a phrase without its stop words is a phrase.
LEMMA EntityIs ==
    ASSUME NEW phrase \in Seq(Word)
    PROVE  finish_entity(phrase) \in Seq(Word)
  <1> DEFINE N == Len(phrase)
             Begins(n) == /\ \A i \in 1 .. n : phrase[i] \in StopWord
                          /\ n < N => phrase[n + 1] \notin StopWord
             T == {n \in 0 .. N : n < N => phrase[n + 1] \notin StopWord}
  <1>1. N \in Nat
    OBVIOUS
  <1> HIDE DEF N
  <1>2. T \in SUBSET Nat /\ N \in T
    BY <1>1
  <1>3. PICK n \in T : \A k \in T : n <= k
    <2> HIDE DEF T
    <2>1. T # {}
      BY <1>2
    <2> QED BY <1>2, <2>1, LeastNat
  <1>4. n \in 0 .. N /\ (n < N => phrase[n + 1] \notin StopWord)
    BY <1>3
  <1>5. ASSUME NEW i \in 1 .. n PROVE phrase[i] \in StopWord
    <2>1. i - 1 \in 0 .. N /\ i - 1 < N /\ ~(n <= i - 1) /\ (i - 1) + 1 = i
      BY <1>1, <1>4
    <2>2. i - 1 \notin T
      BY <1>3, <2>1
    <2> QED BY <2>1, <2>2
  <1>6. Begins(n)
    BY <1>4, <1>5
  <1> DEFINE last == CHOOSE k \in 0 .. N : Begins(k)
  <1>7. last \in 0 .. N
    <2> HIDE DEF Begins
    <2> QED BY <1>4, <1>6
  <1>8. finish_entity(phrase) = SubSeq(phrase, last + 1, N)
    BY DEF finish_entity, N
  <1> HIDE DEF last
  <1>9. SubSeq(phrase, last + 1, N) \in Seq(Word)
    <2>1. \A i \in last + 1 .. N : phrase[i] \in Word
      BY <1>1, <1>7 DEF N
    <2>2. last + 1 \in Int /\ N \in Int
      BY <1>1, <1>7
    <2> QED BY <2>1, <2>2, SubSeqProperties
  <1> QED BY <1>8, <1>9

\* Each word of a sentence keeps the parse a parse.
LEMMA FinishIs == ASSUME NEW s \in Parsing PROVE Finish(s) \in Parsing
  <1> DEFINE e == finish_entity(s.current)
  <1>1. /\ s.entities \in Seq(Seq(Word)) /\ s.gaps \in Seq(Seq(Word)) /\ s.gap \in Seq(Word)
        /\ s.current \in Seq(Word) /\ DOMAIN s = {"entities", "gaps", "gap", "current"}
    BY DEF Parsing
  <1>2. e \in Seq(Word)
    BY <1>1, EntityIs
  <1>3. Finish(s) = IF e = <<>> THEN [s EXCEPT !.current = <<>>]
                    ELSE [entities |-> Append(s.entities, e),
                          gaps     |-> IF s.entities = <<>> THEN s.gaps ELSE Append(s.gaps, s.gap),
                          gap      |-> IF s.entities = <<>> THEN s.gap ELSE <<>>,
                          current  |-> <<>>]
    BY DEF Finish
  <1> HIDE DEF e
  <1>4. <<>> \in Seq(Word)
    OBVIOUS
  <1>5. CASE e = <<>>
    BY <1>3, <1>4, <1>5 DEF Parsing
  <1>6. CASE e # <<>>
    <2>1. Append(s.entities, e) \in Seq(Seq(Word)) /\ Append(s.gaps, s.gap) \in Seq(Seq(Word))
      BY <1>1, <1>2
    <2> QED BY <1>1, <1>3, <1>4, <1>6, <2>1 DEF Parsing
  <1> QED BY <1>5, <1>6

LEMMA ParseWordIs == ASSUME NEW s \in Parsing, NEW w \in Word PROVE ParseWord(s, w) \in Parsing
  <1>1. CASE w \in EntityWord
    <2>1. Append(s.current, w) \in Seq(Word)
      BY DEF Parsing
    <2> QED BY <1>1, <2>1 DEF ParseWord, Parsing
  <1>2. CASE w \notin EntityWord
    <2> DEFINE t == Finish(s)
    <2>1. t \in Parsing
      BY FinishIs
    <2>2. ParseWord(s, w) = IF t.entities = <<>> THEN t ELSE [t EXCEPT !.gap = Append(t.gap, Lower[w])]
      BY <1>2 DEF ParseWord
    <2> HIDE DEF t
    <2>3. Lower[w] \in Word
      BY LowerAssumption DEF Word
    <2>4. Append(t.gap, Lower[w]) \in Seq(Word)
      BY <2>1, <2>3 DEF Parsing
    <2> QED BY <2>1, <2>2, <2>4 DEF Parsing
  <1> QED BY <1>1, <1>2

LEMMA SentenceIs ==
    ASSUME NEW sentence \in Seq(Word)
    PROVE  parse_sentence(sentence) \in Parsing
  <1> DEFINE N == Len(sentence)
             base == [entities |-> <<>>, gaps |-> <<>>, gap |-> <<>>, current |-> <<>>]
             f == CHOOSE g : g = [n \in 0 .. N |-> IF n = 0 THEN base ELSE ParseWord(g[n - 1], sentence[n])]
             h == CHOOSE g : g = [n \in 0 .. N |-> IF n = 0 THEN base ELSE Turn("word", <<>>, g[n - 1], sentence[n])]
  <1>1. N \in Nat /\ \A i \in 1 .. N : sentence[i] \in Word
    OBVIOUS
  <1>2. parse_sentence(sentence) = Finish(f[N])
    BY DEF parse_sentence
  <1>3. f = h
    BY DEF Turn
  <1>4. base \in Parsing
    BY DEF Parsing
  <1> HIDE DEF f, N, base
  <1>5. \A a \in Parsing, i \in 1 .. N : Turn("word", <<>>, a, sentence[i]) \in Parsing
    BY <1>1, ParseWordIs DEF Turn
  <1>6. Turns(f, "word", <<>>, base, sentence, N)
    BY <1>1, <1>3, LoopUnfolds
  <1>7. f[N] \in Parsing
    BY <1>1, <1>4, <1>5, <1>6, LoopKeeps
  <1> QED BY <1>2, <1>7, FinishIs

\* A function of finitely many arguments has finitely many values.
LEMMA FewValues ==
    ASSUME NEW f, f = [x \in DOMAIN f |-> f[x]], IsFiniteSet(DOMAIN f)
    PROVE  IsFiniteSet(Range(f))
  <1>1. f \in Surjection(DOMAIN f, Range(f))
    BY DEF Surjection, Range
  <1> QED BY <1>1, FS_Surjection

\* A list has finitely many places.
LEMMA FewPlaces == ASSUME NEW R, NEW s \in Seq(R) PROVE IsFiniteSet(DOMAIN s)
  <1>1. 1 \in Int /\ Len(s) \in Int /\ DOMAIN s = 1 .. Len(s)
    OBVIOUS
  <1>2. IsFiniteSet(1 .. Len(s))
    BY <1>1, FS_Interval
  <1> QED BY <1>1, <1>2

\* A text mentions finitely many entities.
LEMMA FewMentioned ==
    ASSUME NEW parsed \in Seq(Parsing)
    PROVE  IsFiniteSet(Mentioned(parsed))
  <1> DEFINE Of(i) == {to_lowercase(e) : e \in Range(parsed[i].entities)}
             each == [i \in DOMAIN parsed |-> Of(i)]
  <1>1. IsFiniteSet(DOMAIN parsed)
    BY FewPlaces
  <1>2. ASSUME NEW i \in DOMAIN parsed PROVE IsFiniteSet(Of(i))
    <2> DEFINE es == parsed[i].entities
               lower == [j \in DOMAIN es |-> to_lowercase(es[j])]
    <2>1. es \in Seq(Seq(Word))
      <3>1. parsed[i] \in Parsing
        OBVIOUS
      <3> QED BY <3>1 DEF Parsing
    <2> HIDE DEF es
    <2>2. IsFiniteSet(DOMAIN es)
      BY <2>1, FewPlaces
    <2>3. Of(i) = Range(lower)
      BY DEF Range, es
    <2>4. lower = [j \in DOMAIN lower |-> lower[j]] /\ DOMAIN lower = DOMAIN es
      OBVIOUS
    <2> HIDE DEF lower, Of
    <2> QED BY <2>2, <2>3, <2>4, FewValues
  <1>3. \A T \in Range(each) : IsFiniteSet(T)
    BY <1>2 DEF Range
  <1>4. Mentioned(parsed) = UNION Range(each)
    BY DEF Mentioned, Range
  <1>5. each = [i \in DOMAIN each |-> each[i]] /\ DOMAIN each = DOMAIN parsed
    OBVIOUS
  <1> HIDE DEF each, Of
  <1>6. IsFiniteSet(Range(each))
    BY <1>1, <1>5, FewValues
  <1> QED BY <1>3, <1>4, <1>6, FS_UNION

AnyLinks(m) == [from : 1 .. m, to : 1 .. m, kind : EdgeKinds]
Links(m) == {l \in AnyLinks(m) : l.from # l.to}

\* A list of what is in T is one of T.
LEMMA InRange ==
    ASSUME NEW S, NEW s \in Seq(S), NEW T, Range(s) \subseteq T
    PROVE  s \in Seq(T)
  <1>1. DOMAIN s = 1 .. Len(s) /\ Len(s) \in Nat /\ s = [i \in 1 .. Len(s) |-> s[i]]
    OBVIOUS
  <1>2. \A i \in 1 .. Len(s) : s[i] \in T
    BY <1>1 DEF Range
  <1> QED BY <1>1, <1>2

\* Every gap tells a kind of edge.
LEMMA RelationIs == ASSUME NEW gap PROVE relation_for(gap) \in EdgeKinds
  <1> DEFINE kinds == <<"created_by", "depends_on", "implements", "references">>
             told == {i \in DOMAIN kinds : \E c \in Cue[kinds[i]] : Infix(c, gap)}
             least == CHOOSE i \in told : \A j \in told : i <= j
  <1>1. relation_for(gap) = IF told = {} THEN "related_to" ELSE kinds[least]
    BY DEF relation_for
  <1>2. DOMAIN kinds = 1 .. 4 /\ \A i \in 1 .. 4 : kinds[i] \in EdgeKinds
    BY DEF EdgeKinds
  <1>3. told \in SUBSET Nat /\ told \subseteq DOMAIN kinds
    BY <1>2
  <1> HIDE DEF told, kinds
  <1>4. CASE told = {}
    BY <1>1, <1>4 DEF EdgeKinds
  <1>5. CASE told # {}
    <2>1. \E i \in told : \A j \in told : i <= j
      BY <1>3, <1>5, LeastNat
    <2>2. least \in told
      BY <2>1
    <2> QED BY <1>1, <1>2, <1>3, <1>5, <2>2
  <1> QED BY <1>4, <1>5

\* Unique lists each id once.
LEMMA UniqueIs ==
    ASSUME NEW S, NEW ordered \in Seq(S)
    PROVE  /\ Unique(ordered) \in Seq(S)
           /\ \A i, j \in DOMAIN Unique(ordered) : Unique(ordered)[i] = Unique(ordered)[j] => i = j
  <1> DEFINE N == Len(ordered)
             f == CHOOSE g : g = [n \in 0 .. N |->
                    IF n = 0 THEN <<>>
                    ELSE IF ordered[n] \in Range(g[n - 1]) THEN g[n - 1] ELSE Append(g[n - 1], ordered[n])]
             h == CHOOSE g : g = [n \in 0 .. N |-> IF n = 0 THEN <<>> ELSE Turn("unique", S, g[n - 1], ordered[n])]
             P == {s \in Seq(S) : \A i, j \in DOMAIN s : s[i] = s[j] => i = j}
  <1>1. N \in Nat /\ \A i \in 1 .. N : ordered[i] \in S
    OBVIOUS
  <1>2. Unique(ordered) = f[N]
    BY DEF Unique
  <1>3. f = h
    BY DEF Turn
  <1> HIDE DEF f, N
  <1>4. Turns(f, "unique", S, <<>>, ordered, N)
    BY <1>1, <1>3, LoopUnfolds
  <1>5. <<>> \in P
    OBVIOUS
  <1>6. ASSUME NEW a \in P, NEW i \in 1 .. N PROVE Turn("unique", S, a, ordered[i]) \in P
    <2> DEFINE x == ordered[i]
               b == Append(a, x)
    <2>1. CASE x \in Range(a)
      BY <2>1 DEF Turn
    <2>2. CASE x \notin Range(a)
      <3>1. /\ DOMAIN a = 1 .. Len(a) /\ Len(a) \in Nat /\ b \in Seq(S) /\ DOMAIN b = 1 .. Len(a) + 1
            /\ b[Len(a) + 1] = x /\ \A k \in 1 .. Len(a) : b[k] = a[k]
        BY <1>1
      <3>2. \A k \in 1 .. Len(a) : a[k] # x
        BY <2>2, <3>1 DEF Range
      <3>3. \A k, j \in DOMAIN b : b[k] = b[j] => k = j
        <4> HIDE DEF b, x
        <4> QED BY <3>1, <3>2
      <3>4. Turn("unique", S, a, x) = b
        BY <2>2 DEF Turn
      <3> QED BY <3>1, <3>3, <3>4
    <2> QED BY <2>1, <2>2
  <1> HIDE DEF P
  <1>7. f[N] \in P
    BY <1>1, <1>4, <1>5, <1>6, LoopKeeps
  <1> QED BY <1>2, <1>7 DEF P

\* One list after the other.
LEMMA FlattenUnfolds ==
    ASSUME NEW S, NEW seqs \in Seq(Seq(S)), Len(seqs) # 0
    PROVE  \E f : /\ FlattenSeq(seqs) = f[Len(seqs)]
                  /\ Turns(f, "concat", S, <<>>, seqs, Len(seqs))
  <1> DEFINE N == Len(seqs)
             h == CHOOSE g : g = [n \in 0 .. N |-> IF n = 0 THEN <<>> ELSE Turn("concat", S, g[n - 1], seqs[n])]
             flatten == CHOOSE g : g = [i \in 1 .. N |-> IF i = 1 THEN seqs[i] ELSE g[i - 1] \o seqs[i]]
             k == [i \in 1 .. N |-> h[i]]
             f == [i \in 0 .. N |-> IF i = 0 THEN <<>> ELSE flatten[i]]
  <1>1. N \in Nat /\ N # 0 /\ \A i \in 1 .. N : seqs[i] \in Seq(S)
    OBVIOUS
  <1>2. FlattenSeq(seqs) = flatten[N]
    BY DEF FlattenSeq
  <1> HIDE DEF N
  <1>3. Turns(h, "concat", S, <<>>, seqs, N)
    <2> HIDE DEF h
    <2>1. h = CHOOSE g : g = [n \in 0 .. N |-> IF n = 0 THEN <<>> ELSE Turn("concat", S, g[n - 1], seqs[n])]
      BY DEF h
    <2> QED BY <1>1, <2>1, LoopUnfolds
  <1> HIDE DEF h
  <1>4. h[0] = <<>> /\ \A i \in 1 .. N : h[i] = h[i - 1] \o seqs[i]
    BY <1>3 DEF Turns, Turn
  <1>5. k = [i \in 1 .. N |-> IF i = 1 THEN seqs[i] ELSE k[i - 1] \o seqs[i]]
    <2>1. ASSUME NEW i \in 1 .. N PROVE h[i] = IF i = 1 THEN seqs[i] ELSE k[i - 1] \o seqs[i]
      <3>1. CASE i = 1
        <4>1. <<>> \o seqs[i] = seqs[i] /\ i - 1 = 0
          BY <1>1, <3>1
        <4>2. h[i] = h[0] \o seqs[i]
          BY <1>4, <4>1
        <4> QED BY <1>4, <3>1, <4>1, <4>2
      <3>2. CASE i # 1
        <4>1. i - 1 \in 1 .. N
          BY <1>1, <3>2
        <4>2. k[i - 1] = h[i - 1]
          BY <4>1
        <4> QED BY <1>4, <3>2, <4>2
      <3> QED BY <3>1, <3>2
    <2> QED BY <2>1
  <1> HIDE DEF k
  <1>6. flatten = [i \in 1 .. N |-> IF i = 1 THEN seqs[i] ELSE flatten[i - 1] \o seqs[i]]
    BY <1>5
  <1> HIDE DEF flatten
  <1>7. f[0] = <<>> /\ \A i \in 1 .. N : f[i] = f[i - 1] \o seqs[i]
    <2>1. f[0] = <<>> /\ \A i \in 1 .. N : f[i] = flatten[i]
      BY <1>1
    <2>2. ASSUME NEW i \in 1 .. N PROVE f[i] = f[i - 1] \o seqs[i]
      <3>1. CASE i = 1
        <4>1. <<>> \o seqs[i] = seqs[i] /\ i - 1 = 0 /\ f[i - 1] = <<>>
          BY <1>1, <2>1, <3>1
        <4>2. flatten[i] = seqs[i]
          BY <1>6, <3>1
        <4> HIDE DEF f
        <4> QED BY <2>1, <4>1, <4>2
      <3>2. CASE i # 1
        <4>1. i - 1 \in 1 .. N
          BY <1>1, <3>2
        <4> HIDE DEF f
        <4> QED BY <1>6, <2>1, <3>2, <4>1
      <3> QED BY <3>1, <3>2
    <2> QED BY <2>1, <2>2
  <1>8. f[N] = flatten[N]
    BY <1>1
  <1> HIDE DEF f
  <1>9. Turns(f, "concat", S, <<>>, seqs, N)
    BY <1>7 DEF Turns, Turn
  <1> QED BY <1>2, <1>8, <1>9 DEF N

LEMMA FlattenIs ==
    ASSUME NEW S, NEW seqs \in Seq(Seq(S))
    PROVE  FlattenSeq(seqs) \in Seq(S)
  <1>1. CASE Len(seqs) = 0
    <2>1. seqs = <<>>
      BY <1>1
    <2> QED BY <1>1, <2>1 DEF FlattenSeq
  <1>2. CASE Len(seqs) # 0
    <2> DEFINE N == Len(seqs)
    <2>1. PICK f : FlattenSeq(seqs) = f[N] /\ Turns(f, "concat", S, <<>>, seqs, N)
      BY <1>2, FlattenUnfolds
    <2>2. N \in Nat /\ \A i \in 1 .. N : seqs[i] \in Seq(S)
      OBVIOUS
    <2> HIDE DEF N
    <2>3. <<>> \in Seq(S) /\ \A a \in Seq(S), i \in 1 .. N : Turn("concat", S, a, seqs[i]) \in Seq(S)
      BY <2>2 DEF Turn
    <2>4. f[N] \in Seq(S)
      BY <2>1, <2>2, <2>3, LoopKeeps
    <2> QED BY <2>1, <2>4
  <1> QED BY <1>1, <1>2

\* The links of a sentence, and of a text, are between the nodes of its entities.
LEMMA SentenceLinksAre ==
    ASSUME NEW m \in Nat, NEW ordered \in Seq(1 .. m), NEW gaps
    PROVE  SentenceLinks(ordered, gaps) \in Seq(Links(m))
  <1> DEFINE adjacent == [i \in 1 .. Len(ordered) - 1 |->
                            [from |-> ordered[i], to |-> ordered[i + 1], kind |-> relation_for(gaps[i])]]
             unique == Unique(ordered)
             after(i) == [k \in 1 .. Len(unique) - i |->
                            [from |-> unique[i], to |-> unique[i + k], kind |-> "related_to"]]
             distinct == {l \in Range(adjacent) : l.from # l.to}
             every == [i \in DOMAIN unique |-> after(i)]
  <1>1. SentenceLinks(ordered, gaps) = Kept(adjacent, distinct) \o FlattenSeq(every)
    BY DEF SentenceLinks
  <1>2. adjacent \in Seq(AnyLinks(m))
    <2>1. \A i \in 1 .. Len(ordered) - 1 : ordered[i] \in 1 .. m /\ ordered[i + 1] \in 1 .. m
      OBVIOUS
    <2>2. \A i \in 1 .. Len(ordered) - 1 :
             [from |-> ordered[i], to |-> ordered[i + 1], kind |-> relation_for(gaps[i])] \in AnyLinks(m)
      BY <2>1, RelationIs DEF AnyLinks
    <2>3. CASE Len(ordered) = 0
      <3>1. adjacent = <<>>
        BY <2>3
      <3> HIDE DEF adjacent
      <3> QED BY <3>1
    <2>4. CASE Len(ordered) # 0
      <3>1. Len(ordered) - 1 \in Nat
        BY <2>4
      <3>2. /\ adjacent = [i \in 1 .. Len(ordered) - 1 |-> adjacent[i]]
            /\ \A i \in 1 .. Len(ordered) - 1 : adjacent[i] \in AnyLinks(m)
        BY <2>2
      <3> HIDE DEF adjacent
      <3> QED BY <3>1, <3>2, MadeList
    <2> QED BY <2>3, <2>4
  <1> HIDE DEF adjacent
  <1>3. Kept(adjacent, distinct) \in Seq(Links(m))
    <2>1. /\ Kept(adjacent, distinct) \in Seq(AnyLinks(m))
          /\ Range(Kept(adjacent, distinct)) = Range(adjacent) \cap distinct
      BY <1>2, KeptIs
    <2>2. Range(adjacent) \subseteq AnyLinks(m)
      BY <1>2 DEF Range
    <2>3. Range(Kept(adjacent, distinct)) \subseteq Links(m)
      BY <2>1, <2>2 DEF Links
    <2> QED BY <2>1, <2>3, InRange
  <1>4. unique \in Seq(1 .. m) /\ \A i, j \in DOMAIN unique : unique[i] = unique[j] => i = j
    BY UniqueIs
  <1> HIDE DEF unique
  <1>5. ASSUME NEW i \in DOMAIN unique PROVE after(i) \in Seq(Links(m))
    <2>1. Len(unique) - i \in Nat /\ i \in 1 .. Len(unique)
      BY <1>4
    <2>2. \A k \in 1 .. Len(unique) - i :
             unique[i] \in 1 .. m /\ unique[i + k] \in 1 .. m /\ unique[i] # unique[i + k]
      BY <1>4, <2>1
    <2>3. \A k \in 1 .. Len(unique) - i :
             [from |-> unique[i], to |-> unique[i + k], kind |-> "related_to"] \in Links(m)
      BY <2>2 DEF Links, AnyLinks, EdgeKinds
    <2>4. /\ after(i) = [k \in 1 .. Len(unique) - i |-> after(i)[k]]
          /\ \A k \in 1 .. Len(unique) - i : after(i)[k] \in Links(m)
      BY <2>3
    <2> HIDE DEF after
    <2> QED BY <2>1, <2>4, MadeList
  <1>6. every \in Seq(Seq(Links(m)))
    <2>1. DOMAIN unique = 1 .. Len(unique) /\ Len(unique) \in Nat
      BY <1>4
    <2> HIDE DEF after
    <2> QED BY <1>5, <2>1
  <1> HIDE DEF every
  <1>7. FlattenSeq(every) \in Seq(Links(m))
    BY <1>6, FlattenIs
  <1> QED BY <1>1, <1>3, <1>7

LEMMA TextLinksAre ==
    ASSUME NEW m \in Nat, NEW parsed \in Seq(Parsing), NEW node \in [Mentioned(parsed) -> 1 .. m]
    PROVE  TextLinks(parsed, node) \in Seq(Links(m))
  <1> DEFINE ordered(p) == [i \in DOMAIN p.entities |-> node[to_lowercase(p.entities[i])]]
             links == [i \in DOMAIN parsed |-> SentenceLinks(ordered(parsed[i]), parsed[i].gaps)]
  <1>1. ASSUME NEW i \in DOMAIN parsed PROVE links[i] \in Seq(Links(m))
    <2> DEFINE es == parsed[i].entities
    <2>1. parsed[i] \in Parsing
      OBVIOUS
    <2>2. es \in Seq(Seq(Word))
      BY <2>1 DEF Parsing
    <2>3. \A j \in DOMAIN es : to_lowercase(es[j]) \in Mentioned(parsed)
      BY DEF Mentioned, Range
    <2> HIDE DEF es
    <2> DEFINE o == [j \in DOMAIN es |-> node[to_lowercase(es[j])]]
    <2>4. /\ DOMAIN es = 1 .. Len(es) /\ Len(es) \in Nat
          /\ o = [j \in 1 .. Len(es) |-> o[j]] /\ \A j \in 1 .. Len(es) : o[j] \in 1 .. m
      BY <2>2, <2>3
    <2>5. links[i] = SentenceLinks(o, parsed[i].gaps)
      BY DEF es
    <2> HIDE DEF o, links
    <2>6. o \in Seq(1 .. m)
      BY <2>4, MadeList
    <2> QED BY <2>5, <2>6, SentenceLinksAre
  <1>2. links \in Seq(Seq(Links(m)))
    <2>1. DOMAIN parsed = 1 .. Len(parsed) /\ Len(parsed) \in Nat
      OBVIOUS
    <2>2. links = [i \in DOMAIN parsed |-> links[i]]
      OBVIOUS
    <2> HIDE DEF links
    <2> QED BY <1>1, <2>1, <2>2
  <1>3. TextLinks(parsed, node) = FlattenSeq(links)
    BY DEF TextLinks
  <1> HIDE DEF links
  <1> QED BY <1>2, <1>3, FlattenIs

-----------------------------------------------------------------------------
(* The knowledge bus: the nodes of a text.                                 *)

\* Raising a confidence twice is raising it once.
LEMMA RaisedIs ==
    ASSUME NEW x, IsNode(x), NEW floor \in Nat
    PROVE  LET y == Raised(x, floor)
           IN  /\ IsNode(y) /\ y.label = x.label
               /\ y.confidence >= x.confidence /\ y.confidence >= Least(floor, 100)
               /\ x.confidence >= Least(floor, 100) => y = x
  <1> DEFINE F == {"kind", "label", "confidence", "date", "provenance"}
             y == Raised(x, floor)
             c == Greatest(x.confidence, Least(floor, 100))
  <1>1. DOMAIN x = F /\ x = [f \in F |-> x[f]] /\ x.confidence \in Nat
    BY DEF IsNode
  <1>2. y = [f \in F |-> IF f = "confidence" THEN c ELSE x[f]]
    BY <1>1 DEF Raised
  <1>3. c \in Nat /\ c >= x.confidence /\ c >= Least(floor, 100) /\ (x.confidence >= Least(floor, 100) => c = x.confidence)
    BY <1>1 DEF Greatest, Least
  <1> HIDE DEF y, c
  <1>4. y.label = x.label /\ y.confidence = c /\ y = [f \in F |-> y[f]]
    BY <1>2
  <1>5. c = x.confidence => y = x
    BY <1>1, <1>2
  <1> QED BY <1>3, <1>4, <1>5 DEF IsNode, y

\* Mentions are counted, so confidences are numbers.
LEMMA FewMentions ==
    ASSUME NEW parsed \in Seq(Parsing), NEW lower
    PROVE  Count(parsed, lower) \in Nat
  <1> DEFINE AtSentence(i) == {<<i, j>> : j \in {k \in DOMAIN parsed[i].entities :
                                          to_lowercase(parsed[i].entities[k]) = lower}}
             each == [i \in DOMAIN parsed |-> AtSentence(i)]
  <1>1. IsFiniteSet(DOMAIN parsed)
    BY FewPlaces
  <1>2. ASSUME NEW i \in DOMAIN parsed PROVE IsFiniteSet(AtSentence(i))
    <2> DEFINE es == parsed[i].entities
               S == {k \in DOMAIN es : to_lowercase(es[k]) = lower}
               pairs == [j \in S |-> <<i, j>>]
    <2>1. es \in Seq(Seq(Word))
      <3>1. parsed[i] \in Parsing
        OBVIOUS
      <3> QED BY <3>1 DEF Parsing
    <2>2. IsFiniteSet(S)
      <3>1. IsFiniteSet(DOMAIN es)
        <4> HIDE DEF es
        <4> QED BY <2>1, FewPlaces
      <3>2. S \in SUBSET (DOMAIN es)
        OBVIOUS
      <3> HIDE DEF S
      <3> QED BY <3>1, <3>2, FS_Subset
    <2>3. AtSentence(i) = Range(pairs)
      BY DEF Range
    <2>4. pairs = [j \in DOMAIN pairs |-> pairs[j]] /\ DOMAIN pairs = S
      OBVIOUS
    <2> HIDE DEF pairs, AtSentence, S
    <2> QED BY <2>2, <2>3, <2>4, FewValues
  <1>3. \A T \in Range(each) : IsFiniteSet(T)
    BY <1>2 DEF Range
  <1>4. Mentions(parsed, lower) = UNION Range(each)
    BY DEF Mentions, Range
  <1>5. each = [i \in DOMAIN each |-> each[i]] /\ DOMAIN each = DOMAIN parsed
    OBVIOUS
  <1> HIDE DEF each, AtSentence
  <1>6. IsFiniteSet(Range(each))
    BY <1>1, <1>5, FewValues
  <1>7. IsFiniteSet(Mentions(parsed, lower))
    BY <1>3, <1>4, <1>6, FS_UNION
  <1> QED BY <1>7, FS_CardinalityType DEF Count

LEMMA ConfidenceIs ==
    ASSUME NEW count \in Nat
    PROVE  confidence_for(count) \in Nat
  BY DEF confidence_for, Least

\* The casing seen first is one of the casings.
LEMMA DisplayIs ==
    ASSUME NEW parsed \in Seq(Parsing), NEW lower \in Mentioned(parsed)
    PROVE  to_lowercase(Display(parsed, lower)) = lower
  <1> DEFINE m == Mentions(parsed, lower)
             First(p) == \A q \in m : p[1] < q[1] \/ (p[1] = q[1] /\ p[2] <= q[2])
             p == CHOOSE p \in m : First(p)
             I == {i \in DOMAIN parsed : \E j \in DOMAIN parsed[i].entities : <<i, j>> \in m}
  <1>1. \A i, j : <<i, j>> \in m <=>
           /\ i \in DOMAIN parsed /\ j \in DOMAIN parsed[i].entities
           /\ to_lowercase(parsed[i].entities[j]) = lower
    BY DEF Mentions
  <1>2. \A q \in m : q = <<q[1], q[2]>>
    BY DEF Mentions
  <1>3. \A i \in DOMAIN parsed : DOMAIN parsed[i].entities \subseteq Nat
    <2> TAKE i \in DOMAIN parsed
    <2>1. parsed[i] \in Parsing
      OBVIOUS
    <2>2. parsed[i].entities \in Seq(Seq(Word))
      BY <2>1 DEF Parsing
    <2> QED BY <2>2
  <1>4. DOMAIN parsed \subseteq Nat
    OBVIOUS
  <1>5. \E i \in DOMAIN parsed : \E j \in DOMAIN parsed[i].entities :
           to_lowercase(parsed[i].entities[j]) = lower
    BY DEF Mentioned, Range
  <1> HIDE DEF m
  <1>6. I \in SUBSET Nat /\ I # {}
    BY <1>1, <1>4, <1>5
  <1>7. PICK i \in I : \A k \in I : i <= k
    <2> HIDE DEF I
    <2> QED BY <1>6, LeastNat
  <1> DEFINE J == {j \in DOMAIN parsed[i].entities : <<i, j>> \in m}
  <1>8. J \in SUBSET Nat /\ J # {}
    BY <1>3, <1>7
  <1>9. PICK j \in J : \A k \in J : j <= k
    <2> HIDE DEF J
    <2> QED BY <1>8, LeastNat
  <1>10. <<i, j>> \in m /\ i \in Nat
    BY <1>4, <1>9
  <1>11. ASSUME NEW q \in m PROVE i < q[1] \/ (i = q[1] /\ j <= q[2])
    <2>1. <<q[1], q[2]>> \in m
      BY <1>2
    <2>2. q[1] \in DOMAIN parsed /\ q[2] \in DOMAIN parsed[q[1]].entities
      BY <1>1, <2>1
    <2>3. q[1] \in I /\ q[1] \in Nat /\ i <= q[1]
      BY <1>4, <1>7, <2>1, <2>2
    <2>4. CASE q[1] = i
      <3>1. q[2] \in J
        BY <2>1, <2>2, <2>4
      <3> QED BY <1>9, <2>4, <3>1
    <2> QED BY <1>10, <2>3, <2>4
  <1>12. First(<<i, j>>)
    BY <1>11
  <1>13. p \in m
    <2> HIDE DEF First
    <2> QED BY <1>10, <1>12
  <1>14. Display(parsed, lower) = parsed[p[1]].entities[p[2]]
    BY DEF Display, m
  <1> HIDE DEF p
  <1>15. <<p[1], p[2]>> \in m
    BY <1>2, <1>13
  <1> QED BY <1>1, <1>14, <1>15

\* A new entity is a node with the label mentioned, as confident as a second
\* reading would make it.
LEMMA NewEntityIs ==
    ASSUME NEW parsed \in Seq(Parsing), NEW lower \in Mentioned(parsed), NEW provenance
    PROVE  LET x == NewEntity(parsed, lower, provenance)
           IN  /\ IsNode(x) /\ to_lowercase(x.label) = lower
               /\ x.confidence >= Least(confidence_for(Count(parsed, lower)), 100)
  <1> DEFINE display == Display(parsed, lower)
             c == confidence_for(Count(parsed, lower))
             kind == classify(display)
             y == NewNode(kind, display, c)
             x == NewEntity(parsed, lower, provenance)
  <1>1. c \in Nat
    BY FewMentions, ConfidenceIs
  <1>2. to_lowercase(display) = lower
    BY DisplayIs
  <1>3. x = [y EXCEPT !.provenance = provenance]
    BY DEF NewEntity
  <1> HIDE DEF display, c, kind, x
  <1>4. IsNode(y) /\ y.label = display /\ y.confidence = Least(c, 100)
    BY <1>1, NewNodeIs
  <1> HIDE DEF y
  <1> DEFINE F == {"kind", "label", "confidence", "date", "provenance"}
  <1>5. DOMAIN y = F /\ y.confidence \in Nat
    BY <1>4 DEF IsNode
  <1>6. x = [f \in F |-> IF f = "provenance" THEN provenance ELSE y[f]]
    BY <1>3, <1>5
  <1>7. x.label = y.label /\ x.confidence = y.confidence /\ x = [f \in F |-> x[f]]
    BY <1>6
  <1>8. IsNode(x)
    BY <1>5, <1>7 DEF IsNode
  <1>9. x.confidence >= Least(c, 100)
    BY <1>4, <1>5, <1>7
  <1> QED BY <1>2, <1>4, <1>7, <1>8, <1>9 DEF x, c

\* The steps of a reading: the sentences parsed, the labels that are new, the
\* graph with their nodes, and the node of each label.
Parsed(text) == [i \in DOMAIN text |-> parse_sentence(text[i])]
NewOf(g, parsed) == SetToSeq(Mentioned(parsed) \ Labels(g))

NodesOf(g, parsed, index, provenance, n) ==
    AddEntities(Reinforce(g, parsed, index), parsed, NewOf(g, parsed), n + 1, provenance)

LabelFor(g, parsed, index, n) ==
    [e \in Mentioned(parsed) |->
       IF e \in Labels(g) THEN index[e]
       ELSE n + 1 - 1 + (CHOOSE i \in DOMAIN NewOf(g, parsed) : NewOf(g, parsed)[i] = e)]

LEMMA ReadingIs ==
    ASSUME NEW g, NEW text, NEW provenance, NEW n \in Nat, NEW index
    PROVE  extract_concepts_with_provenance(g, text, provenance, n + 1, index)
             = LinkAll([g    |-> NodesOf(g, Parsed(text), index, provenance, n),
                        seen |-> SeenPairs(g)],
                       TextLinks(Parsed(text), LabelFor(g, Parsed(text), index, n))).g
  <1> DEFINE parsed == [i \in DOMAIN text |-> parse_sentence(text[i])]
             new == SetToSeq(Mentioned(parsed) \ Labels(g))
             nodes == AddEntities(Reinforce(g, parsed, index), parsed, new, n + 1, provenance)
             label_for == [e \in Mentioned(parsed) |->
                             IF e \in Labels(g) THEN index[e]
                             ELSE n + 1 - 1 + (CHOOSE i \in DOMAIN new : new[i] = e)]
  <1>1. extract_concepts_with_provenance(g, text, provenance, n + 1, index)
          = LinkAll([g |-> nodes, seen |-> SeenPairs(g)], TextLinks(parsed, label_for)).g
    BY DEF extract_concepts_with_provenance
  <1>2. parsed = Parsed(text)
    BY DEF Parsed
  <1> HIDE DEF parsed
  <1>3. new = NewOf(g, parsed)
    BY DEF NewOf
  <1> HIDE DEF new
  <1>4. nodes = NodesOf(g, parsed, index, provenance, n) /\ label_for = LabelFor(g, parsed, index, n)
    BY <1>3 DEF NodesOf, LabelFor
  <1> HIDE DEF nodes, label_for
  <1> QED BY <1>1, <1>2, <1>4

LEMMA ParsedIs == ASSUME NEW text \in Seq(Seq(Word)) PROVE Parsed(text) \in Seq(Parsing)
  <1> DEFINE parsed == Parsed(text)
  <1>1. DOMAIN text = 1 .. Len(text) /\ Len(text) \in Nat /\ \A i \in 1 .. Len(text) : text[i] \in Seq(Word)
    OBVIOUS
  <1>2. parsed = [i \in 1 .. Len(text) |-> parsed[i]] /\ \A i \in 1 .. Len(text) : parsed[i] \in Parsing
    BY <1>1, SentenceIs DEF Parsed
  <1> HIDE DEF parsed
  <1>3. parsed \in Seq(Parsing)
    BY <1>1, <1>2, MadeList
  <1> QED BY <1>3 DEF parsed

\* The new labels, each once.
LEMMA NewLabels ==
    ASSUME NEW g, NEW parsed \in Seq(Parsing)
    PROVE  LET new == NewOf(g, parsed)  k == Len(new)
           IN  /\ k \in Nat /\ DOMAIN new = 1 .. k
               /\ \A i \in 1 .. k : new[i] \in Mentioned(parsed) \ Labels(g)
               /\ \A i, j \in 1 .. k : new[i] = new[j] => i = j
               /\ \A e \in Mentioned(parsed) \ Labels(g) : \E i \in 1 .. k : new[i] = e
  <1> DEFINE S == Mentioned(parsed) \ Labels(g)
             new == SetToSeq(S)
             n == Cardinality(S)
  <1>1. IsFiniteSet(S)
    BY FewMentioned, FS_Subset
  <1> HIDE DEF S
  <1>2. /\ n \in Nat /\ new \in [1 .. n -> S] /\ Len(new) = n
        /\ \A i, j \in 1 .. n : new[i] = new[j] => i = j
        /\ \A x \in S : \E i \in 1 .. n : new[i] = x
    BY <1>1, SetToSeqOnce
  <1> HIDE DEF n
  <1>3. NewOf(g, parsed) = new
    BY DEF NewOf, S
  <1> HIDE DEF new
  <1> QED BY <1>2, <1>3 DEF S

\* Entities that have a node raise its confidence, and change nothing else.
Seen(g, parsed, index, id) == LabelOf(g, id) \in Mentioned(parsed) /\ index[LabelOf(g, id)] = id

LEMMA ReinforceIs ==
    ASSUME NEW n \in Nat, NEW g, Among(g, n), NEW parsed \in Seq(Parsing), NEW index
    PROVE  LET h == Reinforce(g, parsed, index)
           IN  /\ Among(h, n) /\ Ids(h) = Ids(g) /\ h.adjacency = g.adjacency
               /\ \A id \in Ids(g) :
                    /\ h.nodes[id] = IF Seen(g, parsed, index, id)
                                     THEN Raised(g.nodes[id], confidence_for(Count(parsed, LabelOf(g, id))))
                                     ELSE g.nodes[id]
                    /\ h.nodes[id].label = g.nodes[id].label
                    /\ h.nodes[id].confidence >= g.nodes[id].confidence
  <1> DEFINE h == Reinforce(g, parsed, index)
             floor(id) == confidence_for(Count(parsed, LabelOf(g, id)))
             nodes == [id \in Ids(g) |-> IF Seen(g, parsed, index, id) THEN Raised(g.nodes[id], floor(id))
                                         ELSE g.nodes[id]]
  <1>1. h = [nodes |-> h.nodes, adjacency |-> h.adjacency] /\ h.adjacency = g.adjacency /\ h.nodes = nodes
    BY DEF Reinforce, Seen
  <1>2. /\ DOMAIN nodes = Ids(g) /\ nodes = [id \in Ids(g) |-> nodes[id]]
        /\ \A id \in Ids(g) : nodes[id] = IF Seen(g, parsed, index, id) THEN Raised(g.nodes[id], floor(id))
                                          ELSE g.nodes[id]
    OBVIOUS
  <1>3. \A id \in Ids(g) : floor(id) \in Nat
    BY FewMentions, ConfidenceIs
  <1> HIDE DEF h, nodes, floor
  <1>4. ASSUME NEW id \in Ids(g)
        PROVE  /\ IsNode(nodes[id]) /\ nodes[id].label = g.nodes[id].label
               /\ nodes[id].confidence >= g.nodes[id].confidence
    <2> DEFINE x == g.nodes[id]
    <2>1. IsNode(x) /\ x.confidence >= x.confidence
      BY DEF Among, IsNode
    <2>2. floor(id) \in Nat
      BY <1>3
    <2> HIDE DEF x
    <2>3. /\ IsNode(Raised(x, floor(id))) /\ Raised(x, floor(id)).label = x.label
          /\ Raised(x, floor(id)).confidence >= x.confidence
      BY <2>1, <2>2, RaisedIs
    <2>4. nodes[id] = Raised(x, floor(id)) \/ nodes[id] = x
      BY <1>2 DEF x
    <2>5. CASE nodes[id] = Raised(x, floor(id))
      BY <2>3, <2>5 DEF x
    <2>6. CASE nodes[id] = x
      BY <2>1, <2>6 DEF x
    <2> QED BY <2>4, <2>5, <2>6
  <1>5. Ids(h) = Ids(g)
    BY <1>1, <1>2 DEF Ids
  <1>6. Among(h, n)
    BY <1>1, <1>2, <1>4, <1>5 DEF Among
  <1>7. \A id \in Ids(g) : h.nodes[id] = nodes[id]
    BY <1>1
  <1> QED BY <1>1, <1>2, <1>4, <1>5, <1>6, <1>7 DEF h, floor

\* The new entities get the next ids, and no edge.
Entered(h, g, parsed, new, n, k, provenance) ==
    /\ Among(h, n + k) /\ Ids(h) = Ids(g) \cup (n + 1 .. n + k)
    /\ \A x : OutEdges(h, x) = OutEdges(g, x)
    /\ \A id \in Ids(g) : h.nodes[id] = g.nodes[id]
    /\ \A i \in 1 .. k : h.nodes[n + i] = NewEntity(parsed, new[i], provenance)

LEMMA AddEntitiesIs ==
    ASSUME NEW n \in Nat, NEW g, Among(g, n), NEW parsed \in Seq(Parsing), NEW new, NEW k \in Nat,
           Len(new) = k, \A i \in 1 .. k : new[i] \in Mentioned(parsed), NEW provenance
    PROVE  Entered(AddEntities(g, parsed, new, n + 1, provenance), g, parsed, new, n, k, provenance)
  <1> DEFINE h == AddEntities(g, parsed, new, n + 1, provenance)
             fresh == n + 1 .. n + k
             nodes == [id \in Ids(g) \cup fresh |->
                         IF id \in Ids(g) THEN g.nodes[id] ELSE NewEntity(parsed, new[id - (n + 1) + 1], provenance)]
             adjacency == [id \in DOMAIN g.adjacency \cup fresh |-> OutEdges(g, id)]
  <1>1. n + 1 + Len(new) - 1 = n + k
    OBVIOUS
  <1>2. h = [nodes |-> h.nodes, adjacency |-> h.adjacency] /\ h.nodes = nodes /\ h.adjacency = adjacency
    BY <1>1 DEF AddEntities
  <1>3. /\ DOMAIN nodes = Ids(g) \cup fresh /\ nodes = [id \in Ids(g) \cup fresh |-> nodes[id]]
        /\ \A id \in Ids(g) : nodes[id] = g.nodes[id]
    OBVIOUS
  <1>4. n + k \in Nat /\ Among(g, n + k)
    BY AmongMore
  <1>5. ASSUME NEW i \in 1 .. k PROVE nodes[n + i] = NewEntity(parsed, new[i], provenance)
    <2>1. n + i \in fresh /\ n + i \notin Ids(g) /\ (n + i) - (n + 1) + 1 = i
      BY DEF Among
    <2> QED BY <2>1
  <1> HIDE DEF h, nodes
  <1>6. Ids(h) = Ids(g) \cup fresh
    BY <1>2, <1>3 DEF Ids
  <1>7. PICK D \in SUBSET (1 .. n + k) : g.adjacency \in [D -> Seq(EdgesTo(n + k))]
    BY <1>4 DEF Among, Adjacency
  <1>8. \A id \in D \cup fresh : OutEdges(g, id) \in Seq(EdgesTo(n + k))
    BY <1>4, LeavingEdges
  <1>9. h.adjacency \in [D \cup fresh -> Seq(EdgesTo(n + k))]
    <2>1. h.adjacency = [id \in D \cup fresh |-> OutEdges(g, id)]
      BY <1>2, <1>7
    <2> HIDE DEF fresh
    <2> QED BY <1>8, <2>1
  <1>10. fresh \subseteq 1 .. n + k /\ Ids(g) \subseteq 1 .. n + k
    BY <1>4 DEF Among
  <1>11. h.adjacency \in Adjacency(n + k)
    <2>1. D \cup fresh \in SUBSET (1 .. n + k)
      BY <1>10
    <2> QED BY <1>9, <2>1 DEF Adjacency
  <1>12. \A id \in Ids(h) : IsNode(h.nodes[id])
    <2> TAKE id \in Ids(h)
    <2>1. CASE id \in Ids(g)
      BY <1>2, <1>3, <2>1 DEF Among
    <2>2. CASE id \notin Ids(g)
      <3>1. id \in fresh /\ id - n \in 1 .. k /\ n + (id - n) = id
        BY <1>6, <2>2
      <3>2. h.nodes[id] = NewEntity(parsed, new[id - n], provenance)
        BY <1>2, <1>5, <3>1
      <3> QED BY <3>1, <3>2, NewEntityIs
    <2> QED BY <2>1, <2>2
  <1>13. Among(h, n + k)
    BY <1>2, <1>3, <1>6, <1>10, <1>11, <1>12 DEF Among
  <1>14. \A x : OutEdges(h, x) = OutEdges(g, x)
    BY <1>2 DEF OutEdges
  <1>15. Entered(h, g, parsed, new, n, k, provenance)
    BY <1>2, <1>3, <1>5, <1>6, <1>13, <1>14 DEF Entered
  <1> QED BY <1>15 DEF h

\* The graph with the nodes of a text.
LEMMA NodesOfIs ==
    ASSUME NEW n \in Nat, NEW g, Among(g, n), NEW parsed \in Seq(Parsing), NEW index, NEW provenance
    PROVE  LET h == NodesOf(g, parsed, index, provenance, n)
               new == NewOf(g, parsed)
               k == Len(new)
           IN  /\ Among(h, n + k) /\ Ids(h) = Ids(g) \cup (n + 1 .. n + k)
               /\ \A x : OutEdges(h, x) = OutEdges(g, x)
               /\ \A id \in Ids(g) :
                    /\ h.nodes[id] = IF Seen(g, parsed, index, id)
                                     THEN Raised(g.nodes[id], confidence_for(Count(parsed, LabelOf(g, id))))
                                     ELSE g.nodes[id]
                    /\ LabelOf(h, id) = LabelOf(g, id)
                    /\ h.nodes[id].confidence >= g.nodes[id].confidence
               /\ \A i \in 1 .. k : /\ h.nodes[n + i] = NewEntity(parsed, new[i], provenance)
                                    /\ LabelOf(h, n + i) = new[i]
  <1> DEFINE new == NewOf(g, parsed)
             k == Len(new)
             r == Reinforce(g, parsed, index)
             h == AddEntities(r, parsed, new, n + 1, provenance)
  <1>1. k \in Nat /\ Len(new) = k /\ \A i \in 1 .. k : new[i] \in Mentioned(parsed)
    BY NewLabels
  <1> HIDE DEF new
  <1>2. /\ Among(r, n) /\ Ids(r) = Ids(g) /\ r.adjacency = g.adjacency
        /\ \A id \in Ids(g) :
             /\ r.nodes[id] = IF Seen(g, parsed, index, id)
                              THEN Raised(g.nodes[id], confidence_for(Count(parsed, LabelOf(g, id))))
                              ELSE g.nodes[id]
             /\ r.nodes[id].label = g.nodes[id].label
             /\ r.nodes[id].confidence >= g.nodes[id].confidence
    BY ReinforceIs
  <1> HIDE DEF r, k
  <1>3. /\ Among(h, n + k) /\ Ids(h) = Ids(r) \cup (n + 1 .. n + k)
        /\ \A x : OutEdges(h, x) = OutEdges(r, x)
        /\ \A id \in Ids(r) : h.nodes[id] = r.nodes[id]
        /\ \A i \in 1 .. k : h.nodes[n + i] = NewEntity(parsed, new[i], provenance)
    <2>1. Among(r, n)
      BY <1>2
    <2>2. k \in Nat /\ Len(new) = k /\ \A i \in 1 .. k : new[i] \in Mentioned(parsed)
      BY <1>1
    <2>3. Entered(AddEntities(r, parsed, new, n + 1, provenance), r, parsed, new, n, k, provenance)
      BY <2>1, <2>2, AddEntitiesIs
    <2> QED BY <2>3 DEF Entered
  <1>4. h = NodesOf(g, parsed, index, provenance, n)
    BY DEF NodesOf, r, new
  <1> HIDE DEF h
  <1>5. \A x : OutEdges(h, x) = OutEdges(g, x)
    BY <1>2, <1>3 DEF OutEdges
  <1>6. \A id \in Ids(g) : LabelOf(h, id) = LabelOf(g, id)
    BY <1>2, <1>3 DEF LabelOf
  <1>7. \A i \in 1 .. k : LabelOf(h, n + i) = new[i]
    <2> TAKE i \in 1 .. k
    <2>1. new[i] \in Mentioned(parsed)
      BY <1>1
    <2>2. to_lowercase(NewEntity(parsed, new[i], provenance).label) = new[i]
      BY <2>1, NewEntityIs
    <2> QED BY <1>3, <2>2 DEF LabelOf
  <1>8. \A id \in Ids(g) : h.nodes[id] = r.nodes[id]
    BY <1>2, <1>3
  <1> QED BY <1>2, <1>3, <1>4, <1>5, <1>6, <1>7, <1>8 DEF k, new

\* Its labels are those of before and those mentioned.
LEMMA LabelsAre ==
    ASSUME NEW n \in Nat, NEW g, Among(g, n), NEW parsed \in Seq(Parsing), NEW index, NEW provenance
    PROVE  Labels(NodesOf(g, parsed, index, provenance, n)) = Labels(g) \cup Mentioned(parsed)
  <1> DEFINE new == NewOf(g, parsed)
             k == Len(new)
             h == NodesOf(g, parsed, index, provenance, n)
  <1>1. /\ Ids(h) = Ids(g) \cup (n + 1 .. n + k)
        /\ \A id \in Ids(g) : LabelOf(h, id) = LabelOf(g, id)
        /\ \A i \in 1 .. k : LabelOf(h, n + i) = new[i]
    <2>1. Ids(h) = Ids(g) \cup (n + 1 .. n + k)
      BY NodesOfIs
    <2>2. \A id \in Ids(g) : LabelOf(h, id) = LabelOf(g, id)
      BY NodesOfIs
    <2>3. \A i \in 1 .. k : LabelOf(h, n + i) = new[i]
      BY NodesOfIs
    <2> QED BY <2>1, <2>2, <2>3
  <1>2. /\ k \in Nat /\ \A i \in 1 .. k : new[i] \in Mentioned(parsed) \ Labels(g)
        /\ \A e \in Mentioned(parsed) \ Labels(g) : \E i \in 1 .. k : new[i] = e
    BY NewLabels
  <1> HIDE DEF new, k, h
  <1>3. ASSUME NEW id \in Ids(h) PROVE LabelOf(h, id) \in Labels(g) \cup Mentioned(parsed)
    <2>1. CASE id \in Ids(g)
      BY <1>1, <2>1 DEF Labels
    <2>2. CASE id \in n + 1 .. n + k
      <3>1. id - n \in 1 .. k /\ n + (id - n) = id
        BY <1>2, <2>2
      <3>2. LabelOf(h, id) = new[id - n]
        BY <1>1, <3>1
      <3> QED BY <1>2, <3>1, <3>2
    <2> QED BY <1>1, <1>3, <2>1, <2>2
  <1>4. ASSUME NEW e \in Labels(g) PROVE e \in Labels(h)
    <2>1. PICK id \in Ids(g) : e = LabelOf(g, id)
      BY <1>4 DEF Labels
    <2> QED BY <1>1, <2>1 DEF Labels
  <1>5. ASSUME NEW e \in Mentioned(parsed) \ Labels(g) PROVE e \in Labels(h)
    <2>1. PICK i \in 1 .. k : new[i] = e
      BY <1>2
    <2>2. n + i \in n + 1 .. n + k
      BY <1>2
    <2>3. n + i \in Ids(h) /\ LabelOf(h, n + i) = e
      BY <1>1, <2>1, <2>2
    <2> QED BY <2>3 DEF Labels
  <1>6. Labels(h) \subseteq Labels(g) \cup Mentioned(parsed)
    BY <1>3 DEF Labels
  <1>7. Labels(h) = Labels(g) \cup Mentioned(parsed)
    BY <1>4, <1>5, <1>6
  <1> QED BY <1>7 DEF h

\* The node of each label.
LEMMA LabelForIs ==
    ASSUME NEW n \in Nat, NEW g, Among(g, n), NEW parsed \in Seq(Parsing), NEW index \in Indexes(g)
    PROVE  LET new == NewOf(g, parsed)
               k == Len(new)
               node == LabelFor(g, parsed, index, n)
           IN  /\ node \in [Mentioned(parsed) -> 1 .. n + k]
               /\ \A e \in Mentioned(parsed) \cap Labels(g) : node[e] = index[e]
               /\ \A i \in 1 .. k : node[new[i]] = n + i
  <1> DEFINE new == NewOf(g, parsed)
             k == Len(new)
             node == LabelFor(g, parsed, index, n)
             place(e) == CHOOSE i \in DOMAIN new : new[i] = e
  <1>1. /\ k \in Nat /\ DOMAIN new = 1 .. k
        /\ \A i \in 1 .. k : new[i] \in Mentioned(parsed) \ Labels(g)
        /\ \A i, j \in 1 .. k : new[i] = new[j] => i = j
        /\ \A e \in Mentioned(parsed) \ Labels(g) : \E i \in 1 .. k : new[i] = e
    BY NewLabels
  <1>2. node = [e \in Mentioned(parsed) |-> IF e \in Labels(g) THEN index[e] ELSE n + 1 - 1 + place(e)]
    BY DEF LabelFor
  <1> HIDE DEF new, k, node
  <1>3. \A e \in Mentioned(parsed) \cap Labels(g) : node[e] = index[e] /\ node[e] \in 1 .. n + k
    <2> TAKE e \in Mentioned(parsed) \cap Labels(g)
    <2>1. index[e] \in Ids(g) /\ Ids(g) \subseteq 1 .. n
      BY DEF Indexes, Among
    <2> HIDE DEF place
    <2> QED BY <1>1, <1>2, <2>1
  <1>4. ASSUME NEW i \in 1 .. k PROVE node[new[i]] = n + i
    <2>1. place(new[i]) = i
      BY <1>1
    <2> HIDE DEF place
    <2>2. new[i] \in Mentioned(parsed) /\ new[i] \notin Labels(g)
      BY <1>1
    <2>3. node[new[i]] = n + 1 - 1 + place(new[i])
      BY <1>2, <2>2
    <2> QED BY <1>1, <2>1, <2>3
  <1>5. ASSUME NEW e \in Mentioned(parsed) \ Labels(g) PROVE node[e] \in 1 .. n + k
    <2>1. PICK i \in 1 .. k : new[i] = e
      BY <1>1
    <2>2. node[e] = n + i
      BY <1>4, <2>1
    <2> QED BY <1>1, <2>2
  <1>6. node \in [Mentioned(parsed) -> 1 .. n + k]
    <2>1. node = [e \in Mentioned(parsed) |-> node[e]]
      BY <1>2
    <2> QED BY <1>3, <1>5, <2>1
  <1> QED BY <1>3, <1>4, <1>6 DEF node, new, k


-----------------------------------------------------------------------------
(* The knowledge bus: the edges of a text.                                 *)

\* An edge of x points at y.
Points(g, x, y) == \E j \in DOMAIN OutEdges(g, x) : OutEdges(g, x)[j].to = y

\* A pair is pairs if an edge joins it.
LEMMA SeenPairsAre ==
    ASSUME NEW g, NEW x, NEW y
    PROVE  <<x, y>> \in SeenPairs(g) <=> Points(g, x, y)
  <1> DEFINE T(z, i) == <<z, g.adjacency[z][i].to, g.adjacency[z][i].kind>>
  <1>1. \A e : e \in edges(g) <=> \E z \in DOMAIN g.adjacency : \E i \in DOMAIN g.adjacency[z] : e = T(z, i)
    BY DEF edges
  <1>2. \A z, i : T(z, i)[1] = z /\ T(z, i)[2] = g.adjacency[z][i].to
    OBVIOUS
  <1> HIDE DEF T
  <1>3. <<x, y>> \in SeenPairs(g) <=> \E e \in edges(g) : x = e[1] /\ y = e[2]
    BY DEF SeenPairs
  <1>4. <<x, y>> \in SeenPairs(g) <=>
           x \in DOMAIN g.adjacency /\ \E i \in DOMAIN g.adjacency[x] : g.adjacency[x][i].to = y
    <2>1. ASSUME NEW e \in edges(g), x = e[1], y = e[2]
          PROVE  x \in DOMAIN g.adjacency /\ \E i \in DOMAIN g.adjacency[x] : g.adjacency[x][i].to = y
      BY <1>1, <1>2, <2>1
    <2>2. ASSUME x \in DOMAIN g.adjacency, NEW i \in DOMAIN g.adjacency[x], g.adjacency[x][i].to = y
          PROVE  \E e \in edges(g) : x = e[1] /\ y = e[2]
      <3>1. T(x, i) \in edges(g)
        BY <1>1, <2>2
      <3> QED BY <1>2, <2>2, <3>1
    <2> QED BY <1>3, <2>1, <2>2
  <1>5. x \notin DOMAIN g.adjacency => DOMAIN OutEdges(g, x) = {}
    BY DEF OutEdges
  <1> QED BY <1>4, <1>5 DEF Points, OutEdges

\* A prefix, place by place.
LEMMA PrefixIs ==
    ASSUME NEW R, NEW s \in Seq(R), NEW t \in Seq(R)
    PROVE  IsPrefix(s, t) <=> Len(s) <= Len(t) /\ \A i \in 1 .. Len(s) : s[i] = t[i]
  <1> SUFFICES ASSUME Len(s) <= Len(t)
               PROVE  SubSeq(s, 1, Len(s)) = SubSeq(t, 1, Len(s)) <=> \A i \in 1 .. Len(s) : s[i] = t[i]
    BY DEF IsPrefix
  <1>1. SubSeq(s, 1, Len(s)) = [i \in 1 .. Len(s) |-> s[i]]
    OBVIOUS
  <1>2. SubSeq(t, 1, Len(s)) = [i \in 1 .. Len(s) |-> t[i]]
    OBVIOUS
  <1> QED BY <1>1, <1>2

\* One more edge, to where none goes.
LEMMA GrownOne ==
    ASSUME NEW R, NEW old \in Seq(R), NEW new \in Seq(R), NEW e \in R, NEW x, Grown(old, new, x),
           e.to # x, \A j \in DOMAIN new : new[j].to # e.to
    PROVE  Grown(old, Append(new, e), x)
  <1> DEFINE t == Append(new, e)
  <1>1. /\ Len(old) \in Nat /\ Len(new) \in Nat /\ DOMAIN new = 1 .. Len(new)
        /\ t \in Seq(R) /\ Len(t) = Len(new) + 1 /\ DOMAIN t = 1 .. Len(new) + 1
        /\ t[Len(new) + 1] = e /\ \A i \in 1 .. Len(new) : t[i] = new[i]
    OBVIOUS
  <1>2. Len(old) <= Len(new) /\ \A i \in 1 .. Len(old) : old[i] = new[i]
    BY PrefixIs DEF Grown
  <1> HIDE DEF t
  <1>3. IsPrefix(old, t)
    <2>1. Len(old) <= Len(t) /\ \A i \in 1 .. Len(old) : old[i] = t[i]
      BY <1>1, <1>2
    <2> QED BY <1>1, <2>1, PrefixIs
  <1>4. ASSUME NEW i \in Len(old) + 1 .. Len(t)
        PROVE  t[i].to # x /\ \A j \in DOMAIN t : t[j].to = t[i].to => j = i
    <2>1. CASE i = Len(new) + 1
      <3>1. t[i] = e
        BY <1>1, <2>1
      <3>2. \A j \in DOMAIN t : j # i => j \in DOMAIN new /\ t[j] = new[j]
        BY <1>1, <2>1
      <3> QED BY <3>1, <3>2
    <2>2. CASE i # Len(new) + 1
      <3>1. i \in Len(old) + 1 .. Len(new) /\ i \in 1 .. Len(new) /\ t[i] = new[i]
        BY <1>1, <2>2
      <3>2. new[i].to # x /\ \A j \in DOMAIN new : new[j].to = new[i].to => j = i
        BY <3>1 DEF Grown
      <3>3. new[i].to # e.to
        BY <1>1, <3>1
      <3>4. \A j \in DOMAIN t : (j \in DOMAIN new /\ t[j] = new[j]) \/ t[j] = e
        BY <1>1
      <3> QED BY <3>1, <3>2, <3>3, <3>4
    <2> QED BY <2>1, <2>2
  <1>5. Grown(old, t, x)
    BY <1>3, <1>4 DEF Grown
  <1> QED BY <1>5 DEF t

\* What did not change grew by nothing.
LEMMA GrownNot ==
    ASSUME NEW R, NEW old \in Seq(R), NEW x
    PROVE  Grown(old, old, x)
  <1>1. Len(old) \in Nat
    OBVIOUS
  <1>2. IsPrefix(old, old)
    BY <1>1, PrefixIs
  <1> QED BY <1>1, <1>2 DEF Grown

\* Of a graph g, n of the links are drawn.
Drawn(s, g, m, links, n) ==
    /\ Among(s.g, m) /\ s.g.nodes = g.nodes
    /\ \A x : Grown(OutEdges(g, x), OutEdges(s.g, x), x)
    /\ \A x, y : <<x, y>> \in s.seen <=> Points(s.g, x, y)
    /\ \A i \in 1 .. n : <<links[i].from, links[i].to>> \in s.seen

\* Drawing one link.
LEMMA LinkDraws ==
    ASSUME NEW m \in Nat, NEW g, Among(g, m), NEW links, NEW n \in Nat, links[n + 1] \in Links(m),
           NEW s, Drawn(s, g, m, links, n)
    PROVE  Drawn(Link(s, links[n + 1]), g, m, links, n + 1)
  <1> DEFINE l == links[n + 1]
             p == <<l.from, l.to>>
             e == Edge(l.to, l.kind)
             h == connect(s.g, l.from, l.to, l.kind)
             pairs == s.seen \cup {p}
             t == Link(s, l)
  <1>1. l.from \in 1 .. m /\ l.to \in 1 .. m /\ l.kind \in EdgeKinds /\ l.from # l.to
    BY DEF Links, AnyLinks
  <1>2. \A i \in 1 .. n + 1 : i \in 1 .. n \/ i = n + 1
    OBVIOUS
  <1>3. CASE p \in s.seen
    <2>1. t = s
      BY <1>3 DEF Link
    <2>2. \A i \in 1 .. n + 1 : <<links[i].from, links[i].to>> \in s.seen
      BY <1>2, <1>3 DEF Drawn
    <2> HIDE DEF t
    <2>3. Drawn(t, g, m, links, n + 1)
      BY <2>1, <2>2 DEF Drawn
    <2> QED BY <2>3 DEF t
  <1>4. CASE p \notin s.seen
    <2>1. t.g = h /\ t.seen = pairs
      BY <1>4 DEF Link
    <2>2. e \in EdgesTo(m) /\ e.to = l.to
      BY <1>1 DEF Edge, EdgesTo
    <2>3. Among(s.g, m) /\ s.g.nodes = g.nodes
      BY DEF Drawn
    <2> HIDE DEF e, l
    <2>4. /\ Among(h, m) /\ h.nodes = s.g.nodes
          /\ OutEdges(h, l.from) = Append(OutEdges(s.g, l.from), Edge(l.to, l.kind))
          /\ \A id : id # l.from => OutEdges(h, id) = OutEdges(s.g, id)
      BY <1>1, <2>3, ConnectIs
    <2>5. OutEdges(h, l.from) = Append(OutEdges(s.g, l.from), e)
      BY <2>4 DEF e
    <2>6. \A x : OutEdges(g, x) \in Seq(EdgesTo(m)) /\ OutEdges(s.g, x) \in Seq(EdgesTo(m))
      BY <2>3, LeavingEdges
    <2> HIDE DEF h, p, t
    <2>7. ASSUME NEW x PROVE Grown(OutEdges(g, x), OutEdges(h, x), x)
      <3>1. Grown(OutEdges(g, x), OutEdges(s.g, x), x)
        BY DEF Drawn
      <3>2. CASE x = l.from
        <4>1. ~ Points(s.g, l.from, l.to)
          BY <1>4 DEF Drawn, p
        <4>2. \A j \in DOMAIN OutEdges(s.g, x) : OutEdges(s.g, x)[j].to # e.to
          BY <2>2, <3>2, <4>1 DEF Points
        <4>3. e.to # x
          BY <1>1, <2>2, <3>2
        <4>4. Grown(OutEdges(g, x), Append(OutEdges(s.g, x), e), x)
          BY <2>2, <2>6, <3>1, <4>2, <4>3, GrownOne
        <4> QED BY <2>5, <3>2, <4>4
      <3>3. CASE x # l.from
        BY <2>4, <3>1, <3>3
      <3> QED BY <3>2, <3>3
    <2>8. ASSUME NEW x, NEW y PROVE <<x, y>> \in pairs <=> Points(h, x, y)
      <3>1. <<x, y>> \in s.seen <=> Points(s.g, x, y)
        BY DEF Drawn
      <3>2. CASE x = l.from
        <4> DEFINE old == OutEdges(s.g, x)
        <4>1. OutEdges(h, x) = Append(old, e) /\ old \in Seq(EdgesTo(m))
          BY <2>5, <2>6, <3>2
        <4>2. Points(h, x, y) <=> \E j \in DOMAIN Append(old, e) : Append(old, e)[j].to = y
          BY <4>1 DEF Points
        <4>3. Points(s.g, x, y) <=> \E j \in DOMAIN old : old[j].to = y
          BY DEF Points
        <4> HIDE DEF old
        <4>4. /\ DOMAIN old = 1 .. Len(old) /\ Len(old) \in Nat
              /\ DOMAIN Append(old, e) = 1 .. Len(old) + 1
              /\ Append(old, e)[Len(old) + 1] = e
              /\ \A i \in 1 .. Len(old) : Append(old, e)[i] = old[i]
          BY <2>2, <4>1
        <4>5. \A j \in DOMAIN Append(old, e) : j \in DOMAIN old \/ j = Len(old) + 1
          BY <4>4
        <4>6. DOMAIN old \subseteq DOMAIN Append(old, e) /\ Len(old) + 1 \in DOMAIN Append(old, e)
          BY <4>4
        <4>7. Points(h, x, y) <=> Points(s.g, x, y) \/ e.to = y
          BY <4>2, <4>3, <4>4, <4>5, <4>6
        <4>8. <<x, y>> = p <=> y = l.to
          BY <3>2 DEF p
        <4> QED BY <2>2, <3>1, <4>7, <4>8
      <3>3. CASE x # l.from
        <4>1. OutEdges(h, x) = OutEdges(s.g, x)
          BY <2>4, <3>3
        <4>2. Points(h, x, y) <=> Points(s.g, x, y)
          BY <4>1 DEF Points
        <4>3. <<x, y>> # p
          BY <3>3 DEF p
        <4> QED BY <3>1, <4>2, <4>3
      <3> QED BY <3>2, <3>3
    <2>9. \A i \in 1 .. n + 1 : <<links[i].from, links[i].to>> \in pairs
      <3>1. <<links[n + 1].from, links[n + 1].to>> \in pairs
        BY DEF p, l
      <3>2. \A i \in 1 .. n : <<links[i].from, links[i].to>> \in pairs
        BY DEF Drawn
      <3> QED BY <1>2, <3>1, <3>2
    <2> HIDE DEF pairs
    <2>10. Drawn(t, g, m, links, n + 1)
      BY <2>1, <2>3, <2>4, <2>7, <2>8, <2>9 DEF Drawn
    <2> QED BY <2>10 DEF t, l
  <1> QED BY <1>3, <1>4

\* Drawing the links of a text.
LEMMA LinkAllDraws ==
    ASSUME NEW m \in Nat, NEW g, Among(g, m), NEW links \in Seq(Links(m)), NEW pairs,
           \A x, y : <<x, y>> \in pairs <=> Points(g, x, y)
    PROVE  Drawn(LinkAll([g |-> g, seen |-> pairs], links), g, m, links, Len(links))
  <1> DEFINE N == Len(links)
             s == [g |-> g, seen |-> pairs]
             f == CHOOSE k : k = [n \in 0 .. N |-> IF n = 0 THEN s ELSE Link(k[n - 1], links[n])]
             h == CHOOSE k : k = [n \in 0 .. N |-> IF n = 0 THEN s ELSE Turn("link", {}, k[n - 1], links[n])]
             G == {n \in 0 .. N : Drawn(f[n], g, m, links, n)}
  <1>1. N \in Nat /\ \A i \in 1 .. N : links[i] \in Links(m)
    OBVIOUS
  <1>2. LinkAll(s, links) = f[N]
    BY DEF LinkAll
  <1>3. f = h
    BY DEF Turn
  <1>4. s.g = g /\ s.seen = pairs
    OBVIOUS
  <1> HIDE DEF f, N, s
  <1>5. Turns(f, "link", {}, s, links, N)
    BY <1>1, <1>3, LoopUnfolds
  <1>6. 0 \in G
    <2>1. f[0] = s /\ 0 \in 0 .. N
      BY <1>1, <1>5 DEF Turns
    <2>2. \A x : Grown(OutEdges(g, x), OutEdges(g, x), x)
      <3> TAKE x
      <3>1. OutEdges(g, x) \in Seq(EdgesTo(m))
        BY LeavingEdges
      <3> QED BY <3>1, GrownNot
    <2>3. \A i : i \notin 1 .. 0
      OBVIOUS
    <2>4. Drawn(s, g, m, links, 0)
      BY <1>4, <2>2, <2>3 DEF Drawn
    <2> QED BY <2>1, <2>4
  <1>7. ASSUME NEW n \in 1 .. N, n - 1 \in G PROVE n \in G
    <2> DEFINE i == n - 1
               a == f[n - 1]
    <2>1. f[n] = Link(a, links[n])
      BY <1>5 DEF Turns, Turn
    <2>2. i \in Nat /\ i + 1 = n /\ links[n] \in Links(m) /\ Drawn(a, g, m, links, i)
      BY <1>1, <1>7
    <2> HIDE DEF a, i
    <2>3. links[i + 1] \in Links(m)
      BY <2>2
    <2>4. Drawn(Link(a, links[i + 1]), g, m, links, i + 1)
      BY <2>2, <2>3, LinkDraws
    <2> QED BY <1>1, <2>1, <2>2, <2>4
  <1> HIDE DEF G
  <1>8. N \in G
    <2>1. 0 .. N \subseteq G
      BY <1>1, <1>6, <1>7, UpTo
    <2> QED BY <1>1, <2>1
  <1> QED BY <1>2, <1>8 DEF G, N, s

\* Links between pairs that are linked draw nothing.
LEMMA LinkAllAgain ==
    ASSUME NEW m, NEW links \in Seq(Links(m)), NEW s,
           \A i \in 1 .. Len(links) : <<links[i].from, links[i].to>> \in s.seen
    PROVE  LinkAll(s, links) = s
  <1> DEFINE N == Len(links)
             f == CHOOSE k : k = [n \in 0 .. N |-> IF n = 0 THEN s ELSE Link(k[n - 1], links[n])]
             h == CHOOSE k : k = [n \in 0 .. N |-> IF n = 0 THEN s ELSE Turn("link", {}, k[n - 1], links[n])]
             P == {s}
  <1>1. N \in Nat /\ \A i \in 1 .. N : <<links[i].from, links[i].to>> \in s.seen
    OBVIOUS
  <1>2. LinkAll(s, links) = f[N]
    BY DEF LinkAll
  <1>3. f = h
    BY DEF Turn
  <1> HIDE DEF f, N
  <1>4. Turns(f, "link", {}, s, links, N)
    BY <1>1, <1>3, LoopUnfolds
  <1>5. \A a \in P, i \in 1 .. N : Turn("link", {}, a, links[i]) \in P
    BY <1>1 DEF Turn, Link
  <1>6. s \in P
    OBVIOUS
  <1> HIDE DEF P
  <1>7. f[N] \in P
    BY <1>1, <1>4, <1>5, <1>6, LoopKeeps
  <1> QED BY <1>2, <1>7 DEF P

-----------------------------------------------------------------------------
(* The knowledge bus: reading a text.                                      *)

\* Of a text read in g, n ids handed out: `once` has the nodes of g and those of
\* the text, with the next ids, and its edges.
Read(once, g, parsed, index, provenance, n) ==
    LET m     == n + Len(NewOf(g, parsed))
        nodes == NodesOf(g, parsed, index, provenance, n)
        links == TextLinks(parsed, LabelFor(g, parsed, index, n))
    IN  /\ Among(once, m) /\ once.nodes = nodes.nodes
        /\ \A x : Grown(OutEdges(g, x), OutEdges(once, x), x)
        /\ links \in Seq(Links(m))
        /\ \A i \in 1 .. Len(links) : Points(once, links[i].from, links[i].to)

\* The extraction does that.
LEMMA ExtractIs ==
    ASSUME NEW n \in Nat, NEW g, Among(g, n), NEW text \in Seq(Seq(Word)), NEW provenance, NEW index \in Indexes(g)
    PROVE  Read(extract_concepts_with_provenance(g, text, provenance, n + 1, index),
                g, Parsed(text), index, provenance, n)
  <1> DEFINE parsed == Parsed(text)
             k == Len(NewOf(g, parsed))
             nodes == NodesOf(g, parsed, index, provenance, n)
             node == LabelFor(g, parsed, index, n)
             links == TextLinks(parsed, node)
             pairs == SeenPairs(g)
             once == LinkAll([g |-> nodes, seen |-> pairs], links)
  <1>1. extract_concepts_with_provenance(g, text, provenance, n + 1, index) = once.g
    BY ReadingIs
  <1>2. parsed \in Seq(Parsing)
    BY ParsedIs
  <1> HIDE DEF parsed
  <1>3. k \in Nat
    BY <1>2, NewLabels
  <1>4. Among(nodes, n + k) /\ \A x : OutEdges(nodes, x) = OutEdges(g, x)
    BY <1>2, NodesOfIs
  <1>5. node \in [Mentioned(parsed) -> 1 .. n + k]
    BY <1>2, LabelForIs
  <1> HIDE DEF k, nodes, node
  <1>6. n + k \in Nat /\ links \in Seq(Links(n + k))
    BY <1>2, <1>3, <1>5, TextLinksAre
  <1>7. \A x, y : <<x, y>> \in pairs <=> Points(nodes, x, y)
    <2> TAKE x, y
    <2>1. Points(nodes, x, y) <=> Points(g, x, y)
      BY <1>4 DEF Points
    <2> QED BY <2>1, SeenPairsAre
  <1> HIDE DEF links, pairs
  <1>8. Drawn(once, nodes, n + k, links, Len(links))
    BY <1>4, <1>6, <1>7, LinkAllDraws
  <1> HIDE DEF once
  <1>9. Among(once.g, n + k) /\ once.g.nodes = nodes.nodes
    BY <1>8 DEF Drawn
  <1>10. \A x : Grown(OutEdges(g, x), OutEdges(once.g, x), x)
    BY <1>4, <1>8 DEF Drawn
  <1>11. \A i \in 1 .. Len(links) : Points(once.g, links[i].from, links[i].to)
    BY <1>8 DEF Drawn
  <1>12. Read(once.g, g, parsed, index, provenance, n)
    BY <1>6, <1>9, <1>10, <1>11 DEF Read, k, nodes, links, node
  <1> QED BY <1>1, <1>12 DEF parsed

\* Its nodes.
LEMMA ReadNodes ==
    ASSUME NEW n \in Nat, NEW g, Among(g, n), NEW parsed \in Seq(Parsing), NEW index \in Indexes(g), NEW provenance,
           NEW once, Read(once, g, parsed, index, provenance, n)
    PROVE  LET new == NewOf(g, parsed)
               k == Len(new)
           IN  /\ Ids(once) = Ids(g) \cup (n + 1 .. n + k)
               /\ Labels(once) = Labels(g) \cup Mentioned(parsed)
               /\ \A id \in Ids(g) :
                    /\ once.nodes[id] = IF Seen(g, parsed, index, id)
                                        THEN Raised(g.nodes[id], confidence_for(Count(parsed, LabelOf(g, id))))
                                        ELSE g.nodes[id]
                    /\ LabelOf(once, id) = LabelOf(g, id)
                    /\ once.nodes[id].confidence >= g.nodes[id].confidence
               /\ \A i \in 1 .. k : /\ once.nodes[n + i] = NewEntity(parsed, new[i], provenance)
                                    /\ LabelOf(once, n + i) = new[i]
  <1> DEFINE nodes == NodesOf(g, parsed, index, provenance, n)
  <1>1. once.nodes = nodes.nodes
    BY DEF Read
  <1>2. Ids(once) = Ids(nodes) /\ \A id : LabelOf(once, id) = LabelOf(nodes, id)
    BY <1>1 DEF Ids, LabelOf
  <1>3. Labels(once) = Labels(nodes)
    BY <1>2 DEF Labels
  <1>4. Labels(nodes) = Labels(g) \cup Mentioned(parsed)
    BY LabelsAre
  <1> DEFINE new == NewOf(g, parsed)
             k == Len(new)
  <1>5. /\ Ids(nodes) = Ids(g) \cup (n + 1 .. n + k)
        /\ \A id \in Ids(g) :
             /\ nodes.nodes[id] = IF Seen(g, parsed, index, id)
                                 THEN Raised(g.nodes[id], confidence_for(Count(parsed, LabelOf(g, id))))
                                 ELSE g.nodes[id]
             /\ LabelOf(nodes, id) = LabelOf(g, id)
             /\ nodes.nodes[id].confidence >= g.nodes[id].confidence
        /\ \A i \in 1 .. k : /\ nodes.nodes[n + i] = NewEntity(parsed, new[i], provenance)
                             /\ LabelOf(nodes, n + i) = new[i]
    BY NodesOfIs
  <1> HIDE DEF nodes, new, k
  <1> QED BY <1>1, <1>2, <1>3, <1>4, <1>5 DEF new, k

\* Read again, a text has no new entity, and each stands for the same node.
LEMMA SameNodes ==
    ASSUME NEW n \in Nat, NEW g, Among(g, n), NEW parsed \in Seq(Parsing), NEW index \in Indexes(g), NEW provenance,
           NEW once, Read(once, g, parsed, index, provenance, n), NEW again \in Indexes(once),
           \A e \in Labels(g) : again[e] = index[e]
    PROVE  LET m == n + Len(NewOf(g, parsed))
           IN  /\ Len(NewOf(once, parsed)) = 0
               /\ LabelFor(once, parsed, again, m) = LabelFor(g, parsed, index, n)
  <1> DEFINE new == NewOf(g, parsed)
             k == Len(new)
             m == n + k
             node == LabelFor(g, parsed, index, n)
             twice == LabelFor(once, parsed, again, m)
  <1>1. /\ k \in Nat /\ DOMAIN new = 1 .. k
        /\ \A i \in 1 .. k : new[i] \in Mentioned(parsed) \ Labels(g)
        /\ \A i, j \in 1 .. k : new[i] = new[j] => i = j
        /\ \A e \in Mentioned(parsed) \ Labels(g) : \E i \in 1 .. k : new[i] = e
    BY NewLabels
  <1>2. /\ Ids(once) = Ids(g) \cup (n + 1 .. n + k)
        /\ Labels(once) = Labels(g) \cup Mentioned(parsed)
        /\ \A id \in Ids(g) : LabelOf(once, id) = LabelOf(g, id)
        /\ \A i \in 1 .. k : LabelOf(once, n + i) = new[i]
    BY ReadNodes
  <1>3. /\ node \in [Mentioned(parsed) -> 1 .. n + k]
        /\ \A e \in Mentioned(parsed) \cap Labels(g) : node[e] = index[e]
        /\ \A i \in 1 .. k : node[new[i]] = n + i
    <2>1. node \in [Mentioned(parsed) -> 1 .. n + k]
      BY LabelForIs
    <2>2. \A e \in Mentioned(parsed) \cap Labels(g) : node[e] = index[e]
      BY LabelForIs
    <2>3. \A i \in 1 .. k : node[new[i]] = n + i
      BY LabelForIs
    <2> QED BY <2>1, <2>2, <2>3
  <1>4. Among(once, n + k)
    BY DEF Read
  <1> HIDE DEF new, k, node
  <1>5. Len(NewOf(once, parsed)) = 0
    <2> DEFINE none == NewOf(once, parsed)
    <2>1. Len(none) \in Nat /\ \A i \in 1 .. Len(none) : none[i] \in Mentioned(parsed) \ Labels(once)
      BY NewLabels
    <2>2. Mentioned(parsed) \ Labels(once) = {}
      BY <1>2
    <2> HIDE DEF none
    <2>3. Len(none) = 0
      BY <2>1, <2>2
    <2> QED BY <2>3 DEF none
  <1>6. m \in Nat /\ Among(once, m)
    BY <1>1, <1>4
  <1>7. DOMAIN twice = Mentioned(parsed) /\ twice = [e \in Mentioned(parsed) |-> twice[e]]
    BY DEF LabelFor
  <1>8. \A e \in Mentioned(parsed) : twice[e] = again[e]
    BY <1>2 DEF LabelFor
  <1> HIDE DEF m, twice
  <1>9. ASSUME NEW e \in Mentioned(parsed) PROVE again[e] = node[e]
    <2>1. CASE e \in Labels(g)
      BY <1>3, <2>1
    <2>2. CASE e \notin Labels(g)
      <3>1. PICK i \in 1 .. k : new[i] = e
        BY <1>1, <2>2
      <3> DEFINE id == again[e]
      <3>2. id \in Ids(once) /\ LabelOf(once, id) = e
        BY <1>2 DEF Indexes
      <3> HIDE DEF id
      <3>3. id \notin Ids(g)
        <4> SUFFICES ASSUME id \in Ids(g) PROVE FALSE
          OBVIOUS
        <4>1. LabelOf(g, id) = e
          BY <1>2, <3>2
        <4> QED BY <2>2, <4>1 DEF Labels
      <3>4. id - n \in 1 .. k /\ n + (id - n) = id
        BY <1>1, <1>2, <3>2, <3>3
      <3>5. new[id - n] = e
        BY <1>2, <3>2, <3>4
      <3>6. id - n = i
        BY <1>1, <3>1, <3>4, <3>5
      <3>7. id = n + i
        BY <3>4, <3>6
      <3> QED BY <1>3, <3>1, <3>7 DEF id
    <2> QED BY <2>1, <2>2
  <1>10. twice = node
    <2>1. node = [e \in Mentioned(parsed) |-> node[e]]
      BY <1>3
    <2> QED BY <1>7, <1>8, <1>9, <2>1
  <1> QED BY <1>5, <1>10 DEF twice, node, m, k, new

\* Nor does it raise a confidence again.
LEMMA NodesAgain ==
    ASSUME NEW n \in Nat, NEW g, Among(g, n), NEW parsed \in Seq(Parsing), NEW index \in Indexes(g), NEW provenance,
           NEW once, Read(once, g, parsed, index, provenance, n), NEW again \in Indexes(once),
           \A e \in Labels(g) : again[e] = index[e], NEW other
    PROVE  NodesOf(once, parsed, again, other, n + Len(NewOf(g, parsed))) = once
  <1> DEFINE new == NewOf(g, parsed)
             k == Len(new)
             m == n + k
             twice == NodesOf(once, parsed, again, other, m)
             floor(e) == confidence_for(Count(parsed, e))
  <1>1. /\ k \in Nat /\ \A i \in 1 .. k : new[i] \in Mentioned(parsed)
    BY NewLabels
  <1>2. /\ Ids(once) = Ids(g) \cup (n + 1 .. n + k)
        /\ \A id \in Ids(g) :
             /\ once.nodes[id] = IF Seen(g, parsed, index, id) THEN Raised(g.nodes[id], floor(LabelOf(g, id)))
                                 ELSE g.nodes[id]
             /\ LabelOf(once, id) = LabelOf(g, id)
        /\ \A i \in 1 .. k : /\ once.nodes[n + i] = NewEntity(parsed, new[i], provenance)
                             /\ LabelOf(once, n + i) = new[i]
    BY ReadNodes
  <1>3. Among(once, n + k)
    BY DEF Read
  <1>4. Len(NewOf(once, parsed)) = 0
    BY SameNodes
  <1>5. \A e : floor(e) \in Nat
    BY FewMentions, ConfidenceIs
  <1> HIDE DEF new, k, floor
  <1>6. m \in Nat /\ Among(once, m)
    BY <1>1, <1>3
  <1>7. /\ Among(twice, m + Len(NewOf(once, parsed)))
        /\ Ids(twice) = Ids(once) \cup (m + 1 .. m + Len(NewOf(once, parsed)))
        /\ \A id \in Ids(once) :
             twice.nodes[id] = IF Seen(once, parsed, again, id)
                               THEN Raised(once.nodes[id], confidence_for(Count(parsed, LabelOf(once, id))))
                               ELSE once.nodes[id]
    <2> HIDE DEF m
    <2> QED BY <1>6, NodesOfIs
  <1>8. twice.adjacency = once.adjacency
    <2> DEFINE r == Reinforce(once, parsed, again)
               none == NewOf(once, parsed)
    <2>1. r.adjacency = once.adjacency
      BY DEF Reinforce
    <2>2. twice = AddEntities(r, parsed, none, m + 1, other)
      BY DEF NodesOf
    <2> HIDE DEF r, none, twice, m
    <2>3. m + 1 .. m + 1 + Len(none) - 1 = {}
      BY <1>4, <1>6 DEF none
    <2>4. twice.adjacency = [id \in DOMAIN r.adjacency |-> OutEdges(r, id)]
      BY <2>2, <2>3 DEF AddEntities
    <2>5. once.adjacency = [id \in DOMAIN once.adjacency |-> once.adjacency[id]]
      BY <1>6 DEF Among, Adjacency
    <2> QED BY <2>1, <2>4, <2>5 DEF OutEdges
  <1> HIDE DEF twice
  <1>9. Among(twice, m) /\ Ids(twice) = Ids(once)
    BY <1>4, <1>6, <1>7
  <1>10. ASSUME NEW id \in Ids(once) PROVE twice.nodes[id] = once.nodes[id]
    <2> DEFINE e == LabelOf(once, id)
               x == once.nodes[id]
    <2>1. IsNode(x) /\ floor(e) \in Nat
      BY <1>5, <1>6 DEF Among
    <2>2. twice.nodes[id] = IF Seen(once, parsed, again, id) THEN Raised(x, floor(e)) ELSE x
      BY <1>7 DEF floor
    <2>3. ASSUME Seen(once, parsed, again, id) PROVE x.confidence >= Least(floor(e), 100)
      <3>1. e \in Mentioned(parsed) /\ again[e] = id
        BY <2>3 DEF Seen
      <3>2. CASE id \in Ids(g)
        <4>1. e = LabelOf(g, id) /\ e \in Labels(g)
          BY <1>2, <3>2 DEF Labels
        <4>2. Seen(g, parsed, index, id)
          BY <3>1, <4>1 DEF Seen
        <4>3. x = Raised(g.nodes[id], floor(e))
          BY <1>2, <3>2, <4>1, <4>2
        <4>4. IsNode(g.nodes[id])
          BY <3>2 DEF Among
        <4>5. floor(e) \in Nat
          BY <2>1
        <4> HIDE DEF e, x
        <4> QED BY <4>3, <4>4, <4>5, RaisedIs
      <3>3. CASE id \notin Ids(g)
        <4>1. id - n \in 1 .. k /\ n + (id - n) = id
          BY <1>1, <1>2, <3>3
        <4>2. x = NewEntity(parsed, new[id - n], provenance) /\ e = new[id - n]
          BY <1>2, <4>1
        <4> HIDE DEF e, x
        <4>3. x = NewEntity(parsed, e, provenance)
          BY <4>2
        <4> QED BY <3>1, <4>3, NewEntityIs DEF floor
      <3> QED BY <3>2, <3>3
    <2> HIDE DEF e, x
    <2>4. CASE Seen(once, parsed, again, id)
      <3>1. x.confidence >= Least(floor(e), 100)
        BY <2>3, <2>4
      <3>2. Raised(x, floor(e)) = x
        BY <2>1, <3>1, RaisedIs
      <3> QED BY <2>2, <2>4, <3>2 DEF x
    <2>5. CASE ~ Seen(once, parsed, again, id)
      BY <2>2, <2>5 DEF x
    <2> QED BY <2>4, <2>5
  <1>11. twice.nodes = once.nodes
    BY <1>6, <1>9, <1>10 DEF Among
  <1>12. twice = once
    BY <1>6, <1>8, <1>9, <1>11 DEF Among
  <1> QED BY <1>12 DEF twice, m, k, new

\* Nor does it draw an edge.
Unmoved(once, text, other, m, again) ==
    extract_concepts_with_provenance(once, text, other, m + 1, again) = once

LEMMA ReadAgain ==
    ASSUME NEW n \in Nat, NEW g, Among(g, n), NEW text \in Seq(Seq(Word)), NEW index \in Indexes(g), NEW provenance,
           NEW once, Read(once, g, Parsed(text), index, provenance, n), NEW again \in Indexes(once),
           \A e \in Labels(g) : again[e] = index[e], NEW other, NEW m, m = n + Len(NewOf(g, Parsed(text)))
    PROVE  Unmoved(once, text, other, m, again)
  <1> DEFINE parsed == Parsed(text)
             links == TextLinks(parsed, LabelFor(g, parsed, index, n))
             s == [g |-> once, seen |-> SeenPairs(once)]
  <1>1. parsed \in Seq(Parsing)
    BY ParsedIs
  <1>2. Read(once, g, parsed, index, provenance, n) /\ m = n + Len(NewOf(g, parsed))
    OBVIOUS
  <1>3. links \in Seq(Links(m)) /\ \A i \in 1 .. Len(links) : Points(once, links[i].from, links[i].to)
    BY <1>2 DEF Read
  <1>4. m \in Nat
    <2> DEFINE k == Len(NewOf(g, parsed))
    <2>1. k \in Nat
      <3> HIDE DEF parsed
      <3> QED BY <1>1, NewLabels
    <2> QED BY <1>2, <2>1
  <1>5. extract_concepts_with_provenance(once, text, other, m + 1, again)
          = LinkAll([g    |-> NodesOf(once, parsed, again, other, m),
                     seen |-> SeenPairs(once)],
                    TextLinks(parsed, LabelFor(once, parsed, again, m))).g
    BY <1>4, ReadingIs
  <1> HIDE DEF parsed
  <1>6. NodesOf(once, parsed, again, other, n + Len(NewOf(g, parsed))) = once
    BY <1>1, <1>2, NodesAgain
  <1>7. LabelFor(once, parsed, again, n + Len(NewOf(g, parsed))) = LabelFor(g, parsed, index, n)
    BY <1>1, <1>2, SameNodes
  <1>8. extract_concepts_with_provenance(once, text, other, m + 1, again) = LinkAll(s, links).g
    BY <1>2, <1>5, <1>6, <1>7
  <1>9. s.g = once /\ s.seen = SeenPairs(once)
    OBVIOUS
  <1> HIDE DEF links, s
  <1>10. \A i \in 1 .. Len(links) : <<links[i].from, links[i].to>> \in s.seen
    BY <1>3, <1>9, SeenPairsAre
  <1>11. LinkAll(s, links) = s
    BY <1>3, <1>10, LinkAllAgain
  <1> QED BY <1>8, <1>9, <1>11 DEF Unmoved

\* An index can be kept when nodes are added.
LEMMA IndexKept ==
    ASSUME NEW g, NEW index \in Indexes(g), NEW h, Ids(g) \subseteq Ids(h),
           \A id \in Ids(g) : LabelOf(h, id) = LabelOf(g, id)
    PROVE  \E again \in Indexes(h) : \A e \in Labels(g) : again[e] = index[e]
  <1> DEFINE any(e) == CHOOSE id \in Ids(h) : LabelOf(h, id) = e
             again == [e \in Labels(h) |-> IF e \in Labels(g) THEN index[e] ELSE any(e)]
  <1>1. \A e \in Labels(h) : any(e) \in Ids(h) /\ LabelOf(h, any(e)) = e
    BY DEF Labels
  <1>2. \A e \in Labels(g) : index[e] \in Ids(h) /\ LabelOf(h, index[e]) = e
    BY DEF Indexes
  <1> HIDE DEF any
  <1>3. again \in Indexes(h)
    BY <1>1, <1>2 DEF Indexes
  <1>4. Labels(g) \subseteq Labels(h)
    BY DEF Labels
  <1>5. \A e \in Labels(g) : again[e] = index[e]
    BY <1>4
  <1> HIDE DEF again
  <1> QED BY <1>3, <1>5

\* The k numbers after n.
LEMMA NextNumbers ==
    ASSUME NEW n \in Nat, NEW k \in Nat
    PROVE  IsFiniteSet(n + 1 .. n + k) /\ Cardinality(n + 1 .. n + k) = k
  <1> DEFINE a == n + 1
             b == n + k
  <1>1. a \in Int /\ b \in Int /\ (IF a > b THEN 0 ELSE b - a + 1) = k
    OBVIOUS
  <1> HIDE DEF a, b
  <1>2. IsFiniteSet(a .. b) /\ Cardinality(a .. b) = IF a > b THEN 0 ELSE b - a + 1
    BY <1>1, FS_Interval
  <1> QED BY <1>1, <1>2 DEF a, b

\* What the property says of one text.
ReadOnce(t, index) ==
    LET once  == extract_concepts_with_provenance(graph, t, None, ids + 1, index)
        next  == ids + Cardinality(Ids(once) \ Ids(graph)) + 1
        same  == {again \in Indexes(once) : \A e \in Labels(graph) : again[e] = index[e]}
    IN  /\ same # {}
        /\ \A again \in same : extract_concepts_with_provenance(once, t, "again", next, again) = once
        /\ \A id \in Ids(graph) : once.nodes[id].confidence >= graph.nodes[id].confidence
        /\ \A x \in DOMAIN once.adjacency : Grown(OutEdges(graph, x), OutEdges(once, x), x)

\* It holds of any graph a bus can come to hold.
LEMMA ReadOnceIs ==
    ASSUME BusInv, NEW t \in Text \cup Probe, NEW index \in Indexes(graph)
    PROVE  ReadOnce(t, index)
  <1> DEFINE once == extract_concepts_with_provenance(graph, t, None, ids + 1, index)
             next == ids + Cardinality(Ids(once) \ Ids(graph)) + 1
             parsed == Parsed(t)
             k == Len(NewOf(graph, parsed))
             m == ids + k
  <1>1. ids \in Nat /\ Among(graph, ids)
    BY DEF BusInv
  <1>2. t \in Seq(Seq(Word))
    BY BusAssumption DEF Word
  <1>3. Read(once, graph, parsed, index, None, ids)
    BY <1>1, <1>2, ExtractIs
  <1>4. parsed \in Seq(Parsing)
    BY <1>2, ParsedIs
  <1> HIDE DEF once
  <1>5. k \in Nat
    <2> HIDE DEF parsed
    <2> QED BY <1>4, NewLabels
  <1>6. /\ Ids(once) = Ids(graph) \cup (ids + 1 .. ids + k)
        /\ \A id \in Ids(graph) : /\ LabelOf(once, id) = LabelOf(graph, id)
                                  /\ once.nodes[id].confidence >= graph.nodes[id].confidence
    <2> HIDE DEF parsed
    <2> QED BY <1>1, <1>3, <1>4, ReadNodes
  <1>7. next = m + 1
    <2>1. Ids(graph) \subseteq 1 .. ids
      BY <1>1 DEF Among
    <2> HIDE DEF k
    <2>2. Ids(once) \ Ids(graph) = ids + 1 .. ids + k
      BY <1>1, <1>5, <1>6, <2>1
    <2>3. Cardinality(ids + 1 .. ids + k) = k
      BY <1>1, <1>5, NextNumbers
    <2> QED BY <1>1, <1>5, <2>2, <2>3
  <1>8. ASSUME NEW again \in Indexes(once), \A e \in Labels(graph) : again[e] = index[e]
        PROVE  extract_concepts_with_provenance(once, t, "again", m + 1, again) = once
    <2>1. Read(once, graph, Parsed(t), index, None, ids) /\ m = ids + Len(NewOf(graph, Parsed(t)))
      BY <1>3
    <2> DEFINE other == "again"
    <2> HIDE DEF m, parsed, k, other
    <2>2. \A e \in Labels(graph) : again[e] = index[e]
      BY <1>8
    <2>3. extract_concepts_with_provenance(once, t, other, m + 1, again) = once
      <3>1. /\ ids \in Nat /\ Among(graph, ids) /\ t \in Seq(Seq(Word))
            /\ Read(once, graph, Parsed(t), index, None, ids)
            /\ m = ids + Len(NewOf(graph, Parsed(t)))
        BY <1>1, <1>2, <2>1
      <3>2. index \in Indexes(graph) /\ again \in Indexes(once)
        OBVIOUS
      <3>3. Unmoved(once, t, other, m, again)
        BY ONLY <3>1, <3>2, <2>2, ReadAgain
      <3> QED BY <3>3 DEF Unmoved
    <2> QED BY <2>3 DEF other
  <1>9. \E again \in Indexes(once) : \A e \in Labels(graph) : again[e] = index[e]
    <2> HIDE DEF k
    <2> QED BY <1>6, IndexKept
  <1>10. \A x : Grown(OutEdges(graph, x), OutEdges(once, x), x)
    BY <1>3 DEF Read
  <1> HIDE DEF m, next, parsed, k
  <1>11. \A again \in Indexes(once) : (\A e \in Labels(graph) : again[e] = index[e]) =>
           extract_concepts_with_provenance(once, t, "again", next, again) = once
    BY <1>7, <1>8
  <1> QED BY <1>6, <1>9, <1>10, <1>11 DEF ReadOnce, once, next

-----------------------------------------------------------------------------
(* The knowledge bus: its steps.                                           *)

\* Reading a text, of which the new nodes are announced.
LEMMA IngestKeeps ==
    ASSUME BusInv, NEW text \in Text, NEW source, NEW index \in Indexes(graph), Ingest(text, source, index)
    PROVE  BusInv'
  <1> DEFINE g == extract_concepts_with_provenance(graph, text, source, ids + 1, index)
             new == Ids(g) \ Ids(graph)
             changed == SetToSeq(new)
             silently == Changed(g) \ new
  <1>1. ids \in Nat /\ Among(graph, ids) /\ text \in Seq(Seq(Word))
    BY BusAssumption DEF BusInv, Word
  <1>2. ids' = ids + Cardinality(new) /\ Announce(g, changed, silently)
    BY DEF Ingest
  <1>3. PICK k \in Nat : Among(g, ids + k) /\ Ids(g) = Ids(graph) \cup (ids + 1 .. ids + k)
    <2> DEFINE parsed == Parsed(text)
               k == Len(NewOf(graph, parsed))
    <2>1. Read(g, graph, parsed, index, source, ids)
      BY <1>1, ExtractIs
    <2>2. parsed \in Seq(Parsing)
      BY <1>1, ParsedIs
    <2> HIDE DEF g, parsed
    <2>3. k \in Nat
      BY <2>2, NewLabels
    <2>4. Ids(g) = Ids(graph) \cup (ids + 1 .. ids + k)
      BY <1>1, <2>1, <2>2, ReadNodes
    <2>5. Among(g, ids + k)
      BY <2>1 DEF Read
    <2> QED BY <2>3, <2>4, <2>5
  <1> HIDE DEF g
  <1>4. Ids(graph) \subseteq 1 .. ids
    BY <1>1 DEF Among
  <1>5. new = ids + 1 .. ids + k
    BY <1>1, <1>3, <1>4
  <1>6. Cardinality(new) = k /\ IsFiniteSet(new)
    BY <1>1, <1>5, NextNumbers
  <1> HIDE DEF new
  <1>7. changed \in [1 .. k -> new] /\ \A x \in new : \E i \in 1 .. k : changed[i] = x
    BY <1>6, SetToSeqOnce
  <1> HIDE DEF changed
  <1>8. changed \in Seq(1 .. ids + k)
    <2>1. new \subseteq 1 .. ids + k
      BY <1>1, <1>5
    <2>2. changed = [i \in 1 .. k |-> changed[i]] /\ \A i \in 1 .. k : changed[i] \in 1 .. ids + k
      BY <1>7, <2>1
    <2> QED BY <2>2, MadeList
  <1>9. Range(changed) = new
    BY <1>7 DEF Range
  <1>10. ASSUME NEW id \in Ids(g) \ (Range(changed) \cup silently)
         PROVE  id \in Ids(graph) /\ summarize(g, id) = summarize(graph, id)
    <2>1. id \notin Changed(g)
      BY <1>9, <1>10
    <2> QED BY <2>1 DEF Changed
  <1>11. ids <= ids + k /\ ids + k \in Nat /\ ids' = ids + k
    BY <1>1, <1>2, <1>6
  <1> QED BY <1>2, <1>3, <1>8, <1>10, <1>11, AnnounceKeeps

\* Every step of the bus keeps the invariant.
LEMMA BusStepKeeps == BusInv /\ [BusNext]_busVars => BusInv'
  <1> SUFFICES ASSUME BusInv, [BusNext]_busVars PROVE BusInv'
    OBVIOUS
  <1>1. CASE \E k \in Kind, l \in Label, c \in Confidences : BusAddNode(k, l, c)
    BY <1>1, AddNodeKeeps
  <1>2. CASE \E x \in Ids(graph), y \in 1 .. ids : BusConnect(x, y, "depends_on")
    BY <1>2, ConnectKeeps
  <1>3. CASE \E t \in Text, s \in Source, index \in Indexes(graph) : Ingest(t, s, index)
    BY <1>3, IngestKeeps
  <1>4. CASE \E blind, lost \in SUBSET DOMAIN queue : Process(blind, lost)
    BY <1>4, ProcessKeeps
  <1>5. CASE UNCHANGED busVars
    BY <1>5 DEF busVars, BusInv, IndexFollowsBus, NodeDoc
  <1> QED BY <1>1, <1>2, <1>3, <1>4, <1>5, PruneKeeps DEF BusNext

\* The index follows the bus (sdk/src/knowledge_bus.rs), for any texts read, any
\* labels and any searches and writes that fail: a node has at most one document,
\* unless one was written though the search for the one before failed, and a node
\* that is not queued, did not change without an event and did not fail to be
\* stored has a document that says what the graph says.
THEOREM IndexIsCurrent == BusSpec => []IndexFollowsBus
  <1>1. BusInv => IndexFollowsBus
    BY DEF BusInv
  <1> QED BY <1>1, BusStarts, BusStepKeeps, PTL DEF BusSpec


\* Reading a text again changes nothing (extract_concepts_with_provenance), for
\* any texts, any words and any graph a bus can come to hold: no entity and no
\* edge is added twice, no edge is lost and no confidence lowered.
THEOREM ReadingAgainChangesNothing == BusSpec => []ExtractionIsIdempotent
  <1>1. BusInv => ExtractionIsIdempotent
    BY ReadOnceIs DEF ExtractionIsIdempotent, ReadOnce
  <1> QED BY <1>1, BusStarts, BusStepKeeps, PTL DEF BusSpec

-----------------------------------------------------------------------------
(* Traversal: distances.                                                   *)

\* Some edge leads from x to y.
Leads(g, x, y) == \E e \in edges(g) : e[1] = x /\ e[2] = y

\* One of the edges `es` leads to y.
LeadTo(es, y) == \E i \in DOMAIN es : es[i].to = y

\* Finitely many ids have edges, and the edges of each are a list.
HasLists(g) ==
    /\ IsFiniteSet(DOMAIN g.adjacency)
    /\ \A id \in DOMAIN g.adjacency : g.adjacency[id] \in Seq(Range(g.adjacency[id]))

LEMMA FiniteEdges == ASSUME NEW g, HasLists(g) PROVE IsFiniteSet(edges(g))
  <1> DEFINE leaving(x) == {<<x, g.adjacency[x][i].to, g.adjacency[x][i].kind>> : i \in DOMAIN g.adjacency[x]}
             all == {leaving(x) : x \in DOMAIN g.adjacency}
  <1>1. ASSUME NEW x \in DOMAIN g.adjacency PROVE IsFiniteSet(leaving(x))
    <2> DEFINE D == DOMAIN g.adjacency[x]
               f == [i \in D |-> <<x, g.adjacency[x][i].to, g.adjacency[x][i].kind>>]
    <2>1. Len(g.adjacency[x]) \in Nat /\ D = 1 .. Len(g.adjacency[x])
      BY DEF HasLists
    <2>2. IsFiniteSet(D)
      <3> HIDE DEF f, leaving, all
      <3>1. IsFiniteSet(1 .. Len(g.adjacency[x]))
        BY <2>1, FS_Interval
      <3> QED BY <2>1, <3>1
    <2>3. f \in Surjection(D, leaving(x))
      BY DEF Surjection
    <2> HIDE DEF D, f, leaving
    <2> QED BY <2>2, <2>3, FS_Surjection
  <1>2. IsFiniteSet(all)
    <2> DEFINE f == [x \in DOMAIN g.adjacency |-> leaving(x)]
    <2> HIDE DEF leaving
    <2>1. f \in Surjection(DOMAIN g.adjacency, all)
      BY DEF Surjection
    <2> QED BY <2>1, FS_Surjection DEF HasLists
  <1>3. edges(g) = UNION all
    BY DEF edges
  <1>4. \A T \in all : IsFiniteSet(T)
    BY <1>1
  <1> HIDE DEF all
  <1> QED BY <1>2, <1>3, <1>4, FS_UNION

\* The ids at most d edges from the start, and those exactly d edges from it.
Near(g, start, d) == Within(g, start, d) \cup {start}
Far(g, start, y, d) == y \in Near(g, start, d) /\ \A k \in 0 .. d - 1 : y \notin Near(g, start, k)

\* The edges that leave a node say where an edge leads.
LEMMA LeadsIs ==
    ASSUME NEW g, HasLists(g), NEW x
    PROVE  /\ OutEdges(g, x) \in Seq(Range(OutEdges(g, x)))
           /\ Len(OutEdges(g, x)) \in Nat /\ DOMAIN OutEdges(g, x) = 1 .. Len(OutEdges(g, x))
           /\ \A y : Leads(g, x, y) <=> LeadTo(OutEdges(g, x), y)
  <1> DEFINE es == OutEdges(g, x)
  <1>1. es \in Seq(Range(es))
    <2>1. CASE x \in DOMAIN g.adjacency
      BY <2>1 DEF OutEdges, HasLists
    <2>2. CASE x \notin DOMAIN g.adjacency
      BY <2>2 DEF OutEdges
    <2> QED BY <2>1, <2>2
  <1>2. ASSUME NEW y PROVE Leads(g, x, y) <=> LeadTo(es, y)
    <2>1. Leads(g, x, y) <=> x \in DOMAIN g.adjacency /\ \E i \in DOMAIN g.adjacency[x] : g.adjacency[x][i].to = y
      <3>1. ASSUME NEW e \in edges(g), e[1] = x, e[2] = y
            PROVE  x \in DOMAIN g.adjacency /\ \E i \in DOMAIN g.adjacency[x] : g.adjacency[x][i].to = y
        <4>1. PICK v \in DOMAIN g.adjacency : e \in {<<v, g.adjacency[v][i].to, g.adjacency[v][i].kind>> : i \in DOMAIN g.adjacency[v]}
          BY DEF edges
        <4>2. PICK i \in DOMAIN g.adjacency[v] : e = <<v, g.adjacency[v][i].to, g.adjacency[v][i].kind>>
          BY <4>1
        <4> QED BY <3>1, <4>2
      <3>2. ASSUME x \in DOMAIN g.adjacency, NEW i \in DOMAIN g.adjacency[x], g.adjacency[x][i].to = y
            PROVE  Leads(g, x, y)
        <4> DEFINE e == <<x, g.adjacency[x][i].to, g.adjacency[x][i].kind>>
        <4>1. e \in edges(g)
          BY <3>2 DEF edges
        <4>2. e[1] = x /\ e[2] = y
          BY <3>2
        <4> QED BY <4>1, <4>2 DEF Leads
      <3> QED BY <3>1, <3>2 DEF Leads
    <2>2. CASE x \in DOMAIN g.adjacency
      BY <2>1, <2>2 DEF OutEdges, LeadTo
    <2>3. CASE x \notin DOMAIN g.adjacency
      BY <2>1, <2>3 DEF OutEdges, LeadTo
    <2> QED BY <2>2, <2>3
  <1> HIDE DEF es
  <1>3. Len(es) \in Nat /\ DOMAIN es = 1 .. Len(es)
    BY <1>1
  <1> QED BY <1>1, <1>2, <1>3 DEF es

\* What is near spreads along the edges.
LEMMA WithinUnfolds ==
    ASSUME NEW g, NEW start, NEW n \in Nat
    PROVE  /\ Within(g, start, 0) = {}
           /\ Within(g, start, n + 1) = Turn("near", <<g, start>>, Within(g, start, n), 0)
  <1> DEFINE c == <<g, start>>
             zeros == [i \in Nat |-> 0]
             up(m) == CHOOSE f : f = [k \in 0 .. m |->
                        IF k = 0 THEN {}
                        ELSE Spread(g, start, f[k - 1])]
             run(m) == CHOOSE f : f = [k \in 0 .. m |->
                        IF k = 0 THEN {} ELSE Turn("near", c, f[k - 1], zeros[k])]
  <1>1. ASSUME NEW m \in Nat
        PROVE  Within(g, start, m) = up(m)[m] /\ Turns(up(m), "near", c, {}, zeros, m)
    <2>1. Within(g, start, m) = up(m)[m]
      BY DEF Within
    <2>2. up(m) = run(m)
      BY DEF Turn
    <2>3. Turns(run(m), "near", c, {}, zeros, m)
      <3> HIDE DEF zeros, c
      <3> QED BY LoopUnfolds
    <2> QED BY <2>1, <2>2, <2>3
  <1> HIDE DEF up, run
  <1>2. Within(g, start, 0) = {}
    BY <1>1 DEF Turns
  <1> DEFINE f == up(n)
             h == up(n + 1)
             G == {k \in 0 .. n : f[k] = h[k]}
  <1>3. Turns(f, "near", c, {}, zeros, n) /\ Turns(h, "near", c, {}, zeros, n + 1)
    BY <1>1
  <1>7. Within(g, start, n) = f[n] /\ Within(g, start, n + 1) = h[n + 1]
    BY <1>1
  <1> HIDE DEF f, h, c
  <1>4. 0 \in G
    <2>1. f[0] = {} /\ h[0] = {}
      BY <1>3 DEF Turns
    <2> QED BY <2>1
  <1>5. ASSUME NEW k \in 1 .. n, k - 1 \in G PROVE k \in G
    <2>1. f[k] = Turn("near", c, f[k - 1], zeros[k]) /\ h[k] = Turn("near", c, h[k - 1], zeros[k])
      BY <1>3 DEF Turns
    <2> QED BY <1>5, <2>1
  <1>6. n \in G
    <2> HIDE DEF G
    <2>1. 0 .. n \subseteq G
      BY <1>4, <1>5, UpTo
    <2> QED BY <2>1
  <1>8. h[n + 1] = Turn("near", c, h[n], 0)
    <2>1. h[n + 1] = Turn("near", c, h[(n + 1) - 1], zeros[n + 1])
      BY <1>3 DEF Turns
    <2>2. (n + 1) - 1 = n /\ zeros[n + 1] = 0
      OBVIOUS
    <2> QED BY <2>1, <2>2
  <1> QED BY <1>2, <1>6, <1>7, <1>8 DEF c

LEMMA NearSpreads ==
    ASSUME NEW g, NEW start
    PROVE  /\ Near(g, start, 0) = {start}
           /\ \A d \in Nat : \A y : y \in Near(g, start, d + 1) <=>
                \/ y \in Near(g, start, d)
                \/ \E x \in Near(g, start, d) : Leads(g, x, y)
  <1>1. Near(g, start, 0) = {start}
    BY WithinUnfolds DEF Near
  <1>2. ASSUME NEW d \in Nat, NEW y
        PROVE  y \in Near(g, start, d + 1) <=>
                \/ y \in Near(g, start, d)
                \/ \E x \in Near(g, start, d) : Leads(g, x, y)
    <2> DEFINE w == Within(g, start, d)
               c == <<g, start>>
    <2>1. Within(g, start, d + 1) = Turn("near", c, w, 0)
      BY WithinUnfolds
    <2>2. c[1] = g /\ c[2] = start
      OBVIOUS
    <2> HIDE DEF c, w
    <2>3. Turn("near", c, w, 0) = w \cup {e[2] : e \in {f \in edges(g) : f[1] = start \/ f[1] \in w}}
      BY <2>2 DEF Turn, Spread
    <2>4. y \in {e[2] : e \in {f \in edges(g) : f[1] = start \/ f[1] \in w}}
             <=> \E x \in w \cup {start} : Leads(g, x, y)
      BY DEF Leads
    <2> QED BY <2>1, <2>3, <2>4 DEF Near, w
  <1> QED BY <1>1, <1>2

\* How far something is.
LEMMA FarStart == ASSUME NEW g, NEW start, NEW y PROVE Far(g, start, y, 0) <=> y = start
  BY NearSpreads DEF Far

LEMMA FarOnce ==
    ASSUME NEW g, NEW start, NEW y, NEW d \in Nat, NEW k \in Nat, Far(g, start, y, d), Far(g, start, y, k)
    PROVE  d = k
  <1>1. ~(d < k) /\ ~(k < d)
    BY DEF Far
  <1> QED BY <1>1

LEMMA FarExists ==
    ASSUME NEW g, NEW start, NEW d \in Nat, NEW y \in Near(g, start, d)
    PROVE  \E k \in 0 .. d : Far(g, start, y, k)
  <1> DEFINE T == {k \in Nat : y \in Near(g, start, k)}
  <1>1. d \in T /\ T \in SUBSET Nat
    OBVIOUS
  <1> HIDE DEF T
  <1>2. PICK k \in T : \A j \in T : k <= j
    BY <1>1, LeastNat
  <1>3. k \in 0 .. d
    BY <1>1, <1>2
  <1>4. \A j \in 0 .. k - 1 : j \notin T /\ j \in Nat
    BY <1>2, <1>3
  <1>5. y \in Near(g, start, k) /\ \A j \in 0 .. k - 1 : y \notin Near(g, start, j)
    BY <1>2, <1>4 DEF T
  <1> QED BY <1>3, <1>5 DEF Far

LEMMA NearMore ==
    ASSUME NEW g, NEW start, NEW y, NEW d \in Nat, NEW k \in Nat, k <= d, y \in Near(g, start, k)
    PROVE  y \in Near(g, start, d)
  <1> DEFINE G == {n \in 0 .. d : n < k \/ y \in Near(g, start, n)}
  <1>1. 0 \in G
    OBVIOUS
  <1>2. ASSUME NEW n \in 1 .. d, n - 1 \in G PROVE n \in G
    <2>1. n < k \/ n = k \/ n - 1 >= k
      OBVIOUS
    <2>2. CASE n - 1 >= k
      <3>1. y \in Near(g, start, n - 1) /\ n - 1 \in Nat /\ (n - 1) + 1 = n
        BY <1>2, <2>2
      <3>2. y \in Near(g, start, n)
        BY <3>1, NearSpreads
      <3> QED BY <3>2
    <2> QED BY <2>1, <2>2
  <1> HIDE DEF G
  <1>3. d \in G
    BY <1>1, <1>2, UpTo
  <1> QED BY <1>3 DEF G

LEMMA FarBefore ==
    ASSUME NEW g, NEW start, NEW d \in Nat, NEW y, Far(g, start, y, d + 1)
    PROVE  \E x : Far(g, start, x, d) /\ Leads(g, x, y)
  <1>1. y \in Near(g, start, d + 1) /\ \A k \in 0 .. d : y \notin Near(g, start, k)
    BY DEF Far
  <1>2. PICK x \in Near(g, start, d) : Leads(g, x, y)
    BY <1>1, NearSpreads
  <1>3. ASSUME NEW k \in 0 .. d - 1 PROVE x \notin Near(g, start, k)
    <2>1. k \in Nat /\ k + 1 \in 0 .. d
      OBVIOUS
    <2> QED BY <1>1, <1>2, <2>1, NearSpreads
  <1> QED BY <1>2, <1>3 DEF Far

LEMMA FarNext ==
    ASSUME NEW g, NEW start, NEW d \in Nat, NEW x, Far(g, start, x, d), NEW y, Leads(g, x, y),
           \A k \in 0 .. d : ~Far(g, start, y, k)
    PROVE  Far(g, start, y, d + 1)
  <1>1. x \in Near(g, start, d)
    BY DEF Far
  <1>2. y \in Near(g, start, d + 1)
    BY <1>1, NearSpreads
  <1>3. ASSUME NEW k \in 0 .. d PROVE y \notin Near(g, start, k)
    <2> SUFFICES ASSUME y \in Near(g, start, k) PROVE FALSE
      OBVIOUS
    <2>1. k \in Nat
      OBVIOUS
    <2>2. PICK j \in 0 .. k : Far(g, start, y, j)
      BY <2>1, FarExists
    <2>3. j \in 0 .. d
      BY <2>1
    <2> QED BY <2>2, <2>3
  <1>4. (d + 1) - 1 = d
    OBVIOUS
  <1> QED BY <1>2, <1>3, <1>4 DEF Far

LEMMA FarWithin ==
    ASSUME NEW g, NEW start, NEW d \in Nat, NEW y, Far(g, start, y, d), y # start
    PROVE  y \in Within(g, start, d) \ Within(g, start, d - 1)
  <1>1. d # 0
    BY FarStart
  <1>2. d - 1 \in 0 .. d - 1
    BY <1>1
  <1> QED BY <1>2 DEF Far, Near

\* If what has been seen at less than h edges has been followed, all that is at
\* most h edges away has been seen.
Closed(g, seenIds, y) == \A z : Leads(g, y, z) => z \in seenIds

LEMMA AllSeen ==
    ASSUME NEW g, NEW start, NEW h \in Nat, NEW seenIds, start \in seenIds,
           \A d \in 0 .. h - 1, y \in seenIds : Far(g, start, y, d) => Closed(g, seenIds, y)
    PROVE  \A d \in 0 .. h : \A y : Far(g, start, y, d) => y \in seenIds
  <1> DEFINE G == {d \in 0 .. h : \A y : Far(g, start, y, d) => y \in seenIds}
  <1>1. 0 \in G
    BY FarStart
  <1>2. ASSUME NEW d \in 1 .. h, d - 1 \in G PROVE d \in G
    <2> SUFFICES ASSUME NEW y, Far(g, start, y, d) PROVE y \in seenIds
      OBVIOUS
    <2>1. d - 1 \in Nat /\ (d - 1) + 1 = d /\ d - 1 \in 0 .. h - 1
      OBVIOUS
    <2>2. PICK x : Far(g, start, x, d - 1) /\ Leads(g, x, y)
      BY <2>1, FarBefore
    <2>3. x \in seenIds
      BY <1>2, <2>2
    <2>4. Closed(g, seenIds, x)
      BY <2>1, <2>2, <2>3
    <2> QED BY <2>2, <2>4 DEF Closed
  <1> HIDE DEF G
  <1>3. 0 .. h \subseteq G
    BY <1>1, <1>2, UpTo
  <1> QED BY <1>3 DEF G

-----------------------------------------------------------------------------
(* Traversal: what the loop keeps.                                         *)

\* `q` lists ids that have been seen, each once, nearest first, at its distance.
Trail(g, start, max, seenIds, q) ==
    /\ q \in Seq(Near(g, start, max) \X Nat)
    /\ \A i, j \in DOMAIN q : i < j => q[i][2] <= q[j][2] /\ q[i][1] # q[j][1]
    /\ \A i \in DOMAIN q : q[i][1] \in seenIds /\ Far(g, start, q[i][1], q[i][2])

Holds(q, y) == \E i \in DOMAIN q : q[i][1] = y

\* What has been seen is near, and what exists of it is the result so far.
Searched(g, start, max, s) ==
    /\ s = [visited |-> s.visited, out |-> s.out, queue |-> s.queue]
    /\ IsFiniteSet(s.visited) /\ start \in s.visited /\ s.visited \subseteq Near(g, start, max)
    /\ Trail(g, start, max, s.visited, s.out) /\ Trail(g, start, max, s.visited, s.queue)
    /\ \A y : Holds(s.out, y) <=> y \in (s.visited \cap Ids(g)) \ {start}

\* The queue holds ids at h and at h + 1 edges, and nothing found is further.
Level(s, h) ==
    /\ \A i \in DOMAIN s.out : s.out[i][2] <= h + 1
    /\ \A i \in DOMAIN s.queue : h <= s.queue[i][2] /\ s.queue[i][2] <= h + 1

\* What has left the queue, other than the ids of `but`, has been followed.
Followed(g, start, max, s, but) ==
    \A y \in s.visited \ but :
      ~Holds(s.queue, y) => \A k \in Nat : Far(g, start, y, k) /\ k < max => Closed(g, s.visited, y)

\* Between two turns, after n of them.
Waiting(g, start, max, s, n) ==
    /\ Searched(g, start, max, s) /\ Followed(g, start, max, s, {})
    /\ s.queue # <<>> => Level(s, s.queue[1][2]) /\ Cardinality(s.visited) = n + Len(s.queue)

\* Within the turn of `id`, that is h edges away; c ids have left the queue.
Visiting(g, start, max, s, id, h, c) ==
    /\ Searched(g, start, max, s) /\ Followed(g, start, max, s, {id})
    /\ Level(s, h) /\ Cardinality(s.visited) = c + Len(s.queue)
    /\ id \in s.visited /\ Far(g, start, id, h)

\* b is the list a and one more id, that is d edges away.
Adds(g, start, max, seenIds, y, d, a, b) ==
    /\ Trail(g, start, max, seenIds \cup {y}, b)
    /\ \A x : Holds(b, x) <=> Holds(a, x) \/ x = y
    /\ Len(b) = Len(a) + 1 /\ Len(a) \in Nat
    /\ \A i \in DOMAIN b : b[i] = <<y, d>> \/ (i \in DOMAIN a /\ b[i] = a[i])

\* What an id at the end adds to a list.
LEMMA AppendKeepsTrail ==
    ASSUME NEW g, NEW start, NEW max \in Nat, NEW seenIds, NEW q, Trail(g, start, max, seenIds, q),
           NEW y \in Near(g, start, max) \ seenIds, NEW d \in Nat, Far(g, start, y, d),
           \A i \in DOMAIN q : q[i][2] <= d
    PROVE  Adds(g, start, max, seenIds, y, d, q, Append(q, <<y, d>>))
  <1> DEFINE P == Near(g, start, max) \X Nat
             p == <<y, d>>
             a == Append(q, p)
  <1>1. q \in Seq(P) /\ p \in P /\ p[1] = y /\ p[2] = d
    BY DEF Trail
  <1>2. \A i \in DOMAIN q : q[i][1] \in seenIds /\ Far(g, start, q[i][1], q[i][2])
    BY DEF Trail
  <1>3. \A i, j \in DOMAIN q : i < j => q[i][2] <= q[j][2] /\ q[i][1] # q[j][1]
    BY DEF Trail
  <1> HIDE DEF P, p
  <1>4. a \in Seq(P) /\ Len(a) = Len(q) + 1 /\ Len(q) \in Nat
    BY <1>1
  <1>5. DOMAIN q = 1 .. Len(q) /\ DOMAIN a = 1 .. Len(q) + 1
    BY <1>1
  <1>6. a[Len(q) + 1] = p /\ \A i \in 1 .. Len(q) : a[i] = q[i]
    BY <1>1
  <1> HIDE DEF a
  <1>7. \A i \in DOMAIN a : (a[i] = p /\ i = Len(q) + 1) \/ (i \in DOMAIN q /\ a[i] = q[i])
    BY <1>4, <1>5, <1>6
  <1>8. \A i, j \in DOMAIN a : i < j => a[i][2] <= a[j][2] /\ a[i][1] # a[j][1]
    <2> SUFFICES ASSUME NEW i \in DOMAIN a, NEW j \in DOMAIN a, i < j
                 PROVE  a[i][2] <= a[j][2] /\ a[i][1] # a[j][1]
      OBVIOUS
    <2>1. i \in DOMAIN q /\ a[i] = q[i]
      BY <1>4, <1>5, <1>6
    <2>2. CASE j = Len(q) + 1
      <3>1. a[j][2] = d /\ a[j][1] = y
        BY <1>1, <1>6, <2>2
      <3> QED BY <1>2, <2>1, <3>1
    <2>3. CASE j # Len(q) + 1
      <3>1. j \in DOMAIN q /\ a[j] = q[j]
        BY <1>7, <2>3
      <3> QED BY <1>3, <2>1, <3>1
    <2> QED BY <2>2, <2>3
  <1>9. \A i \in DOMAIN a : a[i][1] \in seenIds \cup {y} /\ Far(g, start, a[i][1], a[i][2])
    BY <1>1, <1>2, <1>7
  <1>10. \A x : Holds(a, x) <=> Holds(q, x) \/ x = y
    <2> TAKE x
    <2>1. ASSUME Holds(a, x) PROVE Holds(q, x) \/ x = y
      BY <1>1, <1>7, <2>1 DEF Holds
    <2>2. ASSUME Holds(q, x) PROVE Holds(a, x)
      <3>1. PICK i \in DOMAIN q : q[i][1] = x
        BY <2>2 DEF Holds
      <3>2. i \in DOMAIN a /\ a[i] = q[i]
        BY <1>4, <1>5, <1>6
      <3> QED BY <3>1, <3>2 DEF Holds
    <2>3. ASSUME x = y PROVE Holds(a, x)
      <3>1. Len(q) + 1 \in DOMAIN a
        BY <1>4, <1>5
      <3> QED BY <1>1, <1>6, <2>3, <3>1 DEF Holds
    <2> QED BY <2>1, <2>2, <2>3
  <1>11. Trail(g, start, max, seenIds \cup {y}, a)
    BY <1>4, <1>8, <1>9 DEF Trail, P
  <1> QED BY <1>4, <1>7, <1>10, <1>11 DEF a, p, Adds

\* What is reached for the first time is one edge further.
LEMMA NewIsNext ==
    ASSUME NEW g, NEW start, NEW max \in Nat, NEW s, NEW id, NEW h \in Nat, NEW c,
           Visiting(g, start, max, s, id, h, c), h < max, NEW y, Leads(g, id, y), y \notin s.visited
    PROVE  Far(g, start, y, h + 1)
  <1> DEFINE V == s.visited
  <1>1. ASSUME NEW d \in 0 .. h - 1, NEW x \in V, Far(g, start, x, d)
        PROVE  Closed(g, V, x)
    <2>1. d \in Nat /\ d < h /\ d < max
      OBVIOUS
    <2>2. x # id
      <3>1. Far(g, start, id, h)
        BY DEF Visiting
      <3> QED BY <1>1, <2>1, <3>1, FarOnce
    <2>3. ~Holds(s.queue, x)
      <3> SUFFICES ASSUME NEW i \in DOMAIN s.queue, s.queue[i][1] = x PROVE FALSE
        BY DEF Holds
      <3>1. h <= s.queue[i][2] /\ Far(g, start, x, s.queue[i][2])
        BY DEF Visiting, Searched, Level, Trail
      <3>2. s.queue[i][2] \in Nat
        BY DEF Visiting, Searched, Trail
      <3> HIDE DEF V
      <3>3. s.queue[i][2] = d
        BY <1>1, <2>1, <3>1, <3>2, FarOnce
      <3> QED BY <2>1, <3>1, <3>3
    <2>4. Followed(g, start, max, s, {id})
      BY DEF Visiting
    <2> QED BY <1>1, <2>1, <2>2, <2>3, <2>4 DEF Followed
  <1>2. start \in V
    BY DEF Visiting, Searched
  <1>3. Far(g, start, id, h) /\ y \notin V
    BY DEF Visiting
  <1> HIDE DEF V
  <1>4. \A d \in 0 .. h : \A x : Far(g, start, x, d) => x \in V
    BY <1>1, <1>2, AllSeen
  <1>5. \A k \in 0 .. h : ~Far(g, start, y, k)
    BY <1>3, <1>4
  <1> QED BY <1>3, <1>5, FarNext

\* Following one edge.
LEMMA VisitKeeps ==
    ASSUME NEW g, NEW start, NEW max \in Nat, NEW s, NEW id, NEW h \in Nat, NEW c \in Nat,
           Visiting(g, start, max, s, id, h, c), h < max, NEW e, Leads(g, id, e.to)
    PROVE  /\ Visiting(g, start, max, VisitEdge(g, h, s, e), id, h, c)
           /\ s.visited \cup {e.to} \subseteq VisitEdge(g, h, s, e).visited
  <1> DEFINE y == e.to
             p == <<y, h + 1>>
             t == VisitEdge(g, h, s, e)
             V == s.visited
             q == Append(s.queue, p)
             o == Append(s.out, p)
  <1>1. CASE y \in V
    BY <1>1 DEF VisitEdge
  <1>2. CASE y \notin V
    <2>1. /\ t.visited = V \cup {y} /\ t.queue = q
          /\ t.out = IF y \in Ids(g) THEN o ELSE s.out
          /\ t = [visited |-> t.visited, out |-> t.out, queue |-> t.queue]
      BY <1>2 DEF VisitEdge
    <2>2. Far(g, start, y, h + 1)
      BY <1>2, NewIsNext
    <2>3. h + 1 \in Nat /\ h + 1 <= max
      OBVIOUS
    <2>4. y \in Near(g, start, max)
      <3>1. y \in Near(g, start, h + 1)
        BY <2>2 DEF Far
      <3> HIDE DEF y
      <3> QED BY <2>3, <3>1, NearMore
    <2>5. /\ IsFiniteSet(V) /\ start \in V /\ V \subseteq Near(g, start, max)
          /\ Trail(g, start, max, V, s.out) /\ Trail(g, start, max, V, s.queue)
          /\ \A x : Holds(s.out, x) <=> x \in (V \cap Ids(g)) \ {start}
      BY DEF Visiting, Searched
    <2>6. /\ \A i \in DOMAIN s.out : s.out[i][2] <= h + 1
          /\ \A i \in DOMAIN s.queue : h <= s.queue[i][2] /\ s.queue[i][2] <= h + 1
          /\ Cardinality(V) = c + Len(s.queue) /\ id \in V /\ Far(g, start, id, h)
          /\ Followed(g, start, max, s, {id})
      BY DEF Visiting, Level
    <2>7. Adds(g, start, max, V, y, h + 1, s.queue, q) /\ Adds(g, start, max, V, y, h + 1, s.out, o)
      <3> HIDE DEF V, y
      <3>1. y \in Near(g, start, max) \ V
        BY <1>2, <2>4
      <3> DEFINE d == h + 1
      <3>2. d \in Nat /\ Far(g, start, y, d)
        BY <2>2, <2>3
      <3>3. \A i \in DOMAIN s.queue : s.queue[i][2] <= d
        BY <2>6
      <3>4. \A i \in DOMAIN s.out : s.out[i][2] <= d
        BY <2>6
      <3> HIDE DEF d
      <3>5. Adds(g, start, max, V, y, d, s.queue, Append(s.queue, <<y, d>>))
        BY <2>5, <3>1, <3>2, <3>3, AppendKeepsTrail
      <3>6. Adds(g, start, max, V, y, d, s.out, Append(s.out, <<y, d>>))
        BY <2>5, <3>1, <3>2, <3>4, AppendKeepsTrail
      <3> QED BY <3>5, <3>6 DEF d
    <2>8. IsFiniteSet(V \cup {y}) /\ Cardinality(V \cup {y}) = Cardinality(V) + 1
      <3> HIDE DEF V, y
      <3> QED BY <1>2, <2>5, FS_AddElement
    <2> HIDE DEF V, q, o
    <2>17. /\ Trail(g, start, max, V \cup {y}, q) /\ Trail(g, start, max, V \cup {y}, o)
           /\ \A x : Holds(q, x) <=> Holds(s.queue, x) \/ x = y
           /\ \A x : Holds(o, x) <=> Holds(s.out, x) \/ x = y
           /\ Len(q) = Len(s.queue) + 1 /\ Len(s.queue) \in Nat
           /\ \A i \in DOMAIN q : q[i] = p \/ (i \in DOMAIN s.queue /\ q[i] = s.queue[i])
           /\ \A i \in DOMAIN o : o[i] = p \/ (i \in DOMAIN s.out /\ o[i] = s.out[i])
      BY <2>7 DEF Adds
    <2>9. Trail(g, start, max, V \cup {y}, s.out)
      BY <2>5 DEF Trail
    <2>10. Trail(g, start, max, t.visited, t.out) /\ Trail(g, start, max, t.visited, t.queue)
      BY <2>1, <2>17, <2>9
    <2>11. \A x : Holds(t.out, x) <=> x \in (t.visited \cap Ids(g)) \ {start}
      <3>1. y # start
        BY <1>2, <2>5
      <3>2. CASE y \in Ids(g)
        BY <2>1, <2>5, <2>17, <3>1, <3>2
      <3>3. CASE y \notin Ids(g)
        BY <2>1, <2>5, <3>3
      <3> QED BY <3>2, <3>3
    <2>12. Searched(g, start, max, t)
      <3> HIDE DEF t, y
      <3>1. IsFiniteSet(t.visited) /\ start \in t.visited /\ t.visited \subseteq Near(g, start, max)
        BY <2>1, <2>4, <2>5, <2>8
      <3> QED BY <2>1, <2>10, <2>11, <3>1 DEF Searched
    <2>13. Level(t, h)
      <3>1. p[2] = h + 1
        OBVIOUS
      <3> HIDE DEF p
      <3>2. \A i \in DOMAIN q : h <= q[i][2] /\ q[i][2] <= h + 1
        BY <2>3, <2>6, <2>17, <3>1
      <3>3. \A i \in DOMAIN o : o[i][2] <= h + 1
        BY <2>3, <2>6, <2>17, <3>1
      <3>4. \A i \in DOMAIN t.out : t.out[i][2] <= h + 1
        BY <2>1, <2>6, <3>3
      <3> HIDE DEF t
      <3> QED BY <2>1, <3>2, <3>4 DEF Level
    <2>14. Followed(g, start, max, t, {id})
      <3> SUFFICES ASSUME NEW x \in (V \cup {y}) \ {id}, ~Holds(q, x), NEW k \in Nat, Far(g, start, x, k), k < max
                   PROVE  Closed(g, V \cup {y}, x)
        BY <2>1 DEF Followed
      <3>1. x \in V \ {id} /\ ~Holds(s.queue, x)
        BY <2>17
      <3>2. Closed(g, V, x)
        BY <2>6, <3>1 DEF Followed, V
      <3> QED BY <3>2 DEF Closed
    <2>15. Cardinality(t.visited) = c + Len(t.queue)
      <3> HIDE DEF t, y
      <3> QED BY <2>1, <2>6, <2>17, <2>8
    <2>16. id \in t.visited /\ V \cup {y} \subseteq t.visited
      BY <2>1, <2>6
    <2> HIDE DEF t, y
    <2>18. Visiting(g, start, max, t, id, h, c)
      BY <2>6, <2>12, <2>13, <2>14, <2>15, <2>16 DEF Visiting
    <2> QED BY <2>16, <2>18 DEF t, V, y
  <1> QED BY <1>1, <1>2

\* Following the edges of a node leaves all that they lead to seen.
LEMMA EdgesKeep ==
    ASSUME NEW g, HasLists(g), NEW start, NEW max \in Nat, NEW s, NEW id, NEW h \in Nat, NEW c \in Nat,
           Visiting(g, start, max, s, id, h, c), h < max
    PROVE  /\ Visiting(g, start, max, VisitEdges(g, h, s, OutEdges(g, id)), id, h, c)
           /\ Closed(g, VisitEdges(g, h, s, OutEdges(g, id)).visited, id)
  <1> DEFINE es == OutEdges(g, id)
             N == Len(es)
             u == <<g, h>>
             f == CHOOSE a : a = [i \in 0 .. N |-> IF i = 0 THEN s ELSE VisitEdge(g, h, a[i - 1], es[i])]
             k == CHOOSE a : a = [i \in 0 .. N |-> IF i = 0 THEN s ELSE Turn("visit", u, a[i - 1], es[i])]
             G == {i \in 0 .. N : /\ Visiting(g, start, max, f[i], id, h, c)
                                  /\ \A j \in 1 .. i : es[j].to \in f[i].visited}
  <1>1. /\ N \in Nat /\ DOMAIN es = 1 .. N
        /\ \A y : Leads(g, id, y) <=> LeadTo(es, y)
    <2> HIDE DEF f, k, u, G, es
    <2>1. Len(OutEdges(g, id)) \in Nat /\ DOMAIN OutEdges(g, id) = 1 .. Len(OutEdges(g, id))
      BY LeadsIs
    <2>2. \A y : Leads(g, id, y) <=> LeadTo(OutEdges(g, id), y)
      BY LeadsIs
    <2> QED BY <2>1, <2>2 DEF es
  <1>2. VisitEdges(g, h, s, es) = f[N]
    BY DEF VisitEdges
  <1>3. f = k
    BY DEF Turn
  <1>4. \A a, x : Turn("visit", u, a, x) = VisitEdge(g, h, a, x)
    BY DEF Turn
  <1> HIDE DEF f, N, es, u
  <1>5. Turns(f, "visit", u, s, es, N)
    BY <1>1, <1>3, LoopUnfolds
  <1>6. 0 \in G
    <2>1. f[0] = s
      BY <1>5 DEF Turns
    <2> QED BY <1>1, <2>1
  <1>7. ASSUME NEW n \in 1 .. N, n - 1 \in G PROVE n \in G
    <2> DEFINE a == f[n - 1]
               b == f[n]
    <2>1. b = VisitEdge(g, h, a, es[n])
      BY <1>4, <1>5 DEF Turns
    <2>2. Visiting(g, start, max, a, id, h, c) /\ \A j \in 1 .. n - 1 : es[j].to \in a.visited
      BY <1>7
    <2>3. Leads(g, id, es[n].to)
      BY <1>1 DEF LeadTo
    <2> HIDE DEF a, b, G
    <2>4. Visiting(g, start, max, b, id, h, c) /\ a.visited \cup {es[n].to} \subseteq b.visited
      BY <2>1, <2>2, <2>3, VisitKeeps
    <2>5. ASSUME NEW j \in 1 .. n PROVE es[j].to \in b.visited
      <3>1. CASE j = n
        BY <2>4, <3>1
      <3>2. CASE j # n
        <4>1. j \in 1 .. n - 1
          BY <1>1, <3>2
        <4> QED BY <2>2, <2>4, <4>1
      <3> QED BY <3>1, <3>2
    <2>6. n \in 0 .. N
      BY <1>1
    <2> QED BY <2>4, <2>5, <2>6 DEF G, b
  <1> HIDE DEF G
  <1>8. N \in G
    <2>1. 0 .. N \subseteq G
      BY <1>1, <1>6, <1>7, UpTo
    <2> QED BY <1>1, <2>1
  <1>9. Visiting(g, start, max, f[N], id, h, c) /\ \A j \in 1 .. N : es[j].to \in f[N].visited
    BY <1>8 DEF G
  <1>10. Closed(g, f[N].visited, id)
    BY <1>1, <1>9 DEF Closed, LeadTo
  <1> QED BY <1>2, <1>9, <1>10 DEF es

\* The turn of a node is over when it has been followed, or is too far.
LEMMA TurnEnds ==
    ASSUME NEW g, NEW start, NEW max \in Nat, NEW s, NEW id, NEW h \in Nat, NEW c \in Nat,
           Visiting(g, start, max, s, id, h, c), h < max => Closed(g, s.visited, id)
    PROVE  Waiting(g, start, max, s, c)
  <1>1. Searched(g, start, max, s) /\ Followed(g, start, max, s, {id}) /\ Far(g, start, id, h)
    BY DEF Visiting
  <1>2. Followed(g, start, max, s, {})
    <2> SUFFICES ASSUME NEW y \in s.visited, ~Holds(s.queue, y), NEW k \in Nat, Far(g, start, y, k), k < max
                 PROVE  Closed(g, s.visited, y)
      BY DEF Followed
    <2>1. CASE y = id
      <3>1. k = h
        BY <1>1, <2>1, FarOnce
      <3> QED BY <2>1, <3>1
    <2>2. CASE y # id
      BY <1>1, <2>2 DEF Followed
    <2> QED BY <2>1, <2>2
  <1>3. ASSUME s.queue # <<>> PROVE Level(s, s.queue[1][2])
    <2> DEFINE q == s.queue
               d == q[1][2]
    <2>1. q \in Seq(Near(g, start, max) \X Nat)
      BY <1>1 DEF Searched, Trail
    <2>2. 1 \in DOMAIN q /\ \A i \in DOMAIN q : i \in Nat /\ (i = 1 \/ 1 < i)
      <3>1. q # <<>>
        BY <1>3
      <3> HIDE DEF q, d
      <3>2. Len(q) \in Nat /\ DOMAIN q = 1 .. Len(q) /\ Len(q) # 0
        BY <2>1, <3>1
      <3> QED BY <3>2
    <2>3. \A i \in DOMAIN q : q[i][2] \in Nat
      BY <2>1
    <2>4. \A i \in DOMAIN q : d <= q[i][2]
      <3>1. \A i \in DOMAIN q : 1 < i => d <= q[i][2]
        BY <1>1, <2>2 DEF Searched, Trail
      <3> QED BY <2>2, <2>3, <3>1
    <2>5. /\ \A i \in DOMAIN q : h <= q[i][2] /\ q[i][2] <= h + 1
          /\ \A i \in DOMAIN s.out : s.out[i][2] <= h + 1
      BY DEF Visiting, Level
    <2>6. \A i \in DOMAIN s.out : s.out[i][2] \in Nat
      <3>1. s.out \in Seq(Near(g, start, max) \X Nat)
        BY <1>1 DEF Searched, Trail
      <3> QED BY <3>1
    <2> HIDE DEF q
    <2>7. d \in Nat /\ h <= d
      BY <2>2, <2>3, <2>5
    <2> HIDE DEF d
    <2>8. \A i \in DOMAIN q : d <= q[i][2] /\ q[i][2] <= d + 1
      BY <2>3, <2>4, <2>5, <2>7
    <2>9. \A i \in DOMAIN s.out : s.out[i][2] <= d + 1
      BY <2>5, <2>6, <2>7
    <2> QED BY <2>8, <2>9 DEF Level, d, q
  <1>4. Cardinality(s.visited) = c + Len(s.queue)
    BY DEF Visiting
  <1> QED BY <1>1, <1>2, <1>3, <1>4 DEF Waiting

\* The first of the queue leaves it.
LEMMA HeadLeaves ==
    ASSUME NEW g, NEW start, NEW max \in Nat, NEW s, NEW n \in Nat, Waiting(g, start, max, s, n), s.queue # <<>>
    PROVE  /\ Visiting(g, start, max, [s EXCEPT !.queue = Tail(@)], s.queue[1][1], s.queue[1][2], n + 1)
           /\ s.queue[1][2] \in Nat /\ Head(s.queue) = s.queue[1]
  <1> DEFINE q == s.queue
             t == Tail(q)
             r == [s EXCEPT !.queue = t]
             id == q[1][1]
             h == q[1][2]
             P == Near(g, start, max) \X Nat
  <1>1. /\ Searched(g, start, max, s) /\ Followed(g, start, max, s, {})
        /\ Level(s, h) /\ Cardinality(s.visited) = n + Len(q)
    BY DEF Waiting
  <1>2. /\ Trail(g, start, max, s.visited, q)
        /\ s = [visited |-> s.visited, out |-> s.out, queue |-> s.queue]
    BY <1>1 DEF Searched
  <1>3. r = [visited |-> s.visited, out |-> s.out, queue |-> t]
    <2> HIDE DEF t
    <2> QED BY <1>2
  <1>4. q \in Seq(P) /\ q # <<>>
    BY <1>2 DEF Trail
  <1>5. /\ \A i, j \in DOMAIN q : i < j => q[i][2] <= q[j][2] /\ q[i][1] # q[j][1]
        /\ \A i \in DOMAIN q : q[i][1] \in s.visited /\ Far(g, start, q[i][1], q[i][2])
    BY <1>2 DEF Trail
  <1>6. /\ \A i \in DOMAIN s.out : s.out[i][2] <= h + 1
        /\ \A i \in DOMAIN q : h <= q[i][2] /\ q[i][2] <= h + 1
    BY <1>1 DEF Level
  <1>7. h \in Nat
    BY <1>4
  <1> HIDE DEF q, P, h, id, r
  <1>8. /\ t \in Seq(P) /\ Len(q) \in Nat /\ Len(t) = Len(q) - 1
        /\ DOMAIN q = 1 .. Len(q) /\ DOMAIN t = 1 .. Len(q) - 1 /\ Len(q) # 0
        /\ \A i \in 1 .. Len(q) - 1 : t[i] = q[i + 1]
        /\ Head(q) = q[1]
    BY <1>4
  <1> HIDE DEF t
  <1>9. \A i \in DOMAIN t : i \in Nat /\ i + 1 \in DOMAIN q /\ t[i] = q[i + 1]
    BY <1>8
  <1>10. Trail(g, start, max, s.visited, t)
    <2>1. \A i, j \in DOMAIN t : i < j => t[i][2] <= t[j][2] /\ t[i][1] # t[j][1]
      <3> SUFFICES ASSUME NEW i \in DOMAIN t, NEW j \in DOMAIN t, i < j
                   PROVE  t[i][2] <= t[j][2] /\ t[i][1] # t[j][1]
        OBVIOUS
      <3>1. i + 1 < j + 1
        BY <1>9
      <3> QED BY <1>5, <1>9, <3>1
    <2>2. \A i \in DOMAIN t : t[i][1] \in s.visited /\ Far(g, start, t[i][1], t[i][2])
      BY <1>5, <1>9
    <2> QED BY <1>8, <2>1, <2>2 DEF Trail, P
  <1>11. Searched(g, start, max, r)
    BY <1>1, <1>3, <1>10 DEF Searched
  <1>12. Level(r, h)
    <2>1. \A i \in DOMAIN t : h <= t[i][2] /\ t[i][2] <= h + 1
      BY <1>6, <1>9
    <2> QED BY <1>3, <1>6, <2>1 DEF Level
  <1>13. 1 \in DOMAIN q
    BY <1>8
  <1>14. id \in s.visited /\ Far(g, start, id, h)
    BY <1>5, <1>13 DEF id, h
  <1>15. Followed(g, start, max, r, {id})
    <2> SUFFICES ASSUME NEW y \in s.visited \ {id}, ~Holds(t, y), NEW k \in Nat, Far(g, start, y, k), k < max
                 PROVE  Closed(g, s.visited, y)
      BY <1>3 DEF Followed
    <2>1. ~Holds(q, y)
      <3> SUFFICES ASSUME NEW i \in DOMAIN q, q[i][1] = y PROVE FALSE
        BY DEF Holds
      <3>1. i # 1
        BY DEF id
      <3>2. i - 1 \in DOMAIN t /\ (i - 1) + 1 = i
        BY <1>8, <3>1
      <3> QED BY <1>9, <3>2 DEF Holds
    <2> QED BY <1>1, <2>1 DEF Followed, q
  <1>16. Cardinality(r.visited) = (n + 1) + Len(r.queue)
    BY <1>1, <1>3, <1>8
  <1>17. Visiting(g, start, max, r, id, h, n + 1)
    BY <1>3, <1>11, <1>12, <1>14, <1>15, <1>16 DEF Visiting
  <1> QED BY <1>7, <1>8, <1>17 DEF r, t, q, id, h

\* One turn of the loop.
LEMMA DequeueKeeps ==
    ASSUME NEW g, HasLists(g), NEW start, NEW max \in Nat, NEW s, NEW n \in Nat, Waiting(g, start, max, s, n)
    PROVE  Waiting(g, start, max, Dequeue(g, max, s), n + 1)
  <1>1. CASE s.queue = <<>>
    <2>1. Dequeue(g, max, s) = s
      BY <1>1 DEF Dequeue
    <2> QED BY <1>1, <2>1 DEF Waiting
  <1>2. CASE s.queue # <<>>
    <2> DEFINE id == s.queue[1][1]
               h == s.queue[1][2]
               r == [s EXCEPT !.queue = Tail(@)]
               c == n + 1
    <2>1. Visiting(g, start, max, r, id, h, c) /\ h \in Nat /\ Head(s.queue) = s.queue[1] /\ c \in Nat
      <3>1. /\ Visiting(g, start, max, [s EXCEPT !.queue = Tail(@)], s.queue[1][1], s.queue[1][2], n + 1)
            /\ s.queue[1][2] \in Nat /\ Head(s.queue) = s.queue[1]
        <4> HIDE DEF id, h, r, c
        <4> QED BY <1>2, HeadLeaves
      <3> QED BY <3>1
    <2>2. Dequeue(g, max, s) = IF h >= max THEN r ELSE VisitEdges(g, h, r, OutEdges(g, id))
      BY <1>2, <2>1 DEF Dequeue
    <2> HIDE DEF id, h, r, c
    <2>3. CASE h >= max
      <3>1. ~(h < max)
        BY <2>1, <2>3
      <3>2. Waiting(g, start, max, r, c)
        BY <2>1, <3>1, TurnEnds
      <3> QED BY <2>2, <2>3, <3>2 DEF c
    <2>4. CASE ~(h >= max)
      <3> DEFINE t == VisitEdges(g, h, r, OutEdges(g, id))
      <3>1. h < max
        BY <2>1, <2>4
      <3>2. Visiting(g, start, max, t, id, h, c) /\ Closed(g, t.visited, id)
        BY <2>1, <3>1, EdgesKeep
      <3> HIDE DEF t
      <3>3. Waiting(g, start, max, t, c)
        BY <2>1, <3>2, TurnEnds
      <3> QED BY <2>2, <2>4, <3>3 DEF c, t
    <2> QED BY <2>3, <2>4
  <1> QED BY <1>1, <1>2

-----------------------------------------------------------------------------
(* Traversal: what is found.                                               *)

\* What is near is the start or what some edge points at.
LEMMA NearIsPointedAt ==
    ASSUME NEW g, NEW start, NEW max \in Nat
    PROVE  Near(g, start, max) \subseteq {start} \cup {e[2] : e \in edges(g)}
  <1> SUFFICES ASSUME NEW y \in Near(g, start, max), y # start
               PROVE  \E e \in edges(g) : e[2] = y
    OBVIOUS
  <1>1. PICK k \in 0 .. max : Far(g, start, y, k)
    BY FarExists
  <1>2. k # 0
    BY <1>1, FarStart
  <1> DEFINE d == k - 1
  <1>3. d \in Nat /\ d + 1 = k
    BY <1>2
  <1> HIDE DEF d
  <1>4. PICK x : Far(g, start, x, d) /\ Leads(g, x, y)
    BY <1>1, <1>3, FarBefore
  <1> QED BY <1>4 DEF Leads

\* As many turns as the loop is given empty the queue.
LEMMA QueueEmpties ==
    ASSUME NEW g, HasLists(g), NEW start, NEW max \in Nat, NEW s, Waiting(g, start, max, s, Dequeues(g))
    PROVE  s.queue = <<>> /\ Dequeues(g) \in Nat
  <1> DEFINE T == {e[2] : e \in edges(g)}
             E == edges(g)
             N == Cardinality(T)
             V == s.visited
  <1>1. IsFiniteSet(T)
    <2>1. IsFiniteSet(E)
      BY FiniteEdges
    <2> DEFINE h == [e \in E |-> e[2]]
    <2>2. h \in Surjection(E, T)
      BY DEF Surjection
    <2> HIDE DEF E, T, h
    <2> QED BY <2>1, <2>2, FS_Surjection
  <1>2. Dequeues(g) = 1 + N
    BY DEF Dequeues
  <1>3. Searched(g, start, max, s) /\ (s.queue # <<>> => Cardinality(V) = Dequeues(g) + Len(s.queue))
    BY DEF Waiting
  <1>4. V \subseteq T \cup {start}
    <2>1. V \subseteq Near(g, start, max)
      BY <1>3 DEF Searched
    <2> QED BY <2>1, NearIsPointedAt
  <1> HIDE DEF T, N, V
  <1>5. N \in Nat
    BY <1>1, FS_CardinalityType DEF N
  <1>6. IsFiniteSet(T \cup {start}) /\ Cardinality(T \cup {start}) <= N + 1
    <2>1. CASE start \in T
      <3>1. T \cup {start} = T
        BY <2>1
      <3>2. Cardinality(T) = N
        BY DEF N
      <3> QED BY <1>1, <1>5, <3>1, <3>2
    <2>2. CASE start \notin T
      BY <1>1, <1>5, <2>2, FS_AddElement DEF N
    <2> QED BY <2>1, <2>2
  <1>7. Cardinality(V) <= N + 1 /\ Cardinality(V) \in Nat
    <2>1. /\ IsFiniteSet(V) /\ Cardinality(V) <= Cardinality(T \cup {start})
      BY <1>4, <1>6, FS_Subset
    <2>2. Cardinality(V) \in Nat /\ Cardinality(T \cup {start}) \in Nat
      BY <1>6, <2>1, FS_CardinalityType
    <2> QED BY <1>5, <1>6, <2>1, <2>2
  <1>8. s.queue = <<>>
    <2> SUFFICES ASSUME s.queue # <<>> PROVE FALSE
      OBVIOUS
    <2>1. s.queue \in Seq(Near(g, start, max) \X Nat)
      BY <1>3 DEF Searched, Trail
    <2>2. Len(s.queue) \in Nat /\ Len(s.queue) # 0
      BY <2>1
    <2> DEFINE v == Cardinality(V)
               l == Len(s.queue)
    <2>3. v = (1 + N) + l /\ v <= N + 1 /\ l \in Nat /\ l # 0
      BY <1>2, <1>3, <1>7, <2>2
    <2> HIDE DEF v, l
    <2> QED BY <1>5, <2>3
  <1> QED BY <1>2, <1>5, <1>8

\* The loop, turn after turn.
LEMMA SearchKeeps ==
    ASSUME NEW g, HasLists(g), NEW start, NEW max \in Nat
    PROVE  \E s : /\ Waiting(g, start, max, s, Dequeues(g))
                  /\ traverse_with_hops(g, start, max) = s.out
  <1> DEFINE N == Dequeues(g)
             u == <<g, max>>
             zeros == [i \in Nat |-> 0]
             first == [visited |-> {start}, out |-> <<>>, queue |-> <<<<start, 0>>>>]
             f == CHOOSE a : a = [i \in 0 .. N |-> IF i = 0 THEN first ELSE Dequeue(g, max, a[i - 1])]
             k == CHOOSE a : a = [i \in 0 .. N |-> IF i = 0 THEN first ELSE Turn("dequeue", u, a[i - 1], zeros[i])]
             G == {i \in 0 .. N : Waiting(g, start, max, f[i], i)}
  <1>1. N \in Nat
    <2> DEFINE E == edges(g)
               T == {e[2] : e \in E}
               h == [e \in E |-> e[2]]
    <2>1. IsFiniteSet(E)
      BY FiniteEdges
    <2>2. h \in Surjection(E, T)
      BY DEF Surjection
    <2>3. N = 1 + Cardinality(T)
      BY DEF Dequeues
    <2> HIDE DEF E, T, h, N
    <2>4. Cardinality(T) \in Nat
      BY <2>1, <2>2, FS_Surjection, FS_CardinalityType
    <2> QED BY <2>3, <2>4
  <1>2. traverse_with_hops(g, start, max) = f[N].out
    BY DEF traverse_with_hops
  <1>3. f = k
    BY DEF Turn
  <1>4. \A a, x : Turn("dequeue", u, a, x) = Dequeue(g, max, a)
    BY DEF Turn
  <1> HIDE DEF f, N, u, zeros
  <1>5. Turns(f, "dequeue", u, first, zeros, N)
    <2> HIDE DEF first
    <2> QED BY <1>1, <1>3, LoopUnfolds
  <1>6. 0 \in G
    <2>1. f[0] = first
      BY <1>5 DEF Turns
    <2> DEFINE q == first.queue
    <2>2. /\ first.visited = {start} /\ first.out = <<>> /\ q = <<<<start, 0>>>>
          /\ first = [visited |-> first.visited, out |-> first.out, queue |-> q]
      OBVIOUS
    <2>3. start \in Near(g, start, max)
      BY DEF Near
    <2>4. DOMAIN q = {1} /\ q[1] = <<start, 0>> /\ Len(q) = 1 /\ q # <<>> /\ first.queue = q
      OBVIOUS
    <2>5. q \in Seq(Near(g, start, max) \X Nat) /\ first.out \in Seq(Near(g, start, max) \X Nat)
      BY <2>2, <2>3
    <2>6. Far(g, start, start, 0)
      BY FarStart
    <2>7. IsFiniteSet({start}) /\ Cardinality({start}) = 1
      BY FS_Singleton
    <2>8. DOMAIN first.out = {}
      BY <2>2
    <2> HIDE DEF first, q
    <2>9. Trail(g, start, max, {start}, q)
      <3>1. \A i \in DOMAIN q : i = 1 /\ q[i][1] = start /\ q[i][2] = 0
        BY <2>4
      <3>2. \A i, j \in DOMAIN q : i < j => FALSE
        BY <3>1
      <3> QED BY <2>5, <2>6, <3>1, <3>2 DEF Trail
    <2>10. Trail(g, start, max, {start}, first.out)
      BY <2>5, <2>8 DEF Trail
    <2>11. \A y : Holds(first.out, y) <=> y \in ({start} \cap Ids(g)) \ {start}
      BY <2>8 DEF Holds
    <2>12. Searched(g, start, max, first)
      BY <2>2, <2>3, <2>4, <2>7, <2>9, <2>10, <2>11 DEF Searched
    <2>13. Holds(q, start)
      BY <2>4 DEF Holds
    <2>14. Followed(g, start, max, first, {})
      BY <2>2, <2>4, <2>13 DEF Followed
    <2>15. Level(first, 0)
      BY <2>4, <2>8 DEF Level
    <2>16. q[1][2] = 0 /\ 1 = 0 + Len(q)
      BY <2>4
    <2>17. Level(first, first.queue[1][2])
      BY <2>4, <2>15, <2>16
    <2>18. Waiting(g, start, max, first, 0)
      BY <2>2, <2>4, <2>7, <2>12, <2>14, <2>16, <2>17 DEF Waiting
    <2> QED BY <1>1, <2>1, <2>18
  <1> HIDE DEF first
  <1>7. ASSUME NEW n \in 1 .. N, n - 1 \in G PROVE n \in G
    <2> DEFINE a == f[n - 1]
               m == n - 1
    <2>1. f[n] = Dequeue(g, max, a)
      BY <1>4, <1>5 DEF Turns
    <2>2. Waiting(g, start, max, a, m) /\ m \in Nat /\ m + 1 = n /\ n \in 0 .. N
      BY <1>1, <1>7
    <2> HIDE DEF a, m, G
    <2>3. Waiting(g, start, max, Dequeue(g, max, a), m + 1)
      BY <2>2, DequeueKeeps
    <2> QED BY <2>1, <2>2, <2>3 DEF G
  <1> HIDE DEF G
  <1>8. N \in G
    <2>1. 0 .. N \subseteq G
      BY <1>1, <1>6, <1>7, UpTo
    <2> QED BY <1>1, <2>1
  <1>9. Waiting(g, start, max, f[N], N)
    BY <1>8 DEF G
  <1> QED BY <1>2, <1>9 DEF N

\* A traversal finds each existing node that some path of at most `max` edges
\* leads to, the start left out: each once, nearest first, at the length of the
\* shortest path, for any graph, start and bound.
THEOREM TraversalFindsAll ==
    ASSUME NEW g, HasLists(g), NEW start, NEW max \in Nat
    PROVE  TraversalIsExact(g, start, max)
  <1> DEFINE found == traverse_with_hops(g, start, max)
  <1>1. PICK s : Waiting(g, start, max, s, Dequeues(g)) /\ found = s.out
    BY SearchKeeps
  <1> DEFINE V == s.visited
  <1>2. /\ Searched(g, start, max, s) /\ Followed(g, start, max, s, {})
        /\ s.queue = <<>>
    <2> HIDE DEF found
    <2> QED BY <1>1, QueueEmpties DEF Waiting
  <1>3. /\ start \in V /\ V \subseteq Near(g, start, max)
        /\ Trail(g, start, max, V, found)
        /\ \A y : Holds(found, y) <=> y \in (V \cap Ids(g)) \ {start}
    <2> HIDE DEF found
    <2> QED BY <1>1, <1>2 DEF Searched
  <1>4. Near(g, start, max) \subseteq V
    <2>1. ASSUME NEW d \in 0 .. max - 1, NEW y \in V, Far(g, start, y, d) PROVE Closed(g, V, y)
      <3>1. ~Holds(s.queue, y)
        BY <1>2 DEF Holds
      <3>2. d \in Nat /\ d < max
        OBVIOUS
      <3> QED BY <1>2, <2>1, <3>1, <3>2 DEF Followed
    <2> HIDE DEF V
    <2>2. \A d \in 0 .. max : \A y : Far(g, start, y, d) => y \in V
      BY <1>3, <2>1, AllSeen
    <2> QED BY <2>2, FarExists
  <1> HIDE DEF V, found
  <1>5. V \ {start} = Within(g, start, max) \ {start}
    BY <1>3, <1>4 DEF Near
  <1>6. {found[i][1] : i \in DOMAIN found} = (Within(g, start, max) \cap Ids(g)) \ {start}
    <2>1. \A y : (\E i \in DOMAIN found : found[i][1] = y) <=> y \in (V \cap Ids(g)) \ {start}
      BY <1>3 DEF Holds
    <2> QED BY <1>5, <2>1
  <1>7. \A i, j \in DOMAIN found : i < j => found[i][2] <= found[j][2] /\ found[i][1] # found[j][1]
    BY <1>3 DEF Trail
  <1>8. ASSUME NEW i \in DOMAIN found
        PROVE  found[i][1] \in Within(g, start, found[i][2]) \ Within(g, start, found[i][2] - 1)
    <2> DEFINE y == found[i][1]
               d == found[i][2]
    <2>1. found \in Seq(Near(g, start, max) \X Nat) /\ Far(g, start, y, d)
      BY <1>3 DEF Trail
    <2>2. d \in Nat
      BY <2>1
    <2>3. Holds(found, y)
      BY DEF Holds
    <2>4. y # start
      BY <1>3, <2>3
    <2> HIDE DEF y, d
    <2>5. y \in Within(g, start, d) \ Within(g, start, d - 1)
      BY <2>1, <2>2, <2>4, FarWithin
    <2> QED BY <2>5 DEF y, d
  <1> QED BY <1>6, <1>7, <1>8 DEF TraversalIsExact, found

TraversalsAreExact == \A start : \A max \in Nat : TraversalIsExact(graph, start, max)

\* Whatever is read into a bus, linked and pruned, a traversal of its graph
\* (graph/src/lib.rs, traverse_with_hops) finds exactly what it should.
THEOREM BusTraversalsAreExact == BusSpec => []TraversalsAreExact
  <1>1. BusInv => TraversalsAreExact
    <2> SUFFICES ASSUME BusInv, NEW start, NEW max \in Nat PROVE TraversalIsExact(graph, start, max)
      BY DEF TraversalsAreExact
    <2>1. ids \in Nat /\ graph.adjacency \in Adjacency(ids)
      BY DEF BusInv, Among
    <2>2. PICK D \in SUBSET (1 .. ids) : graph.adjacency \in [D -> Seq(EdgesTo(ids))]
      BY <2>1 DEF Adjacency
    <2>3. IsFiniteSet(DOMAIN graph.adjacency)
      <3>1. IsFiniteSet(1 .. ids)
        BY <2>1, FS_Interval
      <3> QED BY <2>2, <3>1, FS_Subset
    <2>4. ASSUME NEW id \in DOMAIN graph.adjacency
          PROVE  graph.adjacency[id] \in Seq(Range(graph.adjacency[id]))
      <3> DEFINE s == graph.adjacency[id]
      <3>1. s \in Seq(EdgesTo(ids))
        BY <2>2
      <3> HIDE DEF s
      <3>2. s \in Seq(Range(s))
        BY <3>1 DEF Range
      <3> QED BY <3>2 DEF s
    <2>5. HasLists(graph)
      BY <2>3, <2>4 DEF HasLists
    <2> QED BY <2>5, TraversalFindsAll
  <1> QED BY <1>1, BusStarts, BusStepKeeps, PTL DEF BusSpec

-----------------------------------------------------------------------------
(* Agents: what a manifest's text declares.                                 *)

Capability == [custom : BOOLEAN, name : {Fold[s] : s \in STRING}]
Names(caps) == {caps[i].name : i \in DOMAIN caps}

\* (No prover here knows that a literal is a STRING.)
AnyToken == STRING \cup {"0.1.0"}
Manifest == [id : Seq(AnyToken), version : Seq(AnyToken), description : Seq(AnyToken),
             priority : {"low", "normal", "high", "critical"},
             lists : [ListKeys -> Seq(Capability \cup STRING)], current : ListKeys \cup {"none"}]
Listing == {m \in Manifest : m.lists["capabilities"] \in Seq(Capability)}

CapsOf(m) == Names(m.lists["capabilities"])

LEMMA AppendNames ==
    ASSUME NEW s \in Seq(Capability), NEW x \in Capability
    PROVE  Append(s, x) \in Seq(Capability) /\ Names(Append(s, x)) = Names(s) \cup {x.name}
  <1> DEFINE t == Append(s, x)
  <1>1. /\ t \in Seq(Capability) /\ Len(s) \in Nat /\ DOMAIN s = 1 .. Len(s)
        /\ DOMAIN t = 1 .. Len(s) + 1
        /\ t[Len(s) + 1] = x /\ \A i \in 1 .. Len(s) : t[i] = s[i]
    BY AppendParts
  <1> HIDE DEF t
  <1>2. Names(t) = Names(s) \cup {x.name}
    BY <1>1 DEF Names
  <1> QED BY <1>1, <1>2 DEF t

LEMMA FromStr == ASSUME NEW s \in STRING PROVE from_str(s) \in Capability /\ from_str(s).name = Fold[s]
  BY DEF from_str, Capability

LEMMA PushIs ==
    ASSUME NEW m \in Listing, NEW key \in ListKeys, NEW item \in STRING
    PROVE  /\ push_list_item(m, key, item) \in Listing
           /\ push_list_item(m, key, item).current = m.current
           /\ CapsOf(push_list_item(m, key, item))
                = CapsOf(m) \cup IF key = "capabilities" THEN {Fold[item]} ELSE {}
  <1> DEFINE x == IF key = "capabilities" THEN from_str(item) ELSE item
             new == Append(m.lists[key], x)
             r == push_list_item(m, key, item)
             any == Capability \cup STRING
  <1>1. r = [m EXCEPT !.lists = [@ EXCEPT ![key] = new]]
    BY DEF push_list_item
  <1>2. m \in Manifest /\ m.lists \in [ListKeys -> Seq(any)] /\ m.lists["capabilities"] \in Seq(Capability)
    BY DEF Listing, Manifest
  <1>3. x \in any /\ (key = "capabilities" => x \in Capability /\ x.name = Fold[item])
    BY FromStr
  <1>4. new \in Seq(any)
    BY <1>2, <1>3
  <1>5. key = "capabilities" => new \in Seq(Capability) /\ Names(new) = CapsOf(m) \cup {Fold[item]}
    <2> HAVE key = "capabilities"
    <2> HIDE DEF x
    <2> QED BY <1>2, <1>3, AppendNames DEF CapsOf
  <1> HIDE DEF new, x, any, r
  <1> DEFINE ls == [m.lists EXCEPT ![key] = new]
  <1>6. /\ ls \in [ListKeys -> Seq(any)]
        /\ ls["capabilities"] = IF key = "capabilities" THEN new ELSE m.lists["capabilities"]
    BY <1>2, <1>4 DEF ListKeys
  <1> HIDE DEF ls
  <1>7. r = [m EXCEPT !.lists = ls]
    BY <1>1 DEF ls
  <1>8. r \in Manifest /\ r.lists = ls /\ r.current = m.current
    BY <1>2, <1>6, <1>7 DEF Manifest, any
  <1>9. r \in Listing
    BY <1>2, <1>5, <1>6, <1>8 DEF Listing
  <1>10. CapsOf(r) = CapsOf(m) \cup IF key = "capabilities" THEN {Fold[item]} ELSE {}
    BY <1>5, <1>6, <1>8 DEF CapsOf
  <1> QED BY <1>8, <1>9, <1>10 DEF r

LEMMA PushAllIs ==
    ASSUME NEW m \in Listing, NEW key \in ListKeys, NEW items \in Seq(STRING)
    PROVE  /\ push_all(m, key, items) \in Listing
           /\ push_all(m, key, items).current = m.current
           /\ CapsOf(push_all(m, key, items))
                = CapsOf(m) \cup IF key = "capabilities" THEN {Fold[s] : s \in Range(items)} ELSE {}
  <1> DEFINE N == Len(items)
             f == CHOOSE g : g = [n \in 0 .. N |->
                    IF n = 0 THEN m ELSE push_list_item(g[n - 1], key, items[n])]
             h == CHOOSE g : g = [n \in 0 .. N |-> IF n = 0 THEN m ELSE Turn("push", key, g[n - 1], items[n])]
             said(n) == IF key = "capabilities" THEN {Fold[items[i]] : i \in 1 .. n} ELSE {}
             G == {n \in 0 .. N : /\ f[n] \in Listing /\ f[n].current = m.current
                                  /\ CapsOf(f[n]) = CapsOf(m) \cup said(n)}
  <1>1. N \in Nat /\ DOMAIN items = 1 .. N /\ \A i \in 1 .. N : items[i] \in STRING
    OBVIOUS
  <1>2. push_all(m, key, items) = f[N]
    BY DEF push_all
  <1>3. f = h
    BY DEF Turn
  <1> HIDE DEF f, N
  <1>4. Turns(f, "push", key, m, items, N)
    BY <1>1, <1>3, LoopUnfolds
  <1>5. 0 \in G
    <2>1. f[0] = m /\ said(0) = {} /\ 0 \in 0 .. N
      BY <1>1, <1>4 DEF Turns
    <2> HIDE DEF said
    <2> QED BY <2>1
  <1>6. ASSUME NEW n \in 1 .. N, n - 1 \in G PROVE n \in G
    <2> DEFINE a == f[n - 1]
    <2>1. f[n] = push_list_item(a, key, items[n])
      BY <1>4 DEF Turns, Turn
    <2>2. a \in Listing /\ a.current = m.current /\ CapsOf(a) = CapsOf(m) \cup said(n - 1)
      BY <1>6
    <2>3. said(n) = said(n - 1) \cup IF key = "capabilities" THEN {Fold[items[n]]} ELSE {}
      BY <1>1
    <2> DEFINE item == items[n]
    <2> HIDE DEF a, said, G
    <2>31. a \in Listing /\ item \in STRING /\ f[n] = push_list_item(a, key, item)
      BY <1>1, <2>1, <2>2
    <2> HIDE DEF item
    <2>32. /\ push_list_item(a, key, item) \in Listing
           /\ push_list_item(a, key, item).current = a.current
           /\ CapsOf(push_list_item(a, key, item))
                = CapsOf(a) \cup IF key = "capabilities" THEN {Fold[item]} ELSE {}
      BY <2>31, PushIs
    <2>4. /\ f[n] \in Listing /\ f[n].current = a.current
          /\ CapsOf(f[n]) = CapsOf(a) \cup IF key = "capabilities" THEN {Fold[items[n]]} ELSE {}
      BY <2>31, <2>32 DEF item
    <2>5. CapsOf(f[n]) = CapsOf(m) \cup said(n)
      BY <2>2, <2>3, <2>4
    <2> QED BY <1>1, <2>2, <2>4, <2>5 DEF G
  <1> HIDE DEF G
  <1>7. N \in G
    BY <1>1, <1>5, <1>6, UpTo
  <1>8. f[N] \in Listing /\ f[N].current = m.current /\ CapsOf(f[N]) = CapsOf(m) \cup said(N)
    BY <1>7 DEF G
  <1>9. said(N) = IF key = "capabilities" THEN {Fold[s] : s \in Range(items)} ELSE {}
    BY <1>1 DEF Range
  <1> QED BY <1>2, <1>8, <1>9

\* The items between the brackets.
Inside(value) ==
    LET n == Len(value)
    IN  {k \in 2 .. n - 1 : value[1] = "[" /\ value[n] = "]" /\ value[k] # ","}

LEMMA InlineIs ==
    ASSUME NEW value \in Seq(STRING)
    PROVE  Inline(value) \in Seq(STRING) /\ Range(Inline(value)) = {value[k] : k \in Inside(value)}
  <1> DEFINE n == Len(value)
             s == SubSeq(value, 2, n - 1)
             S == Range(value) \ {","}
  <1>0. n \in Nat /\ DOMAIN value = 1 .. n /\ \A k \in 1 .. n : value[k] \in STRING
    OBVIOUS
  <1>3. s = SubSeq(value, 2, n - 1) /\ Inside(value) =
          {k \in 2 .. n - 1 : value[1] = "[" /\ value[n] = "]" /\ value[k] # ","}
    BY DEF Inside
  <1>4. Inline(value) = IF n < 2 \/ value[1] # "[" \/ value[n] # "]" THEN <<>> ELSE Kept(s, S)
    BY DEF Inline
  <1> HIDE DEF n
  <1>1. CASE n < 2 \/ value[1] # "[" \/ value[n] # "]"
    <2>1. Inline(value) = <<>>
      BY <1>1, <1>4
    <2>2. Inside(value) = {}
      <3>1. n < 2 => 2 .. n - 1 = {}
        BY <1>0
      <3> QED BY <1>1, <1>3, <3>1, Zenon
    <2>3. Range(<<>>) = {} /\ <<>> \in Seq(STRING)
      BY DEF Range
    <2> QED BY <2>1, <2>2, <2>3
  <1>2. CASE ~(n < 2 \/ value[1] # "[" \/ value[n] # "]")
    <2>1. s \in Seq(STRING) /\ Len(s) = n - 2 /\ \A i \in 1 .. n - 2 : s[i] = value[i + 1]
      BY <1>0, <1>2
    <2>2. Inline(value) = Kept(s, S)
      BY <1>2, <1>4
    <2> HIDE DEF s, S
    <2>3. Kept(s, S) \in Seq(STRING) /\ Range(Kept(s, S)) = Range(s) \cap S
      BY <2>1, KeptIs
    <2>4. Range(s) \cap S = {value[k] : k \in Inside(value)}
      <3>1. DOMAIN s = 1 .. n - 2
        BY <2>1
      <3>2. ASSUME NEW x \in Range(s) \cap S PROVE \E k \in Inside(value) : x = value[k]
        <4>1. PICK i \in 1 .. n - 2 : s[i] = x
          BY <3>1 DEF Range
        <4>2. i + 1 \in 2 .. n - 1
          BY <1>0, <4>1
        <4>3. value[i + 1] = x
          BY <2>1, <4>1
        <4>4. x # ","
          BY <3>2 DEF S
        <4> QED BY <1>2, <1>3, <4>2, <4>3, <4>4, Zenon
      <3>3. ASSUME NEW k \in Inside(value) PROVE value[k] \in Range(s) \cap S
        <4>1. k \in 2 .. n - 1 /\ value[k] # ","
          BY <1>3, Zenon
        <4>2. k - 1 \in 1 .. n - 2 /\ (k - 1) + 1 = k /\ k \in 1 .. n
          <5>1. n \in Nat /\ k \in 2 .. n - 1
            BY <1>0, <4>1
          <5> HIDE DEF Inside
          <5> QED BY <5>1
        <4>3. s[k - 1] = value[k] /\ k \in DOMAIN value
          BY <1>0, <2>1, <4>2
        <4> QED BY <3>1, <4>1, <4>2, <4>3 DEF Range, S
      <3> QED BY <3>2, <3>3
    <2> QED BY <2>2, <2>3, <2>4
  <1> QED BY <1>1, <1>2

\* A list of capabilities begins on the line; the line adds capabilities, given
\* whether a list is under way.
Begins(line) == line.form = "pair" /\ line.key = "capabilities" /\ line.value = <<>>
Told(line, listed) ==
    CASE line.form = "item" -> IF listed THEN {Fold[line.value[1]]} ELSE {}
      [] line.form = "pair" /\ line.key = "capabilities" ->
           {Fold[line.value[k]] : k \in Inside(line.value)}
      [] OTHER -> {}

LEMMA FoldValues ==
    ASSUME NEW value \in Seq(STRING), NEW items \in Seq(STRING),
           Range(items) = {value[k] : k \in Inside(value)}
    PROVE  {Fold[s] : s \in Range(items)} = {Fold[value[k]] : k \in Inside(value)}
  OBVIOUS

\* What is read besides the list of capabilities.
LEMMA NoListChanges ==
    ASSUME NEW m \in Listing, NEW r \in Manifest, r.lists = m.lists
    PROVE  r \in Listing /\ CapsOf(r) = CapsOf(m)
  BY DEF Listing, CapsOf

LEMMA ListKeysAre ==
    /\ "capabilities" \in ListKeys /\ "none" \notin ListKeys
    /\ \A k \in {"id", "version", "description", "priority"} : k \notin ListKeys /\ k # "capabilities"
  BY DEF ListKeys

\* What a manifest is once a list or another key begins.
LEMMA NowListing ==
    ASSUME NEW m \in Listing, NEW k \in ListKeys \cup {"none"}
    PROVE  /\ [m EXCEPT !.current = k] \in Listing
           /\ [m EXCEPT !.current = k].current = k
           /\ CapsOf([m EXCEPT !.current = k]) = CapsOf(m)
  <1> DEFINE r == [m EXCEPT !.current = k]
  <1>1. m \in Manifest
    BY DEF Listing
  <1>2. r \in Manifest /\ r.current = k /\ r.lists = m.lists
    BY <1>1 DEF Manifest
  <1> HIDE DEF r
  <1>3. r \in Listing /\ CapsOf(r) = CapsOf(m)
    BY <1>2, NoListChanges
  <1> QED BY <1>2, <1>3 DEF r

LEMMA PairSays ==
    ASSUME NEW m \in Listing, NEW key \in STRING, NEW value \in Seq(STRING)
    PROVE  /\ ParsePair(m, key, value) \in Listing
           /\ (ParsePair(m, key, value).current = "capabilities"
                 <=> (key = "capabilities" /\ value = <<>>))
           /\ CapsOf(ParsePair(m, key, value)) = CapsOf(m) \cup
                IF key = "capabilities" THEN {Fold[value[i]] : i \in Inside(value)} ELSE {}
  <1> DEFINE k == IF key = "runtime" THEN "runtimes" ELSE key
             cleared == [m EXCEPT !.current = "none"]
             listed == [cleared EXCEPT !.current = k]
             items == Inline(value)
             r == ParsePair(m, key, value)
             here == {Fold[value[i]] : i \in Inside(value)}
  <1>1. k = "capabilities" <=> key = "capabilities"
    <2>1. CASE key = "runtime"
      BY <2>1
    <2>2. CASE key # "runtime"
      BY <2>2
    <2> QED BY <2>1, <2>2
  <1>2. cleared \in Listing /\ cleared.current = "none" /\ CapsOf(cleared) = CapsOf(m)
    BY NowListing
  <1>12. r = CASE k \in {"id", "version", "description"} -> [cleared EXCEPT ![k] = value]
               [] k = "priority" -> [cleared EXCEPT !.priority = parse_priority(value)]
               [] k \in ListKeys /\ value = <<>> -> listed
               [] k \in ListKeys /\ value # <<>> -> push_all(cleared, k, items)
               [] OTHER -> cleared
    BY DEF ParsePair
  <1> HIDE DEF r, cleared, k, items
  <1>3. k \in ListKeys /\ value = <<>> => r = [cleared EXCEPT !.current = k]
    BY <1>12, ListKeysAre
  <1>4. k \in ListKeys /\ value # <<>> => r = push_all(cleared, k, items)
    BY <1>12, ListKeysAre
  <1>5. k \in {"id", "version", "description"} => r = [cleared EXCEPT ![k] = value]
    BY <1>12, ListKeysAre
  <1>6. k = "priority" => r = [cleared EXCEPT !.priority = parse_priority(value)]
    BY <1>12, ListKeysAre
  <1>7. k \notin ListKeys \cup {"id", "version", "description", "priority"} => r = cleared
    BY <1>12
  <1>8. cleared \in Manifest
    BY <1>2 DEF Listing
  <1>9. CASE k \in ListKeys /\ value = <<>>
    <2>1. r \in Listing /\ r.current = k /\ CapsOf(r) = CapsOf(cleared)
      <3>1. k \in ListKeys \cup {"none"} /\ cleared \in Listing
        BY <1>2, <1>9
      <3> QED BY <1>3, <1>9, <3>1, NowListing
    <2>2. here = {}
      BY <1>9 DEF Inside
    <2> HIDE DEF here
    <2> QED BY <1>1, <1>2, <1>9, <2>1, <2>2 DEF r, here
  <1>10. CASE k \in ListKeys /\ value # <<>>
    <2>1. items \in Seq(STRING) /\ Range(items) = {value[i] : i \in Inside(value)}
      BY InlineIs DEF items
    <2>2. here = {Fold[s] : s \in Range(items)}
      BY <2>1, FoldValues
    <2> HIDE DEF here
    <2>3. /\ r \in Listing /\ r.current = cleared.current
          /\ CapsOf(r) = CapsOf(cleared) \cup IF k = "capabilities" THEN here ELSE {}
      <3>1. /\ push_all(cleared, k, items) \in Listing
            /\ push_all(cleared, k, items).current = cleared.current
            /\ CapsOf(push_all(cleared, k, items))
                 = CapsOf(cleared) \cup IF k = "capabilities" THEN {Fold[s] : s \in Range(items)} ELSE {}
        BY <1>2, <1>10, <2>1, PushAllIs
      <3> QED BY <1>4, <1>10, <2>2, <3>1
    <2> QED BY <1>1, <1>2, <1>10, <2>3 DEF r, here
  <1>11. CASE k \notin ListKeys
    <2>1. r \in Manifest /\ r.lists = cleared.lists /\ r.current = "none"
      <3>1. CASE k \in {"id", "version", "description"}
        <4>1. value \in Seq(AnyToken)
          BY DEF AnyToken
        <4>2. r = [cleared EXCEPT ![k] = value]
          BY <1>5, <3>1
        <4>3. CASE k = "id"
          BY <1>2, <1>8, <4>1, <4>2, <4>3 DEF Manifest
        <4>4. CASE k = "version"
          BY <1>2, <1>8, <4>1, <4>2, <4>4 DEF Manifest
        <4>5. CASE k = "description"
          BY <1>2, <1>8, <4>1, <4>2, <4>5 DEF Manifest
        <4> QED BY <3>1, <4>3, <4>4, <4>5
      <3>2. CASE k = "priority"
        <4>1. parse_priority(value) \in {"low", "normal", "high", "critical"}
          BY DEF parse_priority
        <4> QED BY <1>2, <1>6, <1>8, <3>2, <4>1 DEF Manifest
      <3> QED BY <1>2, <1>7, <1>8, <1>11, <3>1, <3>2
    <2>2. r \in Listing /\ CapsOf(r) = CapsOf(cleared)
      BY <1>2, <2>1, NoListChanges
    <2>3. key # "capabilities"
      BY <1>1, <1>11, ListKeysAre
    <2> QED BY <1>2, <2>1, <2>2, <2>3 DEF r
  <1> QED BY <1>9, <1>10, <1>11

LEMMA LineSays ==
    ASSUME NEW m \in Listing, NEW line \in Line, line.form = "item" => line.value # <<>>
    PROVE  /\ ParseLine(m, line) \in Listing
           /\ (ParseLine(m, line).current = "capabilities"
                 <=> (Begins(line) \/ (line.form # "pair" /\ m.current = "capabilities")))
           /\ CapsOf(ParseLine(m, line)) = CapsOf(m) \cup Told(line, m.current = "capabilities")
  <1> DEFINE r == ParseLine(m, line)
  <1>1. line.value \in Seq(STRING) /\ line.key \in STRING
    BY DEF Line
  <1>2. m \in Manifest /\ m.current \in ListKeys \cup {"none"}
    BY DEF Listing, Manifest
  <1>3. CASE line.form = "item"
    <2> DEFINE item == line.value[1]
    <2>1. item \in STRING
      BY <1>1, <1>3
    <2>2. CASE m.current = "none"
      <3>1. r = m /\ Told(line, m.current = "capabilities") = {}
        BY <1>3, <2>2 DEF ParseLine, Told
      <3> QED BY <1>3, <2>2, <3>1 DEF Begins
    <2>3. CASE m.current # "none"
      <3> DEFINE key == m.current
      <3>1. key \in ListKeys
        BY <1>2, <2>3
      <3>2. r = push_list_item(m, key, item)
        BY <1>3, <2>3 DEF ParseLine
      <3>3. Told(line, key = "capabilities") = IF key = "capabilities" THEN {Fold[item]} ELSE {}
        BY <1>3 DEF Told
      <3> HIDE DEF key, item, r
      <3>4. /\ push_list_item(m, key, item) \in Listing
            /\ push_list_item(m, key, item).current = m.current
            /\ CapsOf(push_list_item(m, key, item))
                 = CapsOf(m) \cup IF key = "capabilities" THEN {Fold[item]} ELSE {}
        BY <2>1, <3>1, PushIs
      <3>5. /\ r \in Listing /\ r.current = m.current
            /\ CapsOf(r) = CapsOf(m) \cup Told(line, key = "capabilities")
        BY <3>2, <3>3, <3>4
      <3> QED BY <1>3, <3>5 DEF Begins, r, key
    <2> QED BY <2>2, <2>3
  <1>4. CASE line.form = "pair"
    <2> DEFINE key == line.key
               value == line.value
    <2>1. r = ParsePair(m, key, value)
      BY <1>4 DEF ParseLine
    <2>2. Told(line, m.current = "capabilities")
             = IF key = "capabilities" THEN {Fold[value[i]] : i \in Inside(value)} ELSE {}
      BY <1>4 DEF Told
    <2>3. Begins(line) <=> key = "capabilities" /\ value = <<>>
      BY <1>4 DEF Begins
    <2>4. key \in STRING /\ value \in Seq(STRING)
      BY <1>1
    <2> HIDE DEF key, value, r
    <2>5. ParsePair(m, key, value) \in Listing
      BY <2>4, PairSays
    <2>6. (ParsePair(m, key, value).current = "capabilities") <=> (key = "capabilities" /\ value = <<>>)
      BY <2>4, PairSays
    <2>7. CapsOf(ParsePair(m, key, value)) = CapsOf(m) \cup
                IF key = "capabilities" THEN {Fold[value[i]] : i \in Inside(value)} ELSE {}
      BY <2>4, PairSays
    <2> QED BY <1>4, <2>1, <2>2, <2>3, <2>5, <2>6, <2>7 DEF r
  <1>5. CASE line.form \notin {"item", "pair"}
    <2>1. r = m /\ Told(line, m.current = "capabilities") = {}
      BY <1>5 DEF ParseLine, Told
    <2> QED BY <1>5, <2>1 DEF Begins
  <1> QED BY <1>3, <1>4, <1>5

\* A list of capabilities is under way at line i.
Listed(text, i) == \E h \in 1 .. i - 1 : Begins(text[h]) /\ \A k \in h + 1 .. i - 1 : text[k].form # "pair"

LEMMA DeclaresIs ==
    ASSUME NEW text, NEW i
    PROVE  Declares(text, i) = Told(text[i], Listed(text, i))
  BY DEF Declares, Told, Listed, Begins, Inside

LEMMA ListedNext ==
    ASSUME NEW text, NEW n \in Nat, n # 0
    PROVE  Listed(text, n + 1) <=> (Begins(text[n]) \/ (text[n].form # "pair" /\ Listed(text, n)))
  <1> DEFINE Pair(k) == text[k].form = "pair"
  <1>1. ASSUME Begins(text[n]) PROVE Listed(text, n + 1)
    <2>1. n \in 1 .. (n + 1) - 1 /\ n + 1 .. (n + 1) - 1 = {}
      OBVIOUS
    <2> QED BY <1>1, <2>1, Zenon DEF Listed
  <1>2. ASSUME ~Pair(n), Listed(text, n) PROVE Listed(text, n + 1)
    <2>1. PICK h \in 1 .. n - 1 : Begins(text[h]) /\ \A k \in h + 1 .. n - 1 : ~Pair(k)
      BY <1>2 DEF Listed
    <2> HIDE DEF Pair
    <2>2. h \in 1 .. (n + 1) - 1
      OBVIOUS
    <2>3. \A k \in h + 1 .. (n + 1) - 1 : ~Pair(k)
      <3> TAKE k \in h + 1 .. (n + 1) - 1
      <3>1. k = n \/ k \in h + 1 .. n - 1
        OBVIOUS
      <3> QED BY <1>2, <2>1, <3>1
    <2> QED BY <2>1, <2>2, <2>3, Zenon DEF Listed, Pair
  <1>3. ASSUME Listed(text, n + 1), ~Begins(text[n]) PROVE ~Pair(n) /\ Listed(text, n)
    <2>1. PICK h \in 1 .. (n + 1) - 1 : Begins(text[h]) /\ \A k \in h + 1 .. (n + 1) - 1 : ~Pair(k)
      BY <1>3, Zenon DEF Listed
    <2> HIDE DEF Pair
    <2>2. h # n
      BY <1>3, <2>1
    <2>3. h \in 1 .. n - 1 /\ n \in h + 1 .. (n + 1) - 1
      BY <2>2
    <2>4. \A k \in h + 1 .. n - 1 : ~Pair(k)
      <3> TAKE k \in h + 1 .. n - 1
      <3>1. k \in h + 1 .. (n + 1) - 1
        OBVIOUS
      <3> QED BY <2>1, <3>1
    <2> QED BY <2>1, <2>3, <2>4, Zenon DEF Listed, Pair
  <1> QED BY <1>1, <1>2, <1>3, Zenon

\* A manifest has the capabilities its text declares.
LEMMA ManifestSays ==
    ASSUME NEW text \in Seq(Line), \A i \in DOMAIN text : text[i].form = "item" => text[i].value # <<>>
    PROVE  from_manifest(text) \in Listing /\ CapsOf(from_manifest(text)) = Declared(text)
  <1> DEFINE N == Len(text)
             f == CHOOSE g : g = [n \in 0 .. N |-> IF n = 0 THEN NoManifest ELSE ParseLine(g[n - 1], text[n])]
             h == CHOOSE g : g = [n \in 0 .. N |-> IF n = 0 THEN NoManifest ELSE Turn("line", {}, g[n - 1], text[n])]
             said(n) == UNION {Declares(text, i) : i \in 1 .. n}
             Good(n) == /\ f[n] \in Listing
                        /\ f[n].current = "capabilities" <=> Listed(text, n + 1)
                        /\ CapsOf(f[n]) = said(n)
             G == {n \in 0 .. N : Good(n)}
  <1>1. N \in Nat /\ DOMAIN text = 1 .. N /\ \A i \in 1 .. N : text[i] \in Line
    OBVIOUS
  <1>2. from_manifest(text) = f[N]
    BY DEF from_manifest
  <1>3. f = h
    BY DEF Turn
  <1> HIDE DEF f, N
  <1>4. Turns(f, "line", {}, NoManifest, text, N)
    BY <1>1, <1>3, LoopUnfolds
  <1>5. 0 \in G
    <2>1. f[0] = NoManifest /\ 0 \in 0 .. N
      BY <1>1, <1>4 DEF Turns
    <2>2. said(0) = {} /\ 1 .. (0 + 1) - 1 = {}
      OBVIOUS
    <2>3. ~Listed(text, 0 + 1)
      BY <2>2, Zenon DEF Listed
    <2>4. NoManifest \in Listing /\ NoManifest.current = "none" /\ CapsOf(NoManifest) = {}
      <3> DEFINE none == [k \in ListKeys |-> <<>>]
      <3>1. none \in [ListKeys -> Seq(Capability \cup STRING)] /\ none["capabilities"] = <<>>
        BY DEF ListKeys
      <3>2. <<"0.1.0">> \in Seq(AnyToken)
        BY DEF AnyToken
      <3>3. NoManifest = [id |-> <<>>, version |-> <<"0.1.0">>, description |-> <<>>, priority |-> "normal",
                          lists |-> none, current |-> "none"]
        BY DEF NoManifest
      <3> HIDE DEF none
      <3>4. NoManifest \in Manifest /\ NoManifest.lists = none /\ NoManifest.current = "none"
        BY <3>1, <3>2, <3>3 DEF Manifest
      <3>5. NoManifest.lists["capabilities"] = <<>> /\ <<>> \in Seq(Capability) /\ Names(<<>>) = {}
        BY <3>1, <3>4 DEF Names
      <3> QED BY <3>4, <3>5 DEF Listing, CapsOf
    <2> HIDE DEF said
    <2>5. Good(0)
      BY <2>1, <2>2, <2>3, <2>4
    <2> QED BY <2>1, <2>5
  <1>6. ASSUME NEW n \in 1 .. N, n - 1 \in G PROVE n \in G
    <2> DEFINE a == f[n - 1]
               line == text[n]
               listed == Listed(text, n)
    <2>1. f[n] = ParseLine(a, line)
      BY <1>4 DEF Turns, Turn
    <2>2. /\ a \in Listing /\ CapsOf(a) = said(n - 1)
          /\ a.current = "capabilities" <=> listed
      <3>1. Good(n - 1) /\ (n - 1) + 1 = n
        BY <1>1, <1>6
      <3> HIDE DEF said
      <3> QED BY <3>1
    <2>3. said(n) = said(n - 1) \cup Told(line, listed)
      <3>1. 1 .. n = (1 .. n - 1) \cup {n}
        BY <1>1
      <3>2. Declares(text, n) = Told(line, listed)
        BY DeclaresIs
      <3> QED BY <3>1, <3>2, Zenon
    <2>4. Listed(text, n + 1) <=> (Begins(line) \/ (line.form # "pair" /\ listed))
      <3>1. n \in Nat /\ n # 0
        BY <1>1
      <3> QED BY <3>1, ListedNext
    <2>5. line \in Line /\ (line.form = "item" => line.value # <<>>)
      BY <1>1
    <2> HIDE DEF a, said, line, listed
    <2>6. f[n] \in Listing
      BY <2>1, <2>2, <2>5, LineSays
    <2>7. f[n].current = "capabilities" <=> (Begins(line) \/ (line.form # "pair" /\ a.current = "capabilities"))
      BY <2>1, <2>2, <2>5, LineSays
    <2>8. CapsOf(f[n]) = CapsOf(a) \cup Told(line, a.current = "capabilities")
      BY <2>1, <2>2, <2>5, LineSays
    <2>9. Told(line, a.current = "capabilities") = Told(line, listed)
      BY <2>2 DEF Told
    <2>10. Good(n)
      BY <2>2, <2>3, <2>4, <2>6, <2>7, <2>8, <2>9
    <2> QED BY <1>1, <2>10
  <1> HIDE DEF Good
  <1>7. N \in G
    <2> HIDE DEF G
    <2>1. \A n \in 1 .. N : n - 1 \in G => n \in G
      BY <1>6
    <2>2. 0 .. N \subseteq G
      BY <1>1, <1>5, <2>1, UpTo
    <2> QED BY <1>1, <2>2
  <1>8. f[N] \in Listing /\ CapsOf(f[N]) = said(N)
    BY <1>7 DEF Good
  <1>9. said(N) = Declared(text)
    BY <1>1 DEF Declared
  <1> QED BY <1>2, <1>8, <1>9

-----------------------------------------------------------------------------
(* Agents: the registry.                                                    *)

Sorted(s) == \A i, j \in DOMAIN s : i < j => s[i] <= s[j]

\* What one more element at the end does to a sorted list.
LEMMA AppendSorted ==
    ASSUME NEW s \in Seq(Nat), NEW x \in Nat, Sorted(s), \A y \in Range(s) : y <= x
    PROVE  Append(s, x) \in Seq(Nat) /\ Sorted(Append(s, x)) /\ Range(Append(s, x)) = Range(s) \cup {x}
  <1> DEFINE t == Append(s, x)
             n == Len(s)
  <1>1. /\ t \in Seq(Nat) /\ n \in Nat /\ DOMAIN s = 1 .. n /\ DOMAIN t = 1 .. n + 1
        /\ t[n + 1] = x /\ \A i \in 1 .. n : t[i] = s[i]
    BY AppendParts
  <1> HIDE DEF t, n
  <1>2. Range(t) = Range(s) \cup {x}
    BY <1>1 DEF Range
  <1>3. ASSUME NEW i \in 1 .. n + 1, NEW j \in 1 .. n + 1, i < j PROVE t[i] <= t[j]
    <2>1. i \in 1 .. n
      BY <1>1, <1>3
    <2>2. CASE j = n + 1
      BY <1>1, <2>1, <2>2 DEF Range
    <2>3. CASE j # n + 1
      <3>1. j \in 1 .. n
        BY <1>1, <2>3
      <3> QED BY <1>1, <1>3, <2>1, <3>1 DEF Sorted
    <2> QED BY <2>2, <2>3
  <1>4. Sorted(t)
    BY <1>1, <1>3 DEF Sorted
  <1> QED BY <1>1, <1>2, <1>4 DEF t

\* A filter keeps the order.
LEMMA KeptSorted ==
    ASSUME NEW s \in Seq(Nat), NEW S, Sorted(s)
    PROVE  Sorted(Kept(s, S))
  <1> DEFINE N == Len(s)
             f == CHOOSE g : g = [n \in 0 .. N |->
                    IF n = 0 THEN <<>> ELSE IF s[n] \in S THEN Append(g[n - 1], s[n]) ELSE g[n - 1]]
             h == CHOOSE g : g = [n \in 0 .. N |-> IF n = 0 THEN <<>> ELSE Turn("kept", S, g[n - 1], s[n])]
             upto(n) == {s[i] : i \in 1 .. n}
             Good(n) == f[n] \in Seq(Nat) /\ Sorted(f[n]) /\ Range(f[n]) \subseteq upto(n)
             G == {n \in 0 .. N : Good(n)}
  <1>1. N \in Nat /\ DOMAIN s = 1 .. N /\ \A i \in 1 .. N : s[i] \in Nat
    OBVIOUS
  <1>2. Kept(s, S) = f[N]
    BY DEF Kept
  <1>3. f = h
    BY DEF Turn
  <1> HIDE DEF f, N
  <1>4. Turns(f, "kept", S, <<>>, s, N)
    BY <1>1, <1>3, LoopUnfolds
  <1>5. 0 \in G
    <2>1. f[0] = <<>> /\ 0 \in 0 .. N
      BY <1>1, <1>4 DEF Turns
    <2>2. <<>> \in Seq(Nat) /\ Sorted(<<>>) /\ Range(<<>>) = {}
      BY DEF Sorted, Range
    <2> QED BY <2>1, <2>2
  <1>6. ASSUME NEW n \in 1 .. N, n - 1 \in G PROVE n \in G
    <2> DEFINE a == f[n - 1]
               x == s[n]
    <2>1. f[n] = IF x \in S THEN Append(a, x) ELSE a
      BY <1>4 DEF Turns, Turn
    <2>2. a \in Seq(Nat) /\ Sorted(a) /\ Range(a) \subseteq upto(n - 1) /\ x \in Nat
      BY <1>1, <1>6
    <2>3. upto(n - 1) \subseteq upto(n) /\ x \in upto(n)
      BY <1>1
    <2>4. \A y \in upto(n - 1) : y <= x
      BY <1>1 DEF Sorted
    <2> HIDE DEF a, upto, x
    <2>5. /\ Append(a, x) \in Seq(Nat) /\ Sorted(Append(a, x))
          /\ Range(Append(a, x)) = Range(a) \cup {x}
      BY <2>2, <2>4, AppendSorted
    <2>6. Good(n)
      BY <2>1, <2>2, <2>3, <2>5
    <2> QED BY <1>1, <2>6
  <1> HIDE DEF Good
  <1>7. N \in G
    <2> HIDE DEF G
    <2>1. \A n \in 1 .. N : n - 1 \in G => n \in G
      BY <1>6
    <2>2. 0 .. N \subseteq G
      BY <1>1, <1>5, <2>1, UpTo
    <2> QED BY <1>1, <2>2
  <1> QED BY <1>2, <1>7 DEF Good

\* The ids of a capability once an agent that names it k times is registered.
LEMMA IdsAdded ==
    ASSUME NEW n \in Nat, NEW s \in Seq(1 .. n), Sorted(s), NEW k \in Nat
    PROVE  LET r == s \o [i \in 1 .. k |-> n + 1]
           IN  /\ r \in Seq(1 .. n + 1) /\ Sorted(r)
               /\ Range(r) = Range(s) \cup IF k = 0 THEN {} ELSE {n + 1}
  <1> DEFINE added == [i \in 1 .. k |-> n + 1]
             r == s \o added
             l == Len(s)
  <1>1. l \in Nat /\ DOMAIN s = 1 .. l /\ \A i \in 1 .. l : s[i] \in 1 .. n
    OBVIOUS
  <1>2. added \in Seq(1 .. n + 1) /\ Len(added) = k /\ \A i \in 1 .. k : added[i] = n + 1
    <2>1. n + 1 \in 1 .. n + 1
      OBVIOUS
    <2> QED BY <2>1
  <1>3. s \in Seq(1 .. n + 1)
    <2>1. 1 .. n \subseteq 1 .. n + 1
      OBVIOUS
    <2> QED BY <2>1
  <1>4. /\ r \in Seq(1 .. n + 1) /\ DOMAIN r = 1 .. l + k
        /\ \A i \in 1 .. l : r[i] = s[i]
        /\ \A i \in l + 1 .. l + k : r[i] = n + 1
    <2> HIDE DEF added
    <2>1. r \in Seq(1 .. n + 1) /\ Len(r) = l + k
      BY <1>2, <1>3
    <2>2. \A i \in l + 1 .. l + k : r[i] = added[i - l] /\ i - l \in 1 .. k
      BY <1>1, <1>2, <1>3
    <2>3. \A i \in 1 .. l : r[i] = s[i]
      BY <1>1, <1>2, <1>3
    <2> QED BY <1>2, <2>1, <2>2, <2>3
  <1> HIDE DEF r, l
  <1>5. \A i \in DOMAIN r : i \in 1 .. l \/ i \in l + 1 .. l + k
    BY <1>1, <1>4
  <1>6. Sorted(r)
    <2> SUFFICES ASSUME NEW i \in DOMAIN r, NEW j \in DOMAIN r, i < j PROVE r[i] <= r[j]
      BY DEF Sorted
    <2>1. CASE j \in 1 .. l
      <3>1. i \in 1 .. l
        BY <1>1, <1>4, <2>1
      <3> QED BY <1>1, <1>4, <2>1, <3>1 DEF Sorted
    <2>2. CASE j \in l + 1 .. l + k
      <3>1. r[j] = n + 1
        BY <1>4, <2>2
      <3>2. r \in Seq(1 .. n + 1) /\ i \in DOMAIN r
        BY <1>4
      <3>3. r[i] \in 1 .. n + 1
        BY <3>2
      <3> QED BY <3>1, <3>3
    <2> QED BY <1>5, <2>1, <2>2
  <1>7. Range(r) = Range(s) \cup IF k = 0 THEN {} ELSE {n + 1}
    <2>1. \A i \in 1 .. l : i \in DOMAIN r
      BY <1>1, <1>4
    <2>2. ASSUME NEW i \in DOMAIN r
          PROVE  r[i] \in Range(s) \/ (r[i] = n + 1 /\ k # 0)
      <3>1. CASE i \in 1 .. l
        BY <1>1, <1>4, <3>1 DEF Range
      <3>2. CASE i \in l + 1 .. l + k
        <4>1. k # 0
          BY <1>1, <3>2
        <4> QED BY <1>4, <3>2, <4>1
      <3> QED BY <1>5, <3>1, <3>2
    <2>3. k # 0 => l + k \in DOMAIN r /\ r[l + k] = n + 1
      BY <1>1, <1>4
    <2>4. \A y \in Range(s) : y \in Range(r)
      BY <1>1, <1>4, <2>1 DEF Range
    <2>5. k # 0 => n + 1 \in Range(r)
      BY <2>3 DEF Range
    <2>6. \A y \in Range(r) : y \in Range(s) \/ (y = n + 1 /\ k # 0)
      BY <2>2 DEF Range
    <2> QED BY <2>4, <2>5, <2>6
  <1> QED BY <1>4, <1>6, <1>7 DEF r

\* The ids under a capability.
Indexed(bc, c) == IF c \in DOMAIN bc THEN bc[c] ELSE <<>>

\* Each capability has, in order, the agents whose manifest has it.
AgentsInv ==
    /\ agents \in Seq([manifest : Listing, state : AgentStates])
    /\ \A c \in Builtin \cup {"custom"} :
         /\ Indexed(by_capability, c) \in Seq(1 .. Len(agents)) /\ Sorted(Indexed(by_capability, c))
         /\ \A id \in DOMAIN agents :
              id \in Range(Indexed(by_capability, c)) <=> c \in CapsOf(agents[id].manifest)

LEMMA ManifestListed ==
    ASSUME NEW text \in Manifests
    PROVE  from_manifest(text) \in Listing /\ CapsOf(from_manifest(text)) = Declared(text)
  <1>1. text \in Seq(Line) /\ \A i \in DOMAIN text : text[i].form = "item" => Len(text[i].value) = 1
    BY AgentsAssumption
  <1>2. ASSUME NEW v, Len(v) = 1 PROVE v # <<>>
    <2>1. v = <<>> => Len(v) = 0
      OBVIOUS
    <2> QED BY <1>2, <2>1
  <1>3. \A i \in DOMAIN text : text[i].form = "item" => text[i].value # <<>>
    BY <1>1, <1>2, Zenon
  <1> QED BY <1>1, <1>3, ManifestSays

LEMMA RegisterAgentKeeps == ASSUME AgentsInv, NEW text \in Manifests, Register(text) PROVE AgentsInv'
  <1> DEFINE m == from_manifest(text)
             n == Len(agents)
             caps == m.lists.capabilities
             toks == {as_token(caps[i]) : i \in DOMAIN caps}
             times(t) == Cardinality({i \in DOMAIN caps : as_token(caps[i]) = t})
             more(t) == Indexed(by_capability, t) \o [i \in 1 .. times(t) |-> n + 1]
  <1>1. m \in Listing /\ caps \in Seq(Capability) /\ CapsOf(m) = toks
    <2>1. m \in Listing
      BY ManifestListed
    <2> HIDE DEF m
    <2> QED BY <2>1 DEF Listing, CapsOf, Names, as_token
  <1>2. /\ agents' = Append(agents, [manifest |-> m, state |-> "registered"])
        /\ by_capability' = [t \in DOMAIN by_capability \cup toks |-> more(t)]
    BY DEF Register, Indexed
  <1>3. ASSUME NEW t PROVE times(t) \in Nat /\ (times(t) = 0 <=> t \notin toks)
    <2> DEFINE at == {i \in DOMAIN caps : as_token(caps[i]) = t}
    <2>1. IsFiniteSet(DOMAIN caps)
      BY <1>1, FewPlaces
    <2>2. IsFiniteSet(at) /\ (at = {} <=> t \notin toks)
      <3>1. at \subseteq DOMAIN caps
        OBVIOUS
      <3>2. IsFiniteSet(at)
        BY <2>1, <3>1, FS_Subset
      <3> QED BY <3>2
    <2> HIDE DEF at
    <2>3. Cardinality(at) \in Nat /\ (Cardinality(at) = 0 <=> at = {})
      BY <2>2, FS_CardinalityType, FS_EmptySet
    <2> QED BY <2>2, <2>3 DEF at
  <1> HIDE DEF m, caps, toks, times
  <1>4. /\ agents \in Seq([manifest : Listing, state : AgentStates]) /\ n \in Nat
        /\ DOMAIN agents = 1 .. n
    BY DEF AgentsInv
  <1> DEFINE a == [manifest |-> m, state |-> "registered"]
  <1>5. a \in [manifest : Listing, state : AgentStates]
    BY <1>1 DEF AgentStates
  <1>6. /\ agents' \in Seq([manifest : Listing, state : AgentStates])
        /\ DOMAIN agents' = 1 .. n + 1 /\ Len(agents') = n + 1
        /\ agents'[n + 1] = a /\ \A i \in 1 .. n : agents'[i] = agents[i]
    <2> HIDE DEF a
    <2>1. agents' = Append(agents, a)
      BY <1>2 DEF a
    <2> QED BY <1>4, <1>5, <2>1
  <1>7. ASSUME NEW c \in Builtin \cup {"custom"}
        PROVE  /\ Indexed(by_capability', c) \in Seq(1 .. n + 1) /\ Sorted(Indexed(by_capability', c))
               /\ Range(Indexed(by_capability', c))
                    = Range(Indexed(by_capability, c)) \cup IF c \in toks THEN {n + 1} ELSE {}
    <2> DEFINE now == Indexed(by_capability, c)
               k == times(c)
               r == now \o [i \in 1 .. k |-> n + 1]
    <2>1. now \in Seq(1 .. n) /\ Sorted(now) /\ k \in Nat
      BY <1>3 DEF AgentsInv
    <2>2. Indexed(by_capability', c) = r
      <3>1. CASE c \in DOMAIN by_capability \cup toks
        BY <1>2, <3>1 DEF Indexed
      <3>2. CASE c \notin DOMAIN by_capability \cup toks
        <4>1. k = 0 /\ now = <<>> /\ Indexed(by_capability', c) = <<>>
          BY <1>2, <1>3, <3>2 DEF Indexed
        <4>2. r = <<>>
          BY <4>1
        <4> QED BY <4>1, <4>2
      <3> QED BY <3>1, <3>2
    <2> HIDE DEF now, k, n
    <2>3. r \in Seq(1 .. n + 1) /\ Sorted(r) /\ Range(r) = Range(now) \cup IF k = 0 THEN {} ELSE {n + 1}
      BY <1>4, <2>1, IdsAdded
    <2>4. k = 0 <=> c \notin toks
      BY <1>3 DEF k
    <2> HIDE DEF r
    <2> QED BY <2>2, <2>3, <2>4 DEF now
  <1>8. ASSUME NEW c \in Builtin \cup {"custom"}, NEW id \in 1 .. n + 1
        PROVE  id \in Range(Indexed(by_capability', c)) <=> c \in CapsOf(agents'[id].manifest)
    <2> DEFINE now == Indexed(by_capability, c)
    <2>1. now \in Seq(1 .. n) /\ \A x \in 1 .. n : x \in Range(now) <=> c \in CapsOf(agents[x].manifest)
      BY <1>4 DEF AgentsInv
    <2>2. Range(Indexed(by_capability', c)) = Range(now) \cup IF c \in toks THEN {n + 1} ELSE {}
      BY <1>7
    <2> HIDE DEF now, n
    <2>3. n + 1 \notin Range(now)
      <3>1. now \in Seq(1 .. n)
        BY <2>1
      <3>2. \A i \in DOMAIN now : now[i] \in 1 .. n
        <4> DEFINE T == 1 .. n
        <4> HIDE DEF T
        <4>1. now \in Seq(T)
          BY <3>1 DEF T
        <4>2. \A i \in DOMAIN now : now[i] \in T
          BY <4>1
        <4> QED BY <4>2 DEF T
      <3>3. n + 1 \notin 1 .. n
        BY <1>4
      <3> QED BY <3>2, <3>3 DEF Range
    <2>4. CASE id = n + 1
      <3>1. agents'[id].manifest = m
        BY <1>6, <2>4
      <3> QED BY <1>1, <2>2, <2>3, <2>4, <3>1
    <2>5. CASE id # n + 1
      <3>1. id \in 1 .. n
        BY <1>4, <2>5
      <3>2. agents'[id] = agents[id]
        BY <1>6, <3>1
      <3> QED BY <2>1, <2>2, <2>5, <3>1, <3>2
    <2> QED BY <2>4, <2>5
  <1> HIDE DEF n
  <1> QED BY <1>6, <1>7, <1>8 DEF AgentsInv

LEMMA TransitionKeeps ==
    ASSUME AgentsInv, NEW id \in DOMAIN agents, NEW next \in AgentStates, Transition(id, next)
    PROVE  AgentsInv'
  <1>1. agents' = [agents EXCEPT ![id].state = next] /\ by_capability' = by_capability
    BY DEF Transition
  <1>2. agents \in Seq([manifest : Listing, state : AgentStates])
    BY DEF AgentsInv
  <1> DEFINE R == [manifest : Listing, state : AgentStates]
             a == [agents[id] EXCEPT !.state = next]
  <1>4. agents[id] \in R
    <2> HIDE DEF R
    <2>1. agents \in Seq(R)
      BY <1>2 DEF R
    <2> QED BY <2>1
  <1>5. a \in R /\ a.manifest = agents[id].manifest
    BY <1>4
  <1>6. agents' = [agents EXCEPT ![id] = a]
    BY <1>1
  <1> HIDE DEF a, R
  <1>7. agents \in Seq(R)
    BY <1>2 DEF R
  <1>8. /\ agents' \in Seq(R) /\ Len(agents') = Len(agents) /\ DOMAIN agents' = DOMAIN agents
        /\ \A i \in DOMAIN agents : agents'[i] = IF i = id THEN a ELSE agents[i]
    BY <1>5, <1>6, <1>7
  <1>3. /\ agents' \in Seq([manifest : Listing, state : AgentStates])
        /\ Len(agents') = Len(agents) /\ DOMAIN agents' = DOMAIN agents
        /\ \A i \in DOMAIN agents : agents'[i].manifest = agents[i].manifest
    BY <1>5, <1>8 DEF R
  <1> QED BY <1>1, <1>3 DEF AgentsInv

LEMMA AgentsStart == AgentsInit => AgentsInv
  <1> SUFFICES ASSUME AgentsInit PROVE AgentsInv
    OBVIOUS
  <1>1. agents = <<>> /\ by_capability = <<>> /\ DOMAIN <<>> = {} /\ Len(<<>>) = 0
    BY DEF AgentsInit
  <1>2. \A c : Indexed(by_capability, c) = <<>>
    BY <1>1 DEF Indexed
  <1>3. Sorted(<<>>) /\ \A S : <<>> \in Seq(S)
    BY DEF Sorted
  <1> QED BY <1>1, <1>2, <1>3 DEF AgentsInv

LEMMA AgentsStepKeeps == AgentsInv /\ [AgentsNext]_agentVars => AgentsInv'
  <1> SUFFICES ASSUME AgentsInv, [AgentsNext]_agentVars PROVE AgentsInv'
    OBVIOUS
  <1>1. CASE \E text \in Manifests : Len(agents) < MaxAgents /\ Register(text)
    BY <1>1, RegisterAgentKeeps
  <1>2. CASE \E id \in DOMAIN agents, next \in AgentStates : Transition(id, next)
    BY <1>2, TransitionKeeps
  <1>3. CASE UNCHANGED agentVars
    BY <1>3 DEF agentVars, AgentsInv
  <1> QED BY <1>1, <1>2, <1>3 DEF AgentsNext

LEMMA FoundExactly == AgentsInv => AgentsAreFound
  <1> SUFFICES ASSUME AgentsInv, NEW text \in Manifests, NEW c \in Builtin \cup {"custom"}
               PROVE  LET found == discover([custom |-> c = "custom", name |-> c])
                      IN  /\ \A id \in DOMAIN agents : agents[id].manifest = from_manifest(text) =>
                               ((\E i \in DOMAIN found : found[i] = id)
                                  <=> /\ c \in Declared(text)
                                      /\ agents[id].state \notin {"suspended", "terminated"})
                          /\ \A i, j \in DOMAIN found : i < j => found[i] <= found[j]
    BY DEF AgentsAreFound
  <1> DEFINE cap == [custom |-> c = "custom", name |-> c]
             found == discover(cap)
             out == {"suspended", "terminated"}
             listed == Indexed(by_capability, c)
             n == Len(agents)
  <1>1. as_token(cap) = c
    BY DEF as_token
  <1>2. listed \in Seq(1 .. n) /\ Sorted(listed) /\ n \in Nat
    BY DEF AgentsInv
  <1>3. found = IF c \notin DOMAIN by_capability THEN <<>> ELSE Kept(listed, NotIn(out))
    <2> HIDE DEF cap
    <2> QED BY <1>1 DEF discover, Indexed
  <1>4. ASSUME NEW id \in DOMAIN agents
        PROVE  id \in Range(listed) <=> c \in CapsOf(agents[id].manifest)
    BY DEF AgentsInv
  <1>5. c \notin DOMAIN by_capability => listed = <<>>
    BY DEF Indexed
  <1> HIDE DEF listed, found, n, out
  <1>6. Range(found) = Range(listed) \cap NotIn(out) /\ Sorted(found)
    <2>1. CASE c \notin DOMAIN by_capability
      <3>1. found = <<>> /\ listed = <<>> /\ Range(<<>>) = {} /\ Sorted(<<>>)
        BY <1>3, <1>5, <2>1 DEF Range, Sorted
      <3> QED BY <3>1
    <2>2. CASE c \in DOMAIN by_capability
      <3>1. Range(Kept(listed, NotIn(out))) = Range(listed) \cap NotIn(out)
        BY <1>2, KeptIs
      <3>2. listed \in Seq(Nat)
        <4>1. 1 .. n \subseteq Nat
          BY <1>2
        <4> QED BY <1>2, <4>1
      <3>3. Sorted(Kept(listed, NotIn(out)))
        BY <1>2, <3>2, KeptSorted
      <3> QED BY <1>3, <2>2, <3>1, <3>3
    <2> QED BY <2>1, <2>2
  <1>7. ASSUME NEW id \in DOMAIN agents, agents[id].manifest = from_manifest(text)
        PROVE  (\E i \in DOMAIN found : found[i] = id)
                 <=> (c \in Declared(text) /\ agents[id].state \notin {"suspended", "terminated"})
    <2>1. (\E i \in DOMAIN found : found[i] = id) <=> id \in Range(found)
      BY DEF Range
    <2>2. id \in NotIn(out) <=> agents[id].state \notin {"suspended", "terminated"}
      BY DEF NotIn, out
    <2>3. id \in Range(listed) <=> c \in Declared(text)
      BY <1>4, <1>7, ManifestListed
    <2> QED BY <1>6, <2>1, <2>2, <2>3
  <1>8. \A i, j \in DOMAIN found : i < j => found[i] <= found[j]
    BY <1>6 DEF Sorted
  <1> QED BY <1>7, <1>8 DEF found

LEMMA RegistriesStart == Init => AgentsInv /\ RuntimeInv
  BY AgentsStart DEF Init, AccessInit, RuntimeInv

LEMMA RegistriesKeep == AgentsInv /\ RuntimeInv /\ [Next]_vars => (AgentsInv /\ RuntimeInv)'
  <1> SUFFICES ASSUME AgentsInv, RuntimeInv, [Next]_vars PROVE AgentsInv' /\ RuntimeInv'
    OBVIOUS
  <1>1. ASSUME UNCHANGED agentVars PROVE AgentsInv'
    BY <1>1, AgentsStepKeeps
  <1>2. ASSUME UNCHANGED accessVars PROVE RuntimeInv'
    BY <1>2, RuntimeStepKeeps
  <1>3. CASE AgentsStep
    BY <1>2, <1>3, AgentsStepKeeps DEF AgentsStep
  <1>4. CASE AccessStep
    BY <1>1, <1>4, RuntimeStepKeeps DEF AccessStep
  <1>5. CASE MeshStep \/ GuardStep \/ BusStep \/ RepoStep \/ UNCHANGED vars
    BY <1>1, <1>2, <1>5 DEF MeshStep, GuardStep, BusStep, RepoStep, vars, serviceVars
  <1> QED BY <1>3, <1>4, <1>5 DEF Next

\* What a registry hands out is what was registered and is in service
\* (sdk/src/agent.rs, runtime/src/lib.rs), for any manifests, any states the
\* agents are driven to and any runtimes.
THEOREM LookupsHold == Spec => []LookupsAreExact
  <1>1. AgentsInv /\ RuntimeInv => LookupsAreExact
    BY FoundExactly, SelectedWell DEF LookupsAreExact
  <1> QED BY <1>1, RegistriesStart, RegistriesKeep, PTL DEF Spec
=============================================================================
