----------------------------- MODULE DialProofs -----------------------------
(***************************************************************************)
(* Theorems about Dial, for any number of dialers and rotations.           *)
(***************************************************************************)
EXTENDS Dial, TLAPS

USE DialAssumption DEF Version, Empty, Absent

\* What is true of a dial from reading its secret to AUTH: it carries a secret if
\* and only if one is configured, and the right one unless it is out of date.
Between == {"connect", "handshake", "auth"}
SecretInv ==
    \A d \in Dialer :
        /\ pc[d] \in Between => (secret[d] = Empty <=> auth = "none")
        /\ pc[d] \in Between /\ auth # "none" /\ ~stale[d] => secret[d] = valid
        /\ pc[d] = "auth" => auth # "none"
        /\ pc[d] \in {"select", "established"} /\ auth # "none" => authed[d] \in Version

IInv == TypeOK /\ NoLeak /\ SecretInv

LEMMA InitIInv == Init => IInv
BY DEF Init, IInv, TypeOK, NoLeak, SecretInv, Open, Between

\* One case per action: which conjuncts of IInv it disturbs is visible from the
\* place the dial goes to.
LEMMA StepIInv == ASSUME IInv, NEW d \in Dialer, Step(d) PROVE IInv'
<1> USE DEF IInv, TypeOK, NoLeak, SecretInv, Open, Between, Goes, Unchanged, setup, world
<1>1. CASE SecretFails(d)
  BY <1>1 DEF SecretFails
<1>2. CASE SecretRead(d)
  <2>1. /\ secret' = [secret EXCEPT ![d] = AuthSecret(d)]
        /\ stale' = [stale EXCEPT ![d] = valid # IF auth = "literal" THEN 1 ELSE file]
        /\ pc' = [pc EXCEPT ![d] = "connect"]
        /\ pc[d] = "secret"
        /\ UNCHANGED <<auth, tls, required, valid, file, server, sock, authed>>
    BY <1>2 DEF SecretRead
  <2>2. AuthSecret(d) \in Version \cup {Empty} /\ (AuthSecret(d) = Empty <=> auth = "none")
    BY <1>2 DEF SecretRead, AuthSecret, Unreadable
  <2>3. auth # "none" => AuthSecret(d) = IF auth = "literal" THEN 1 ELSE file
    BY DEF AuthSecret
  <2>4. TypeOK'
    <3>1. stale' \in [Dialer -> BOOLEAN] /\ secret' \in [Dialer -> Version \cup {Empty}]
      BY <2>1, <2>2
    <3> QED BY <2>1, <3>1
  <2>5. NoLeak'
    BY <2>1
  <2>6. SecretInv'
    BY <2>1, <2>2, <2>3
  <2> QED BY <2>4, <2>5, <2>6
<1>3. CASE ConnectFails(d)
  BY <1>3 DEF ConnectFails
<1>4. CASE Connected(d)
  BY <1>4 DEF Connected, AfterTransport
<1>5. CASE HandshakeFails(d)
  BY <1>5 DEF HandshakeFails, GiveUp
<1>6. CASE HandshakeDone(d)
  BY <1>6 DEF HandshakeDone, AfterTransport
<1>7. CASE ExchangeFails(d)
  BY <1>7 DEF ExchangeFails, GiveUp
<1>8. CASE AuthRefused(d)
  BY <1>8 DEF AuthRefused, GiveUp
<1>9. CASE AuthAccepted(d)
  BY <1>9 DEF AuthAccepted
<1>10. CASE SelectRefused(d)
  BY <1>10 DEF SelectRefused, GiveUp
<1>11. CASE Selected(d)
  BY <1>11 DEF Selected
<1> QED BY <1>1, <1>2, <1>3, <1>4, <1>5, <1>6, <1>7, <1>8, <1>9, <1>10, <1>11 DEF Step

LEMMA NextIInv == IInv /\ [Next]_vars => IInv'
<1> SUFFICES ASSUME IInv, [Next]_vars PROVE IInv'
  OBVIOUS
<1> USE DEF IInv, TypeOK, NoLeak, SecretInv, Open, Between, Goes, Unchanged, setup, world
<1>1. ASSUME NEW d \in Dialer, Begin(d) PROVE IInv'
  BY <1>1 DEF Begin
<1>2. ASSUME NEW d \in Dialer, Step(d) PROVE IInv'
  BY <1>2, StepIInv
<1>3. ASSUME NEW d \in Dialer, Retire(d) PROVE IInv'
  BY <1>3 DEF Retire, GiveUp
<1>4. CASE Rotate
  BY <1>4 DEF Rotate
<1>5. CASE RenderBegins
  BY <1>5 DEF RenderBegins
<1>6. CASE RenderEnds
  BY <1>6 DEF RenderEnds
<1>7. ASSUME NEW to \in {"up", "down", "hole"}, Turn(to) PROVE IInv'
  BY <1>7 DEF Turn
<1>8. CASE UNCHANGED vars
  BY <1>8 DEF vars
<1> QED BY <1>1, <1>2, <1>3, <1>4, <1>5, <1>6, <1>7, <1>8 DEF Next

\* The inductive invariant holds in every reachable state.
THEOREM InductiveInvariant == Spec => []IInv
BY InitIInv, NextIInv, PTL DEF Spec

\* The types: no dial carries what it could not read.
THEOREM TypeCorrect == Spec => []TypeOK
BY InductiveInvariant, PTL DEF IInv

\* newConn closes the socket on every error path after the connect.
THEOREM NoLeakHolds == Spec => []NoLeak
BY InductiveInvariant, PTL DEF IInv

\* readPasswordFile refuses an empty file, so a client that was given a secret
\* never hands out a connection without AUTH.
THEOREM NeverSkipsAuthHolds == Spec => []NeverSkipsAuth
<1>1. IInv => NeverSkipsAuth
  BY DEF IInv, SecretInv, NeverSkipsAuth
<1> QED BY <1>1, InductiveInvariant, PTL

\* authSecret reads the file for every dial, so that AUTH is refused only to a
\* secret that was out of date when read, or rotated away during the dial.
THEOREM RefusedOnlyWhenStaleHolds == Spec => RefusedOnlyWhenStale
<1>1. IInv /\ [Next]_vars => [\A d \in Dialer : AuthRefused(d) => stale[d]]_vars
  BY DEF IInv, TypeOK, SecretInv, Between, AuthRefused
<1> QED BY <1>1, InductiveInvariant, PTL DEF Spec, RefusedOnlyWhenStale
=============================================================================
