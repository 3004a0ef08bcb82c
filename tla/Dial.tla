-------------------------------- MODULE Dial --------------------------------
(***************************************************************************)
(* A dial of internal/redis/redis.go: newConn resolves the secret, opens   *)
(* the socket, shakes hands if TLS is on, authenticates and selects the    *)
(* database, with an error path out of every step.  RedisClient takes all  *)
(* of it as one step.                                                      *)
(*                                                                         *)
(* The secret may be in a file that a sidecar renders, and the server's    *)
(* secret rotates: secrets are numbered, and the server accepts the number *)
(* valid.  The server may be down, or accept a connection and then never   *)
(* answer (a black hole).                                                  *)
(***************************************************************************)
EXTENDS Naturals

CONSTANTS Dialer,      \* the goroutines that dial
          MaxVersion   \* bound on the rotations

ASSUME DialAssumption == MaxVersion \in Nat \ {0}

Version == 1 .. MaxVersion
Empty == 0        \* an empty file, and the secret of a client without one
Absent == MaxVersion + 1    \* no file

VARIABLES auth,      \* what is configured: "none", "literal" (secret 1) or "file"
          tls,       \* is tlsCfg set?
          required,  \* does the server refuse commands before AUTH?
          valid,     \* the secret that the server accepts
          file,      \* what is in authFile
          server,    \* "up", "down" or "hole"
          pc,        \* pc[d]: where dialer d is in newConn
          secret,    \* secret[d]: the secret of d's dial
          sock,      \* sock[d]: does d's dial hold an open socket?
          authed,    \* history: the secret with which d's connection was accepted
          stale      \* history: was d's secret out of date when d read it, or since?

setup == <<auth, tls, required>>
world == <<valid, file, server>>
vars == <<setup, world, pc, secret, sock, authed, stale>>

Goes(d, place) == pc' = [pc EXCEPT ![d] = place]

\* What no dial changes.
Unchanged == UNCHANGED <<setup, world>>

-----------------------------------------------------------------------------
(* The secret. *)

\* A secret captured at the first dial.
SecretCaptured(d) ==
    IF auth = "none" THEN Empty ELSE IF auth = "literal" THEN 1
    ELSE IF secret[d] # Empty THEN secret[d] ELSE file

\* authSecret: the literal, or what the file holds now.
AuthSecret(d) == IF auth = "none" THEN Empty ELSE IF auth = "literal" THEN 1 ELSE file

\* A missing file is an error and an empty one is not; and the reverse.
OnlyAbsent(s) == auth = "file" /\ s = Absent
OnlyEmpty(s) == auth = "file" /\ s = Empty

\* readPasswordFile fails: no file, or nothing in it.
Unreadable(s) == auth = "file" /\ s \in {Absent, Empty}

\* get finds no pooled connection, or NewClient prepopulates.
Begin(d) ==
    /\ pc[d] = "idle"
    /\ Goes(d, "secret")
    /\ UNCHANGED <<secret, sock, authed, stale>> /\ Unchanged

SecretFails(d) ==
    /\ pc[d] = "secret"
    /\ Unreadable(AuthSecret(d))
    /\ Goes(d, "idle")
    /\ UNCHANGED <<secret, sock, authed, stale>> /\ Unchanged

SecretRead(d) ==
    /\ pc[d] = "secret"
    /\ ~Unreadable(AuthSecret(d))
    /\ secret' = [secret EXCEPT ![d] = AuthSecret(d)]
    /\ stale' = [stale EXCEPT ![d] = valid # IF auth = "literal" THEN 1 ELSE file]
    /\ Goes(d, "connect")
    /\ UNCHANGED <<sock, authed>> /\ Unchanged

-----------------------------------------------------------------------------
(* The connection. *)

\* The error path before there is a socket.
ConnectFails(d) ==
    /\ pc[d] = "connect"
    /\ server = "down"
    /\ Goes(d, "idle")
    /\ UNCHANGED <<secret, sock, authed, stale>> /\ Unchanged

\* AUTH follows if there is a secret.
AfterTransport(d) == IF secret[d] # Empty THEN "auth" ELSE "select"

\* net.DialTimeout: a black hole accepts.
Connected(d) ==
    /\ pc[d] = "connect"
    /\ server # "down"
    /\ sock' = [sock EXCEPT ![d] = TRUE]
    /\ authed' = [authed EXCEPT ![d] = Empty]
    /\ Goes(d, IF tls THEN "handshake" ELSE AfterTransport(d))
    /\ UNCHANGED <<secret, stale>> /\ Unchanged

\* An error path that leaves the socket to the garbage collector.
GiveUpOpen(d) == Goes(d, "idle") /\ UNCHANGED sock

\* An error path after the connect closes the socket.
GiveUp(d) == Goes(d, "idle") /\ sock' = [sock EXCEPT ![d] = FALSE]

\* A handshake without a deadline of its own: only a broken connection ends it.
HandshakeBreaks(d) ==
    /\ pc[d] = "handshake"
    /\ server = "down"
    /\ GiveUp(d)
    /\ UNCHANGED <<secret, authed, stale>> /\ Unchanged

\* tc.Handshake fails: the connection breaks, or the deadline set on tcp passes.
HandshakeFails(d) ==
    /\ pc[d] = "handshake"
    /\ server # "up"
    /\ GiveUp(d)
    /\ UNCHANGED <<secret, authed, stale>> /\ Unchanged

HandshakeDone(d) ==
    /\ pc[d] = "handshake"
    /\ server = "up"
    /\ Goes(d, AfterTransport(d))
    /\ UNCHANGED <<secret, sock, authed, stale>> /\ Unchanged

-----------------------------------------------------------------------------
(* AUTH and SELECT, each an exchange with a deadline. *)

ExchangeFails(d) ==
    /\ pc[d] \in {"auth", "select"}
    /\ server # "up"
    /\ GiveUp(d)
    /\ UNCHANGED <<secret, authed, stale>> /\ Unchanged

\* AUTH, with or without a user name.
AuthRefused(d) ==
    /\ pc[d] = "auth"
    /\ server = "up"
    /\ secret[d] # valid
    /\ GiveUp(d)
    /\ UNCHANGED <<secret, authed, stale>> /\ Unchanged

AuthAccepted(d) ==
    /\ pc[d] = "auth"
    /\ server = "up"
    /\ secret[d] = valid
    /\ authed' = [authed EXCEPT ![d] = secret[d]]
    /\ Goes(d, "select")
    /\ UNCHANGED <<secret, sock, stale>> /\ Unchanged

\* NOAUTH.
SelectRefused(d) ==
    /\ pc[d] = "select"
    /\ server = "up"
    /\ required /\ authed[d] = Empty
    /\ GiveUp(d)
    /\ UNCHANGED <<secret, authed, stale>> /\ Unchanged

Selected(d) ==
    /\ pc[d] = "select"
    /\ server = "up"
    /\ required => authed[d] # Empty
    /\ Goes(d, "established")
    /\ UNCHANGED <<secret, sock, authed, stale>> /\ Unchanged

\* Later the connection is closed: the pool was full, or an exchange failed.
Retire(d) ==
    /\ pc[d] = "established"
    /\ GiveUp(d)
    /\ UNCHANGED <<secret, authed, stale>> /\ Unchanged

-----------------------------------------------------------------------------
(* The server and the sidecar. *)

\* The server's secret is rotated.
Rotate ==
    /\ valid < MaxVersion
    /\ valid' = valid + 1
    /\ stale' = [d \in Dialer |-> TRUE]
    /\ UNCHANGED <<setup, file, server, pc, secret, sock, authed>>

\* The sidecar starts to write the file, and completes it.
RenderBegins ==
    /\ auth = "file"
    /\ file # valid
    /\ file' = Empty
    /\ UNCHANGED <<setup, valid, server, pc, secret, sock, authed, stale>>

RenderEnds ==
    /\ auth = "file"
    /\ file = Empty
    /\ file' = valid
    /\ UNCHANGED <<setup, valid, server, pc, secret, sock, authed, stale>>

\* The server goes away, comes back, or stops answering.
Turn(to) ==
    /\ server' = to
    /\ to # server
    /\ UNCHANGED <<setup, valid, file, pc, secret, sock, authed, stale>>

Init == /\ auth \in {"none", "literal", "file"}
        /\ tls \in BOOLEAN
        /\ required \in BOOLEAN
        /\ valid = 1
        /\ file = IF auth = "file" THEN Absent ELSE Empty
        /\ server \in {"up", "down", "hole"}
        /\ pc = [d \in Dialer |-> "idle"]
        /\ secret = [d \in Dialer |-> Empty]
        /\ sock = [d \in Dialer |-> FALSE]
        /\ authed = [d \in Dialer |-> Empty]
        /\ stale = [d \in Dialer |-> FALSE]

\* The steps of a dial, once begun.
Step(d) == \/ SecretFails(d) \/ SecretRead(d)
           \/ ConnectFails(d) \/ Connected(d)
           \/ HandshakeFails(d) \/ HandshakeDone(d)
           \/ ExchangeFails(d)
           \/ AuthRefused(d) \/ AuthAccepted(d)
           \/ SelectRefused(d) \/ Selected(d)

Next == \/ \E d \in Dialer : Begin(d) \/ Step(d) \/ Retire(d)
        \/ Rotate \/ RenderBegins \/ RenderEnds
        \/ \E to \in {"up", "down", "hole"} : Turn(to)

Spec == Init /\ [][Next]_vars

\* Every step of a dial has a deadline; requests that miss the pool keep coming;
\* a sidecar finishes what it writes.
FairSpec == Spec /\ WF_vars(RenderEnds)
                 /\ \A d \in Dialer : WF_vars(Begin(d)) /\ WF_vars(Step(d))

-----------------------------------------------------------------------------
(* Properties. *)

Open == {"handshake", "auth", "select", "established"}

\* The types; a secret that a dial carries was read, never a missing file.
TypeOK ==
    /\ auth \in {"none", "literal", "file"}
    /\ tls \in BOOLEAN /\ required \in BOOLEAN
    /\ valid \in Version
    /\ file \in Version \cup {Empty, Absent}
    /\ server \in {"up", "down", "hole"}
    /\ pc \in [Dialer -> {"idle", "secret", "connect"} \cup Open]
    /\ secret \in [Dialer -> Version \cup {Empty}]
    /\ sock \in [Dialer -> BOOLEAN]
    /\ authed \in [Dialer -> Version \cup {Empty}]
    /\ stale \in [Dialer -> BOOLEAN]

\* A dial has a socket from its connect on, and none once it has given up,
\* whichever step it gave up in.
NoLeak == \A d \in Dialer : sock[d] <=> pc[d] \in Open

\* "An empty file is an error rather than a connection that silently skips AUTH":
\* a connection handed out by a client that was given a secret, in a literal or a
\* file, has been accepted with one, whatever the sidecar was doing to the file.
NeverSkipsAuth ==
    \A d \in Dialer :
        pc[d] = "established" /\ auth # "none" => authed[d] \in Version

\* "A value captured once in NewClient goes stale at the first rotation and every
\* connection after it fails": AUTH is refused only to a dial whose secret was out
\* of date when it was read or was rotated away during that very dial.
RefusedOnlyWhenStale == [][\A d \in Dialer : AuthRefused(d) => stale[d]]_vars

\* "A TLS handshake against a peer that accepts and then black-holes would hang
\* forever without a deadline of its own": every dial ends, with a connection or
\* an error, whatever the server does.
EveryDialEnds ==
    \A d \in Dialer : pc[d] # "idle" ~> pc[d] \in {"idle", "established"}

\* The server can be reached and what the client would read now is right.
Usable == /\ server = "up"
          /\ CASE auth = "none" -> ~required
               [] auth = "literal" -> valid = 1
               [] auth = "file" -> file = valid

\* "The first request that misses the pool re-reads the file and connects": after
\* any outages, rotations and late renders, dials connect again.
Heals == <>[]Usable => \A d \in Dialer : []<>(pc[d] = "established")
=============================================================================
